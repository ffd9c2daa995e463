-------------------------------- MODULE NxFs ---------------------------------
(***************************************************************************)
(* src/fs/fs.c over stdio and src/string/str.c: reading a file whole,      *)
(* writing and appending.  A call is cut where other processes can act:    *)
(* between opening the file, asking for its size, each of the reads that   *)
(* one fread and each of the writes that one fwrite make of the file, and  *)
(* closing it.  Each stdio call may fail.  There is one path.              *)
(*                                                                         *)
(* Asking for the size may already fill stdio's buffer.  Written bytes sit *)
(* there until fwrite needs the room or fclose flushes them; fclose may    *)
(* lose some of them, and the code does not ask.                           *)
(***************************************************************************)
EXTENDS NxStr

CONSTANTS
  NoFile,      \* the path leads to no file
  Contents,    \* what other processes may put into the file
  FILE_MAX     \* bound: nothing is appended beyond this size

ASSUME ContentsAssumption ==
  NoFile \notin Seq(Char \union {Zero}) /\ Contents \subseteq Seq(Char \union {Zero})
ASSUME NoBytesAssumption == \A n \in 1 .. ALLOC_MAX : Null \notin [0 .. n - 1 -> Cell]

VARIABLES
  file,     \* what is stored under the path
  handles,  \* the number of open FILEs
  bytes,    \* the buffer read_bytes has obtained: its cells; Null for none
  fs        \* the call under way

vars == <<str, heap, ret, file, handles, bytes, fs>>

\* op: the function.  h: where its result goes.  size: what get_file_size
\* returned.  text: what is to be written.  done: how many bytes fread has
\* delivered or fwrite has taken.  out: how many of these are in the file.
\* was: the file when its size was asked, which stdio may have in its buffer;
\* for an append, the file when the call began.  Ghosts: all that the file has
\* been while it is read; whether another process changed it while it is
\* written.
NoCall == [pc |-> "idle", op |-> "none", h |-> Null, al |-> Null, size |-> 0,
           text |-> <<>>, done |-> 0, out |-> 0, was |-> NoFile, seen |-> {},
           changed |-> FALSE]

FsInit == Init /\ file = NoFile /\ handles = 0 /\ bytes = Null /\ fs = NoCall

At(pc)    == fs.pc = pc
Goes(pc)  == fs' = [fs EXCEPT !.pc = pc]
Strings   == <<str, heap>>

\* The characters of string g.
Held(g) == [i \in 1 .. str[g].len |-> cells(g)[i - 1]]

-----------------------------------------------------------------------------
(* The calls, up to fopen.                                                 *)

fopen_fails == ret' = "io" /\ UNCHANGED <<str, heap, file, handles, bytes, fs>>

Opens(pc, op, h, al, text) ==
  /\ handles' = handles + 1 /\ ret' = "ok" /\ UNCHANGED <<str, heap, bytes>>
  /\ fs' = [NoCall EXCEPT !.pc = pc, !.op = op, !.h = h, !.al = al, !.text = text,
                         !.was = IF op = "append" THEN file ELSE NoFile,
                         !.seen = IF pc = "size" THEN {file} ELSE {}]

fopen_rb(op, h, al) == file # NoFile /\ Opens("size", op, h, al, <<>>) /\ UNCHANGED file

nx_fs_exists ==
  \/ fopen_fails
  \/ file # NoFile /\ ret' = "ok" /\ UNCHANGED <<str, heap, file, handles, bytes, fs>>

nx_fs_file_size            == fopen_rb("file_size", Null, Null)
nx_fs_read_to_str_a(h, al) == h \notin alive /\ fopen_rb("read_to_str", h, al)
nx_fs_read_bytes(al)       == fopen_rb("read_bytes", Null, al)

\* Mode "wb".
nx_fs_write(text) == Opens("fwrite", "write", Null, Null, text) /\ file' = <<>>

\* Mode "wb" here, too.
nx_fs_append_truncating(text) ==
  Opens("fwrite", "append", Null, Null, text) /\ file' = <<>>

\* Mode "ab".
nx_fs_append(text) ==
  /\ file # NoFile => Len(file) + Len(text) <= FILE_MAX
  /\ Opens("fwrite", "append", Null, Null, text)
  /\ file' = IF file = NoFile THEN <<>> ELSE file

\* nx_fs_write_str writes a C string.
FsCall ==
  \/ nx_fs_exists \/ fopen_fails \/ nx_fs_file_size
  \/ \E al \in Al : nx_fs_read_bytes(al) \/ \E h \in Str : nx_fs_read_to_str_a(h, al)
  \/ \E t \in Literals : nx_fs_write(t) \/ nx_fs_append(t)

-----------------------------------------------------------------------------
(* The steps of a call.                                                    *)

\* fclose and return.
Returns(st) == handles' = handles - 1 /\ fs' = NoCall /\ ret' = st

\* The size is that at the first fseek; then back to the start.
get_file_size ==
  /\ At("size") /\ UNCHANGED <<str, heap, file, bytes>>
  /\ IF fs.op = "file_size" THEN Returns("ok")
     ELSE /\ fs' = [fs EXCEPT !.pc = "alloc", !.size = Len(file), !.was = file]
          /\ UNCHANGED <<handles, ret>>

get_file_size_fails == At("size") /\ Returns("io") /\ UNCHANGED <<str, heap, file, bytes>>

alloc_str ==
  /\ At("alloc") /\ fs.op = "read_to_str" /\ UNCHANGED <<file, bytes>>
  /\ new_p(fs.h, fs.size, fs.size, fs.al)
  /\ \/ ret' = "ok" /\ Goes("fread") /\ UNCHANGED handles
     \/ ret' # "ok" /\ fs' = NoCall /\ handles' = handles - 1

\* No buffer for an empty file.
alloc_bytes ==
  /\ At("alloc") /\ fs.op = "read_bytes" /\ UNCHANGED <<str, heap, file>>
  /\ \/ fs.size = 0 /\ Returns("ok") /\ UNCHANGED bytes
     \/ fs.size > 0 /\ Returns("oom") /\ UNCHANGED bytes
     \/ /\ fs.size \in 1 .. ALLOC_MAX /\ bytes' = [i \in 0 .. fs.size - 1 |-> Uninit]
        /\ Goes("fread") /\ UNCHANGED <<handles, ret>>

\* The next n bytes of f go behind those that have come, into the string or the
\* buffer.
Filled(f, n) ==
  LET from == SubSeq(f, fs.done + 1, fs.done + n) IN
    IF fs.op = "read_to_str"
    THEN /\ UNCHANGED <<str, bytes>>
         /\ heap' = [heap EXCEPT ![str[fs.h].data].cells
                                   = memcpy(@, fs.done, chars(from), n)]
    ELSE UNCHANGED Strings /\ bytes' = memcpy(bytes, fs.done, chars(from), n)

\* One read: of the file as it is, or what stdio has had in its buffer since the
\* size was asked.
fread_part ==
  /\ At("fread") /\ UNCHANGED <<ret, file, handles>>
  /\ \E f \in {file} \union {g \in {fs.was} : fs.done = 0}, n \in 1 .. fs.size - fs.done :
       /\ fs.done + n <= Len(f) /\ Filled(f, n)
       /\ fs' = [fs EXCEPT !.done = @ + n]

fread_ends_unchecked == At("fread") /\ Returns("ok") /\ UNCHANGED <<str, heap, bytes, file>>

\* All bytes have come.
fread_ends ==
  At("fread") /\ fs.done = fs.size /\ Returns("ok") /\ UNCHANGED <<str, heap, bytes, file>>

\* The string stays with the failed call.
fread_short_kept ==
  At("fread") /\ fs.done < fs.size /\ Returns("io") /\ UNCHANGED <<str, heap, bytes, file>>

\* An error, or the file has become shorter: what was obtained is given back.
fread_short ==
  /\ At("fread") /\ fs.done < fs.size /\ Returns("io") /\ UNCHANGED file
  /\ IF fs.op = "read_to_str"
     THEN /\ heap' = nx_al_dealloc(heap, str[fs.h].data) /\ str' = Lacks(str, fs.h)
          /\ UNCHANGED bytes
     ELSE bytes' = Null /\ UNCHANGED Strings

\* The bytes j + 1 to k of the text reach the file: at its end in mode "ab", else
\* at their place, behind zeros if others have made the file shorter.
Flushed(j, k) ==
  LET t == SubSeq(fs.text, j + 1, k) IN
    IF j = k THEN file
    ELSE IF fs.op = "append" THEN file \o t
    ELSE [i \in 1 .. j |-> IF i <= Len(file) THEN file[i] ELSE Zero]
           \o t \o SubSeq(file, k + 1, Len(file))

\* n bytes more are taken, and some of those taken reach the file.
fwrite_part ==
  /\ At("fwrite") /\ UNCHANGED <<str, heap, ret, handles, bytes>>
  /\ \E n \in 1 .. Len(fs.text) - fs.done : \E k \in fs.out .. fs.done + n :
       /\ file' = Flushed(fs.out, k)
       /\ fs' = [fs EXCEPT !.done = @ + n, !.out = k]

\* After fwrite, which may have stopped short at any byte.
Closes(k) ==
  /\ At("fwrite") /\ Returns(IF fs.done = Len(fs.text) THEN "ok" ELSE "io")
  /\ file' = Flushed(fs.out, k) /\ UNCHANGED <<str, heap, bytes>>

fclose_after_write == Closes(fs.done)

\* fclose fails.
fclose_loses == \E k \in fs.out .. fs.done - 1 : Closes(k)

FsStep ==
  \/ get_file_size \/ get_file_size_fails
  \/ alloc_str \/ alloc_bytes \/ fread_part \/ fread_ends \/ fread_short
  \/ fwrite_part \/ fclose_after_write \/ fclose_loses

-----------------------------------------------------------------------------
(* The client, which frees the bytes it got before its next call, and other *)
(* processes.                                                              *)

free_bytes ==
  /\ At("idle") /\ bytes # Null /\ bytes' = Null
  /\ UNCHANGED <<str, heap, ret, file, handles, fs>>

\* A file that is open keeps existing for those who have it open.
Others ==
  /\ file' \in Contents \union (IF handles = 0 THEN {NoFile} ELSE {})
  /\ fs' = IF fs.seen # {} THEN [fs EXCEPT !.seen = @ \union {file'}]
           ELSE [fs EXCEPT !.changed = ~At("idle")]
  /\ UNCHANGED <<str, heap, ret, handles, bytes>>

FsNext ==
  \/ At("idle") /\ bytes = Null /\ Calls /\ UNCHANGED <<file, handles, bytes, fs>>
  \/ At("idle") /\ bytes = Null /\ FsCall
  \/ FsStep
  \/ free_bytes
  \/ Others

FsSpec == FsInit /\ [][FsNext]_vars

-----------------------------------------------------------------------------
(* Correctness.                                                            *)

\* Where the call's result is.
Result == IF fs.op = "read_to_str"
          THEN [i \in 1 .. str'[fs.h].len |-> CellsIn(heap', str'[fs.h])[i - 1]]
          ELSE IF bytes' = Null THEN <<>>
          ELSE [i \in 1 .. fs.size |-> bytes'[i - 1]]

Ends == ~At("idle") /\ At("idle")'

\* A read that succeeds delivers as many bytes as get_file_size counted, and each
\* was in the file, at its place, at some moment of the call; it delivers the file
\* if nobody changed that meanwhile.  Two bytes may come from different moments;
\* what the memory held before, or a part that did not come, is never delivered.
ReadsFile ==
  [][Ends /\ fs.op \in {"read_to_str", "read_bytes"} /\ ret' = "ok" =>
       /\ Len(Result) = fs.size
       /\ \A i \in 1 .. fs.size : \E f \in fs.seen : i <= Len(f) /\ Result[i] = f[i]
       /\ fs.seen = {file} => Result = file]_vars

\* What an undisturbed write or append finds in the file.
BeforeWrite == IF fs.op = "append" /\ fs.was # NoFile THEN fs.was ELSE <<>>

EndsUndisturbed == Ends /\ fs.op \in {"write", "append"} /\ ~fs.changed

\* If no other process interferes, a write leaves a beginning of what it was
\* given, and an append leaves it behind what was there before; and when it
\* reports success all of it is there, unless fclose has lost a part.
WritesFile ==
  [][EndsUndisturbed =>
       /\ \E k \in 0 .. Len(fs.text) : file' = BeforeWrite \o SubSeq(fs.text, 1, k)
       /\ ret' = "ok" /\ ~fclose_loses => file' = BeforeWrite \o fs.text]_vars

\* include/nx/fs/fs.h:15 "All I/O errors are reported as NX_STATUS_IO_ERROR": a
\* write or append that reports success has written all of what it was given.
WritesAll ==
  [][EndsUndisturbed /\ ret' = "ok" => file' = BeforeWrite \o fs.text]_vars

\* Whichever step fails, a call that ends has closed the file, and a read that
\* fails has left neither a string nor a buffer behind.
FsCleansUp ==
  [][Ends => /\ handles' = 0
             /\ ret' # "ok" /\ fs.op = "read_to_str" => fs.h \notin alive'
             /\ ret' # "ok" /\ fs.op = "read_bytes" => bytes' = Null]_vars

\* The strings and the file implement NxFiles; a string that is being read is
\* none yet.
Visible == IF At("fread") /\ fs.op = "read_to_str" THEN alive \ {fs.h} ELSE alive
seqs    == [h \in Visible |-> Held(h)]
room    == [h \in Visible |-> str[h].cap]
Files == INSTANCE NxFiles WITH
  out <- ret, seen <- fs.seen, busy <- ~At("idle"), Vec <- Str, Val <- Char \union {Zero}
ImplementsFiles == Files!FilesSpec
=============================================================================
