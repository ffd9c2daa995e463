------------------------------- MODULE NxFiles -------------------------------
(***************************************************************************)
(* What include/nx/fs/fs.h promises about strings, in the terms of         *)
(* NxTexts: a call that reads a file makes a string of what the file held  *)
(* while the call was under way, or it fails and has changed nothing.  The *)
(* file may change under the call: then two characters of the string may   *)
(* come from different moments, but each stood at its place in the file at *)
(* one of them.                                                            *)
(***************************************************************************)
EXTENDS NxTexts

VARIABLES file,      \* the contents of the file; NoFile when there is none
          busy,      \* a call on the file is under way
          seen       \* what the file has been since a call began to read it
CONSTANT  NoFile

fileVars == <<seqs, room, out, file, busy, seen>>

FilesInit == Init /\ busy = FALSE /\ seen = {}

ReadToStr(h) ==
  /\ busy /\ ~busy' /\ seen' = {} /\ out' = "ok" /\ DOMAIN room' = alive \union {h}
  /\ Lacks(room', h) = room /\ Lacks(seqs', h) = seqs
  /\ Len(seqs'[h]) = room'[h]
  /\ \A i \in 1 .. room'[h] : \E f \in seen : i <= Len(f) /\ seqs'[h][i] = f[i]
  /\ seen = {file} => seqs'[h] = file

\* A call that reads watches the file from its beginning to its end.
Watches ==
  \/ seen' = {} /\ (busy' => seen = {})
  \/ busy' /\ seen' = seen \union {file'} /\ (busy => seen # {})

\* What is done to the file changes no string; the file may change at any time.
\* Only a call on the file can want memory beside that of the strings.
Elsewhere ==
  /\ out' \in {"ok", "oom", "io"} /\ (out' = "oom" => busy \/ out = "oom")
  /\ Watches /\ UNCHANGED <<seqs, room>>

FilesNext ==
  \/ ~busy /\ UNCHANGED <<file, busy, seen>> /\ TextNext
  \/ Elsewhere
  \/ UNCHANGED file /\ \E h \in Vec \ alive : ReadToStr(h)

FilesSpec == FilesInit /\ [][FilesNext]_fileVars
=============================================================================
