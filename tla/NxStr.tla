-------------------------------- MODULE NxStr --------------------------------
(***************************************************************************)
(* src/string/str.c: strings that grow, with a terminator behind them, in  *)
(* buffers from allocators that may fail.                                  *)
(*                                                                         *)
(* No call runs a callback or can be interrupted, so that each call is one *)
(* step.  A buffer has one cell more than the capacity.  Characters are    *)
(* Char and Zero, which is '\0'; a string may hold '\0' anywhere (resize   *)
(* makes some), so that its C string can be shorter than it is.  Views     *)
(* given to append may be of any string, also of the one appended to.      *)
(*                                                                         *)
(* A definition named X_..., right before X and used by nothing, is X with *)
(* a bug someone could write: it shows that a property can fail.           *)
(***************************************************************************)
EXTENDS NxHeap, Sequences

CONSTANTS
  Str,              \* the client's variables of type nx_Str *
  Char,             \* characters other than '\0'
  FIRST_CAP,        \* the capacity growth starts with (4 in str.c)
  USIZE,            \* 2^w, the number of values of nx_usize
  Lens,             \* the lengths and capacities the client asks for
  Literals          \* the client's string literals, without their '\0'

ASSUME CharAssumption == Zero \notin Char /\ Uninit \notin Char \union {Zero}
ASSUME StrSizeAssumption ==
  /\ USIZE \in Nat \ {0} /\ ALLOC_MAX \in Nat /\ ALLOC_MAX < USIZE
  /\ FIRST_CAP \in Nat \ {0} /\ Lens \subseteq Nat
  /\ Literals \subseteq Seq(Char)

VARIABLES
  str,    \* the structs nx_Str that exist, by the variable that owns them
  ret     \* the status the last call returned

strVars == <<str, heap, ret>>

alive == DOMAIN str
Cell  == Char \union {Zero, Uninit}

cells(h) == CellsIn(heap, str[h])

set_fields(data, len, cap, al) == [data |-> data, len |-> len, cap |-> cap, al |-> al]

Init == str = [h \in {} |-> 0] /\ heap = [b \in {} |-> 0] /\ ret = "ok"

-----------------------------------------------------------------------------
(* Helpers.                                                                *)

\* The first n characters of s, and the terminator.
Text(s, n) == [i \in 0 .. n |-> IF i < n THEN s[i] ELSE Zero]
chars(t)   == [i \in 0 .. Len(t) - 1 |-> t[i + 1]]

\* A C string ends at its first '\0'.
strlen(c) == CHOOSE n \in DOMAIN c : c[n] = Zero /\ \A i \in 0 .. n - 1 : c[i] # Zero

\* String h with room for n characters: [heap, v] for each outcome.
Reserved(h, n) ==
  LET v == str[h] IN
    IF n <= v.cap THEN {[heap |-> heap, v |-> v]}
    ELSE { [heap |-> o.heap, v |-> [v EXCEPT !.data = o.data, !.cap = n]] :
             o \in IF v.data = Null THEN nx_al_alloc(heap, v.al, n + 1, Zeros(1))
                   ELSE nx_al_realloc(v.al, v.data, n + 1) }

\* No divisor but 1 is odd.
PowerOfTwo(p) == \A q \in 2 .. p : p % q = 0 => q % 2 = 0

\* The capacity, or FIRST_CAP, doubled until n fits; n itself when doubling
\* would wrap.
NewCaps(cap, n) ==
  LET start   == IF cap = 0 THEN FIRST_CAP ELSE cap
      Doubled == { d \in n .. USIZE - 1 : \E p \in 1 .. d : d = start * p /\ PowerOfTwo(p) }
  IN IF Doubled = {} THEN {n} ELSE { d \in Doubled : \A e \in Doubled : d <= e }

ensure_cap(h, n) ==
  IF n <= str[h].cap THEN {[heap |-> heap, v |-> str[h]]}
  ELSE UNION { Reserved(h, c) : c \in NewCaps(str[h].cap, n) }

\* A call that has to allocate gives up and has changed nothing.
Fails == ret' = "oom" /\ UNCHANGED <<str, heap>>

\* String h, as r left it, gets the characters c up to n and the terminator.
Store(h, r, c, n) ==
  /\ heap' = IF r.v.data = Null THEN r.heap
             ELSE [r.heap EXCEPT ![r.v.data].cells = [c EXCEPT ![n] = Zero]]
  /\ str' = [str EXCEPT ![h] = [r.v EXCEPT !.len = n]] /\ ret' = "ok"

Here(h) == [heap |-> heap, v |-> str[h]]

\* Only the length and the terminator move.
Shortened(h, n) == Store(h, Here(h), cells(h), n)

-----------------------------------------------------------------------------
(* Lifetime.                                                               *)

\* A struct and a buffer for h, which holds c.  No buffer for capacity 0.
Created(h, len, cap, al, c) ==
  IF cap = 0
  THEN str' = Has(str, h, set_fields(Null, 0, 0, al)) /\ UNCHANGED heap /\ ret' = "ok"
  ELSE \E o \in nx_al_alloc(heap, al, cap + 1, c) :
         /\ heap' = o.heap /\ ret' = "ok"
         /\ str' = Has(str, h, set_fields(o.data, len, cap, al))

\* From calloc: nx_str_new, _new_len and _new_cap are calls of new_p.
new_p(h, len, cap, al) ==
  len <= cap /\ (Created(h, len, cap, al, Zeros(cap + 1)) \/ Fails)

from_cstr(h, t, al) ==
  Created(h, Len(t), Len(t), al, Text(chars(t), Len(t))) \/ Fails

copy_a(h, g, al) ==
  Created(h, str[g].len, str[g].cap, al, Text(cells(g), str[g].len)) \/ Fails

drop(h) ==
  heap' = nx_al_dealloc(heap, str[h].data) /\ str' = Lacks(str, h) /\ ret' = "ok"

move(h, g) == str' = Lacks(Has(str, h, str[g]), g) /\ UNCHANGED heap /\ ret' = "ok"

-----------------------------------------------------------------------------
(* Assignment.                                                             *)

\* The capacity of the new buffer is not noted.
copy_assign_keeps_cap(self, src) ==
  LET s == str[src] IN
    /\ s.len > str[self].cap
    /\ \E o \in nx_al_alloc(heap, str[self].al, s.cap + 1, Text(cells(src), s.len)) :
         /\ heap' = nx_al_dealloc(o.heap, str[self].data) /\ ret' = "ok"
         /\ str' = [str EXCEPT ![self] = set_fields(o.data, s.len, @.cap, @.al)]

\* The old buffer is freed only when the new one is there.
copy_assign(self, src) ==
  LET s == str[src] IN
     \/ self = src /\ ret' = "ok" /\ UNCHANGED <<str, heap>>
     \/ self # src /\ s.len = 0 /\ Shortened(self, 0)
     \/ /\ self # src /\ s.len > 0 /\ s.len <= str[self].cap
        /\ Store(self, Here(self), memcpy(cells(self), 0, cells(src), s.len), s.len)
     \/ /\ s.len > str[self].cap
        /\ \/ Fails
           \/ \E o \in nx_al_alloc(heap, str[self].al, s.cap + 1, Text(cells(src), s.len)) :
                /\ heap' = nx_al_dealloc(o.heap, str[self].data) /\ ret' = "ok"
                /\ str' = [str EXCEPT ![self] = set_fields(o.data, s.len, s.cap, @.al)]

move_assign_leaks(self, src) ==
  /\ str[self].al = str[src].al /\ ret' = "ok" /\ UNCHANGED heap
  /\ IF self = src THEN UNCHANGED str
     ELSE str' = [str EXCEPT ![self] = str[src], ![src] = set_fields(Null, 0, 0, @.al)]

move_assign(self, src) ==
  /\ str[self].al = str[src].al /\ ret' = "ok"
  /\ IF self = src THEN UNCHANGED <<str, heap>>
     ELSE /\ heap' = nx_al_dealloc(heap, str[self].data)
          /\ str' = [str EXCEPT ![self] = str[src], ![src] = set_fields(Null, 0, 0, @.al)]

-----------------------------------------------------------------------------
(* Characters.                                                             *)

set(h, idx, x) == Store(h, Here(h), [cells(h) EXCEPT ![idx] = x], str[h].len)

clear(h) == Shortened(h, 0)

reserve(h, new_cap) ==
  \/ \E r \in Reserved(h, new_cap) :
       /\ heap' = r.heap /\ ret' = "ok" /\ str' = [str EXCEPT ![h] = r.v]
  \/ new_cap > str[h].cap /\ Fails

\* Without memset: the characters between are what the buffer held.
resize_unfilled(h, new_len) ==
  \/ \E r \in Reserved(h, new_len) : Store(h, r, CellsIn(r.heap, r.v), new_len)
  \/ new_len > str[h].cap /\ Fails

resize(h, new_len) ==
  LET n == str[h].len IN
    \/ new_len <= n /\ Shortened(h, new_len)
    \/ new_len > n /\ \E r \in Reserved(h, new_len) :
         Store(h, r, memcpy(CellsIn(r.heap, r.v), n, Zeros(new_len - n), new_len - n), new_len)
    \/ new_len > str[h].cap /\ Fails

push(h, x) ==
  LET n == str[h].len IN
    \/ \E r \in ensure_cap(h, n + 1) : Store(h, r, [CellsIn(r.heap, r.v) EXCEPT ![n] = x], n + 1)
    \/ n + 1 > str[h].cap /\ Fails

\* A view: len characters from position off of the buffer at data, or of the
\* client's own memory text.
view(data, off, len, text) == [data |-> data, off |-> off, len |-> len, text |-> text]

\* What a view shows in the heap H; a buffer that was freed shows nothing.
Viewed(H, sv) ==
  [i \in 0 .. sv.len - 1 |->
     IF sv.data = Null THEN sv.text[i]
     ELSE IF sv.data \in DOMAIN H THEN H[sv.data].cells[sv.off + i] ELSE Uninit]

\* The view is followed to the buffer's new place only by a later version.
append_str_view_stale(h, sv) ==
  LET n == str[h].len
      new_len == n + sv.len
  IN \/ sv.len = 0 /\ ret' = "ok" /\ UNCHANGED <<str, heap>>
     \/ sv.len > 0 /\ \E r \in ensure_cap(h, new_len) :
          Store(h, r, memcpy(CellsIn(r.heap, r.v), n, Viewed(r.heap, sv), sv.len), new_len)
     \/ new_len > str[h].cap /\ Fails

\* A view into the string itself moves with its buffer.
append_str_view(h, sv) ==
  LET n == str[h].len
      new_len == n + sv.len
      alias == str[h].data # Null /\ sv.data = str[h].data
  IN \/ sv.len = 0 /\ ret' = "ok" /\ UNCHANGED <<str, heap>>
     \/ sv.len > 0 /\ \E r \in ensure_cap(h, new_len) :
          LET src == IF alias THEN [sv EXCEPT !.data = r.v.data] ELSE sv
          IN Store(h, r, memcpy(CellsIn(r.heap, r.v), n, Viewed(r.heap, src), sv.len), new_len)
     \/ new_len > str[h].cap /\ Fails

NoText == [i \in {} |-> Zero]

\* The C string of g ends at its first '\0'; without a buffer it is "".
CstrView(g) == IF str[g].data = Null THEN view(Null, 0, 0, NoText)
               ELSE view(str[g].data, 0, strlen(cells(g)), NoText)

append_cstr(h, sv) == append_str_view(h, sv)

Literal(t) == view(Null, 0, Len(t), chars(t))

-----------------------------------------------------------------------------
(* The calls a client can make.  NxFs makes some of them on its behalf.    *)

Calls ==
  \/ \E h \in Str \ alive :
       \/ \E al \in Al : \/ \E len, cap \in Lens : new_p(h, len, cap, al)
                         \/ \E t \in Literals : from_cstr(h, t, al)
                         \/ \E g \in alive : copy_a(h, g, al)
       \/ \E g \in alive : move(h, g)
  \/ \E h \in alive :
       \/ drop(h) \/ clear(h)
       \/ \E x \in Char \union {Zero} : push(h, x) \/ \E idx \in 0 .. str[h].len - 1 : set(h, idx, x)
       \/ \E n \in Lens : reserve(h, n) \/ resize(h, n)
       \/ \E g \in alive : \E i \in 0 .. str[g].len : \E k \in 0 .. str[g].len - i :
            append_str_view(h, view(str[g].data, i, k, NoText))
       \/ \E sv \in { CstrView(g) : g \in alive } \union { Literal(t) : t \in Literals } :
            append_cstr(h, sv)
       \/ \E g \in alive : copy_assign(h, g) \/ move_assign(h, g)

-----------------------------------------------------------------------------
(* Correctness.                                                            *)

Struct    == [data : Buf \union {Null}, len : Nat, cap : Nat, al : Al]
Buffer(I) == [al : Al, cells : [I -> Cell]]

\* Each struct and each buffer has its type, and str_assert_impl holds between
\* calls, but for the terminator.
TypeOK ==
  /\ alive \subseteq Str /\ str \in [alive -> Struct]
  /\ \A h \in alive : str[h].len <= str[h].cap /\ (str[h].cap = 0 <=> str[h].data = Null)
  /\ DOMAIN heap \subseteq Buf /\ heap = [b \in DOMAIN heap |-> heap[b]]
  /\ \A b \in DOMAIN heap : heap[b] \in Buffer(DOMAIN heap[b].cells)
  /\ ret \in {"ok", "oom", "io"}

\* Every buffer has exactly one owner, so that nothing leaks and nothing is
\* freed twice, and goes back to the allocator it came from with the size it
\* has, which is one more than the capacity.
OneOwner ==
  /\ \A h \in alive : LET v == str[h] IN v.data # Null =>
       /\ v.data \in DOMAIN heap /\ heap[v.data].al = v.al
       /\ DOMAIN heap[v.data].cells = 0 .. v.cap
       /\ \A g \in alive : str[g].data = v.data => g = h
  /\ \A b \in DOMAIN heap : \E h \in alive : str[h].data = b

\* str.h: "Always maintained; data[len] == '\0' when data != null".  A reader
\* of the C string meets the terminator before any cell that nobody wrote.
Terminated ==
  \A h \in alive : str[h].data # Null =>
    cells(h)[str[h].len] = Zero /\ \A i \in 0 .. str[h].len - 1 : cells(h)[i] # Uninit

\* Each of the three needs the others to be kept by a step.
IndInv == TypeOK /\ OneOwner /\ Terminated
=============================================================================
