----------------------------- MODULE NxMapSpec -----------------------------
(***************************************************************************)
(* What include/nx/ds/hash_map.h promises of a map, with no table behind   *)
(* it: a finite set of key/value pairs, and one atomic effect per call     *)
(* that takes place at some instant between the call and its return.       *)
(***************************************************************************)
CONSTANTS Key, Val, NoKey, NoVal

VARIABLES alive,    \* a handle exists (after new, before drop)
          dict,     \* the entries, a set of <<key, value>> pairs
          req,      \* the call being served, NoCall between calls
          out       \* its outcome once it took effect, Pending before that

mapVars == <<alive, dict, req, out>>

NoCall  == [op |-> "none", k |-> NoKey, v |-> NoVal, n |-> 0]
Pending == "pending"

Held(d, k)     == \E v \in Val : <<k, v>> \in d
Without(d, k)  == {e \in d : e[1] # k}

(***************************************************************************)
(* Effect(r, d, e, o): serving r may turn d into e with the outcome o.     *)
(* Only put of an absent key and reserve may fail, and a call that fails   *)
(* has changed nothing.                                                    *)
(***************************************************************************)
Effect(r, d, e, o) ==
  \/ /\ r.op = "get"
     /\ IF Held(d, r.k) THEN <<r.k, o>> \in d ELSE o = NoVal
     /\ e = d
  \/ /\ r.op = "put" /\ o = "ok"
     /\ e = Without(d, r.k) \union {<<r.k, r.v>>}
  \/ /\ r.op = "put" /\ o = "oom"
     /\ ~Held(d, r.k)
     /\ e = d
  \/ /\ r.op = "remove"
     /\ o = IF Held(d, r.k) THEN "true" ELSE "false"
     /\ e = Without(d, r.k)
  \/ /\ r.op = "clear" /\ o = "ok" /\ e = {}
  \/ /\ r.op = "reserve" /\ o \in {"ok", "oom"} /\ e = d

Init == alive = FALSE /\ dict = {} /\ req = NoCall /\ out = "ok"

New  == ~alive /\ alive' = TRUE /\ dict' = {} /\ req' = NoCall /\ out' = "ok"
NewFails == ~alive /\ out' = "oom" /\ UNCHANGED <<alive, dict, req>>
Drop == /\ alive /\ req = NoCall
        /\ alive' = FALSE /\ dict' = {} /\ out' = "ok" /\ UNCHANGED req

\* A call is made. What it asks for is in r.
Begin == /\ alive /\ req = NoCall
         /\ req' # NoCall /\ out' = Pending /\ UNCHANGED <<alive, dict>>

\* The call takes effect, and returns in the same instant or later.
Apply == /\ req # NoCall /\ out = Pending
         /\ out' # Pending
         /\ Effect(req, dict, dict', out')
         /\ req' \in {req, NoCall}
         /\ UNCHANGED alive

Return == /\ req # NoCall /\ out # Pending
          /\ req' = NoCall /\ UNCHANGED <<alive, dict, out>>

\* A call that is served without an intermediate state.
AtOnce(r) == /\ alive /\ req = NoCall
             /\ Effect(r, dict, dict', out')
             /\ UNCHANGED <<alive, req>>

\* The callback of for_each writes the value it was handed a pointer to.
Write(k, v) == /\ alive /\ req = NoCall /\ Held(dict, k)
               /\ dict' = Without(dict, k) \union {<<k, v>>}
               /\ UNCHANGED <<alive, req, out>>

Calls == [op : {"get", "remove"}, k : Key, v : {NoVal}, n : {0}]
         \union [op : {"put"}, k : Key, v : Val, n : {0}]
         \union [op : {"clear", "reserve"}, k : {NoKey}, v : {NoVal}, n : {0}]

Next == \/ New \/ NewFails \/ Drop
        \/ Begin \/ Apply \/ Return
        \/ \E r \in Calls : AtOnce(r)
        \/ \E k \in Key, v \in Val : Write(k, v)

Spec == Init /\ [][Next]_mapVars
=============================================================================
