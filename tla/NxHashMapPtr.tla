---------------------------- MODULE NxHashMapPtr ----------------------------
(***************************************************************************)
(* A client of the hash map that keeps the pointer nx_hash_map_get gave it *)
(* and writes the value through it.  The map is NxHashMap unchanged; this  *)
(* module adds the pointer and the client's rule for how long to trust it. *)
(***************************************************************************)
EXTENDS NxHashMap

CONSTANTS Rule   \* "sizes" or "header", see Trusts

VARIABLE ptr     \* the pointer the client trusts: its slot, the key it was
                 \* obtained for, and whether its table was freed since

ptrVars == <<vars, ptr>>

NoPtr == [at |-> -1, k |-> NoKey, freed |-> FALSE]

(***************************************************************************)
(* When the client goes on trusting a pointer across a step of the map.    *)
(* "header": "Pointers into the map (from get) are invalidated by put and  *)
(* remove", and by nothing else but drop.                                  *)
(* "sizes": until len or cap is seen to change.                            *)
(***************************************************************************)
Trusts ==
  /\ pc' # "none"
  /\ \/ Rule = "header" /\ ~(pc' = "idle" /\ call.op \in {"put", "remove"})
     \/ Rule = "sizes"  /\ len' = len /\ cap' = cap

\* The table the pointer points into was handed back to the allocator.
Frees == pc = "rehash" /\ ri \notin OldIdx

PtrInit == Init /\ ptr = NoPtr

\* get returns a pointer to the value of the slot it found.
PtrGet ==
  /\ TableFits /\ get_found
  /\ ptr' = [at |-> idx, k |-> call.k, freed |-> FALSE]

PtrOther ==
  /\ Next /\ ~get_found
  /\ ptr' = IF ptr = NoPtr \/ ~Trusts THEN NoPtr
            ELSE [ptr EXCEPT !.freed = @ \/ Frees]

\* The client writes *p.
poke(v) ==
  /\ pc = "idle" /\ iter = -1 /\ ptr # NoPtr /\ ptr.at \in Idx
  /\ slots' = [slots EXCEPT ![ptr.at].v = v]
  /\ UNCHANGED <<cap, len, hash, pc, call, locals, ret, ghosts, ptr>>

PtrNext == PtrGet \/ PtrOther \/ \E v \in Val : poke(v)
PtrSpec == PtrInit /\ [][PtrNext]_ptrVars

(* Correctness.                                                            *)

\* What a client that follows hash_map.h:29 relies on: reserve, which is neither
\* put nor remove, has not freed the table its pointer points into.
PointerLives == pc = "idle" /\ ptr # NoPtr => ~ptr.freed

\* A trusted pointer still points at the value of the key it was obtained
\* for, in a table that is still allocated.
PointerGood ==
  /\ PointerLives
  /\ pc = "idle" /\ ptr # NoPtr => ptr.at \in Idx /\ slots[ptr.at].k = ptr.k
=============================================================================
