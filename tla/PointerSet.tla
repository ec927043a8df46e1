------------------------------ MODULE PointerSet ------------------------------
(***************************************************************************)
(* What ptrset.h promises: a set of pointers, and an iterator that yields  *)
(* every member once and is "safe for deletion of the current element".    *)
(***************************************************************************)
CONSTANTS Ptrs, None   \* None: no pointer

VARIABLES members,   \* the set
          pending,   \* what the iterator has still to yield
          ret        \* the last call and what it answered

Init == members = {} /\ pending = {} /\ ret = <<"create">>

Idle == pending = {}

Add(p) == Idle /\ members' = members \cup {p} /\ ret' = <<"add", p>> /\ UNCHANGED pending

Union(S) == Idle /\ members' = members \cup S /\ ret' = <<"union", S>> /\ UNCHANGED pending

Empty == Idle /\ members' = {} /\ ret' = <<"empty">> /\ UNCHANGED pending

\* An iteration does not lose what it has still to yield.
Remove(p) ==
  /\ p \notin pending
  /\ members' = members \ {p}
  /\ ret' = <<"remove", p, p \in members>>
  /\ UNCHANGED pending

Contains(p) == ret' = <<"contains", p, p \in members>> /\ UNCHANGED <<members, pending>>

First ==
  /\ IF members = {} THEN ret' = <<"first", None>>
     ELSE \E p \in members : ret' = <<"first", p>>
  /\ UNCHANGED <<members, pending>>

IterCreate == pending' = members /\ ret' = <<"iter">> /\ UNCHANGED members

IterNext ==
  /\ IF pending = {} THEN ret' = <<"next", None>> /\ UNCHANGED pending
     ELSE \E p \in pending : ret' = <<"next", p>> /\ pending' = pending \ {p}
  /\ UNCHANGED members

Next ==
  \/ \E p \in Ptrs : Add(p) \/ Remove(p) \/ Contains(p)
  \/ \E S \in SUBSET Ptrs : Union(S)
  \/ Empty \/ First \/ IterCreate \/ IterNext

Spec == Init /\ [][Next]_<<members, pending, ret>>
=============================================================================
