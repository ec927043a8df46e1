------------------------------- MODULE PullSet -------------------------------
(***************************************************************************)
(* What priority_queue.h promises: elements are pushed, and pull returns   *)
(* one than which no other is greater.                                     *)
(***************************************************************************)
EXTENDS Integers

CONSTANTS Elems, Key, NULL

VARIABLES held,    \* the elements in the queue
          pulled   \* what the last pull returned

Init == held = {} /\ pulled = NULL

Push(e) == e \notin held /\ held' = held \cup {e} /\ UNCHANGED pulled

Pull ==
  IF held = {} THEN pulled' = NULL /\ UNCHANGED held
  ELSE \E e \in held :
         /\ \A o \in held : Key[e] >= Key[o]
         /\ pulled' = e /\ held' = held \ {e}

Next == Pull \/ \E e \in Elems : Push(e)

Spec == Init /\ [][Next]_<<held, pulled>>
=============================================================================
