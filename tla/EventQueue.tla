----------------------------- MODULE EventQueue -----------------------------
(***************************************************************************)
(* What the subscription to the membership events promises, without        *)
(* replicas, bindings and acknowledgements: a queue that hands out every   *)
(* event until it was handled.  It may begin again, and then it hands out  *)
(* everything; it may hand out an event that was handled, but it never     *)
(* drops one that was not.  Replicas implements this specification.        *)
(***************************************************************************)
CONSTANT Events

VARIABLES
  published,  \* the events there were
  waiting,    \* those the queue will hand out
  handled     \* those that were handled

vars == <<published, waiting, handled>>

Publish(e) ==
  /\ e \notin published
  /\ published' = published \cup {e} /\ waiting' = waiting \cup {e}
  /\ UNCHANGED handled

\* An event may be in several hands; it leaves the queue when one is done with it.
Handle(e) ==
  /\ e \in published
  /\ handled' = handled \cup {e} /\ waiting' \in {waiting, waiting \ {e}}
  /\ UNCHANGED published

BeginAgain ==
  /\ waiting' = published
  /\ UNCHANGED <<published, handled>>

Init == published = {} /\ waiting = {} /\ handled = {}
Next == BeginAgain \/ \E e \in Events : Publish(e) \/ Handle(e)
Spec == Init /\ [][Next]_vars
=============================================================================
