------------------------------ MODULE Mailbox -------------------------------
(***************************************************************************)
(* What the incoming SMS cycle promises, seen from the network: a message  *)
(* that is stored on the SIM is handled once and freed only afterwards.    *)
(* Only a restart may put a message that is handled but not freed back     *)
(* among the waiting ones.  A job in job_dir has the same life.            *)
(***************************************************************************)
CONSTANT Pdus

VARIABLE state     \* state[p]: where message p is in its life

Init == state = [p \in Pdus |-> "absent"]

Moves(p, from, to) == state[p] = from /\ state' = [state EXCEPT ![p] = to]

Store(p)  == Moves(p, "absent", "waiting")
Handle(p) == Moves(p, "waiting", "handled")
Free(p)   == Moves(p, "handled", "freed")

Forget == state' = [p \in Pdus |-> IF state[p] = "handled" THEN "waiting" ELSE state[p]]

Next == (\E p \in Pdus : Store(p) \/ Handle(p) \/ Free(p)) \/ Forget

Spec == Init /\ [][Next]_state

\* Every stored message is handled, every handled message is freed.
FairSpec == Spec /\ \A p \in Pdus : WF_state(Handle(p)) /\ WF_state(Free(p))
=============================================================================
