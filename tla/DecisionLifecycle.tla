--------------------------- MODULE DecisionLifecycle ---------------------------
(***************************************************************************)
(* What the contract promises about each intent, and all that the gateway  *)
(* and the executor rely on: a decision is made once, an escalated one is  *)
(* answered once, and an approval is settled once.                         *)
(***************************************************************************)
CONSTANT Hashes

VARIABLE stage      \* intent hash -> the stage its decision has reached

Stages == {"None", "Pending", "Approved", "Rejected", "Settled"}

Init == stage = [h \in Hashes |-> "None"]

\* One intent moves from one stage to another; the others stay.
Move(h, from, to) == stage[h] = from /\ stage' = [stage EXCEPT ![h] = to]

Judge(h) == \E verdict \in {"Pending", "Approved", "Rejected"} : Move(h, "None", verdict)

Answer(h) == \E verdict \in {"Approved", "Rejected"} : Move(h, "Pending", verdict)

Settle(h) == Move(h, "Approved", "Settled")

Next == \E h \in Hashes : Judge(h) \/ Answer(h) \/ Settle(h)

Spec == Init /\ [][Next]_stage
=============================================================================
