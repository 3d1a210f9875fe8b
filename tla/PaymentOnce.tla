----------------------------- MODULE PaymentOnce -----------------------------
(***************************************************************************)
(* What the executor promises the owner of the money: a decision is paid   *)
(* at most once, and only after the contract has marked it settled.        *)
(***************************************************************************)
EXTENDS Naturals

CONSTANT Decisions

VARIABLES
    settled,    \* decisions the contract has marked settled
    paid        \* decision -> successful payments made for it

payVars == <<settled, paid>>

Init == settled = {} /\ paid = [d \in Decisions |-> 0]

Settle(d) ==
    /\ d \notin settled
    /\ settled' = settled \cup {d}
    /\ UNCHANGED paid

Pay(d) ==
    /\ d \in settled
    /\ paid[d] = 0
    /\ paid' = [paid EXCEPT ![d] = 1]
    /\ UNCHANGED settled

Next == \E d \in Decisions : Settle(d) \/ Pay(d)

Spec == Init /\ [][Next]_payVars
=============================================================================
