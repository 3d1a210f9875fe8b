-------------------------- MODULE AuthorizationAudit --------------------------
(***************************************************************************)
(* The contract beside an auditor who reads only its decisions, and writes *)
(* down the ledger time at which each one was first seen Approved.  The    *)
(* contract never stores that history (DECISIONS.md #3): what it keeps is  *)
(* one running total.  The properties compare the two.                     *)
(***************************************************************************)
EXTENDS Authorization, FiniteSetsExt

\* None is no time either.
ASSUME TimeAssumption == None \notin U64

VARIABLE grantedAt      \* decision id -> timestamp of its approval, or None

auditVars == <<vars, grantedAt>>

AuditInit == Init /\ grantedAt = [id \in DecisionIds |-> None]

IsApproved(d) == d # None /\ d.verdict = "Approved"

AuditNext ==
    /\ Next
    /\ grantedAt' = [id \in DecisionIds |->
                        IF ~IsApproved(decision[id]) /\ IsApproved(decision'[id])
                        THEN timestamp ELSE grantedAt[id]]

AuditSpec == AuditInit /\ [][AuditNext]_auditVars

\* The agent's approvals at or after a time.
GrantedSince(a, t) ==
    {id \in DecisionIds : grantedAt[id] # None /\ grantedAt[id] >= t /\ decision[id].agent = a}

GrantedSum(a, t) == MapThenSumSet(LAMBDA id : decision[id].amount, GrantedSince(a, t))

\* The running total is the history: whatever was replayed, rejected, escalated,
\* resolved late or judged under another version, the stored `spent` is the sum
\* of the approvals since the stored window began.  Stated for policies that
\* keep one positive window_seconds: a change of it moves the window's end.
WindowAccounts ==
    \A a \in Agents : window[a] # None =>
        window[a].spent = GrantedSum(a, window[a].window_start)

\* The budget holds where it is spent: a step that approves leaves the approvals
\* of the current window within the cap of the policy in force at that step.
BudgetHoldsAtGrant ==
    [][\A a \in Agents :
          (\E id \in DecisionIds : ~IsApproved(decision[id]) /\ IsApproved(decision[id])'
                                   /\ decision'[id].agent = a)
            => GrantedSum(a, window[a].window_start)' <= policy[a].cumulative_window_cap]_auditVars

\* What tumbling costs against a rolling window: a span of window_seconds meets
\* at most two windows, so it holds approvals worth at most twice the largest
\* cap ever in force, never more (a negative cap admits nothing).
TumblingBound ==
    \A p \in PolicyArgs, t \in U64 :
        LET span == {id \in GrantedSince(p.agent, t) : grantedAt[id] < t + p.window_seconds}
            caps == {0} \cup {q.cumulative_window_cap : q \in PolicyArgs}
        IN MapThenSumSet(LAMBDA id : decision[id].amount, span) <= 2 * Max(caps)
=============================================================================
