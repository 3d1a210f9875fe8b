-------------------------- MODULE AuthorizationProofs --------------------------
(***************************************************************************)
(* Proofs about the contract, for every set of accounts, agents, policies  *)
(* and requests and every integer width.                                   *)
(*                                                                         *)
(* IInv is the inductive invariant: a type needs the policy to be filed    *)
(* under its own agent (the window written is the agent's), the index      *)
(* needs the id of a decision to be recomputable, and the trail needs both *)
(* lookups to agree.                                                       *)
(*                                                                         *)
(* The last part is about the console, which shows what the contract holds *)
(* (the module extends Console, which extends Authorization).              *)
(***************************************************************************)
EXTENDS Console, TLAPS

IInv == TypeOK /\ AgentsStayRegistered /\ DecisionIndexed /\ DecisionTrail

\* The rules of evaluate() only produce reasons the verdict table knows, and a
\* passed evaluation means the amount fits the effective window.
LEMMA EvaluateFacts ==
    ASSUME NEW p \in Policy, NEW r \in Request
    PROVE  /\ Evaluate(p, r) \in ReasonCodes \ {"OwnerRejected"}
           /\ VerdictOf(Evaluate(p, r)) # "Rejected" =>
                 /\ Evaluate(p, r) \in {"Ok", "PendingApproval"}
                 /\ FirstRefusal(p, r) = "Ok"
                 /\ ~(WindowSpent(p) + r.amount > p.cumulative_window_cap)
<1> USE DEF FirstRefusal, Evaluate, VerdictOf, ReasonCodes
<1>1. FirstRefusal(p, r) \in {"AgentRevoked", "ServiceNotAllowed", "AssetMismatch", "CapExceeded", "Ok"}
  OBVIOUS
<1>2. QED
  BY <1>1

\* The verdict of a reason is a verdict, and only "Ok" approves.
LEMMA VerdictFacts ==
    ASSUME NEW reason \in ReasonCodes
    PROVE  /\ VerdictOf(reason) \in Verdicts
           /\ VerdictOf(reason) = "Approved" <=> reason = "Ok"
           /\ VerdictOf(reason) = "RequiresApproval" <=> reason = "PendingApproval"
  BY DEF VerdictOf, Verdicts, ReasonCodes

\* A charge that fits, made where the evaluation did not trap, writes a
\* well-typed window: the total stays inside the i128.
LEMMA ChargeTyped ==
    ASSUME TypeOK, NEW p \in Policy, NEW amount \in 1 .. MaxI128, ChargeFits(p, amount)
    PROVE  ChargedWindow(p, amount) \in WindowState
<1> USE WidthAssumption
<1>1. window[p.agent] \in WindowState \cup {None} /\ timestamp \in U64 /\ p.cumulative_window_cap \in I128
  BY DEF TypeOK, Policy
<1>2. CASE IsLive(window[p.agent], p)
  <2> DEFINE w == window[p.agent]
  <2>1. w \in WindowState
    BY <1>1, <1>2 DEF IsLive
  <2>2. ChargedWindow(p, amount) = [w EXCEPT !.spent = w.spent + amount]
    BY <1>2, <2>1 DEF ChargedWindow, WindowState
  <2>3. w.spent \in I128 /\ w.window_start \in U64
    BY <2>1 DEF WindowState
  <2>4. ChargedWindow(p, amount).spent = w.spent + amount
    BY <2>1, <2>2 DEF WindowState
  <2>5. w.spent + amount \in I128
    BY <1>1, <2>3, <2>4 DEF ChargeFits, I128
  <2>6. QED
    BY <2>1, <2>2, <2>5 DEF WindowState
<1>3. CASE ~IsLive(window[p.agent], p)
  BY <1>1, <1>3 DEF ChargedWindow, WindowState, I128
<1>4. QED
  BY <1>2, <1>3

\* Where an evaluation does not reject, the charge does not veto: the two
\* readings of the window agree, which is why the veto branch is never reached.
LEMMA ChargeAgrees ==
    ASSUME TypeOK, NEW p \in Policy, NEW r \in Request,
           VerdictOf(Evaluate(p, r)) # "Rejected"
    PROVE  ChargeFits(p, r.amount)
<1>1. ~(WindowSpent(p) + r.amount > p.cumulative_window_cap)
  BY EvaluateFacts
<1>2. window[p.agent] \in WindowState \cup {None} /\ p.cumulative_window_cap \in Int /\ r.amount \in Int
  BY DEF TypeOK, Policy, Request, I128
<1>3. CASE IsLive(window[p.agent], p)
  <2>1. window[p.agent] \in WindowState
    BY <1>2, <1>3 DEF IsLive
  <2>2. ChargedWindow(p, r.amount).spent = window[p.agent].spent + r.amount
    BY <1>3, <2>1 DEF ChargedWindow, WindowState
  <2>3. window[p.agent].spent \in Int
    BY <2>1 DEF WindowState, I128
  <2>4. QED
    BY <1>1, <1>2, <1>3, <2>2, <2>3 DEF ChargeFits, WindowSpent
<1>4. CASE ~IsLive(window[p.agent], p)
  BY <1>1, <1>2, <1>4 DEF ChargeFits, ChargedWindow, WindowSpent
<1>5. QED
  BY <1>3, <1>4

\* The reason authorize() records is one evaluate() gave, and an approval fits.
LEMMA JudgedFacts ==
    ASSUME TypeOK, NEW p \in Policy, NEW r \in Request
    PROVE  /\ JudgedReason(p, r) \in ReasonCodes \ {"OwnerRejected"}
           /\ JudgedReason(p, r) = "Ok" => ChargeFits(p, r.amount)
  BY EvaluateFacts DEF JudgedReason, ReasonCodes

\* The decision authorize() stores is well typed and tells its history truthfully.
LEMMA NewDecisionFacts ==
    ASSUME TypeOK, NEW p \in Policy, NEW r \in Request, r.amount > 0
    PROVE  LET d == NewDecision(r, p, JudgedReason(p, r))
           IN /\ d \in Decision
              /\ TrailOf(d)
              /\ d # None
              /\ d.decision_id = DeriveDecisionId(d.intent_hash, d.policy_version)
              /\ d.intent_hash = r.intent_hash
              /\ d.agent = r.agent
<1> DEFINE reason == JudgedReason(p, r)
           d == NewDecision(r, p, reason)
<1>1. reason \in ReasonCodes \ {"OwnerRejected"} /\ VerdictOf(reason) \in Verdicts
  BY JudgedFacts, VerdictFacts
<1>2. /\ DeriveDecisionId(r.intent_hash, p.version) \in DecisionIds
      /\ r.amount \in 1 .. MaxI128
      /\ sequence \in U32
  BY WidthAssumption DEF DecisionIds, DeriveDecisionId, Request, Policy, I128, TypeOK
<1>3. d \in Decision
  BY <1>1, <1>2 DEF NewDecision, Decision, Request, Policy
<1>4. TrailOf(d)
  BY <1>1 DEF NewDecision, TrailOf
<1>5. d # None
  BY <1>3, NoneAssumption
<1> QED
  BY <1>3, <1>4, <1>5 DEF NewDecision

\* authorize() on a hash not seen before preserves the invariant.
LEMMA AuthorizeNewStep ==
    ASSUME IInv, NEW r \in Requests, r.amount > 0, intentIndex[r.intent_hash] = None,
           AuthorizeNew(r)
    PROVE  IInv'
<1> DEFINE p == policy[r.agent]
           reason == JudgedReason(p, r)
           d == NewDecision(r, p, reason)
           id == d.decision_id
<1>1. r \in Request /\ r.agent \in Agents /\ r.intent_hash \in Hashes /\ r.amount \in 1 .. MaxI128
  BY ArgsAssumption, WidthAssumption DEF Request, I128
<1>2. p \in Policy /\ p.agent = r.agent
  BY <1>1 DEF IInv, TypeOK, AgentsStayRegistered, AuthorizeNew
<1>3. /\ d \in Decision /\ TrailOf(d) /\ d # None
      /\ id = DeriveDecisionId(d.intent_hash, d.policy_version)
      /\ d.intent_hash = r.intent_hash /\ d.agent = r.agent
  BY <1>1, <1>2, NewDecisionFacts DEF IInv
<1>4. id \in DecisionIds /\ id # None
  BY <1>3, NoneAssumption DEF Decision
<1>5. /\ decision' = [decision EXCEPT ![id] = d]
      /\ intentIndex' = [intentIndex EXCEPT ![r.intent_hash] = id]
      /\ ChargeIf(d.verdict = "Approved", p, r.amount)
      /\ UNCHANGED <<owner, operator, policy, sequence, timestamp>>
  BY DEF AuthorizeNew, adminVars, ledgerVars
<1>6. window' \in [Agents -> WindowState \cup {None}]
  <2>1. d.verdict = "Approved" => ChargedWindow(p, r.amount) \in WindowState
    <3>1. d.verdict = VerdictOf(reason) /\ reason \in ReasonCodes
      BY <1>1, <1>2, JudgedFacts DEF NewDecision, IInv
    <3>2. d.verdict = "Approved" => ChargeFits(p, r.amount)
      BY <1>1, <1>2, <3>1, VerdictFacts, JudgedFacts DEF IInv
    <3>3. QED
      BY <1>1, <1>2, <3>2, ChargeTyped DEF IInv
  <2>2. QED
    BY <1>2, <1>5, <2>1 DEF ChargeIf, IInv, TypeOK
<1>7. TypeOK'
  BY <1>1, <1>3, <1>4, <1>5, <1>6 DEF IInv, TypeOK
<1>8. AgentsStayRegistered'
  <2>1. \A a \in Agents : window'[a] # None => policy'[a] # None
    BY <1>1, <1>2, <1>5 DEF ChargeIf, IInv, TypeOK, AgentsStayRegistered, AuthorizeNew
  <2>2. \A i \in DecisionIds : decision'[i] # None => policy'[decision'[i].agent] # None
    BY <1>3, <1>4, <1>5 DEF IInv, TypeOK, AgentsStayRegistered, AuthorizeNew
  <2>3. QED
    BY <1>5, <2>1, <2>2 DEF IInv, AgentsStayRegistered
<1>9. DecisionIndexed'
  <2>1. \A i \in DecisionIds : decision[i] # None =>
           decision[i].intent_hash # r.intent_hash /\ decision[i].intent_hash \in Hashes
    BY NoneAssumption DEF IInv, TypeOK, DecisionIndexed, Decision
  <2>2. \A h \in Hashes : intentIndex[h] # None => intentIndex[h] # id /\ intentIndex[h] \in DecisionIds
    BY <1>3, <2>1 DEF IInv, TypeOK, DecisionIndexed, DeriveDecisionId
  <2>3. \A h \in Hashes : intentIndex'[h] # None =>
           decision'[intentIndex'[h]] # None /\ decision'[intentIndex'[h]].intent_hash = h
    BY <1>1, <1>3, <1>4, <1>5, <2>2 DEF IInv, TypeOK, DecisionIndexed
  <2>4. \A i \in DecisionIds : decision'[i] # None =>
           /\ decision'[i].decision_id = i
           /\ i = DeriveDecisionId(decision'[i].intent_hash, decision'[i].policy_version)
           /\ intentIndex'[decision'[i].intent_hash] = i
    BY <1>1, <1>3, <1>4, <1>5, <2>1 DEF IInv, TypeOK, DecisionIndexed
  <2>5. QED
    BY <2>3, <2>4 DEF DecisionIndexed
<1>10. DecisionTrail'
  BY <1>3, <1>4, <1>5 DEF IInv, TypeOK, DecisionTrail, TrailOf
<1>11. QED
  BY <1>7, <1>8, <1>9, <1>10 DEF IInv

\* The one way resolve() and mark_settled() touch the store: rewrite decision
\* `id` in the fields that name no other entry.
LEMMA RewriteStep ==
    ASSUME IInv, NEW id \in DecisionIds, decision[id] # None, NEW e \in Decision,
           e.decision_id = decision[id].decision_id,
           e.intent_hash = decision[id].intent_hash,
           e.agent = decision[id].agent,
           e.policy_version = decision[id].policy_version,
           TrailOf(e),
           decision' = [decision EXCEPT ![id] = e],
           window' \in [Agents -> WindowState \cup {None}],
           \A a \in Agents : window'[a] # None => policy[a] # None,
           UNCHANGED <<owner, operator, policy, intentIndex, sequence, timestamp>>
    PROVE  IInv'
<1>1. e # None
  BY NoneAssumption
<1>2. TypeOK'
  BY DEF IInv, TypeOK
<1>3. AgentsStayRegistered'
  BY <1>1 DEF IInv, TypeOK, AgentsStayRegistered
<1>4. DecisionIndexed'
  BY <1>1 DEF IInv, TypeOK, DecisionIndexed
<1>5. DecisionTrail'
  BY <1>1 DEF IInv, TypeOK, DecisionTrail, TrailOf
<1>6. QED
  BY <1>2, <1>3, <1>4, <1>5 DEF IInv

\* The owner's answer preserves the invariant.
LEMMA ResolveStep ==
    ASSUME IInv, NEW signers, NEW id \in DecisionIds, NEW approve \in BOOLEAN,
           Resolve(signers, id, approve)
    PROVE  IInv'
<1> DEFINE d == decision[id]
           p == policy[d.agent]
           r == RequestOf(d)
           reason == ResolvedReason(d, p, approve)
           e == [d EXCEPT !.resolved_policy_version = p.version, !.verdict = VerdictOf(reason),
                          !.reason_code = reason, !.resolved = TRUE]
<1>1. /\ d # None /\ d \in Decision /\ d.verdict = "RequiresApproval" /\ ~d.resolved /\ p # None
  BY DEF Resolve, ResolveError, IInv, TypeOK
<1>2. p \in Policy /\ p.agent = d.agent /\ d.agent \in Agents /\ d.amount \in 1 .. MaxI128
  BY <1>1 DEF IInv, TypeOK, AgentsStayRegistered, Decision
<1>3. r \in Request
  BY <1>1, WidthAssumption DEF RequestOf, Request, Decision, I128
<1>4. reason \in ReasonCodes \ {"PendingApproval"} /\ (reason = "Ok" => ChargeFits(p, d.amount))
  <2>1. Evaluate(p, r) \in ReasonCodes
    BY <1>2, <1>3, EvaluateFacts
  <2>2. VerdictOf(Evaluate(p, r)) = "Rejected" => Evaluate(p, r) \notin {"Ok", "PendingApproval"}
    BY DEF VerdictOf
  <2>3. QED
    BY <2>1, <2>2 DEF ResolvedReason, ReasonCodes
<1>5. VerdictOf(reason) \in {"Approved", "Rejected"} /\ (VerdictOf(reason) = "Approved" <=> reason = "Ok")
  BY <1>4, VerdictFacts DEF Verdicts
<1>6. e \in Decision
  BY <1>1, <1>2, <1>4, <1>5 DEF Decision, Policy, Verdicts
<1>7. TrailOf(e)
  <2>1. d.original_reason_code = "PendingApproval" /\ ~d.settled
    <3>1. TrailOf(d)
      BY <1>1 DEF IInv, DecisionTrail
    <3>2. d.reason_code \in ReasonCodes
      BY <1>1 DEF Decision
    <3>3. QED
      BY <1>1, <3>1, <3>2, VerdictFacts DEF TrailOf
  <2>2. p.version # None
    BY <1>2, NoneAssumption DEF Policy
  <2>3. /\ e.verdict = VerdictOf(reason) /\ e.reason_code = reason
        /\ e.resolved = TRUE /\ e.resolved_policy_version = p.version
        /\ e.original_reason_code = d.original_reason_code /\ e.settled = d.settled
    BY <1>1 DEF Decision
  <2>4. QED
    BY <1>5, <2>1, <2>2, <2>3 DEF TrailOf
<1>8. /\ decision' = [decision EXCEPT ![id] = e]
      /\ ChargeIf(reason = "Ok", p, d.amount)
      /\ UNCHANGED <<owner, operator, policy, intentIndex, sequence, timestamp>>
  BY DEF Resolve, adminVars, ledgerVars
<1>9. window' \in [Agents -> WindowState \cup {None}]
  <2>1. reason = "Ok" => ChargedWindow(p, d.amount) \in WindowState
    BY <1>2, <1>4, ChargeTyped DEF IInv
  <2>2. QED
    BY <1>2, <1>8, <2>1 DEF ChargeIf, IInv, TypeOK
<1>10. \A a \in Agents : window'[a] # None => policy[a] # None
  BY <1>1, <1>2, <1>8 DEF ChargeIf, IInv, TypeOK, AgentsStayRegistered
<1>11. /\ e.decision_id = d.decision_id /\ e.intent_hash = d.intent_hash
       /\ e.agent = d.agent /\ e.policy_version = d.policy_version
  BY <1>1 DEF Decision
<1>12. QED
  BY <1>1, <1>6, <1>7, <1>8, <1>9, <1>10, <1>11, RewriteStep

\* Settling preserves the invariant.
LEMMA MarkSettledStep ==
    ASSUME IInv, NEW signers, NEW caller, NEW id \in DecisionIds, MarkSettled(signers, caller, id)
    PROVE  IInv'
<1> DEFINE d == decision[id]
           e == [d EXCEPT !.settled = TRUE]
<1>1. d # None /\ d \in Decision /\ d.verdict = "Approved"
  BY DEF MarkSettled, MarkSettledError, IInv, TypeOK
<1>2. e \in Decision
  BY <1>1 DEF Decision
<1>3. TrailOf(e)
  <2>1. TrailOf(d)
    BY <1>1 DEF IInv, DecisionTrail
  <2>2. QED
    BY <1>1, <2>1 DEF TrailOf, Decision
<1>4. /\ decision' = [decision EXCEPT ![id] = e]
      /\ UNCHANGED <<owner, operator, policy, window, intentIndex, sequence, timestamp>>
  BY DEF MarkSettled, adminVars, ledgerVars
<1>5. /\ window' \in [Agents -> WindowState \cup {None}]
      /\ \A a \in Agents : window'[a] # None => policy[a] # None
  BY <1>4 DEF IInv, TypeOK, AgentsStayRegistered
<1>6. /\ e.decision_id = d.decision_id /\ e.intent_hash = d.intent_hash
      /\ e.agent = d.agent /\ e.policy_version = d.policy_version
  BY <1>1 DEF Decision
<1>7. QED
  BY <1>1, <1>2, <1>3, <1>4, <1>5, <1>6, RewriteStep

\* A policy write only adds or replaces an entry under the policy's own agent.
LEMMA PutPolicyStep ==
    ASSUME IInv, NEW p \in Policy, PutPolicy(p)
    PROVE  IInv'
<1>1. /\ policy' = [policy EXCEPT ![p.agent] = p] /\ p.agent \in Agents /\ p # None
      /\ UNCHANGED <<owner, operator, window, decision, intentIndex, sequence, timestamp>>
  BY NoneAssumption DEF PutPolicy, adminVars, ledgerVars, Policy
<1>2. TypeOK'
  BY <1>1 DEF IInv, TypeOK
<1>3. AgentsStayRegistered'
  <2>1. \A id \in DecisionIds : decision[id] # None => decision[id].agent \in Agents
    BY DEF IInv, TypeOK, Decision
  <2>2. QED
    BY <1>1, <2>1 DEF IInv, TypeOK, AgentsStayRegistered
<1>4. DecisionIndexed' /\ DecisionTrail'
  BY <1>1 DEF IInv, DecisionIndexed, DecisionTrail, TrailOf
<1>5. QED
  BY <1>2, <1>3, <1>4 DEF IInv

\* Every entry point preserves the invariant.
LEMMA CallStep ==
    ASSUME IInv, NEW signers \in SignerSets, Call(signers)
    PROVE  IInv'
<1>1. CASE ContractInit(signers)
  BY <1>1, ArgsAssumption DEF ContractInit, ledgerVars, IInv, TypeOK, AgentsStayRegistered,
                              DecisionIndexed, DecisionTrail, TrailOf
<1>2. CASE \E op \in OperatorArgs : SetOperator(signers, op)
  BY <1>2, ArgsAssumption DEF SetOperator, ledgerVars, IInv, TypeOK, AgentsStayRegistered,
                              DecisionIndexed, DecisionTrail, TrailOf
<1>3. CASE \E p \in PolicyArgs : RegisterAgent(signers, p)
  BY <1>3, ArgsAssumption, PutPolicyStep DEF RegisterAgent
<1>4. CASE \E p \in PolicyArgs : SetPolicy(signers, p)
  <2>1. PICK p \in PolicyArgs : SetPolicy(signers, p)
    BY <1>4
  <2>2. [p EXCEPT !.version = policy[p.agent].version + 1] \in Policy
    BY <2>1, ArgsAssumption DEF SetPolicy, Policy
  <2>3. QED
    BY <2>1, <2>2, PutPolicyStep DEF SetPolicy
<1>5. CASE \E a \in Agents : RevokeAgent(signers, a)
  <2>1. PICK a \in Agents : RevokeAgent(signers, a)
    BY <1>5
  <2>2. [policy[a] EXCEPT !.status = "Revoked"] \in Policy
    BY <2>1 DEF RevokeAgent, IInv, TypeOK, Policy, AgentStatus
  <2>3. QED
    BY <2>1, <2>2, PutPolicyStep DEF RevokeAgent
<1>6. CASE \E caller \in Accounts, r \in Requests : Authorize(signers, caller, r)
  <2>1. PICK caller \in Accounts, r \in Requests : Authorize(signers, caller, r)
    BY <1>6
  <2>2. CASE intentIndex[r.intent_hash] # None
    BY <2>1, <2>2 DEF Authorize, AuthorizeReplay, vars, IInv, TypeOK, AgentsStayRegistered,
                      DecisionIndexed, DecisionTrail, TrailOf
  <2>3. CASE intentIndex[r.intent_hash] = None
    BY <2>1, <2>3, AuthorizeNewStep DEF Authorize
  <2>4. QED
    BY <2>2, <2>3
<1>7. CASE \E id \in DecisionIds, approve \in BOOLEAN : Resolve(signers, id, approve)
  BY <1>7, ResolveStep
<1>8. CASE \E caller \in Accounts, id \in DecisionIds : MarkSettled(signers, caller, id)
  BY <1>8, MarkSettledStep
<1>9. QED
  BY <1>1, <1>2, <1>3, <1>4, <1>5, <1>6, <1>7, <1>8 DEF Call

\* IInv holds initially and every step, stuttering included, preserves it.
LEMMA IInvInductive ==
    /\ Init => IInv
    /\ IInv /\ [Next]_vars => IInv'
<1>1. Init => IInv
  <2>1. 1 \in U32 /\ 1 \in U64
    BY WidthAssumption DEF U64
  <2>2. QED
    BY <2>1 DEF Init, IInv, TypeOK, AgentsStayRegistered, DecisionIndexed, DecisionTrail
<1>2. ASSUME IInv, [Next]_vars
      PROVE  IInv'
  <2>1. CASE UNCHANGED vars
    BY <1>2, <2>1 DEF vars, IInv, TypeOK, AgentsStayRegistered, DecisionIndexed,
                      DecisionTrail, TrailOf
  <2>2. CASE CloseLedger
    <3>1. sequence' \in U32 /\ timestamp' \in U64
      <4>1. timestamp \in Nat /\ MaxTime \in Nat /\ MaxTime <= MaxU64 /\ MaxU64 \in Nat
        BY <1>2, WidthAssumption DEF IInv, TypeOK, U64
      <4>2. timestamp' \in (timestamp + 1) .. MaxTime /\ sequence' \in U32
        BY <2>2 DEF CloseLedger
      <4>3. QED
        BY <4>1, <4>2 DEF U64
    <3>2. QED
      BY <1>2, <2>2, <3>1 DEF CloseLedger, adminVars, IInv, TypeOK, AgentsStayRegistered,
                              DecisionIndexed, DecisionTrail, TrailOf
  <2>3. CASE \E signers \in SignerSets : Call(signers)
    BY <1>2, <2>3, CallStep
  <2>4. QED
    BY <1>2, <2>1, <2>2, <2>3 DEF Next
<1>3. QED
  BY <1>1, <1>2

\* The inductive invariant holds in every reachable state.
THEOREM Invariance == Spec => []IInv
  BY IInvInductive, PTL DEF Spec

\* Every variable of the contract keeps its type: no overflow of the window
\* total or the version ever reaches the storage.
THEOREM TypeCorrect == Spec => []TypeOK
  BY Invariance, PTL DEF IInv

\* No policy is ever removed from under a decision or a window.
THEOREM AgentsRemainRegistered == Spec => []AgentsStayRegistered
  BY Invariance, PTL DEF IInv

\* An intent hash names at most one decision, found both ways, under an id
\* anyone can recompute.
THEOREM IndexCorrect == Spec => []DecisionIndexed
  BY Invariance, PTL DEF IInv

\* The fields of a decision tell its history: resolved, escalated, settled.
THEOREM TrailCorrect == Spec => []DecisionTrail
  BY Invariance, PTL DEF IInv

----------------------------------------------------------------------------
(* Action properties. *)

\* Judging and charging agree in every reachable state: where evaluate() does
\* not reject, the veto of charge_window is unreachable.
THEOREM ChargesNeverVeto == Spec => []ChargeNeverVetoes
<1>1. IInv => ChargeNeverVetoes
  <2> SUFFICES ASSUME IInv, NEW r \in Requests, policy[r.agent] # None,
                      VerdictOf(Evaluate(policy[r.agent], r)) # "Rejected"
               PROVE  ChargeFits(policy[r.agent], r.amount)
    BY DEF ChargeNeverVetoes
  <2>1. r \in Request /\ policy[r.agent] \in Policy
    BY ArgsAssumption DEF Request, IInv, TypeOK
  <2>2. QED
    BY <2>1, ChargeAgrees DEF IInv
<1>2. QED
  BY <1>1, Invariance, PTL

\* How a call may touch the decisions: a new one under a hash not yet indexed,
\* an answer to a pending one, or a settlement; each under a policy in force.
NewDecisionOf(r) ==
    /\ r \in Requests
    /\ intentIndex[r.intent_hash] = None
    /\ policy[r.agent] # None
    /\ LET d == NewDecision(r, policy[r.agent], JudgedReason(policy[r.agent], r))
       IN /\ decision' = [decision EXCEPT ![d.decision_id] = d]
          /\ intentIndex' = [intentIndex EXCEPT ![r.intent_hash] = d.decision_id]
    /\ r.amount > 0

AnswerOf(id, reason) ==
    /\ decision[id] # None
    /\ decision[id].verdict = "RequiresApproval" /\ ~decision[id].resolved
    /\ reason \in ReasonCodes \ {"PendingApproval"}
    /\ reason = "Ok" => policy[decision[id].agent].status # "Revoked"
    /\ decision' = [decision EXCEPT ![id] =
                       [@ EXCEPT !.resolved_policy_version = policy[decision[id].agent].version,
                                 !.verdict = VerdictOf(reason),
                                 !.reason_code = reason, !.resolved = TRUE]]
    /\ intentIndex' = intentIndex

SettlementOf(id) ==
    /\ decision[id] # None
    /\ decision[id].verdict = "Approved" /\ ~decision[id].settled
    /\ policy[decision[id].agent].status # "Revoked"
    /\ decision' = [decision EXCEPT ![id] = [@ EXCEPT !.settled = TRUE]]
    /\ intentIndex' = intentIndex

DecisionStep ==
    \/ decision' = decision /\ intentIndex' = intentIndex
    \/ /\ policy' = policy
       /\ \/ \E r \in Requests : NewDecisionOf(r)
          \/ \E id \in DecisionIds, reason \in ReasonCodes : AnswerOf(id, reason)
          \/ \E id \in DecisionIds : SettlementOf(id)

\* resolve() is an answer with a final reason, and "Ok" only where the agent is
\* active.
LEMMA ResolveAnswers ==
    ASSUME IInv, NEW signers, NEW id \in DecisionIds, NEW approve \in BOOLEAN,
           Resolve(signers, id, approve)
    PROVE  policy' = policy /\ \E reason \in ReasonCodes : AnswerOf(id, reason)
<1> DEFINE d == decision[id]
           p == policy[d.agent]
           r == RequestOf(d)
           reason == ResolvedReason(d, p, approve)
<1>1. d # None /\ d \in Decision /\ d.verdict = "RequiresApproval" /\ ~d.resolved /\ p # None
  BY DEF Resolve, ResolveError, IInv, TypeOK
<1>2. p \in Policy /\ r \in Request
  BY <1>1, WidthAssumption DEF IInv, TypeOK, Decision, RequestOf, Request, I128
<1>3. Evaluate(p, r) \in ReasonCodes
  BY <1>2, EvaluateFacts
<1>4. VerdictOf(Evaluate(p, r)) = "Rejected" => Evaluate(p, r) \notin {"Ok", "PendingApproval"}
  BY DEF VerdictOf
<1>5. reason \in ReasonCodes \ {"PendingApproval"}
  BY <1>3, <1>4 DEF ResolvedReason, ReasonCodes
<1>6. reason = "Ok" => p.status # "Revoked"
  <2>1. p.status = "Revoked" => VerdictOf(Evaluate(p, r)) = "Rejected"
    BY DEF Evaluate, FirstRefusal, VerdictOf
  <2>2. QED
    BY <1>4, <2>1 DEF ResolvedReason
<1>7. AnswerOf(id, reason)
  BY <1>1, <1>5, <1>6 DEF Resolve, AnswerOf
<1>8. QED
  BY <1>5, <1>7 DEF Resolve

\* Every step of the contract is a DecisionStep.
LEMMA NextIsDecisionStep ==
    ASSUME IInv, [Next]_vars
    PROVE  DecisionStep
<1>1. CASE UNCHANGED vars
  BY <1>1 DEF vars, DecisionStep
<1>2. CASE CloseLedger
  BY <1>2 DEF CloseLedger, DecisionStep
<1>3. ASSUME NEW signers \in SignerSets, Call(signers)
      PROVE  DecisionStep
  <2>1. CASE ContractInit(signers)
    BY <2>1 DEF ContractInit, DecisionStep
  <2>2. CASE \E op \in OperatorArgs : SetOperator(signers, op)
    BY <2>2 DEF SetOperator, DecisionStep
  <2>3. CASE \E p \in PolicyArgs : RegisterAgent(signers, p) \/ SetPolicy(signers, p)
    BY <2>3 DEF RegisterAgent, SetPolicy, PutPolicy, DecisionStep
  <2>4. CASE \E a \in Agents : RevokeAgent(signers, a)
    BY <2>4 DEF RevokeAgent, PutPolicy, DecisionStep
  <2>5. CASE \E caller \in Accounts, r \in Requests : Authorize(signers, caller, r)
    BY <2>5 DEF Authorize, AuthorizeReplay, AuthorizeNew, vars, DecisionStep, NewDecisionOf
  <2>6. CASE \E id \in DecisionIds, approve \in BOOLEAN : Resolve(signers, id, approve)
    BY <2>6, ResolveAnswers DEF DecisionStep
  <2>7. CASE \E caller \in Accounts, id \in DecisionIds : MarkSettled(signers, caller, id)
    BY <2>7 DEF MarkSettled, MarkSettledError, DecisionStep, SettlementOf
  <2>8. QED
    BY <1>3, <2>1, <2>2, <2>3, <2>4, <2>5, <2>6, <2>7 DEF Call
<1>4. QED
  BY <1>1, <1>2, <1>3 DEF Next

\* What a DecisionStep leaves of a stored decision: it is frozen, and it is
\* newly Approved or newly settled only under a policy that is not revoked.
LEMMA DecisionStepFacts ==
    ASSUME IInv, DecisionStep, NEW i \in DecisionIds
    PROVE  /\ decision[i] # None => FrozenIn(decision[i], decision'[i])
           /\ decision'[i] # None /\ decision'[i] # decision[i]
              /\ policy[decision'[i].agent].status = "Revoked" =>
                 /\ decision'[i].verdict = "Approved" =>
                        decision[i] # None /\ decision[i].verdict = "Approved"
                 /\ decision'[i].settled => decision[i] # None /\ decision[i].settled
<1> DEFINE Goal ==
           /\ decision[i] # None => FrozenIn(decision[i], decision'[i])
           /\ decision'[i] # None /\ decision'[i] # decision[i]
              /\ policy[decision'[i].agent].status = "Revoked" =>
                 /\ decision'[i].verdict = "Approved" =>
                        decision[i] # None /\ decision[i].verdict = "Approved"
                 /\ decision'[i].settled => decision[i] # None /\ decision[i].settled
<1>1. decision[i] # None => decision[i] \in Decision
  BY DEF IInv, TypeOK
<1>2. decision[i] # None => FrozenIn(decision[i], decision[i])
  BY <1>1 DEF FrozenIn, Decision
<1>3. ASSUME NEW r \in Requests, NewDecisionOf(r)
      PROVE  Goal
  <2> DEFINE p == policy[r.agent]
             reason == JudgedReason(p, r)
             d == NewDecision(r, p, reason)
  <2>1. r \in Request /\ p \in Policy
    BY <1>3, ArgsAssumption DEF NewDecisionOf, Request, IInv, TypeOK
  <2>2. /\ d \in Decision /\ d.agent = r.agent /\ d.intent_hash = r.intent_hash
        /\ d.decision_id = DeriveDecisionId(d.intent_hash, d.policy_version)
    BY <1>3, <2>1, NewDecisionFacts DEF IInv, NewDecisionOf
  <2>3. d.decision_id \in DecisionIds
    BY <2>2 DEF Decision
  <2>4. decision[d.decision_id] = None
    <3>1. SUFFICES ASSUME decision[d.decision_id] # None PROVE FALSE
      OBVIOUS
    <3>2. decision[d.decision_id].intent_hash = r.intent_hash
      BY <2>2, <2>3, <3>1 DEF IInv, DecisionIndexed, DeriveDecisionId
    <3>3. intentIndex[r.intent_hash] = d.decision_id
      BY <2>3, <3>1, <3>2 DEF IInv, DecisionIndexed
    <3>4. QED
      BY <1>3, <2>3, <3>3, NoneAssumption DEF NewDecisionOf
  <2>5. d.settled = FALSE /\ d.verdict = VerdictOf(reason)
    BY DEF NewDecision
  <2>6. p.status = "Revoked" => d.verdict # "Approved"
    <3>1. p.status = "Revoked" => Evaluate(p, r) = "AgentRevoked"
      BY DEF Evaluate, FirstRefusal
    <3>2. QED
      BY <2>5, <3>1 DEF JudgedReason, VerdictOf
  <2>7. decision' = [decision EXCEPT ![d.decision_id] = d]
    BY <1>3 DEF NewDecisionOf
  <2>8. CASE i = d.decision_id
    BY <2>2, <2>3, <2>4, <2>5, <2>6, <2>7, <2>8 DEF IInv, TypeOK
  <2>9. CASE i # d.decision_id
    BY <1>2, <2>7, <2>9 DEF IInv, TypeOK
  <2>10. QED
    BY <2>8, <2>9
<1>4. ASSUME NEW id \in DecisionIds, NEW reason \in ReasonCodes, AnswerOf(id, reason)
      PROVE  Goal
  <2> DEFINE d == decision[id]
             e == [d EXCEPT !.resolved_policy_version = policy[d.agent].version,
                            !.verdict = VerdictOf(reason), !.reason_code = reason,
                            !.resolved = TRUE]
  <2>1. d \in Decision /\ d # None /\ d.verdict = "RequiresApproval" /\ ~d.resolved
    BY <1>4 DEF AnswerOf, IInv, TypeOK
  <2>2. e # None /\ e \in Decision
    <3>1. policy[d.agent] \in Policy /\ VerdictOf(reason) \in Verdicts
      BY <2>1, VerdictFacts DEF IInv, TypeOK, AgentsStayRegistered, Decision
    <3>2. e \in Decision
      BY <2>1, <3>1 DEF Decision, Policy
    <3>3. QED
      BY <3>2, NoneAssumption
  <2>3. /\ e.agent = d.agent /\ e.settled = d.settled /\ e.verdict = VerdictOf(reason)
        /\ FrozenIn(d, e)
    BY <2>1, <2>2 DEF FrozenIn, Decision
  <2>4. e.verdict = "Approved" => policy[d.agent].status # "Revoked"
    BY <1>4, <2>3, VerdictFacts DEF AnswerOf
  <2>5. decision' = [decision EXCEPT ![id] = e]
    BY <1>4 DEF AnswerOf
  <2>6. CASE i = id
    BY <2>1, <2>2, <2>3, <2>4, <2>5, <2>6 DEF IInv, TypeOK
  <2>7. CASE i # id
    BY <1>2, <2>5, <2>7 DEF IInv, TypeOK
  <2>8. QED
    BY <2>6, <2>7
<1>5. ASSUME NEW id \in DecisionIds, SettlementOf(id)
      PROVE  Goal
  <2> DEFINE d == decision[id]
             e == [d EXCEPT !.settled = TRUE]
  <2>1. d \in Decision /\ d.verdict = "Approved" /\ policy[d.agent].status # "Revoked" /\ d # None
    BY <1>5 DEF SettlementOf, IInv, TypeOK
  <2>2. e # None
    <3>1. e \in Decision
      BY <2>1 DEF Decision
    <3>2. QED
      BY <3>1, NoneAssumption
  <2>3. e.agent = d.agent /\ FrozenIn(d, e)
    BY <2>1, <2>2 DEF FrozenIn, Decision
  <2>4. decision' = [decision EXCEPT ![id] = e]
    BY <1>5 DEF SettlementOf
  <2>5. CASE i = id
    BY <2>1, <2>2, <2>3, <2>4, <2>5 DEF IInv, TypeOK
  <2>6. CASE i # id
    BY <1>2, <2>4, <2>6 DEF IInv, TypeOK
  <2>7. QED
    BY <2>5, <2>6
<1>6. ASSUME decision' = decision
      PROVE  Goal
  BY <1>2, <1>6
<1> HIDE DEF Goal
<1>7. Goal
  BY <1>3, <1>4, <1>5, <1>6 DEF DecisionStep
<1>8. QED
  BY <1>7 DEF Goal

\* A stored decision is never rewritten beyond its one answer and its one
\* settlement.
THEOREM DecisionsFinal == Spec => DecisionsAreFinal
<1>1. IInv /\ [Next]_vars =>
        [\A id \in DecisionIds : decision[id] # None => FrozenIn(decision[id], decision'[id])]_vars
  BY NextIsDecisionStep, DecisionStepFacts
<1>2. QED
  BY <1>1, Invariance, PTL DEF Spec, DecisionsAreFinal

\* While an agent is revoked none of its decisions becomes Approved or settled.
THEOREM RevocationImmediate == Spec => RevocationIsImmediate
<1> DEFINE Act ==
      \A id \in DecisionIds :
          LET d == decision[id]
              e == decision'[id]
          IN e # None /\ policy[e.agent] # None /\ policy[e.agent].status = "Revoked" =>
                /\ e.verdict = "Approved" => d # None /\ d.verdict = "Approved"
                /\ e.settled => d # None /\ d.settled
<1>1. IInv /\ [Next]_vars => [Act]_vars
  <2> SUFFICES ASSUME IInv, [Next]_vars, NEW id \in DecisionIds,
                      decision'[id] # None, policy[decision'[id].agent].status = "Revoked"
               PROVE  /\ decision'[id].verdict = "Approved" =>
                             decision[id] # None /\ decision[id].verdict = "Approved"
                      /\ decision'[id].settled => decision[id] # None /\ decision[id].settled
    OBVIOUS
  <2>1. CASE decision'[id] = decision[id]
    BY <2>1
  <2>2. CASE decision'[id] # decision[id]
    BY <2>2, NextIsDecisionStep, DecisionStepFacts
  <2>3. QED
    BY <2>1, <2>2
<1>2. QED
  BY <1>1, Invariance, PTL DEF Spec, RevocationIsImmediate

----------------------------------------------------------------------------
(* The contract implements the lifecycle. *)

Stage == [h \in Hashes |-> StageOf(h)]

\* Rewriting one entry moves the stage of no other intent.
LEMMA OtherStagesStay ==
    ASSUME IInv, NEW h0 \in Hashes, NEW id \in DecisionIds,
           intentIndex[h0] \in {id, None},
           decision[id] # None => decision[id].intent_hash = h0,
           \A i \in DecisionIds : i # id => decision'[i] = decision[i],
           \A h \in Hashes : h # h0 => intentIndex'[h] = intentIndex[h]
    PROVE  Stage' = [Stage EXCEPT ![h0] = Stage'[h0]]
<1>1. ASSUME NEW h \in Hashes, h # h0
      PROVE  StageOf(h)' = StageOf(h)
  <2>1. intentIndex'[h] = intentIndex[h]
    BY <1>1
  <2>2. CASE intentIndex[h] = None
    BY <2>1, <2>2 DEF StageOf
  <2>3. CASE intentIndex[h] # None
    <3>1. intentIndex[h] # id
      BY <1>1, <2>3 DEF IInv, DecisionIndexed
    <3>2. decision'[intentIndex[h]] = decision[intentIndex[h]]
      BY <2>3, <3>1 DEF IInv, TypeOK
    <3>3. QED
      BY <2>1, <2>3, <3>2 DEF StageOf
  <2>4. QED
    BY <2>2, <2>3
<1>2. QED
  BY <1>1 DEF Stage

\* Every DecisionStep moves at most one intent, along the lifecycle.
LEMMA DecisionStepIsLifecycle ==
    ASSUME IInv, IInv', DecisionStep
    PROVE  [Lifecycle!Next]_Stage
<1> USE DEF Lifecycle!Next, Lifecycle!Judge, Lifecycle!Answer, Lifecycle!Settle, Lifecycle!Move
<1>1. CASE decision' = decision /\ intentIndex' = intentIndex
  <2>1. \A h \in Hashes : StageOf(h)' = StageOf(h)
    BY <1>1 DEF StageOf
  <2>2. QED
    BY <2>1 DEF Stage
<1>2. ASSUME NEW r \in Requests, NewDecisionOf(r)
      PROVE  [Lifecycle!Next]_Stage
  <2> DEFINE p == policy[r.agent]
             h0 == r.intent_hash
  <2>1. r \in Request /\ p \in Policy /\ h0 \in Hashes
    BY <1>2, ArgsAssumption DEF NewDecisionOf, Request, IInv, TypeOK
  <2> PICK d : d = NewDecision(r, p, JudgedReason(p, r))
    OBVIOUS
  <2> DEFINE id == d.decision_id
  <2>2. /\ d \in Decision /\ d.intent_hash = h0 /\ d # None
        /\ d.decision_id = DeriveDecisionId(d.intent_hash, d.policy_version)
    BY <1>2, <2>1, NewDecisionFacts DEF IInv, NewDecisionOf
  <2>3. id \in DecisionIds /\ id # None
    BY <2>2, NoneAssumption DEF Decision
  <2>4. /\ decision' = [decision EXCEPT ![id] = d]
        /\ intentIndex' = [intentIndex EXCEPT ![h0] = id]
        /\ intentIndex[h0] = None
    BY <1>2 DEF NewDecisionOf
  <2>5. decision[id] # None => decision[id].intent_hash = h0
    BY <2>2, <2>3 DEF IInv, DecisionIndexed, DeriveDecisionId
  <2>6. Stage' = [Stage EXCEPT ![h0] = Stage'[h0]]
    <3>1. /\ \A i \in DecisionIds : i # id => decision'[i] = decision[i]
          /\ \A h \in Hashes : h # h0 => intentIndex'[h] = intentIndex[h]
      BY <2>4 DEF IInv, TypeOK
    <3>2. QED
      BY <2>1, <2>3, <2>4, <2>5, <3>1, OtherStagesStay
  <2>7. Stage[h0] = "None"
    BY <2>1, <2>4 DEF Stage, StageOf
  <2>8. StageOf(h0)' \in {"Pending", "Approved", "Rejected"}
    <3>1. decision'[id] = d /\ intentIndex'[h0] = id
      BY <2>1, <2>3, <2>4 DEF IInv, TypeOK
    <3>2. d.settled = FALSE /\ d.verdict \in Verdicts
      BY <2>2 DEF NewDecision, Decision
    <3>3. QED
      BY <2>3, <3>1, <3>2 DEF StageOf, Verdicts
  <2>9. QED
    BY <2>1, <2>6, <2>7, <2>8 DEF Stage
<1>3. ASSUME NEW id \in DecisionIds, NEW e, NEW h0 \in Hashes, intentIndex[h0] = id,
             decision[id].intent_hash = h0,
             decision' = [decision EXCEPT ![id] = e], intentIndex' = intentIndex,
             \/ StageOf(h0) = "Pending" /\ StageOf(h0)' \in {"Approved", "Rejected"}
             \/ StageOf(h0) = "Approved" /\ StageOf(h0)' = "Settled"
      PROVE  [Lifecycle!Next]_Stage
  <2>1. \A i \in DecisionIds : i # id => decision'[i] = decision[i]
    BY <1>3 DEF IInv, TypeOK
  <2>2. Stage' = [Stage EXCEPT ![h0] = Stage'[h0]]
    BY <1>3, <2>1, OtherStagesStay
  <2>3. Stage[h0] = StageOf(h0)
    BY <1>3 DEF Stage
  <2>4. QED
    BY <1>3, <2>2, <2>3 DEF Stage
<1>4. ASSUME NEW id \in DecisionIds, NEW reason \in ReasonCodes, AnswerOf(id, reason)
      PROVE  [Lifecycle!Next]_Stage
  <2> DEFINE d == decision[id]
             e == [d EXCEPT !.resolved_policy_version = policy[d.agent].version,
                            !.verdict = VerdictOf(reason), !.reason_code = reason,
                            !.resolved = TRUE]
  <2>1. d \in Decision /\ d # None /\ d.verdict = "RequiresApproval" /\ ~d.settled
    BY <1>4 DEF AnswerOf, IInv, TypeOK, DecisionTrail, TrailOf
  <2>2. PICK h0 \in Hashes : h0 = d.intent_hash /\ intentIndex[h0] = id /\ id # None
    BY <2>1, NoneAssumption DEF IInv, TypeOK, DecisionIndexed, Decision
  <2>3. decision' = [decision EXCEPT ![id] = e] /\ intentIndex' = intentIndex
    BY <1>4 DEF AnswerOf
  <2>4. decision'[id] = e
    BY <2>3 DEF IInv, TypeOK
  <2>5. e.verdict = VerdictOf(reason) /\ e.settled = d.settled
    BY <2>1 DEF Decision
  <2>6. VerdictOf(reason) \in {"Approved", "Rejected"}
    BY <1>4, VerdictFacts DEF AnswerOf, Verdicts
  <2>7. StageOf(h0) = "Pending"
    BY <2>1, <2>2 DEF StageOf
  <2>8. StageOf(h0)' \in {"Approved", "Rejected"}
    BY <2>1, <2>2, <2>3, <2>4, <2>5, <2>6 DEF StageOf
  <2>9. QED
    BY <1>3, <2>2, <2>3, <2>7, <2>8
<1>5. ASSUME NEW id \in DecisionIds, SettlementOf(id)
      PROVE  [Lifecycle!Next]_Stage
  <2> DEFINE d == decision[id]
             e == [d EXCEPT !.settled = TRUE]
  <2>1. d \in Decision /\ d # None /\ d.verdict = "Approved" /\ ~d.settled
    BY <1>5 DEF SettlementOf, IInv, TypeOK
  <2>2. PICK h0 \in Hashes : h0 = d.intent_hash /\ intentIndex[h0] = id /\ id # None
    BY <2>1, NoneAssumption DEF IInv, TypeOK, DecisionIndexed, Decision
  <2>3. decision' = [decision EXCEPT ![id] = e] /\ intentIndex' = intentIndex
    BY <1>5 DEF SettlementOf
  <2>4. decision'[id] = e /\ e.settled = TRUE
    BY <2>1, <2>3 DEF IInv, TypeOK, Decision
  <2>5. StageOf(h0) = "Approved"
    BY <2>1, <2>2 DEF StageOf
  <2>6. StageOf(h0)' = "Settled"
    BY <2>2, <2>3, <2>4 DEF StageOf
  <2>7. QED
    BY <1>3, <2>2, <2>3, <2>5, <2>6
<1>6. QED
  BY <1>1, <1>2, <1>4, <1>5 DEF DecisionStep

\* The contract, whatever its policies and windows do, makes of every intent
\* the lifecycle the gateway and the executor rely on.
THEOREM ContractImplementsLifecycle == Spec => ImplementsLifecycle
<1>1. Init => Lifecycle!Init
  BY DEF Init, Lifecycle!Init, StageOf
<1>2. IInv /\ IInv' /\ [Next]_vars => [Lifecycle!Next]_Stage
  BY NextIsDecisionStep, DecisionStepIsLifecycle
<1>3. QED
  BY <1>1, <1>2, Invariance, PTL DEF Spec, ImplementsLifecycle, Lifecycle!Spec, Stage

----------------------------------------------------------------------------
(* The console beside the contract.                                         *)

\* The predicate printed for a reason that evaluate() gave is true of the policy and of the window
\* it was given by.
LEMMA RuleOfEvaluate ==
    ASSUME TypeOK, NEW p \in Policy, NEW r \in Request, NEW d,
           d.amount = r.amount, d.service_id = r.service_id, d.asset = r.asset
    PROVE  RuleHolds(Evaluate(p, r), d, p, GetWindow(p).spent)
<1>1. GetWindow(p).spent = WindowSpent(p)
  BY DEF GetWindow, WindowSpent
<1>2. /\ p.status \in AgentStatus /\ WindowSpent(p) \in Int /\ r.amount \in Int
      /\ p.per_intent_cap \in Int /\ p.approval_threshold \in Int /\ p.cumulative_window_cap \in Int
  <2>1. p.agent \in Agents
    BY DEF Policy
  <2>2. IsLive(window[p.agent], p) => window[p.agent] \in WindowState
    BY <2>1 DEF TypeOK, IsLive
  <2>3. QED
    BY <2>2 DEF WindowSpent, WindowState, Policy, Request, I128
<1>3. PICK spent : spent = WindowSpent(p) /\ spent \in Int
  BY <1>2
<1>4. RuleHolds(Evaluate(p, r), d, p, spent)
  <2>1. CASE FirstRefusal(p, r) # "Ok"
    BY <2>1, <1>2 DEF RuleHolds, Evaluate, FirstRefusal
  <2>2. CASE FirstRefusal(p, r) = "Ok"
    <3>1. /\ p.status # "Revoked" /\ r.service_id \in p.allowed_services
          /\ r.asset = p.allowed_asset /\ ~(r.amount > p.per_intent_cap)
      BY <2>2 DEF FirstRefusal
    <3>2. p.status = "Active" /\ r.amount <= p.per_intent_cap
      BY <1>2, <3>1 DEF AgentStatus
    <3>3. Evaluate(p, r) = IF spent + r.amount > p.cumulative_window_cap THEN "WindowCapExceeded"
                           ELSE IF r.amount > p.approval_threshold THEN "PendingApproval" ELSE "Ok"
      BY <1>3, <2>2 DEF Evaluate
    <3>4. CASE spent + r.amount > p.cumulative_window_cap
      BY <3>3, <3>4 DEF RuleHolds
    <3>5. CASE ~(spent + r.amount > p.cumulative_window_cap) /\ r.amount > p.approval_threshold
      BY <3>2, <3>3, <3>5 DEF RuleHolds
    <3>6. CASE ~(spent + r.amount > p.cumulative_window_cap) /\ ~(r.amount > p.approval_threshold)
      <4>1. r.amount <= p.approval_threshold /\ spent + r.amount <= p.cumulative_window_cap
        BY <1>2, <1>3, <3>6
      <4>2. QED
        BY <3>1, <3>2, <3>3, <3>6, <4>1 DEF RuleHolds
    <3>7. QED
      BY <3>4, <3>5, <3>6
  <2>3. QED
    BY <2>1, <2>2
<1>5. QED
  BY <1>1, <1>3, <1>4

\* A step judges a decision when authorize() stores it and when resolve() answers it.
FirstJudgement(id, r) ==
    /\ r \in Requests /\ r.amount > 0 /\ policy[r.agent] # None
    /\ decision[id] = None
    /\ decision'[id] = NewDecision(r, policy[r.agent], JudgedReason(policy[r.agent], r))

SecondJudgement(id, approve) ==
    LET d == decision[id]
        p == policy[d.agent]
        reason == ResolvedReason(d, p, approve)
    IN  /\ d # None /\ d.verdict = "RequiresApproval" /\ ~d.resolved
        /\ decision'[id] = [d EXCEPT !.resolved_policy_version = p.version, !.verdict = VerdictOf(reason),
                                     !.reason_code = reason, !.resolved = TRUE]

\* No other step gives a decision its verdict: a settlement keeps it.
LEMMA JudgementKinds ==
    ASSUME IInv, [Next]_vars, NEW id \in DecisionIds, Judged(id)
    PROVE  \/ \E r \in Requests : FirstJudgement(id, r)
           \/ \E approve \in BOOLEAN : SecondJudgement(id, approve)
<1>1. decision' # decision
  BY DEF Judged
<1>2. ~UNCHANGED vars /\ ~CloseLedger
  BY <1>1 DEF vars, CloseLedger
<1>3. PICK signers \in SignerSets : Call(signers)
  BY <1>2 DEF Next
<1>4. CASE \E caller \in Accounts, r \in Requests : Authorize(signers, caller, r)
  <2>1. PICK caller \in Accounts, r \in Requests : Authorize(signers, caller, r)
    BY <1>4
  <2>2. r.amount > 0 /\ AuthorizeNew(r)
    BY <1>1, <2>1 DEF Authorize, AuthorizeReplay, vars
  <2>3. PICK d : d = NewDecision(r, policy[r.agent], JudgedReason(policy[r.agent], r))
    OBVIOUS
  <2>4. decision' = [decision EXCEPT ![d.decision_id] = d] /\ policy[r.agent] # None
    BY <2>2, <2>3 DEF AuthorizeNew
  <2>5. decision[d.decision_id] = None
    <3>1. intentIndex[r.intent_hash] = None
      BY <1>1, <2>1 DEF Authorize, AuthorizeReplay, vars
    <3>2. r \in Request /\ policy[r.agent] \in Policy
      BY <2>4, ArgsAssumption DEF Request, IInv, TypeOK
    <3>3. d.decision_id = DeriveDecisionId(r.intent_hash, policy[r.agent].version)
      BY <2>3 DEF NewDecision
    <3>4. d.decision_id \in DecisionIds
      BY <3>2, <3>3 DEF DecisionIds, DeriveDecisionId, Request, Policy
    <3>5. SUFFICES ASSUME decision[d.decision_id] # None PROVE FALSE
      OBVIOUS
    <3>6. decision[d.decision_id].intent_hash = r.intent_hash
      BY <3>3, <3>4, <3>5 DEF IInv, DecisionIndexed, DeriveDecisionId
    <3>7. QED
      BY <3>1, <3>4, <3>5, <3>6, NoneAssumption DEF IInv, DecisionIndexed
  <2>6. id = d.decision_id
    BY <2>4 DEF Judged, IInv, TypeOK
  <2>7. decision'[id] = d
    BY <2>4, <2>6 DEF IInv, TypeOK
  <2>8. QED
    BY <2>2, <2>3, <2>4, <2>5, <2>6, <2>7 DEF FirstJudgement
<1>5. CASE \E i \in DecisionIds, approve \in BOOLEAN : Resolve(signers, i, approve)
  <2>1. PICK i \in DecisionIds, approve \in BOOLEAN : Resolve(signers, i, approve)
    BY <1>5
  <2>2. i = id
    BY <2>1 DEF Resolve, Judged, IInv, TypeOK
  <2>3. QED
    BY <2>1, <2>2 DEF Resolve, ResolveError, SecondJudgement, IInv, TypeOK
<1>6. CASE \E caller \in Accounts, i \in DecisionIds : MarkSettled(signers, caller, i)
  <2>1. PICK caller \in Accounts, i \in DecisionIds : MarkSettled(signers, caller, i)
    BY <1>6
  <2>2. decision[i] # None /\ decision[i] \in Decision
    BY <2>1 DEF MarkSettled, MarkSettledError, IInv, TypeOK
  <2>3. [decision[i] EXCEPT !.settled = TRUE].verdict = decision[i].verdict
    BY <2>2 DEF Decision
  <2>4. decision' = [decision EXCEPT ![i] = [decision[i] EXCEPT !.settled = TRUE]]
    BY <2>1 DEF MarkSettled
  <2>5. QED
    BY <2>2, <2>3, <2>4 DEF Judged, IInv, TypeOK
<1>7. QED
  BY <1>1, <1>3, <1>4, <1>5, <1>6 DEF Call, ContractInit, SetOperator, RegisterAgent, SetPolicy,
         RevokeAgent, PutPolicy

\* What the console says of a decision judged for the first time.
LEMMA FirstJudgementShown ==
    ASSUME IInv, NEW id \in DecisionIds, NEW r \in Requests, FirstJudgement(id, r)
    PROVE  ToldTruly(id)
<1>1. PICK d, p : d = decision'[id] /\ p = policy[r.agent]
  OBVIOUS
<1>2. r \in Request /\ p \in Policy /\ p # None
  BY <1>1, ArgsAssumption DEF FirstJudgement, Request, IInv, TypeOK
<1>3. d = NewDecision(r, p, JudgedReason(p, r)) /\ d.agent = r.agent
  BY <1>1 DEF FirstJudgement, NewDecision
<1>4. RequestOf(d) = r
  BY <1>2, <1>3 DEF RequestOf, NewDecision, Request
<1>5. JudgedReason(p, r) = Evaluate(p, r)
  BY <1>2, ChargeAgrees DEF JudgedReason, VerdictOf, IInv
<1>6. /\ d.reason_code = Evaluate(p, r) /\ d.original_reason_code = Evaluate(p, r)
      /\ d.verdict = VerdictOf(Evaluate(p, r)) /\ ~d.resolved
      /\ d.resolved_policy_version = None /\ d.policy_version = p.version
      /\ d.amount = r.amount /\ d.service_id = r.service_id /\ d.asset = r.asset
  BY <1>3, <1>5 DEF NewDecision
<1>7. Escalation(d) = IF Evaluate(p, RequestOf(d)) = "PendingApproval" THEN "pending" ELSE "none"
  BY <1>4, <1>6 DEF Escalation, VerdictOf
<1>8. ExplainRule(d, p, GetWindow(p).spent)
  BY <1>2, <1>6, RuleOfEvaluate DEF ExplainRule, IInv
<1>9. ExplainOriginalRule(d) = None /\ RejudgedCaveat(d) = None /\ PolicyCaveat(d, p) = "applied"
  BY <1>2, <1>6 DEF ExplainOriginalRule, RejudgedCaveat, PolicyCaveat
<1>10. decision[id] = None
  BY DEF FirstJudgement
<1>11. QED
  BY <1>1, <1>3, <1>7, <1>8, <1>9, <1>10 DEF ToldTruly

\* What it says of one the owner answered.
LEMMA SecondJudgementShown ==
    ASSUME IInv, NEW id \in DecisionIds, NEW approve \in BOOLEAN, SecondJudgement(id, approve)
    PROVE  ToldTruly(id)
<1>1. PICK c, d, p, r : c = decision[id] /\ d = decision'[id] /\ p = policy[c.agent] /\ r = RequestOf(c)
  OBVIOUS
<1>2. c \in Decision /\ c # None /\ c.verdict = "RequiresApproval" /\ ~c.resolved /\ TrailOf(c)
  BY <1>1 DEF SecondJudgement, IInv, TypeOK, DecisionTrail
<1>3. p \in Policy /\ p # None /\ p.version \in U32 /\ p.version # None
  BY <1>1, <1>2, NoneAssumption DEF IInv, TypeOK, AgentsStayRegistered, Decision, Policy
<1>4. r \in Request
  BY <1>1, <1>2, WidthAssumption DEF Decision, RequestOf, Request, I128
<1>5. PICK reason : reason = ResolvedReason(c, p, approve)
  OBVIOUS
<1>6. d = [c EXCEPT !.resolved_policy_version = p.version, !.verdict = VerdictOf(reason),
                    !.reason_code = reason, !.resolved = TRUE]
  BY <1>1, <1>5 DEF SecondJudgement
<1>7. /\ d.agent = c.agent /\ d.resolved /\ d.resolved_policy_version = p.version
      /\ d.reason_code = reason /\ d.verdict = VerdictOf(reason)
      /\ d.original_reason_code = c.original_reason_code /\ d.policy_version = c.policy_version
      /\ d.amount = c.amount /\ d.service_id = c.service_id /\ d.asset = c.asset
  BY <1>2, <1>6 DEF Decision
<1>8. c.original_reason_code = c.reason_code /\ c.reason_code = "PendingApproval"
  BY <1>2 DEF TrailOf, VerdictOf
<1>9. VerdictOf(Evaluate(p, r)) # "Rejected" => ChargeFits(p, c.amount)
  BY <1>1, <1>3, <1>4, ChargeAgrees DEF IInv, RequestOf
<1>10. \/ reason = "OwnerRejected"
       \/ reason = "Ok"
       \/ reason = Evaluate(p, r) /\ VerdictOf(Evaluate(p, r)) = "Rejected"
  BY <1>1, <1>5, <1>9 DEF ResolvedReason
<1>11. reason # "PendingApproval"
  BY <1>10 DEF VerdictOf
<1>12. Escalation(d) = "resolved" /\ ExplainOriginalRule(d) = c.reason_code
  BY <1>7, <1>8, <1>11 DEF Escalation, ExplainOriginalRule
<1>13. RejudgedCaveat(d) \in {None, p.version} /\ (PolicyCaveat(d, p) = "applied" <=> RejudgedCaveat(d) = None)
  BY <1>3, <1>7 DEF RejudgedCaveat, PolicyCaveat
<1>14. reason = "OwnerRejected" => ExplainRule(d, p, GetWindow(p).spent)
  BY <1>7 DEF ExplainRule, RuleHolds
<1>15. reason = "Ok" => d.verdict = "Approved"
  BY <1>7 DEF VerdictOf
<1>16. reason = Evaluate(p, r) => ExplainRule(d, p, GetWindow(p).spent)
  <2>1. r.amount = c.amount /\ r.service_id = c.service_id /\ r.asset = c.asset
    BY <1>1 DEF RequestOf
  <2>2. RuleHolds(Evaluate(p, r), d, p, GetWindow(p).spent)
    BY <1>3, <1>4, <1>7, <2>1, RuleOfEvaluate DEF IInv
  <2>3. QED
    BY <1>7, <2>2 DEF ExplainRule
<1>17. d.verdict = "Approved" \/ ExplainRule(d, p, GetWindow(p).spent)
  BY <1>10, <1>14, <1>15, <1>16
<1>18. QED
  BY <1>1, <1>2, <1>7, <1>12, <1>13, <1>17 DEF ToldTruly

\* What the endpoint answers of a stored decision, by the reference the verb takes.
LEMMA FoundByItsReference ==
    ASSUME IInv', NEW id \in DecisionIds, decision'[id] # None, NEW ref, NEW via,
           \/ via = "decision" /\ ref = id
           \/ via = "intent" /\ ref = decision'[id].intent_hash,
           NEW rpc \in Endpoint
    PROVE  LET shown == Lookup(Simulate(via, ref, rpc))'
           IN  IF via \in rpc.down THEN shown = [status |-> "unreadable"]
               ELSE shown = IF "decision" \in rpc.expired \/ (via = "intent" /\ rpc.expired # {})
                            THEN [status |-> "archived"] ELSE [status |-> "found", decision |-> decision'[id]]
<1>1. PICK d : d = decision'[id]
  OBVIOUS
<1>2. d # None /\ d \in Decision /\ d.intent_hash \in Hashes /\ intentIndex'[d.intent_hash] = id
  BY <1>1 DEF IInv, TypeOK, DecisionIndexed, Decision
<1>3. PICK needed : needed = IF via = "decision" THEN {"decision"} ELSE {"index", "decision"}
  OBVIOUS
<1>4. Simulate(via, ref, rpc)' = IF via \in rpc.down THEN [Transaction EXCEPT !.thrown = TRUE, !.error = "network"]
                                 ELSE IF rpc.expired \cap needed # {} THEN Expired(rpc.saying)
                                 ELSE [Transaction EXCEPT !.value = d]
  BY <1>1, <1>2, <1>3 DEF Simulate
<1>5. rpc.saying \in {"throws", "error", "restore"} /\ rpc.expired \subseteq {"index", "decision"}
  BY DEF Endpoint
<1>6. rpc.expired \cap needed # {} <=> "decision" \in rpc.expired \/ (via = "intent" /\ rpc.expired # {})
  BY <1>3, <1>5
<1>7. CASE via \in rpc.down
  BY <1>4, <1>7 DEF Lookup, ClassifyThrow, Transaction
<1>8. CASE via \notin rpc.down /\ rpc.expired \cap needed # {}
  BY <1>4, <1>5, <1>6, <1>8 DEF Lookup, ClassifyThrow, Transaction, Expired
<1>9. CASE via \notin rpc.down /\ ~(rpc.expired \cap needed # {})
  BY <1>1, <1>2, <1>4, <1>6, <1>9 DEF Lookup, ClassifyThrow, Transaction
<1>10. QED
  BY <1>7, <1>8, <1>9

\* The other verb has never heard of it.
LEMMA MissedByTheOther ==
    ASSUME IInv', NEW id \in DecisionIds, decision'[id] # None, NEW ref, NEW via,
           \/ via = "intent" /\ ref = id
           \/ via = "decision" /\ ref = decision'[id].intent_hash,
           NEW rpc \in Endpoint
    PROVE  Lookup(Simulate(via, ref, rpc))' = [status |-> IF via \in rpc.down THEN "unreadable" ELSE "absent"]
<1>1. decision'[id].intent_hash \in Hashes
  BY DEF IInv, TypeOK, Decision
<1>2. Simulate(via, ref, rpc)' = IF via \in rpc.down THEN [Transaction EXCEPT !.thrown = TRUE, !.error = "network"]
                                 ELSE [Transaction EXCEPT !.error = "DecisionNotFound"]
  BY <1>1, ReferenceAssumption, NoneAssumption DEF Simulate
<1>3. CASE via \in rpc.down
  BY <1>2, <1>3 DEF Lookup, ClassifyThrow, Transaction
<1>4. CASE via \notin rpc.down
  <2>1. Simulate(via, ref, rpc)' = [thrown |-> FALSE, error |-> "DecisionNotFound", restore |-> FALSE, value |-> None]
    BY <1>2, <1>4 DEF Transaction
  <2>2. ContractErrorName("DecisionNotFound") = "DecisionNotFound" /\ "DecisionNotFound" # None
    BY ErrorAssumption DEF ContractErrorName
  <2>3. QED
    BY <1>4, <2>1, <2>2 DEF Lookup
<1>5. QED
  BY <1>3, <1>4

\* Whatever the link's verb, one of the two finds it.
LEMMA FetchFinds ==
    ASSUME IInv', NEW id \in DecisionIds, decision'[id] # None,
           NEW ref \in {id, decision'[id].intent_hash}, NEW prefer \in {"intent", "decision"},
           NEW rpc \in Endpoint
    PROVE  FetchedTruly(id, ref, prefer, rpc)
<1>1. decision'[id].intent_hash \in Hashes /\ id \notin Hashes
  BY ReferenceAssumption DEF IInv, TypeOK, Decision
<1>2. PICK via, other : /\ via = IF ref = id THEN "decision" ELSE "intent"
                        /\ other = IF ref = id THEN "intent" ELSE "decision"
  OBVIOUS
<1>3. via = "intent" <=> ref = decision'[id].intent_hash
  BY <1>1, <1>2
<1>4. PICK found, missed : found = Lookup(Simulate(via, ref, rpc))' /\ missed = Lookup(Simulate(other, ref, rpc))'
  OBVIOUS
<1>5. IF via \in rpc.down THEN found = [status |-> "unreadable"]
      ELSE found = IF "decision" \in rpc.expired \/ (via = "intent" /\ rpc.expired # {})
                   THEN [status |-> "archived"] ELSE [status |-> "found", decision |-> decision'[id]]
  BY <1>2, <1>4, FoundByItsReference
<1>6. missed = [status |-> IF other \in rpc.down THEN "unreadable" ELSE "absent"]
  BY <1>2, <1>4, MissedByTheOther
<1>7. CASE prefer = via
  <2>1. FetchEvidence(ref, prefer, rpc)' = IF found.status = "absent" /\ missed.status # "absent" THEN missed ELSE found
    BY <1>2, <1>4, <1>7 DEF FetchEvidence
  <2>2. QED
    BY <1>3, <1>5, <2>1 DEF FetchedTruly
<1>8. CASE prefer = other
  <2>1. FetchEvidence(ref, prefer, rpc)' = IF missed.status = "absent" /\ found.status # "absent" THEN found ELSE missed
    BY <1>2, <1>4, <1>8 DEF FetchEvidence
  <2>2. QED
    BY <1>3, <1>5, <1>6, <2>1 DEF FetchedTruly
<1>9. QED
  BY <1>2, <1>7, <1>8

\* Asked by either reference with either verb, the console finds what a step has just judged and
\* tells its history; what it prints as the rule is true, unless the owner approved it by hand.
THEOREM EvidenceTells == Spec => EvidenceIsTrue
<1>1. ASSUME IInv, [Next]_vars, NEW id \in DecisionIds, Judged(id)
      PROVE  /\ \A ref \in {id, decision'[id].intent_hash}, prefer \in {"intent", "decision"}, rpc \in Endpoint :
                   FetchedTruly(id, ref, prefer, rpc)
             /\ ToldTruly(id)
  <2>1. IInv' /\ decision'[id] # None
    BY <1>1, IInvInductive DEF Judged
  <2>2. \A ref \in {id, decision'[id].intent_hash}, prefer \in {"intent", "decision"}, rpc \in Endpoint :
           FetchedTruly(id, ref, prefer, rpc)
    BY <2>1, FetchFinds
  <2>3. ToldTruly(id)
    BY <1>1, JudgementKinds, FirstJudgementShown, SecondJudgementShown
  <2>4. QED
    BY <2>2, <2>3
<1>2. IInv /\ [Next]_vars =>
        [\A id \in DecisionIds : Judged(id) =>
            /\ \A ref \in {id, decision'[id].intent_hash}, prefer \in {"intent", "decision"}, rpc \in Endpoint :
                  FetchedTruly(id, ref, prefer, rpc)
            /\ ToldTruly(id)]_vars
  BY <1>1
<1>3. QED
  BY <1>2, Invariance, PTL DEF Spec, EvidenceIsTrue
=============================================================================
