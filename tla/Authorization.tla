---------------------------- MODULE Authorization ----------------------------
(***************************************************************************)
(* The AEGIS authorization contract: contracts/authorization/src/lib.rs.   *)
(*                                                                         *)
(* One step is one contract invocation.  The host runs an invocation       *)
(* atomically: an Err, a failed require_auth or an arithmetic trap rolls   *)
(* every write of the invocation back, so a refused call is a call whose   *)
(* action is not enabled.  Integers keep their width (the release profile  *)
(* sets overflow-checks, so an overflow traps).                            *)
(*                                                                         *)
(* Left out: event publication, TTL extension, and Policy.owner, which no  *)
(* entry point reads.  sha256 is modelled by the injective tuple of what   *)
(* it is applied to.                                                       *)
(***************************************************************************)
EXTENDS Integers, FiniteSets

CONSTANTS
    Accounts,       \* addresses that can sign
    Agents,         \* the addresses policies are registered for
    Services,       \* service ids
    Assets,         \* SAC addresses
    Hashes,         \* intent hashes
    None,           \* an absent storage entry, and Option::None
    MaxU32,         \* largest u32: policy version, ledger sequence
    MaxU64,         \* largest u64: ledger timestamp, window_seconds
    MaxI128,        \* largest i128: amounts and caps
    MaxTime,        \* the latest time a ledger closes at; bounds the clock of a model
    Deployer,       \* the account that runs init() after deployment
    OperatorArgs,   \* arguments set_operator() is called with
    PolicyArgs,     \* arguments register_agent() and set_policy() are called with
    Requests,       \* argument tuples authorize() is called with
    SignerSets      \* sets of addresses whose signatures an invocation carries

U32  == 0 .. MaxU32
U64  == 0 .. MaxU64
I128 == (-MaxI128 - 1) .. MaxI128

AgentStatus == {"Active", "Revoked"}
Verdicts == {"Approved", "Rejected", "RequiresApproval"}
ReasonCodes == {"Ok", "CapExceeded", "ServiceNotAllowed", "AssetMismatch", "AgentRevoked",
                "WindowCapExceeded", "PendingApproval", "OwnerRejected"}

Policy == [version : U32, agent : Agents, allowed_services : SUBSET Services,
           allowed_asset : Assets, per_intent_cap : I128, cumulative_window_cap : I128,
           window_seconds : U64, approval_threshold : I128, status : AgentStatus]

WindowState == [window_start : U64, spent : I128]

Request == [intent_hash : Hashes, agent : Agents, service_id : Services,
            asset : Assets, amount : I128]

\* derive_decision_id hashes the intent hash with the policy version.
DecisionIds == Hashes \X U32
DeriveDecisionId(intent_hash, version) == <<intent_hash, version>>

Decision == [decision_id : DecisionIds, intent_hash : Hashes, agent : Agents,
             service_id : Services, asset : Assets, amount : 1 .. MaxI128,
             policy_version : U32, resolved_policy_version : U32 \cup {None},
             verdict : Verdicts, reason_code : ReasonCodes,
             original_reason_code : ReasonCodes, ledger_seq : U32,
             resolved : BOOLEAN, settled : BOOLEAN]

ASSUME WidthAssumption == MaxU32 \in Nat /\ MaxU64 \in Nat /\ MaxI128 \in Nat
                          /\ 1 \in U32 /\ MaxTime \in U64 /\ MaxTime >= 1
ASSUME ArgsAssumption == /\ Requests \subseteq Request
                         /\ PolicyArgs \subseteq Policy
                         /\ Deployer \in Accounts
                         /\ OperatorArgs \subseteq Accounts
                         /\ Agents \subseteq Accounts
                         /\ SignerSets \subseteq SUBSET Accounts
\* None is no address, no storage value and no u32.
ASSUME NoneAssumption == None \notin Accounts \cup Policy \cup WindowState \cup Decision
                                     \cup DecisionIds \cup U32

VARIABLES
    owner,          \* DataKey::Owner
    operator,       \* DataKey::Operator
    policy,         \* DataKey::Policy(agent)
    window,         \* DataKey::Window(agent)
    decision,       \* DataKey::Decision(decision_id)
    intentIndex,    \* DataKey::IntentIndex(intent_hash)
    sequence,       \* the sequence of the ledger being built
    timestamp       \* the timestamp of the ledger being built

adminVars == <<owner, operator>>
ledgerVars == <<sequence, timestamp>>
vars == <<owner, operator, policy, window, decision, intentIndex, sequence, timestamp>>

Init ==
    /\ owner = None
    /\ operator = None
    /\ policy = [a \in Agents |-> None]
    /\ window = [a \in Agents |-> None]
    /\ decision = [id \in DecisionIds |-> None]
    /\ intentIndex = [h \in Hashes |-> None]
    /\ sequence = 1
    /\ timestamp = 1

----------------------------------------------------------------------------
(* Who may call. *)

RequireOwner(signers) == owner # None /\ owner \in signers

\* The delegated caller: the named address signs, and is the owner or the operator.
RequireCaller(signers, caller) ==
    /\ caller \in signers
    /\ owner # None
    /\ caller = owner \/ caller = operator

----------------------------------------------------------------------------
(* The tumbling window. *)

\* The end of the window a policy gives a stored window state; u64 arithmetic.
WindowEnd(w, p) == w.window_start + p.window_seconds

\* Mutant: the stored window is compared with its start instead of its end.
IsLiveMutant(w, p) == w # None /\ timestamp < w.window_start

IsLive(w, p) == w # None /\ timestamp < WindowEnd(w, p)

\* Mutant: the reader drops the spent total one second before the charge does.
WindowSpentMutant(p) ==
    IF IsLive(window[p.agent], p) /\ timestamp + 1 < WindowEnd(window[p.agent], p)
    THEN window[p.agent].spent ELSE 0

WindowSpent(p) == IF IsLive(window[p.agent], p) THEN window[p.agent].spent ELSE 0

\* Mutant: the total restarts in a new epoch, but the epoch does not.
ChargedWindowMutantStart(p, amount) ==
    IF IsLive(window[p.agent], p)
    THEN [window[p.agent] EXCEPT !.spent = @ + amount]
    ELSE [window_start |-> IF window[p.agent] = None THEN timestamp
                           ELSE window[p.agent].window_start, spent |-> amount]

\* Mutant: the charge replaces the total instead of adding to it.
ChargedWindowMutantAdd(p, amount) ==
    IF IsLive(window[p.agent], p)
    THEN [window[p.agent] EXCEPT !.spent = amount]
    ELSE [window_start |-> timestamp, spent |-> amount]

\* The state charge_window would write, reset when the epoch is over.
ChargedWindow(p, amount) ==
    IF IsLive(window[p.agent], p)
    THEN [window[p.agent] EXCEPT !.spent = @ + amount]
    ELSE [window_start |-> timestamp, spent |-> amount]

ChargeFits(p, amount) == ChargedWindow(p, amount).spent <= p.cumulative_window_cap

----------------------------------------------------------------------------
(* Evaluation of an intent against a policy. *)

\* The rules before the window rule, in the order the code applies them.
FirstRefusal(p, r) ==
    IF p.status = "Revoked" THEN "AgentRevoked"
    ELSE IF r.service_id \notin p.allowed_services THEN "ServiceNotAllowed"
    ELSE IF r.asset # p.allowed_asset THEN "AssetMismatch"
    ELSE IF r.amount > p.per_intent_cap THEN "CapExceeded"
    ELSE "Ok"

Evaluate(p, r) ==
    IF FirstRefusal(p, r) # "Ok" THEN FirstRefusal(p, r)
    ELSE IF WindowSpent(p) + r.amount > p.cumulative_window_cap THEN "WindowCapExceeded"
    ELSE IF r.amount > p.approval_threshold THEN "PendingApproval"
    ELSE "Ok"

VerdictOf(reason) == CASE reason = "Ok" -> "Approved"
                       [] reason = "PendingApproval" -> "RequiresApproval"
                       [] OTHER -> "Rejected"

\* Mutant: the addition comes before the rules that bound the amount.
EvaluateTrapsMutant(p, r) == WindowSpent(p) + r.amount > MaxI128

\* The two additions of the window rule, reached only past the first four
\* rules, that trap when they leave their integer type.
EvaluateTraps(p, r) ==
    /\ FirstRefusal(p, r) = "Ok"
    /\ \/ window[p.agent] # None /\ WindowEnd(window[p.agent], p) > MaxU64
       \/ WindowSpent(p) + r.amount > MaxI128

----------------------------------------------------------------------------
(* Lifecycle entry points. *)

ContractInit(signers) ==
    /\ owner = None
    /\ Deployer \in signers
    /\ owner' = Deployer
    /\ UNCHANGED <<operator, policy, window, decision, intentIndex, ledgerVars>>

SetOperator(signers, op) ==
    /\ RequireOwner(signers)
    /\ operator' = op
    /\ UNCHANGED <<owner, policy, window, decision, intentIndex, ledgerVars>>

PutPolicy(p) ==
    /\ policy' = [policy EXCEPT ![p.agent] = p]
    /\ UNCHANGED <<adminVars, window, decision, intentIndex, ledgerVars>>

\* The policy is stored as given, version and status included, whether or not
\* the agent already has one.
RegisterAgent(signers, p) ==
    /\ RequireOwner(signers)
    /\ PutPolicy(p)

\* The version follows the stored one; `+ 1` traps at the end of the u32.
SetPolicy(signers, p) ==
    /\ RequireOwner(signers)
    /\ policy[p.agent] # None
    /\ policy[p.agent].version + 1 \in U32
    /\ PutPolicy([p EXCEPT !.version = policy[p.agent].version + 1])

RevokeAgent(signers, a) ==
    /\ RequireOwner(signers)
    /\ policy[a] # None
    /\ PutPolicy([policy[a] EXCEPT !.status = "Revoked"])

----------------------------------------------------------------------------
(* authorize(): judge an intent and store the decision. *)

NewDecision(r, p, reason) ==
    [decision_id |-> DeriveDecisionId(r.intent_hash, p.version),
     intent_hash |-> r.intent_hash, agent |-> r.agent, service_id |-> r.service_id,
     asset |-> r.asset, amount |-> r.amount,
     policy_version |-> p.version, resolved_policy_version |-> None,
     verdict |-> VerdictOf(reason), reason_code |-> reason,
     original_reason_code |-> reason, ledger_seq |-> sequence,
     resolved |-> FALSE, settled |-> FALSE]

\* The charge may veto an approval; only an approval is charged.
JudgedReason(p, r) ==
    IF Evaluate(p, r) = "Ok" /\ ~ChargeFits(p, r.amount) THEN "WindowCapExceeded"
    ELSE Evaluate(p, r)

ChargeIf(approved, p, amount) ==
    window' = IF approved THEN [window EXCEPT ![p.agent] = ChargedWindow(p, amount)]
              ELSE window

AuthorizeNew(r) ==
    LET p == policy[r.agent]
        d == NewDecision(r, p, JudgedReason(p, r))
    IN /\ p # None
       /\ ~EvaluateTraps(p, r)
       /\ decision' = [decision EXCEPT ![d.decision_id] = d]
       /\ intentIndex' = [intentIndex EXCEPT ![r.intent_hash] = d.decision_id]
       /\ ChargeIf(d.verdict = "Approved", p, r.amount)
       /\ UNCHANGED <<adminVars, policy, ledgerVars>>

\* A hash that is already indexed answers with the stored decision, before
\* the policy is read.
AuthorizeReplay(r) == intentIndex[r.intent_hash] # None /\ UNCHANGED vars

\* Mutant: the amount is not required to be positive.
AuthorizeMutantAmount(signers, caller, r) ==
    /\ RequireCaller(signers, caller)
    /\ r.agent \in signers
    /\ IF intentIndex[r.intent_hash] # None THEN AuthorizeReplay(r) ELSE AuthorizeNew(r)

\* Mutant: a hash is judged again under every new policy version.
AuthorizeMutantIndex(signers, caller, r) ==
    /\ RequireCaller(signers, caller)
    /\ r.agent \in signers
    /\ r.amount > 0
    /\ AuthorizeNew(r)

Authorize(signers, caller, r) ==
    /\ RequireCaller(signers, caller)
    /\ r.agent \in signers
    /\ r.amount > 0
    /\ IF intentIndex[r.intent_hash] # None THEN AuthorizeReplay(r) ELSE AuthorizeNew(r)

----------------------------------------------------------------------------
(* resolve(): the owner's answer to an escalated decision. *)

RequestOf(d) == [intent_hash |-> d.intent_hash, agent |-> d.agent,
                 service_id |-> d.service_id, asset |-> d.asset, amount |-> d.amount]

\* Mutant: any unresolved decision may be answered.
ResolveErrorMutant(d) ==
    IF d = None THEN "DecisionNotFound"
    ELSE IF d.resolved THEN "AlreadyResolved"
    ELSE "None"

\* The error resolve() returns, in the order of its checks; "None" when it goes on.
ResolveError(d) ==
    IF d = None THEN "DecisionNotFound"
    ELSE IF d.resolved THEN "AlreadyResolved"
    ELSE IF d.verdict # "RequiresApproval" THEN "NotPendingApproval"
    ELSE IF policy[d.agent] = None THEN "AgentNotRegistered"
    ELSE "None"

\* An approval is judged again under the policy current now; an intent that
\* still only trips the threshold passes, if the charge fits.
ResolvedReason(d, p, approve) ==
    IF ~approve THEN "OwnerRejected"
    ELSE IF VerdictOf(Evaluate(p, RequestOf(d))) = "Rejected" THEN Evaluate(p, RequestOf(d))
    ELSE IF ChargeFits(p, d.amount) THEN "Ok"
    ELSE "WindowCapExceeded"

\* Mutant: the version of the re-judgement overwrites the original one.
ResolveMutant(signers, id, approve) ==
    LET d == decision[id]
        p == policy[d.agent]
        reason == ResolvedReason(d, p, approve)
    IN /\ RequireOwner(signers)
       /\ ResolveError(d) = "None"
       /\ approve => ~EvaluateTraps(p, RequestOf(d))
       /\ decision' = [decision EXCEPT ![id] =
                         [@ EXCEPT !.policy_version = p.version,
                                   !.resolved_policy_version = p.version,
                                   !.verdict = VerdictOf(reason),
                                   !.reason_code = reason,
                                   !.resolved = TRUE]]
       /\ ChargeIf(reason = "Ok", p, d.amount)
       /\ UNCHANGED <<adminVars, policy, intentIndex, ledgerVars>>

Resolve(signers, id, approve) ==
    LET d == decision[id]
        p == policy[d.agent]
        reason == ResolvedReason(d, p, approve)
    IN /\ RequireOwner(signers)
       /\ ResolveError(d) = "None"
       /\ approve => ~EvaluateTraps(p, RequestOf(d))
       /\ decision' = [decision EXCEPT ![id] =
                         [@ EXCEPT !.resolved_policy_version = p.version,
                                   !.verdict = VerdictOf(reason),
                                   !.reason_code = reason,
                                   !.resolved = TRUE]]
       /\ ChargeIf(reason = "Ok", p, d.amount)
       /\ UNCHANGED <<adminVars, policy, intentIndex, ledgerVars>>

----------------------------------------------------------------------------
(* mark_settled(): the last gate on chain before the payment. *)

\* Mutant: the agent's standing is not looked at again.
MarkSettledErrorMutantRevoked(d) ==
    IF d = None THEN "DecisionNotFound"
    ELSE IF d.verdict # "Approved" THEN "NotApproved"
    ELSE IF d.settled THEN "AlreadySettled"
    ELSE "None"

\* Mutant: only a rejection is refused.
MarkSettledErrorMutantPending(d) ==
    IF d = None THEN "DecisionNotFound"
    ELSE IF d.verdict = "Rejected" THEN "NotApproved"
    ELSE IF d.settled THEN "AlreadySettled"
    ELSE IF policy[d.agent] = None THEN "AgentNotRegistered"
    ELSE IF policy[d.agent].status = "Revoked" THEN "AgentRevoked"
    ELSE "None"

MarkSettledError(d) ==
    IF d = None THEN "DecisionNotFound"
    ELSE IF d.verdict # "Approved" THEN "NotApproved"
    ELSE IF d.settled THEN "AlreadySettled"
    ELSE IF policy[d.agent] = None THEN "AgentNotRegistered"
    ELSE IF policy[d.agent].status = "Revoked" THEN "AgentRevoked"
    ELSE "None"

MarkSettled(signers, caller, id) ==
    /\ RequireCaller(signers, caller)
    /\ MarkSettledError(decision[id]) = "None"
    /\ decision' = [decision EXCEPT ![id] = [@ EXCEPT !.settled = TRUE]]
    /\ UNCHANGED <<adminVars, policy, window, intentIndex, ledgerVars>>

----------------------------------------------------------------------------
(* The network closes a ledger: the next one has the next sequence and a   *)
(* later timestamp, any number of seconds later.  MaxU32 bounds the        *)
(* ledgers and MaxTime the clock of a model.                               *)

CloseLedger ==
    /\ sequence + 1 \in U32
    /\ sequence' = sequence + 1
    /\ timestamp' \in (timestamp + 1) .. MaxTime
    /\ UNCHANGED <<adminVars, policy, window, decision, intentIndex>>

\* An entry point, called with the signatures one transaction carries.
Call(signers) ==
    \/ ContractInit(signers)
    \/ \E op \in OperatorArgs : SetOperator(signers, op)
    \/ \E p \in PolicyArgs : RegisterAgent(signers, p)
    \/ \E p \in PolicyArgs : SetPolicy(signers, p)
    \/ \E a \in Agents : RevokeAgent(signers, a)
    \/ \E caller \in Accounts, r \in Requests : Authorize(signers, caller, r)
    \/ \E id \in DecisionIds, approve \in BOOLEAN : Resolve(signers, id, approve)
    \/ \E caller \in Accounts, id \in DecisionIds : MarkSettled(signers, caller, id)

Next == CloseLedger \/ \E signers \in SignerSets : Call(signers)

Spec == Init /\ [][Next]_vars

----------------------------------------------------------------------------
(* What the contract promises about one intent: DecisionLifecycle. *)

\* The stage of an intent, read off its decision.
StageOf(h) ==
    IF intentIndex[h] = None THEN "None"
    ELSE LET d == decision[intentIndex[h]]
         IN IF d.settled THEN "Settled"
            ELSE IF d.verdict = "RequiresApproval" THEN "Pending" ELSE d.verdict

Lifecycle == INSTANCE DecisionLifecycle WITH stage <- [h \in Hashes |-> StageOf(h)]

----------------------------------------------------------------------------
(* Properties. *)

\* Seen from outside, every intent walks the lifecycle: it is judged once,
\* answered at most once, settled at most once and only from Approved, and no
\* call moves two intents (DecisionLifecycle).
ImplementsLifecycle == Lifecycle!Spec

TypeOK ==
    /\ owner \in Accounts \cup {None}
    /\ operator \in Accounts \cup {None}
    /\ policy \in [Agents -> Policy \cup {None}]
    /\ window \in [Agents -> WindowState \cup {None}]
    /\ decision \in [DecisionIds -> Decision \cup {None}]
    /\ intentIndex \in [Hashes -> DecisionIds \cup {None}]
    /\ sequence \in U32
    /\ timestamp \in U64

\* A policy is filed under its own agent, and neither a decision nor a window
\* outlives it: there is no entry point that removes a policy, so resolve() and
\* mark_settled() never meet AgentNotRegistered.
AgentsStayRegistered ==
    /\ \A a \in Agents : policy[a] # None => policy[a].agent = a
    /\ \A a \in Agents : window[a] # None => policy[a] # None
    /\ \A id \in DecisionIds : decision[id] # None => policy[decision[id].agent] # None

\* The two lookups of a decision agree, whatever policy versions came in
\* between: an intent hash names at most one decision, that decision is the one
\* the index returns, and its id can be recomputed from its own hash and version.
DecisionIndexed ==
    /\ \A h \in Hashes : intentIndex[h] # None =>
          /\ decision[intentIndex[h]] # None
          /\ decision[intentIndex[h]].intent_hash = h
    /\ \A id \in DecisionIds : decision[id] # None =>
          /\ decision[id].decision_id = id
          /\ id = DeriveDecisionId(decision[id].intent_hash, decision[id].policy_version)
          /\ intentIndex[decision[id].intent_hash] = id

\* What a reader may conclude from the fields of one stored decision d: an
\* escalation stays visible after it is resolved, `resolved` is
\* `resolved_policy_version.is_some()`, and only an approval is ever settled.
TrailOf(d) ==
    /\ d.verdict = VerdictOf(d.reason_code)
    /\ d.resolved <=> d.resolved_policy_version # None
    /\ d.resolved => d.original_reason_code = "PendingApproval" /\ d.verdict # "RequiresApproval"
    /\ ~d.resolved => d.reason_code = d.original_reason_code /\ d.reason_code # "OwnerRejected"
    /\ d.settled => d.verdict = "Approved"

\* Every stored decision tells its own history truthfully (TrailOf).
DecisionTrail == \A id \in DecisionIds : decision[id] # None => TrailOf(decision[id])

\* Judging and charging read the window separately and must agree: an intent
\* that evaluate() does not reject always fits the charge, so the veto of
\* charge_window is never the one that decides.
ChargeNeverVetoes ==
    \A r \in Requests :
        LET p == policy[r.agent]
        IN p # None /\ VerdictOf(Evaluate(p, r)) # "Rejected" => ChargeFits(p, r.amount)

\* There is room above policy p: its per-intent cap fits in an i128 on top of whatever
\* any policy of its agent lets a window hold, and its window's end fits in the u64.
HasRoom(p) ==
    /\ \A q \in PolicyArgs :
          q.agent = p.agent => q.cumulative_window_cap + p.per_intent_cap <= MaxI128
    /\ MaxTime + p.window_seconds <= MaxU64

\* The u64 and i128 additions of the window rule trap for some arguments the types
\* allow, a cap or a window_seconds near the end of its type; but never for the
\* sake of the request.  Under a policy with room, whatever an earlier policy let
\* the window hold, every amount is answered with a reason code, the largest i128
\* included: the per-intent cap is applied before the addition.
EveryRequestIsAnswered ==
    \A r \in Requests :
        LET p == policy[r.agent]
        IN p # None /\ HasRoom(p) => ~EvaluateTraps(p, r)

\* What later calls may never change in a stored decision: the intent, the
\* version that produced it, its original reason; and a verdict, a resolution
\* or a settlement is final.
FrozenIn(d, e) ==
    /\ e # None
    /\ [e EXCEPT !.resolved_policy_version = d.resolved_policy_version, !.verdict = d.verdict,
                 !.reason_code = d.reason_code, !.resolved = d.resolved,
                 !.settled = d.settled] = d
    /\ d.verdict # "RequiresApproval" => e.verdict = d.verdict /\ e.reason_code = d.reason_code
    /\ d.resolved => e.resolved_policy_version = d.resolved_policy_version
    /\ d.settled => e.settled

\* No step rewrites the frozen part of a stored decision (FrozenIn).
DecisionsAreFinal ==
    [][\A id \in DecisionIds : decision[id] # None => FrozenIn(decision[id], decision'[id])]_vars

\* Revocation takes effect at once, on all three paths: while an agent is
\* revoked, none of its decisions becomes Approved and none becomes settled.
RevocationIsImmediate ==
    [][\A id \in DecisionIds :
          LET d == decision[id]
              e == decision'[id]
          IN e # None /\ policy[e.agent] # None /\ policy[e.agent].status = "Revoked" =>
                /\ e.verdict = "Approved" => d # None /\ d.verdict = "Approved"
                /\ e.settled => d # None /\ d.settled]_vars
=============================================================================
