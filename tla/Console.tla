-------------------------------- MODULE Console --------------------------------
(***************************************************************************)
(* The evidence console: apps/console/src.  It has no state of its own: it *)
(* reads a decision from the contract by whichever 32-byte reference a     *)
(* link carries (chain.ts), and derives from the stored fields what the    *)
(* contract does not store (derive.ts): the rule that fired, whether a     *)
(* human was asked, which policy versions were in play.  The wording and   *)
(* the formatting are left out.                                            *)
(***************************************************************************)
EXTENDS Authorization

\* An intent hash and a decision id are both 32 bytes, and never the same ones.
ASSUME ReferenceAssumption == Hashes \cap DecisionIds = {}
\* None is no name of an error.
ASSUME ErrorAssumption == None # "DecisionNotFound"

----------------------------------------------------------------------------
(* The RPC endpoint: which entries have expired, how it says so, and which  *)
(* calls do not get through.                                                *)

\* One way of saying so is enough where nothing has expired or a call is lost besides.
Endpoint ==
    {e \in [expired : SUBSET {"index", "decision"}, saying : {"throws", "error", "restore"},
            down : SUBSET {"intent", "decision"}] :
        e.expired = {} \/ e.down # {} => e.saying = "throws"}

\* A simulation as the SDK hands it over.
Transaction == [thrown |-> FALSE, error |-> "none", restore |-> FALSE, value |-> None]
Expired(saying) ==
    CASE saying = "throws" -> [Transaction EXCEPT !.thrown = TRUE, !.error = "archived"]
      [] saying = "error" -> [Transaction EXCEPT !.error = "archived"]
      [] saying = "restore" -> [Transaction EXCEPT !.restore = TRUE]

\* decision_by_intent and get_decision: one kind of reference is a miss for the other.
Simulate(via, ref, rpc) ==
    LET id == IF via = "decision" THEN ref ELSE IF ref \in Hashes THEN intentIndex[ref] ELSE None
        found == IF id \in DecisionIds THEN decision[id] ELSE None
        needed == IF via = "decision" THEN {"decision"} ELSE {"index", "decision"}
    IN  IF via \in rpc.down THEN [Transaction EXCEPT !.thrown = TRUE, !.error = "network"]
        ELSE IF found = None THEN [Transaction EXCEPT !.error = "DecisionNotFound"]
        ELSE IF rpc.expired \cap needed # {} THEN Expired(rpc.saying)
        ELSE [Transaction EXCEPT !.value = found]

\* get_window: the effective state, the reset already applied.
GetWindow(p) ==
    IF IsLive(window[p.agent], p) THEN window[p.agent] ELSE [window_start |-> timestamp, spent |-> 0]

----------------------------------------------------------------------------
(* chain.ts *)

ClassifyThrow(text) == [status |-> IF text = "archived" THEN "archived" ELSE "unreadable"]

\* Only the errors of the contract are named in the text.
ContractErrorName(text) == IF text = "DecisionNotFound" THEN text ELSE None

\* A miss is an answer, an expired entry is another one, and no answer is neither.
Lookup(tx) ==
    CASE tx.thrown -> ClassifyThrow(tx.error)
      [] ~tx.thrown /\ tx.error = "none" ->
            IF tx.value # None THEN [status |-> "found", decision |-> tx.value]
            ELSE [status |-> IF tx.restore THEN "archived" ELSE "absent"]
      [] OTHER ->
            IF tx.error = "archived" \/ ContractErrorName(tx.error) = None THEN ClassifyThrow(tx.error)
            ELSE [status |-> "absent"]

\* Mutant: the link's verb is the only one tried.
FetchEvidenceMutant(ref, prefer, rpc) == Lookup(Simulate(prefer, ref, rpc))

\* The verb the link implies first, then the other.
FetchEvidence(ref, prefer, rpc) ==
    LET first == Lookup(Simulate(prefer, ref, rpc))
        second == Lookup(Simulate(IF prefer = "intent" THEN "decision" ELSE "intent", ref, rpc))
    IN  IF first.status = "absent" /\ second.status # "absent" THEN second ELSE first

----------------------------------------------------------------------------
(* derive.ts *)

\* The predicate it prints for a reason code, with the values it prints.
RuleHolds(reason, d, p, spent) ==
    CASE reason = "Ok" ->
            /\ d.amount <= p.per_intent_cap /\ d.amount <= p.approval_threshold
            /\ d.service_id \in p.allowed_services /\ d.asset = p.allowed_asset
            /\ spent + d.amount <= p.cumulative_window_cap /\ p.status = "Active"
      [] reason = "CapExceeded" -> d.amount > p.per_intent_cap
      [] reason = "ServiceNotAllowed" -> d.service_id \notin p.allowed_services
      [] reason = "AssetMismatch" -> d.asset # p.allowed_asset
      [] reason = "AgentRevoked" -> p.status = "Revoked"
      [] reason = "WindowCapExceeded" -> spent + d.amount > p.cumulative_window_cap
      [] reason = "PendingApproval" -> d.amount > p.approval_threshold /\ d.amount <= p.per_intent_cap
      [] reason = "OwnerRejected" -> d.resolved

ExplainRule(d, p, spent) == RuleHolds(d.reason_code, d, p, spent)

\* The code shown beside the final one as the original outcome, if it differs.
ExplainOriginalRule(d) ==
    IF d.original_reason_code = d.reason_code THEN None ELSE d.original_reason_code

Escalation(d) ==
    IF d.resolved THEN "resolved" ELSE IF d.verdict = "RequiresApproval" THEN "pending" ELSE "none"

\* What it says of the policy printed below a decision: the one that was applied, today's, or none.
PolicyCaveat(d, p) ==
    IF p = None THEN "unread" ELSE IF p.version = d.policy_version THEN "applied" ELSE "todays"

\* "re-judged at resolve() time against" this version.
RejudgedCaveat(d) ==
    IF d.resolved_policy_version \notin {None, d.policy_version} THEN d.resolved_policy_version ELSE None

----------------------------------------------------------------------------
(* The console against the step that made the evidence. *)

\* A step judges the decision: for the first time, or as the owner's answer.
Judged(id) ==
    /\ decision'[id] # None
    /\ decision[id] = None \/ decision[id].verdict # decision'[id].verdict

\* Asked for it by this reference with this verb first, the console finds the decision the step
\* judged, says archived when an entry it needs has expired, and gives up when a call is lost.
FetchedTruly(id, ref, prefer, rpc) ==
    LET d == decision'[id]
        shown == FetchEvidence(ref, prefer, rpc)'
    IN  \/ shown.status = "unreadable" /\ rpc.down # {}
        \/ shown = IF "decision" \in rpc.expired \/ (ref = d.intent_hash /\ rpc.expired # {})
                   THEN [status |-> "archived"] ELSE [status |-> "found", decision |-> d]

\* Its page for that decision, beside the policy and the window the contract judged it by.
ToldTruly(id) ==
    LET d == decision'[id]
        p == policy[d.agent]
        again == decision[id] # None
    IN  /\ Escalation(d) = (IF again THEN "resolved"
                            ELSE IF Evaluate(p, RequestOf(d)) = "PendingApproval" THEN "pending"
                            ELSE "none")
        /\ ExplainOriginalRule(d) = (IF again THEN decision[id].reason_code ELSE None)
        /\ RejudgedCaveat(d) \in {None, p.version}
        /\ PolicyCaveat(d, p) = "applied" <=> RejudgedCaveat(d) = None
        /\ (again /\ d.verdict = "Approved") \/ ExplainRule(d, p, GetWindow(p).spent)

\* Asked right after the step that judged a decision, by either of its references with either
\* verb, the console finds that decision, says archived when an entry it needs has expired, gives up
\* when a call it needs is lost, and says never that there is none.  It says a human was asked exactly
\* when one was or is to be, names the outcome the escalation had, and tells of two policy versions
\* exactly when two were in play; and the predicate it prints is true of the policy and of the window
\* the contract judged by.  Approvals by the owner's hand are left to RuleShownIsTrue.
EvidenceIsTrue ==
    [][\A id \in DecisionIds : Judged(id) =>
          /\ \A ref \in {id, decision'[id].intent_hash}, prefer \in {"intent", "decision"}, rpc \in Endpoint :
                FetchedTruly(id, ref, prefer, rpc)
          /\ ToldTruly(id)]_vars

\* derive.ts:3: "Nothing here invents a fact the chain does not support."  The predicate printed
\* under "The rule that decided the outcome" is true of the values printed beside it.
RuleShownIsTrue ==
    [][\A id \in DecisionIds : Judged(id) =>
        LET p == policy[decision'[id].agent]
        IN  ExplainRule(decision'[id], p, GetWindow(p).spent)]_vars
=============================================================================
