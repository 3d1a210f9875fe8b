----------------------------- MODULE GatewayProofs -----------------------------
(***************************************************************************)
(* Proofs about the gateway, for any numbers of requests, hashes, faults,  *)
(* policy versions and rows.                                               *)
(***************************************************************************)
EXTENDS Gateway, FiniteSetTheorems, TLAPS

Errors == {"None", "Ok", "DecisionNotFound", "NotPendingApproval", "AlreadyResolved",
           "NotAuthorizedCaller", "AgentNotRegistered"}
Outcome == [error : Errors, decision : Decision]

Pcs == {"idle", "received", "queued", "submitted", "escalated", "ruled", "decided", "failed",
        "reading", "looking", "answered", "lost"}

Handlers == [pc : Pcs, kind : {"intent", "resolve", "decision", "preimage"}, hash : Hashes,
             approve : BOOLEAN, held : Decision, rule : 0..MaxVersion, preimage : BOOLEAN,
             status : Nat]

Lists == [pc : {"idle", "reading", "done"}, calls : Nat, todo : SUBSET QueueRow,
          shown : SUBSET Hashes, closed : SUBSET Hashes, due : SUBSET Hashes,
          behind : SUBSET Hashes]

TypeOK ==
    /\ version \in 1..MaxVersion
    /\ chain \in [Hashes -> Decision]
    /\ wire \subseteq Requests
    /\ outcome \in [Requests -> Outcome]
    /\ req \in [Requests -> Handlers]
    /\ intents \in Seq(Hashes)
    /\ rows \in [Hashes -> Decision]
    /\ queue \subseteq QueueRow
    /\ list \in Lists
    /\ mode \in {"postgres", "degraded"}
    /\ faults \in Nat

\* Rows are written in an order that the clock tells, a row's last writing not before its first.
Ats == {0} \cup {q.at : q \in queue}
ClockInv == /\ \E t \in Ats : \A u \in Ats : u <= t
            /\ \A q \in queue : q.since <= q.at

-----------------------------------------------------------------------------
(* Typing. *)

\* Handler r is in state s after the step, and no other handler moves.
RequestIs(r, s) ==
    /\ req' \in [Requests -> Handlers]
    /\ req'[r] = s
    /\ \A x \in Requests : x # r => req'[x] = req[x]

\* The four ways a handler goes on keep it well typed.
LEMMA RequestFacts ==
    ASSUME TypeOK, NEW r \in Requests, NEW s \in Handlers, req' = [req EXCEPT ![r] = s]
    PROVE  RequestIs(r, s)
  BY DEF TypeOK, RequestIs

\* It is at pc with this status, and holds what it held.
Onward(r, s, pc, status) ==
    /\ RequestIs(r, s)
    /\ s.pc = pc /\ s.status = status
    /\ s.kind = req[r].kind /\ s.hash = req[r].hash /\ s.held = req[r].held
    /\ s.rule = req[r].rule /\ s.preimage = req[r].preimage

LEMMA MoveFacts ==
    ASSUME TypeOK, NEW r \in Requests, NEW pc \in Pcs, NEW status \in Nat,
           req' = [req EXCEPT ![r] = [req[r] EXCEPT !.pc = pc, !.status = status]]
    PROVE  \E s \in Handlers : Onward(r, s, pc, status)
<1> DEFINE s == [req[r] EXCEPT !.pc = pc, !.status = status]
<1>1. req[r] \in Handlers
  BY DEF TypeOK
<1>2. /\ s \in Handlers /\ s.pc = pc /\ s.status = status
      /\ s.kind = req[r].kind /\ s.hash = req[r].hash /\ s.held = req[r].held
      /\ s.rule = req[r].rule /\ s.preimage = req[r].preimage
  BY <1>1 DEF Handlers
<1>3. req' = [req EXCEPT ![r] = s]
  OBVIOUS
<1> HIDE DEF s
<1>4. QED
  BY <1>2, <1>3, RequestFacts DEF Onward

LEMMA GotoFacts ==
    ASSUME TypeOK, NEW r \in Requests, NEW pc \in Pcs, Goto(r, pc)
    PROVE  \E s \in Handlers : Onward(r, s, pc, req[r].status)
<1>1. req[r] \in Handlers
  BY DEF TypeOK
<1>2. req[r].status \in Nat /\ [req[r] EXCEPT !.pc = pc, !.status = req[r].status] = [req[r] EXCEPT !.pc = pc]
  BY <1>1 DEF Handlers
<1>3. req' = [req EXCEPT ![r] = [req[r] EXCEPT !.pc = pc]]
  BY <1>1 DEF Goto, TypeOK
<1>4. QED
  BY <1>2, <1>3, MoveFacts

LEMMA ReplyFacts ==
    ASSUME TypeOK, NEW r \in Requests, NEW status \in Nat, Reply(r, status)
    PROVE  \E s \in Handlers : Onward(r, s, "answered", status)
<1>1. "answered" \in Pcs
  BY DEF Pcs
<1>2. req' = [req EXCEPT ![r] = [req[r] EXCEPT !.pc = "answered", !.status = status]]
  BY DEF Reply, TypeOK
<1>3. QED
  BY <1>1, <1>2, MoveFacts

LEMMA FailFacts ==
    ASSUME TypeOK, NEW r \in Requests, NEW status \in Nat, Fail(r, status)
    PROVE  \E s \in Handlers : Onward(r, s, "failed", status)
<1>1. "failed" \in Pcs
  BY DEF Pcs
<1>2. req' = [req EXCEPT ![r] = [req[r] EXCEPT !.pc = "failed", !.status = status]]
  BY DEF Fail, TypeOK
<1>3. QED
  BY <1>1, <1>2, MoveFacts

\* The fields of the constants above.
LEMMA DecisionFacts ==
    /\ NoDecision \in Decision
    /\ NoDecision.stage = "None" /\ NoDecision.version = 0 /\ NoDecision.escalated = FALSE
    /\ NoOutcome \in Outcome /\ NoOutcome.error = "None"
    /\ \A d \in Decision : Succeeded(d) \in Outcome /\ Succeeded(d).error = "Ok"
                           /\ Succeeded(d).decision = d
    /\ \A e \in Errors : Refused(e) \in Outcome /\ Refused(e).error = e
  BY GatewayAssumption DEF NoDecision, Decision, Stages, NoOutcome, Outcome, Succeeded, Refused, Errors

LEMMA IdleFacts == Idle \in Handlers /\ Idle.held = NoDecision /\ Idle.status = 0 /\ Idle.kind = "intent"
<1>1. (CHOOSE h \in Hashes : TRUE) \in Hashes
  BY GatewayAssumption
<1>2. QED
  BY <1>1, DecisionFacts, GatewayAssumption DEF Idle, Handlers, Pcs

-----------------------------------------------------------------------------
(* What holds in every reachable state.                                     *)

\* The contract's records: an escalation is waiting, none is of a policy yet to come.
ChainInv ==
    \A h \in Hashes :
        /\ chain[h].version <= version
        /\ chain[h].stage = "None" => chain[h] = NoDecision
        /\ chain[h].stage = "Pending" => chain[h].escalated

\* d was on chain under h; waiting, it was escalated.
WasTold(d, h) == WasOnChain(d, h) /\ (d.stage = "Pending" => d.escalated)

\* What handler r in state s may rely on while the chain, the store and the others move.
HandlerInv(r, s) ==
    /\ s.held.stage # "None" => WasTold(s.held, s.hash)
    /\ s.pc \in {"escalated", "ruled", "decided"} => s.held.stage # "None"
    /\ s.pc = "looking" /\ s.kind = "decision" => s.held.stage # "None"
    /\ s.status \in {200, 202} => s.held.stage # "None"
    /\ s.pc \in {"escalated", "ruled"} => s.held.stage = "Pending" /\ s.kind = "intent"
    /\ s.status = 202 => s.held.stage = "Pending"
    /\ s.status \in {200, 202} => s.pc \in {"answered", "lost"} \/ (s.pc = "looking" /\ s.kind = "decision")
    /\ s.pc = "ruled" => s.rule >= s.held.version
    /\ r \in wire => s.pc # "idle"

\* What the ledger has answered r is the decision of r's intent.
OutcomeInv(r, s) ==
    /\ outcome[r].error # "None" => s.pc = "submitted"
    /\ outcome[r].error = "Ok" => /\ outcome[r].decision.stage # "None"
                                 /\ WasTold(outcome[r].decision, s.hash)

\* Unless something fails, an intent is stored before it is on its way, and so before
\* there is a decision of it; then whoever asks for the decision gets its preimage.
Faultless == faults = 0 /\ mode = "postgres"

StoredInv(r, s) ==
    Faultless =>
        /\ s.kind = "intent" /\ s.pc \in {"queued", "submitted"} => Stored(s.hash)
        /\ s.kind = "intent" /\ r \in wire => Stored(s.hash)
        /\ s.kind = "decision" /\ s.pc = "answered" /\ s.status \in {200, 202} => s.preimage

DecidedIsStored == Faultless => \A h \in Hashes : chain[h].stage # "None" => Stored(h)

RequestsInv ==
    \A r \in Requests : HandlerInv(r, req[r]) /\ OutcomeInv(r, req[r]) /\ StoredInv(r, req[r])

\* An intent has at most one row in the queue.
QueueInv ==
    /\ ClockInv
    /\ QueueHoldsEscalations
    /\ \A p, q \in queue : p.hash = q.hash => p = q

CoreInv == TypeOK /\ ChainInv /\ RequestsInv /\ DecidedIsStored /\ CacheTrailsChain /\ QueueInv

-----------------------------------------------------------------------------
(* The chain only moves forward. *)

ChainMoves ==
    \A h \in Hashes :
        \/ chain'[h] = chain[h]
        \/ chain[h].stage = "None"
        \/ /\ chain[h].stage # "None" /\ chain'[h].stage \in Later(chain[h].stage)
           /\ chain'[h].version = chain[h].version /\ chain'[h].escalated = chain[h].escalated

\* What was once on chain stays so.
LEMMA WasOnChainStays ==
    ASSUME TypeOK, ChainMoves, NEW h \in Hashes, NEW d \in Decision, WasOnChain(d, h)
    PROVE  WasOnChain(d, h)'
<1>1. chain[h].stage \in Stages /\ d.stage \in Stages
  BY DEF TypeOK, Decision
<1>2. chain[h].stage # "None"
  BY <1>1 DEF WasOnChain, Later, Stages
<1>3. CASE chain'[h] = chain[h]
  BY <1>3 DEF WasOnChain
<1>4. CASE chain'[h] # chain[h]
  <2>1. chain'[h].stage \in Later(chain[h].stage)
    BY <1>2, <1>4 DEF ChainMoves
  <2>2. chain'[h].stage \in Later(d.stage)
    BY <1>1, <2>1 DEF WasOnChain, Later, Stages
  <2>3. QED
    BY <1>2, <1>4, <2>2 DEF ChainMoves, WasOnChain
<1>5. QED
  BY <1>3, <1>4

\* What the contract may make of a call is typed and a move forward.
LEMMA VerdictFacts ==
    ASSUME TypeOK, ChainInv, NEW h \in Hashes
    PROVE  /\ \A d \in Judged(h) : /\ d \in Decision /\ d.stage \in {"Pending", "Approved", "Rejected"}
                                  /\ d.version = version /\ (d.stage = "Pending" => d.escalated)
           /\ \A approve \in BOOLEAN : \A d \in Resolved(h, approve) :
                 /\ d \in Decision /\ d.stage \in {"Approved", "Rejected"}
                 /\ d.version = chain[h].version /\ d.escalated = chain[h].escalated
<1>1. version \in 0..MaxVersion /\ chain[h] \in Decision
  BY GatewayAssumption DEF TypeOK
<1>2. ASSUME NEW d \in Judged(h)
      PROVE  /\ d \in Decision /\ d.stage \in {"Pending", "Approved", "Rejected"}
             /\ d.version = version /\ (d.stage = "Pending" => d.escalated)
  <2>1. PICK s \in {"Pending", "Approved", "Rejected"} :
          d = [stage |-> s, version |-> version, escalated |-> s = "Pending"]
    BY DEF Judged
  <2>2. (s = "Pending") \in BOOLEAN
    OBVIOUS
  <2>3. QED
    BY <1>1, <2>1, <2>2 DEF Decision, Stages
<1>3. ASSUME NEW approve \in BOOLEAN, NEW d \in Resolved(h, approve)
      PROVE  /\ d \in Decision /\ d.stage \in {"Approved", "Rejected"}
             /\ d.version = chain[h].version /\ d.escalated = chain[h].escalated
  <2>1. PICK s \in {"Approved", "Rejected"} : d = [chain[h] EXCEPT !.stage = s]
    BY DEF Resolved
  <2>2. QED
    BY <1>1, <2>1 DEF Decision, Stages
<1>4. QED
  BY <1>2, <1>3

\* One decision is written.
ChainIs(h, d) == chain' = [chain EXCEPT ![h] = d]

LEMMA ChainStep ==
    ASSUME TypeOK, ChainInv, NEW h \in Hashes, NEW d \in Decision, ChainIs(h, d),
           d.stage # "None", d.stage = "Pending" => d.escalated, version' = version,
           \/ chain[h].stage = "None" /\ d.version = version
           \/ /\ chain[h].stage # "None" /\ d.stage \in Later(chain[h].stage)
              /\ d.version = chain[h].version /\ d.escalated = chain[h].escalated
    PROVE  chain' \in [Hashes -> Decision] /\ ChainMoves /\ ChainInv'
<1>1. chain' \in [Hashes -> Decision] /\ chain'[h] = d
  BY DEF ChainIs, TypeOK
<1>2. \A g \in Hashes : g # h => chain'[g] = chain[g]
  BY DEF ChainIs, TypeOK
<1>3. d.version <= version
  BY DEF ChainInv, TypeOK
<1>4. QED
  BY <1>1, <1>2, <1>3 DEF ChainMoves, ChainInv

\* The decision on chain is one that was on chain.
LEMMA HeldIsTold ==
    ASSUME NEW h \in Hashes, chain[h] \in Decision, chain[h].stage # "None",
           chain[h].stage = "Pending" => chain[h].escalated
    PROVE  WasTold(chain[h], h)
  BY DEF WasTold, WasOnChain, Later, Decision, Stages

\* A transaction that lands writes the decision of its own hash, or none, and tells its
\* handler the decision that is then on chain.
Landed(r, o) ==
    LET h == req[r].hash
    IN  /\ o \in Outcome /\ Tell(r, o) /\ o.error # "None"
        /\ o.error = "Ok" => o.decision = chain'[h] /\ chain'[h].stage # "None"
        /\ \A g \in Hashes : g # h \/ req[r].kind # "intent" =>
              (chain[g].stage = "None" => chain'[g] = chain[g])

LEMMA LandFacts ==
    ASSUME CoreInv, NEW r \in wire, Land(r)
    PROVE  /\ chain' \in [Hashes -> Decision] /\ ChainMoves /\ ChainInv'
           /\ \E o \in Outcome : Landed(r, o)
<1> DEFINE h == req[r].hash
           writes == CASE req[r].kind = "intent" /\ chain[h].stage = "None" -> Judged(h)
                       [] req[r].kind = "resolve" /\ chain[h].stage = "Pending" -> Resolved(h, req[r].approve)
                       [] OTHER -> {}
<1>1. r \in Requests /\ req[r] \in Handlers
  BY DEF CoreInv, TypeOK
<1>2. h \in Hashes /\ req[r].approve \in BOOLEAN /\ chain[h] \in Decision
  BY <1>1 DEF CoreInv, TypeOK, Handlers
<1>3. version' = version
  BY DEF Land
<1>4. TypeOK /\ ChainInv
  BY DEF CoreInv
<1>5. CASE req[r].kind = "intent" /\ chain[h].stage # "None" /\ Tell(r, Succeeded(chain[h])) /\ UNCHANGED chain
  <2>1. Landed(r, Succeeded(chain[h]))
    BY <1>2, <1>5, DecisionFacts DEF Landed
  <2>2. QED
    BY <1>3, <1>4, <1>5, <2>1 DEF TypeOK, ChainMoves, ChainInv, Landed
<1>6. ASSUME NEW name \in Refusals(r) \ {"Ok"}, Tell(r, Refused(name)), UNCHANGED chain
      PROVE  /\ chain' \in [Hashes -> Decision] /\ ChainMoves /\ ChainInv'
             /\ \E o \in Outcome : Landed(r, o)
  <2>1. name \in Errors \ {"None", "Ok"}
    BY <1>6 DEF Refusals, Errors
  <2>2. Landed(r, Refused(name))
    BY <1>6, <2>1, DecisionFacts DEF Landed
  <2>3. QED
    BY <1>3, <1>4, <1>6, <2>2 DEF TypeOK, ChainMoves, ChainInv, Landed
<1>7. ASSUME NEW d \in writes, ChainIs(h, d), Tell(r, Succeeded(d))
      PROVE  /\ chain' \in [Hashes -> Decision] /\ ChainMoves /\ ChainInv'
             /\ \E o \in Outcome : Landed(r, o)
  <2>1. CASE req[r].kind = "intent" /\ chain[h].stage = "None"
    <3>1. d \in Judged(h)
      BY <1>7, <2>1
    <3>2. /\ d \in Decision /\ d.stage # "None" /\ d.version = version
          /\ d.stage = "Pending" => d.escalated
      BY <3>1, <1>2, <1>4, VerdictFacts
    <3>3. chain' \in [Hashes -> Decision] /\ ChainMoves /\ ChainInv'
      BY <3>2, <1>2, <1>3, <1>4, <1>7, <2>1, ChainStep
    <3>4. chain'[h] = d /\ \A g \in Hashes : g # h => chain'[g] = chain[g]
      BY <1>2, <1>4, <1>7 DEF ChainIs, TypeOK
    <3>5. Landed(r, Succeeded(d))
      BY <3>2, <3>4, <2>1, <1>2, <1>7, DecisionFacts DEF Landed
    <3>6. QED
      BY <3>3, <3>5 DEF Landed
  <2>2. CASE req[r].kind = "resolve" /\ chain[h].stage = "Pending"
    <3>1. d \in Resolved(h, req[r].approve)
      BY <1>7, <2>2
    <3>2. /\ d \in Decision /\ d.stage \in {"Approved", "Rejected"}
          /\ d.version = chain[h].version /\ d.escalated = chain[h].escalated
      BY <3>1, <1>2, <1>4, VerdictFacts
    <3>3. chain[h].stage # "None" /\ d.stage \in Later(chain[h].stage)
      BY <2>2, <3>2 DEF Later
    <3>4. chain' \in [Hashes -> Decision] /\ ChainMoves /\ ChainInv'
      BY <3>2, <3>3, <1>2, <1>3, <1>4, <1>7, ChainStep
    <3>5. chain'[h] = d /\ \A g \in Hashes : g # h => chain'[g] = chain[g]
      BY <1>2, <1>4, <1>7 DEF ChainIs, TypeOK
    <3>6. Landed(r, Succeeded(d))
      BY <3>2, <3>3, <3>5, <2>2, <1>2, <1>7, DecisionFacts DEF Landed
    <3>7. QED
      BY <3>4, <3>6 DEF Landed
  <2>3. QED
    BY <1>7, <2>1, <2>2
<1>8. QED
  BY <1>5, <1>6, <1>7 DEF Land, ChainIs

\* The owner and the executor move decisions forward too.
LEMMA OthersFacts ==
    ASSUME CoreInv, Others
    PROVE  /\ version' \in 1..MaxVersion /\ chain' \in [Hashes -> Decision] /\ ChainMoves /\ ChainInv'
           /\ \A h \in Hashes : chain[h].stage = "None" => chain'[h] = chain[h]
           /\ UNCHANGED <<wire, outcome, req, lane, storeVars, list, faults>>
<1>1. TypeOK /\ ChainInv
  BY DEF CoreInv
<1>2. CASE SetPolicy
  BY <1>1, <1>2, GatewayAssumption DEF SetPolicy, TypeOK, ChainMoves, ChainInv, Decision
<1>3. ASSUME NEW h \in Hashes, ResolveElsewhere(h)
      PROVE  /\ version' \in 1..MaxVersion /\ chain' \in [Hashes -> Decision] /\ ChainMoves /\ ChainInv'
             /\ \A g \in Hashes : chain[g].stage = "None" => chain'[g] = chain[g]
  <2>1. PICK d \in Resolved(h, TRUE) : ChainIs(h, d)
    BY <1>3 DEF ResolveElsewhere, ChainIs
  <2>2. /\ d \in Decision /\ d.stage \in {"Approved", "Rejected"}
        /\ d.version = chain[h].version /\ d.escalated = chain[h].escalated
    BY <1>1, VerdictFacts
  <2>3. version' = version /\ chain[h].stage = "Pending" /\ d.stage \in Later(chain[h].stage)
    BY <1>3, <2>2 DEF ResolveElsewhere, Later
  <2>4. QED
    BY <1>1, <2>1, <2>2, <2>3, ChainStep DEF ChainIs, TypeOK
<1>4. ASSUME NEW h \in Hashes, MarkSettled(h)
      PROVE  /\ version' \in 1..MaxVersion /\ chain' \in [Hashes -> Decision] /\ ChainMoves /\ ChainInv'
             /\ \A g \in Hashes : chain[g].stage = "None" => chain'[g] = chain[g]
  <2> DEFINE d == [chain[h] EXCEPT !.stage = "Settled"]
  <2>1. chain[h] \in Decision
    BY <1>1 DEF TypeOK
  <2>2. /\ d \in Decision /\ d.stage = "Settled"
        /\ d.version = chain[h].version /\ d.escalated = chain[h].escalated
    BY <2>1 DEF Decision, Stages
  <2>3. version' = version /\ chain[h].stage = "Approved" /\ d.stage \in Later(chain[h].stage)
    BY <1>4, <2>2 DEF MarkSettled, Later
  <2>4. ChainIs(h, d)
    BY <1>1, <1>4 DEF MarkSettled, ChainIs, TypeOK
  <2> HIDE DEF d
  <2>5. QED
    BY <1>1, <2>2, <2>3, <2>4, ChainStep DEF ChainIs, TypeOK
<1>5. QED
  BY <1>2, <1>3, <1>4 DEF Others, SetPolicy, ResolveElsewhere, MarkSettled

-----------------------------------------------------------------------------
(* What a handler's own step does, and what it leaves to the others. *)

Inv(r, s) == HandlerInv(r, s) /\ OutcomeInv(r, s) /\ StoredInv(r, s)

Effect(r, s) == RequestIs(r, s) /\ Inv(r, s)'

HasEffect(r) == \E s \in Handlers : Effect(r, s)

\* Nothing but a fault may lose a stored intent.
StoreGrows == /\ Faultless' => Faultless
              /\ Faultless' => \A h \in Hashes : Stored(h) => Stored(h)'

\* What is known of a handler before a step.
LEMMA Before ==
    ASSUME CoreInv, NEW r \in Requests
    PROVE  /\ TypeOK /\ ChainInv
           /\ req[r] \in Handlers /\ req[r].hash \in Hashes /\ req[r].held \in Decision
           /\ req[r].pc \in Pcs /\ req[r].status \in Nat
           /\ outcome[r] \in Outcome /\ outcome[r].decision \in Decision
           /\ chain[req[r].hash] \in Decision
           /\ HandlerInv(r, req[r]) /\ OutcomeInv(r, req[r]) /\ StoredInv(r, req[r])
  BY DEF CoreInv, TypeOK, RequestsInv, Handlers, Outcome

\* A step in which a handler does not move keeps what it relies on.
LEMMA InvStays ==
    ASSUME CoreInv, NEW x \in Requests, NEW s \in Handlers, Inv(x, s),
           x \in wire' => x \in wire, ChainMoves, StoreGrows
    PROVE  /\ HandlerInv(x, s)' /\ StoredInv(x, s)'
           /\ outcome'[x] = outcome[x] => OutcomeInv(x, s)'
<1>1. s.held \in Decision /\ s.hash \in Hashes
  BY DEF Handlers
<1>2. outcome[x].decision \in Decision
  BY Before
<1>3. \A d \in Decision : WasTold(d, s.hash) => WasTold(d, s.hash)'
  BY <1>1, Before, WasOnChainStays DEF WasTold
<1>4. HandlerInv(x, s)'
  BY <1>1, <1>3 DEF Inv, HandlerInv
<1>5. ASSUME outcome'[x] = outcome[x]
      PROVE  OutcomeInv(x, s)'
  BY <1>2, <1>3, <1>5 DEF Inv, OutcomeInv
<1>6. StoredInv(x, s)'
  BY <1>1 DEF Inv, StoredInv, StoreGrows
<1>7. QED
  BY <1>4, <1>5, <1>6

\* A handler's step that leaves the chain and the store of intents alone.
LEMMA QuietEffect ==
    ASSUME CoreInv, NEW r \in Requests, NEW s \in Handlers, RequestIs(r, s), HandlerInv(r, s),
           OutcomeInv(r, s), faults' = 0 => faults = 0 /\ StoredInv(r, s),
           outcome'[r] = outcome[r], r \in wire' => r \in wire, UNCHANGED <<chain, intents, mode>>
    PROVE  HasEffect(r)
<1>1. \A d, h : WasTold(d, h)' <=> WasTold(d, h)
  BY DEF WasTold, WasOnChain
<1>2. HandlerInv(r, s)' /\ OutcomeInv(r, s)'
  BY <1>1 DEF HandlerInv, OutcomeInv
<1>3. StoredInv(r, s)'
  BY DEF StoredInv, Faultless, Stored
<1>4. QED
  BY <1>2, <1>3 DEF HasEffect, Effect, Inv

\* Faults are only ever added.
LEMMA FaultFacts ==
    ASSUME CoreInv
    PROVE  /\ NoFault => faults' = faults
           /\ \A kind \in {"rpc", "db", "crash"} : Happens(kind) => faults' \in Nat /\ faults' # 0
  BY DEF CoreInv, TypeOK, NoFault, Happens

\* A request that is sent, built from Idle.
LEMMA ClientFrame ==
    ASSUME CoreInv, NEW r \in Requests, Client(r)
    PROVE  req[r].pc = "idle" /\ UNCHANGED <<chain, outcome, wire, intents, mode, faults>>
<1>1. CASE TurnAway(r)
  BY <1>1 DEF TurnAway, chainVars, storeVars
<1>2. ASSUME NEW h \in Hashes, PostIntent(r, h) \/ GetDecision(r, h) \/ GetIntent(r, h)
      PROVE  req[r].pc = "idle" /\ UNCHANGED <<chain, outcome, wire, intents, mode, faults>>
  BY <1>2 DEF PostIntent, GetDecision, GetIntent, chainVars, storeVars
<1>3. ASSUME NEW h \in Hashes, NEW approve \in BOOLEAN, PostResolve(r, h, approve)
      PROVE  req[r].pc = "idle" /\ UNCHANGED <<chain, outcome, wire, intents, mode, faults>>
  BY <1>3 DEF PostResolve, chainVars, storeVars
<1>4. QED
  BY <1>1, <1>2, <1>3 DEF Client

Sent(r, s) == req' = [req EXCEPT ![r] = s]

LEMMA ClientEffect ==
    ASSUME CoreInv, NEW r \in Requests, Client(r)
    PROVE  HasEffect(r)
<1>1. req[r].pc = "idle" /\ UNCHANGED <<chain, outcome, wire, intents, mode, faults>>
  BY ClientFrame
<1>2. r \notin wire /\ outcome[r].error = "None" /\ TypeOK
  BY <1>1, Before, DecisionFacts DEF HandlerInv, OutcomeInv
<1>3. ASSUME NEW s \in Handlers, Sent(r, s), s.held = NoDecision, s.status \notin {200, 202},
             s.pc \in {"received", "reading", "queued", "failed", "looking"},
             s.pc = "looking" => s.kind = "preimage",
             s.kind = "intent" => s.pc # "queued"
      PROVE  HasEffect(r)
  <2>1. RequestIs(r, s)
    BY <1>2, <1>3, RequestFacts DEF Sent
  <2>2. Inv(r, s)
    BY <1>2, <1>3, DecisionFacts DEF Inv, HandlerInv, OutcomeInv, StoredInv
  <2>3. QED
    BY <1>1, <2>1, <2>2, QuietEffect DEF Inv
<1>4. ASSUME NEW h \in Hashes, PostIntent(r, h)
      PROVE  HasEffect(r)
  <2> DEFINE s == [Idle EXCEPT !.pc = "received", !.hash = h]
  <2>1. s \in Handlers /\ s.held = NoDecision /\ s.status = 0 /\ s.pc = "received"
    BY IdleFacts DEF Handlers, Pcs
  <2>2. Sent(r, s)
    BY <1>4 DEF PostIntent, Sent
  <2> HIDE DEF s
  <2>3. QED
    BY <1>3, <2>1, <2>2
<1>5. ASSUME NEW h \in Hashes, GetDecision(r, h)
      PROVE  HasEffect(r)
  <2> DEFINE s == [Idle EXCEPT !.pc = "reading", !.kind = "decision", !.hash = h]
  <2>1. s \in Handlers /\ s.held = NoDecision /\ s.status = 0 /\ s.pc = "reading"
    BY IdleFacts DEF Handlers, Pcs
  <2>2. Sent(r, s)
    BY <1>5 DEF GetDecision, Sent
  <2> HIDE DEF s
  <2>3. QED
    BY <1>3, <2>1, <2>2
<1>6. ASSUME NEW h \in Hashes, GetIntent(r, h)
      PROVE  HasEffect(r)
  <2> DEFINE s == [Idle EXCEPT !.pc = "looking", !.kind = "preimage", !.hash = h]
  <2>1. s \in Handlers /\ s.held = NoDecision /\ s.status = 0 /\ s.pc = "looking" /\ s.kind = "preimage"
    BY IdleFacts DEF Handlers, Pcs
  <2>2. Sent(r, s)
    BY <1>6 DEF GetIntent, Sent
  <2> HIDE DEF s
  <2>3. QED
    BY <1>3, <2>1, <2>2
<1>7. ASSUME NEW h \in Hashes, NEW approve \in BOOLEAN, PostResolve(r, h, approve)
      PROVE  HasEffect(r)
  <2> DEFINE received == [Idle EXCEPT !.kind = "resolve", !.hash = h, !.approve = approve]
             queued == [received EXCEPT !.pc = "queued"]
             failed == [received EXCEPT !.pc = "failed", !.status = BadGateway]
  <2>1. received \in Handlers /\ received.held = NoDecision /\ received.status = 0 /\ received.kind = "resolve"
    BY IdleFacts DEF Handlers
  <2>2. Sent(r, queued) \/ Sent(r, failed)
    BY <1>7 DEF PostResolve, Sent
  <2> HIDE DEF received
  <2>3. queued \in Handlers /\ queued.held = NoDecision /\ queued.status = 0 /\ queued.pc = "queued"
        /\ queued.kind = "resolve"
    BY <2>1 DEF Handlers, Pcs
  <2>4. BadGateway \in Nat /\ BadGateway \notin {200, 202}
    BY DEF BadGateway
  <2>5. failed \in Handlers /\ failed.held = NoDecision /\ failed.status = BadGateway /\ failed.pc = "failed"
        /\ failed.kind = "resolve"
    BY <2>1, <2>4, ZenonT(60) DEF Handlers, Pcs
  <2> HIDE DEF queued, failed
  <2>6. QED
    BY <1>3, <2>2, <2>3, <2>4, <2>5
<1>8. ASSUME TurnAway(r)
      PROVE  HasEffect(r)
  <2>1. PICK status \in {401, 503} : Reply(r, status)
    BY <1>8 DEF TurnAway
  <2>2. status \in Nat /\ status \notin {200, 202}
    OBVIOUS
  <2>3. PICK s \in Handlers : Onward(r, s, "answered", status)
    BY <2>1, <2>2, <1>2, ReplyFacts
  <2>4. Inv(r, s)
    BY <2>2, <2>3, <1>2, Before DEF Onward, Inv, HandlerInv, OutcomeInv, StoredInv
  <2>5. QED
    BY <1>1, <2>3, <2>4, QuietEffect DEF Onward, Inv
<1>9. QED
  BY <1>4, <1>5, <1>6, <1>7, <1>8 DEF Client

-----------------------------------------------------------------------------
(* What each action does to its own handler. *)

\* What comes of storing an intent.
LEMMA InsertFacts ==
    ASSUME TypeOK, NEW h \in Hashes, InsertIntent(h)
    PROVE  /\ intents' \in Seq(Hashes)
           /\ mode = "postgres" => Stored(h)' /\ \A g \in Hashes : Stored(g) => Stored(g)'
<1> DEFINE all == IF Stored(h) THEN intents ELSE Append(intents, h)
<1>1. intents \in Seq(Hashes)
  BY DEF TypeOK
<1>2. all \in Seq(Hashes) /\ (\E i \in DOMAIN all : all[i] = h)
      /\ \A g \in Hashes : Stored(g) => \E i \in DOMAIN all : all[i] = g
  <2>1. CASE Stored(h)
    BY <1>1, <2>1 DEF Stored
  <2>2. CASE ~Stored(h)
    <3> DEFINE a == Append(intents, h)
    <3>1. all = a /\ a \in Seq(Hashes) /\ Len(a) = Len(intents) + 1 /\ a[Len(intents) + 1] = h
          /\ \A i \in 1..Len(intents) : a[i] = intents[i]
      BY <1>1, <2>2
    <3>2. DOMAIN a = 1..Len(a) /\ DOMAIN intents = 1..Len(intents) /\ Len(intents) \in Nat
      BY <1>1, <3>1
    <3> HIDE DEF a, all
    <3>3. QED
      BY <3>1, <3>2 DEF Stored
  <2>3. QED
    BY <2>1, <2>2
<1>3. intents' = IF mode = "degraded" /\ Len(all) > Cap THEN Tail(all) ELSE all
  BY DEF InsertIntent
<1> HIDE DEF all
<1>4. CASE mode = "degraded" /\ Len(all) > Cap
  <2>1. all # <<>>
    BY <1>2, <1>4, GatewayAssumption
  <2>2. Tail(all) \in Seq(Hashes)
    BY <1>2, <2>1
  <2>3. QED
    BY <1>3, <1>4, <2>2
<1>5. CASE ~(mode = "degraded" /\ Len(all) > Cap)
  BY <1>2, <1>3, <1>5 DEF Stored
<1>6. QED
  BY <1>4, <1>5

\* What the contract's failures are answered with.
LEMMA HttpFacts ==
    /\ \A name : HttpForContractFailure(name) \in Nat /\ HttpForContractFailure(name) \notin {200, 202}
    /\ BadGateway \in Nat /\ BadGateway \notin {200, 202}
<1>1. \A name : HttpForContractFailure(name) \in {404, 409, 422, 500}
  BY DEF HttpForContractFailure
<1>2. QED
  BY <1>1 DEF BadGateway

LEMMA RecordIntentEffect ==
    ASSUME CoreInv, NEW r \in Requests, RecordIntent(r)
    PROVE  HasEffect(r) /\ StoreGrows
<1>1. /\ req[r].pc = "received" /\ Goto(r, "queued")
      /\ UNCHANGED <<chain, outcome, wire, mode>>
  BY DEF RecordIntent, chainVars
<1>2. PICK s \in Handlers : Onward(r, s, "queued", req[r].status)
  <2>1. "queued" \in Pcs
    BY DEF Pcs
  <2>2. QED
    BY <1>1, <2>1, Before, GotoFacts
<1>3. PICK h \in Hashes : h = req[r].hash
  BY Before
<1>4. StoreGrows /\ (Faultless' => Stored(h)')
  <2>1. Faultless' => Faultless /\ InsertIntent(h)
    BY <1>3, FaultFacts DEF RecordIntent, Guard, Faultless
  <2>2. Faultless' => Faultless /\ Stored(h)' /\ \A g \in Hashes : Stored(g) => Stored(g)'
    BY <2>1, Before, InsertFacts DEF Faultless
  <2>3. QED
    BY <2>2 DEF StoreGrows
<1>5. \A d, g : WasTold(d, g)' <=> WasTold(d, g)
  BY <1>1 DEF WasTold, WasOnChain
<1>6. HandlerInv(r, s)' /\ OutcomeInv(r, s)'
  BY <1>1, <1>2, <1>5, Before DEF Onward, HandlerInv, OutcomeInv
<1>7. StoredInv(r, s)'
  BY <1>2, <1>3, <1>4 DEF Onward, StoredInv
<1>8. QED
  BY <1>2, <1>4, <1>6, <1>7 DEF HasEffect, Effect, Inv, Onward

LEMMA SimulationFailsEffect ==
    ASSUME CoreInv, NEW r \in Requests, SimulationFails(r)
    PROVE  HasEffect(r)
<1>1. /\ req[r].pc = "queued"
      /\ UNCHANGED <<chain, outcome, wire, mode, intents>>
  BY DEF SimulationFails, chainVars, storeVars
<1>2. faults' = 0 => faults = 0
  BY FaultFacts DEF SimulationFails
<1>3. PICK status \in Nat : status \notin {200, 202} /\ Fail(r, status)
  BY HttpFacts DEF SimulationFails
<1>4. PICK s \in Handlers : Onward(r, s, "failed", status)
  BY <1>3, Before, FailFacts
<1>5. HandlerInv(r, s) /\ OutcomeInv(r, s) /\ StoredInv(r, s)
  BY <1>1, <1>3, <1>4, Before DEF Onward, HandlerInv, OutcomeInv, StoredInv
<1>6. QED
  BY <1>1, <1>2, <1>4, <1>5, QuietEffect DEF Onward

LEMMA SubmitEffect ==
    ASSUME CoreInv, NEW r \in Requests, Submit(r)
    PROVE  HasEffect(r)
<1>1. /\ req[r].pc = "queued" /\ Goto(r, "submitted") /\ wire' = wire \cup {r}
      /\ UNCHANGED <<chain, outcome, mode, intents, faults>>
  BY DEF Submit, storeVars
<1>2. PICK s \in Handlers : Onward(r, s, "submitted", req[r].status)
  <2>1. "submitted" \in Pcs
    BY DEF Pcs
  <2>2. QED
    BY <1>1, <2>1, Before, GotoFacts
<1>3. \A d, h : WasTold(d, h)' <=> WasTold(d, h)
  BY <1>1 DEF WasTold, WasOnChain
<1>4. HandlerInv(r, s)' /\ OutcomeInv(r, s)'
  BY <1>1, <1>2, <1>3, Before DEF Onward, HandlerInv, OutcomeInv
<1>5. StoredInv(r, s)'
  BY <1>1, <1>2, Before DEF Onward, StoredInv, Faultless, Stored
<1>6. QED
  BY <1>2, <1>4, <1>5 DEF HasEffect, Effect, Inv, Onward

LEMMA ObserveEffect ==
    ASSUME CoreInv, NEW r \in Requests, Observe(r) \/ Unobserved(r)
    PROVE  HasEffect(r)
<1>1. /\ req[r].pc = "submitted" /\ outcome' = [outcome EXCEPT ![r] = NoOutcome]
      /\ UNCHANGED <<chain, wire, mode, intents>>
  BY DEF Observe, Unobserved, storeVars
<1>2. faults' = 0 => faults = 0
  BY FaultFacts DEF Observe, Unobserved
<1>3. outcome'[r].error = "None"
  BY <1>1, Before, DecisionFacts DEF TypeOK
<1>4. \A d, g : WasTold(d, g)' <=> WasTold(d, g)
  BY <1>1 DEF WasTold, WasOnChain
<1>5. ASSUME NEW s \in Handlers, RequestIs(r, s), HandlerInv(r, s), s.hash = req[r].hash, s.kind = req[r].kind,
             s.pc \in {"escalated", "decided", "failed"}
      PROVE  HasEffect(r)
  <2>1. HandlerInv(r, s)' /\ OutcomeInv(r, s)'
    BY <1>1, <1>3, <1>4, <1>5 DEF HandlerInv, OutcomeInv
  <2>2. StoredInv(r, s)'
    BY <1>1, <1>2, <1>5, Before DEF StoredInv, Faultless, Stored
  <2>3. QED
    BY <1>5, <2>1, <2>2 DEF HasEffect, Effect, Inv
<1>6. ASSUME NEW status \in Nat, status \notin {200, 202}, Fail(r, status)
      PROVE  HasEffect(r)
  <2>1. PICK s \in Handlers : Onward(r, s, "failed", status)
    BY <1>6, Before, FailFacts
  <2>2. HandlerInv(r, s)
    BY <1>1, <1>6, <2>1, Before DEF Onward, HandlerInv
  <2>3. QED
    BY <1>5, <2>1, <2>2 DEF Onward
<1>7. ASSUME NEW pc \in {"escalated", "decided"}, outcome[r].error = "Ok",
             req' = [req EXCEPT ![r].held = outcome[r].decision, ![r].pc = pc],
             pc = "escalated" => req[r].kind = "intent" /\ outcome[r].decision.stage = "Pending"
      PROVE  HasEffect(r)
  <2> DEFINE s == [req[r] EXCEPT !.held = outcome[r].decision, !.pc = pc]
  <2>1. /\ s \in Handlers /\ s.pc = pc /\ s.held = outcome[r].decision
        /\ s.hash = req[r].hash /\ s.kind = req[r].kind /\ s.status = req[r].status
    BY Before DEF Handlers, Pcs
  <2>2. req' = [req EXCEPT ![r] = s]
    BY <1>7, Before DEF TypeOK
  <2> HIDE DEF s
  <2>3. RequestIs(r, s)
    BY <2>1, <2>2, Before, RequestFacts
  <2>4. req[r].status \notin {200, 202}
    BY <1>1, Before DEF HandlerInv
  <2>5. HandlerInv(r, s)
    BY <1>1, <1>7, <2>1, <2>4, Before DEF HandlerInv, OutcomeInv
  <2>6. QED
    BY <1>5, <2>1, <2>3, <2>5
<1>8. CASE Unobserved(r)
  BY <1>6, <1>8, HttpFacts DEF Unobserved
<1>9. CASE Observe(r)
  BY <1>6, <1>7, <1>9, HttpFacts DEF Observe
<1>10. QED
  BY <1>8, <1>9

\* The policy is read no older than the one that escalated the intent.
LEMMA ReadPolicyEffect ==
    ASSUME CoreInv, NEW r \in Requests, ReadPolicy(r)
    PROVE  HasEffect(r)
<1>1. /\ req[r].pc = "escalated"
      /\ UNCHANGED <<chain, outcome, wire, mode, intents>>
  BY DEF ReadPolicy, chainVars, storeVars
<1>2. faults' = 0 => faults = 0
  BY FaultFacts DEF ReadPolicy, GetPolicy
<1>3. version \in 0..MaxVersion /\ chain[req[r].hash].version <= version
  BY Before, GatewayAssumption DEF TypeOK, ChainInv
<1>4. CASE Goto(r, "decided")
  <2>1. PICK s \in Handlers : Onward(r, s, "decided", req[r].status)
    BY <1>4, Before, GotoFacts DEF Pcs
  <2>2. HandlerInv(r, s) /\ OutcomeInv(r, s) /\ StoredInv(r, s)
    BY <1>1, <2>1, Before DEF Onward, HandlerInv, OutcomeInv, StoredInv
  <2>3. QED
    BY <1>1, <1>2, <2>1, <2>2, QuietEffect DEF Onward
<1>5. CASE req' = [req EXCEPT ![r].pc = "ruled", ![r].rule = version]
  <2> DEFINE s == [req[r] EXCEPT !.pc = "ruled", !.rule = version]
  <2>1. /\ s \in Handlers /\ s.pc = "ruled" /\ s.rule = version /\ s.held = req[r].held
        /\ s.hash = req[r].hash /\ s.kind = req[r].kind /\ s.status = req[r].status
    BY <1>3, Before DEF Handlers, Pcs
  <2>2. req' = [req EXCEPT ![r] = s]
    BY <1>5, Before DEF TypeOK
  <2> HIDE DEF s
  <2>3. RequestIs(r, s)
    BY <2>1, <2>2, Before, RequestFacts
  <2>4. HandlerInv(r, s) /\ OutcomeInv(r, s) /\ StoredInv(r, s)
    BY <1>1, <1>3, <2>1, Before DEF HandlerInv, OutcomeInv, StoredInv, WasTold, WasOnChain
  <2>5. QED
    BY <1>1, <1>2, <2>1, <2>3, <2>4, QuietEffect
<1>6. QED
  BY <1>4, <1>5 DEF ReadPolicy, GetPolicy

LEMMA SnapshotEffect ==
    ASSUME CoreInv, NEW r \in Requests, SnapshotEscalation(r)
    PROVE  HasEffect(r)
<1>1. /\ req[r].pc = "ruled" /\ Goto(r, "decided")
      /\ UNCHANGED <<chain, outcome, wire, mode, intents>>
  BY DEF SnapshotEscalation, chainVars
<1>2. faults' = 0 => faults = 0
  BY FaultFacts DEF SnapshotEscalation, Guard
<1>3. PICK s \in Handlers : Onward(r, s, "decided", req[r].status)
  BY <1>1, Before, GotoFacts DEF Pcs
<1>4. HandlerInv(r, s) /\ OutcomeInv(r, s) /\ StoredInv(r, s)
  BY <1>1, <1>3, Before DEF Onward, HandlerInv, OutcomeInv, StoredInv
<1>5. QED
  BY <1>1, <1>2, <1>3, <1>4, QuietEffect DEF Onward

LEMMA RecordEffect ==
    ASSUME CoreInv, NEW r \in Requests, RecordDecision(r) \/ RecordResolution(r)
    PROVE  HasEffect(r)
<1>1. /\ req[r].pc = "decided" /\ req[r].kind \in {"intent", "resolve"}
      /\ UNCHANGED <<chain, outcome, wire, mode, intents>>
  BY DEF RecordDecision, RecordResolution, chainVars
<1>2. faults' = 0 => faults = 0
  BY FaultFacts DEF RecordDecision, RecordResolution, Guard
<1>3. PICK status \in {200, 202} : Reply(r, status) /\ (status = 202 => req[r].held.stage = "Pending")
  BY DEF RecordDecision, RecordResolution, Answer
<1>4. PICK s \in Handlers : Onward(r, s, "answered", status)
  <2>1. status \in Nat
    OBVIOUS
  <2>2. QED
    BY <1>3, <2>1, Before, ReplyFacts
<1>5. HandlerInv(r, s) /\ OutcomeInv(r, s) /\ StoredInv(r, s)
  BY <1>1, <1>3, <1>4, Before DEF Onward, HandlerInv, OutcomeInv, StoredInv
<1>6. QED
  BY <1>1, <1>2, <1>4, <1>5, QuietEffect DEF Onward

LEMMA ReplyFailureEffect ==
    ASSUME CoreInv, NEW r \in Requests, ReplyFailure(r)
    PROVE  HasEffect(r)
<1>1. /\ req[r].pc = "failed" /\ Goto(r, "answered")
      /\ UNCHANGED <<chain, outcome, wire, mode, intents, faults>>
  BY DEF ReplyFailure, chainVars, storeVars
<1>2. PICK s \in Handlers : Onward(r, s, "answered", req[r].status)
  BY <1>1, Before, GotoFacts DEF Pcs
<1>3. HandlerInv(r, s) /\ OutcomeInv(r, s) /\ StoredInv(r, s)
  BY <1>1, <1>2, Before DEF Onward, HandlerInv, OutcomeInv, StoredInv
<1>4. QED
  BY <1>1, <1>2, <1>3, QuietEffect DEF Onward

\* The decision that is read is one on chain.
LEMMA ReadDecisionEffect ==
    ASSUME CoreInv, NEW r \in Requests, ReadDecision(r)
    PROVE  HasEffect(r)
<1>1. /\ req[r].pc = "reading"
      /\ UNCHANGED <<chain, outcome, wire, mode, intents>>
  BY DEF ReadDecision, chainVars, storeVars
<1>2. faults' = 0 => faults = 0
  BY FaultFacts DEF ReadDecision
<1>3. ASSUME NEW status \in Nat, status \notin {200, 202}, Reply(r, status)
      PROVE  HasEffect(r)
  <2>1. PICK s \in Handlers : Onward(r, s, "answered", status)
    BY <1>3, Before, ReplyFacts
  <2>2. HandlerInv(r, s) /\ OutcomeInv(r, s) /\ StoredInv(r, s)
    BY <1>1, <1>3, <2>1, Before DEF Onward, HandlerInv, OutcomeInv, StoredInv
  <2>3. QED
    BY <1>1, <1>2, <2>1, <2>2, QuietEffect DEF Onward
<1>4. ASSUME chain[req[r].hash] # NoDecision, NEW pc \in {"looking", "answered"},
             pc = IF req[r].kind = "decision" THEN "looking" ELSE "answered",
             req' = [req EXCEPT ![r].held = chain[req[r].hash], ![r].status = 200, ![r].pc = pc]
      PROVE  HasEffect(r)
  <2>1. PICK d \in Decision : d = chain[req[r].hash] /\ d.stage # "None" /\ WasTold(d, req[r].hash)
    <3>1. PICK h \in Hashes : h = req[r].hash
      BY Before
    <3>2. chain[h] \in Decision /\ chain[h].stage # "None" /\ (chain[h].stage = "Pending" => chain[h].escalated)
      BY <3>1, <1>4, Before DEF ChainInv
    <3>3. QED
      BY <3>1, <3>2, HeldIsTold
  <2> DEFINE s == [req[r] EXCEPT !.held = d, !.status = 200, !.pc = pc]
  <2>2. /\ s \in Handlers /\ s.pc = pc /\ s.held = d /\ s.status = 200
        /\ s.hash = req[r].hash /\ s.kind = req[r].kind
    <3>1. req[r] \in Handlers /\ pc \in Pcs /\ 200 \in Nat
      BY Before DEF Pcs
    <3>2. QED
      BY <3>1, ZenonT(60) DEF Handlers
  <2>3. req' = [req EXCEPT ![r] = s]
    BY <1>4, <2>1, Before, ZenonT(60) DEF TypeOK
  <2> HIDE DEF s
  <2>4. RequestIs(r, s)
    BY <2>2, <2>3, Before, RequestFacts
  <2>5. HandlerInv(r, s) /\ OutcomeInv(r, s) /\ StoredInv(r, s)
    BY <1>1, <1>4, <2>1, <2>2, Before DEF HandlerInv, OutcomeInv, StoredInv
  <2>6. QED
    BY <1>1, <1>2, <2>2, <2>4, <2>5, QuietEffect
<1>5. QED
  BY <1>3, <1>4, HttpFacts DEF ReadDecision

\* Unless something fails, the intent of a decision is found.
LEMMA LookForIntentEffect ==
    ASSUME CoreInv, NEW r \in Requests, LookForIntent(r)
    PROVE  HasEffect(r)
<1>1. /\ req[r].pc = "looking"
      /\ UNCHANGED <<chain, outcome, wire, mode, intents>>
  BY DEF LookForIntent, chainVars, storeVars
<1>2. PICK found \in BOOLEAN : PreimageBlock(r, found) /\ (faults' = 0 => faults = 0 /\ found = Stored(req[r].hash))
  BY FaultFacts DEF LookForIntent, Guard, Stored
<1>3. req[r].kind = "decision" /\ Faultless => Stored(req[r].hash)
  <2>1. req[r].kind = "decision" => chain[req[r].hash].stage # "None"
    BY <1>1, Before DEF HandlerInv, WasTold, WasOnChain, Later, Decision, Stages
  <2>2. QED
    BY <2>1, Before DEF CoreInv, DecidedIsStored
<1> DEFINE pc == IF req[r].kind = "decision" THEN "answered" ELSE "reading"
           s == [req[r] EXCEPT !.preimage = found, !.pc = pc]
<1>4. /\ s \in Handlers /\ s.pc = pc /\ s.held = req[r].held /\ s.status = req[r].status
      /\ s.hash = req[r].hash /\ s.kind = req[r].kind /\ s.preimage = found
  BY <1>2, Before DEF Handlers, Pcs
<1>5. req' = [req EXCEPT ![r] = s]
  BY <1>2, Before DEF TypeOK, PreimageBlock
<1> HIDE DEF s
<1>6. RequestIs(r, s)
  BY <1>4, <1>5, Before, RequestFacts
<1>7. HandlerInv(r, s) /\ OutcomeInv(r, s)
  BY <1>1, <1>4, Before DEF HandlerInv, OutcomeInv
<1>8. faults' = 0 => faults = 0 /\ StoredInv(r, s)
  BY <1>1, <1>2, <1>3, <1>4, Before DEF StoredInv, Faultless
<1>9. QED
  BY <1>1, <1>4, <1>6, <1>7, <1>8, QuietEffect

LEMMA HandlerEffect ==
    ASSUME CoreInv, NEW r \in Requests, Handler(r)
    PROVE  HasEffect(r)
  BY RecordIntentEffect, SimulationFailsEffect, SubmitEffect, ObserveEffect, ReadPolicyEffect,
     SnapshotEffect, RecordEffect, ReplyFailureEffect, ReadDecisionEffect, LookForIntentEffect DEF Handler

-----------------------------------------------------------------------------
(* What a step of a handler or of its client does to the rest of the state. *)

Frame(r) ==
    /\ UNCHANGED <<version, chain, mode, list>>
    /\ wire' = wire \/ wire' = wire \cup {r}
    /\ outcome' = outcome \/ outcome' = [outcome EXCEPT ![r] = NoOutcome]
    /\ faults' = faults \/ faults' \in Nat \ {0}
    /\ intents' = intents \/ InsertIntent(req[r].hash)
    /\ rows' = rows \/ (req[r].pc = "decided" /\ RecordRow(req[r].hash, req[r].held))
    /\ queue' = queue \/ (req[r].pc = "ruled" /\ EnqueueApproval(req[r].hash, req[r].rule))

LEMMA HandlerFrame ==
    ASSUME CoreInv, NEW r \in Requests, Client(r) \/ Handler(r)
    PROVE  Frame(r)
<1>1. CASE Client(r)
  <2>1. CASE TurnAway(r)
    BY <2>1 DEF TurnAway, Frame, chainVars, storeVars
  <2>2. ASSUME NEW h \in Hashes, PostIntent(r, h) \/ GetDecision(r, h) \/ GetIntent(r, h)
        PROVE  Frame(r)
    BY <2>2 DEF PostIntent, GetDecision, GetIntent, Frame, chainVars, storeVars
  <2>3. ASSUME NEW h \in Hashes, NEW approve \in BOOLEAN, PostResolve(r, h, approve)
        PROVE  Frame(r)
    BY <2>3 DEF PostResolve, Frame, chainVars, storeVars
  <2>4. QED
    BY <1>1, <2>1, <2>2, <2>3 DEF Client
<1>2. CASE RecordIntent(r)
  BY <1>2, FaultFacts DEF RecordIntent, Guard, Frame, chainVars
<1>3. CASE SimulationFails(r)
  BY <1>3, FaultFacts DEF SimulationFails, Frame, chainVars, storeVars
<1>4. CASE Submit(r)
  BY <1>4 DEF Submit, Frame, storeVars
<1>5. CASE Observe(r)
  BY <1>5 DEF Observe, Frame, storeVars
<1>6. CASE Unobserved(r)
  BY <1>6, FaultFacts DEF Unobserved, Frame, storeVars
<1>7. CASE ReadPolicy(r)
  BY <1>7, FaultFacts DEF ReadPolicy, GetPolicy, Frame, chainVars, storeVars
<1>8. CASE SnapshotEscalation(r)
  BY <1>8, FaultFacts DEF SnapshotEscalation, Guard, Frame, chainVars
<1>9. CASE RecordDecision(r) \/ RecordResolution(r)
  BY <1>9, FaultFacts DEF RecordDecision, RecordResolution, Guard, Frame, chainVars
<1>10. CASE ReplyFailure(r)
  BY <1>10 DEF ReplyFailure, Frame, chainVars, storeVars
<1>11. CASE ReadDecision(r)
  BY <1>11, FaultFacts DEF ReadDecision, Frame, chainVars, storeVars
<1>12. CASE LookForIntent(r)
  BY <1>12, FaultFacts DEF LookForIntent, Guard, Frame, chainVars, storeVars
<1>13. QED
  BY <1>1, <1>2, <1>3, <1>4, <1>5, <1>6, <1>7, <1>8, <1>9, <1>10, <1>11, <1>12 DEF Handler

\* The store of intents only grows where nothing fails.
LEMMA FrameStore ==
    ASSUME CoreInv, NEW r \in Requests, Frame(r)
    PROVE  StoreGrows /\ intents' \in Seq(Hashes)
<1>1. PICK h \in Hashes : h = req[r].hash
  BY Before
<1>2. CASE intents' = intents
  BY <1>2, Before DEF StoreGrows, Frame, Faultless, Stored, TypeOK
<1>3. CASE InsertIntent(h)
  BY <1>3, Before, InsertFacts DEF StoreGrows, Frame, Faultless
<1>4. QED
  BY <1>1, <1>2, <1>3 DEF Frame

-----------------------------------------------------------------------------
(* The cache and the queue. *)

\* A row that is written is of a decision that was on chain.
LEMMA RowFacts ==
    ASSUME CoreInv, NEW h \in Hashes, NEW d \in Decision, WasOnChain(d, h),
           rows' = rows \/ RecordRow(h, d), UNCHANGED chain
    PROVE  rows' \in [Hashes -> Decision] /\ CacheTrailsChain'
<1>1. rows \in [Hashes -> Decision] /\ d.stage # "None" /\ d.stage \in Stages
  BY DEF CoreInv, TypeOK, WasOnChain, Decision
<1>2. \A g \in Hashes : rows[g] # NoDecision => WasOnChain(rows[g], g)
  BY DEF CoreInv, CacheTrailsChain
<1>3. CASE rows' = rows
  BY <1>1, <1>2, <1>3 DEF CacheTrailsChain, WasOnChain
<1>4. ASSUME NEW e \in Decision, rows' = [rows EXCEPT ![h] = e], WasOnChain(e, h)
      PROVE  rows' \in [Hashes -> Decision] /\ CacheTrailsChain'
  <2>1. rows' \in [Hashes -> Decision]
    BY <1>1, <1>4
  <2>2. ASSUME NEW g \in Hashes, rows'[g] # NoDecision
        PROVE  WasOnChain(rows'[g], g)
    BY <1>1, <1>2, <1>4, <2>2
  <2>3. QED
    BY <2>1, <2>2 DEF CacheTrailsChain, WasOnChain
<1>5. CASE rows[h] = NoDecision /\ rows' = [rows EXCEPT ![h] = d]
  BY <1>4, <1>5
<1>6. CASE rows[h] # NoDecision /\ rows' = [rows EXCEPT ![h].stage = d.stage]
  <2> DEFINE e == [rows[h] EXCEPT !.stage = d.stage]
  <2>1. e \in Decision /\ e.stage = d.stage /\ e.version = rows[h].version /\ e.escalated = rows[h].escalated
    BY <1>1 DEF Decision
  <2>2. rows' = [rows EXCEPT ![h] = e]
    BY <1>1, <1>6
  <2> HIDE DEF e
  <2>3. WasOnChain(e, h)
    BY <1>1, <1>2, <1>6, <2>1 DEF WasOnChain
  <2>4. QED
    BY <1>4, <2>1, <2>2, <2>3
<1>7. QED
  BY <1>3, <1>5, <1>6 DEF RecordRow

\* The clock is ahead of every row.
LEMMA TickFacts ==
    ASSUME TypeOK, ClockInv
    PROVE  Tick \in Nat /\ \A q \in queue : q.at < Tick /\ q.since < Tick
<1>1. \A q \in queue : q.at \in Nat /\ q.since \in Nat /\ q.since <= q.at
  BY DEF TypeOK, QueueRow, ClockInv
<1>2. \A u \in Ats : u \in Nat
  BY <1>1 DEF Ats
<1> DEFINE t == CHOOSE t \in Ats : \A u \in Ats : u <= t
<1>3. t \in Ats /\ \A u \in Ats : u <= t
  BY DEF ClockInv
<1>4. Tick = 1 + t
  BY DEF Tick, Ats
<1> HIDE DEF t
<1>5. \A q \in queue : q.at \in Ats
  BY DEF Ats
<1>6. t \in Nat
  BY <1>2, <1>3
<1>7. \A q \in queue : q.at <= t
  BY <1>3, <1>5
<1>8. QED
  BY <1>1, <1>4, <1>6, <1>7

\* A row of h, written now.
Written(h, v, q) == q \in QueueRow /\ q.hash = h /\ q.version = v /\ q.at = Tick /\ q.since <= Tick

\* The row of h is put in, or written over, and the others are kept but for one that the
\* degraded store may have to let go.
LEMMA SetEntryFacts ==
    ASSUME CoreInv, NEW h \in Hashes, NEW v \in 0..MaxVersion, EnqueueApproval(h, v)
    PROVE  \/ queue' = queue
           \/ /\ \E q \in queue' : Written(h, v, q)
              /\ \A p \in queue' : (p \in queue /\ p.hash # h) \/ Written(h, v, p)
              /\ \A p, q \in queue' : p.hash = h /\ q.hash = h => p = q
<1> DEFINE fresh == [hash |-> h, version |-> v, since |-> Tick, at |-> Tick]
           all == queue \cup {fresh}
           moved == {[fresh EXCEPT !.since = q.since] : q \in RowOf(h)}
<1>1. TypeOK /\ ClockInv /\ (\A p, q \in queue : p.hash = q.hash => p = q)
  BY DEF CoreInv, QueueInv
<1>2. Tick \in Nat /\ \A q \in queue : q.at < Tick /\ q.since < Tick
  BY <1>1, TickFacts
<1>3. fresh \in QueueRow /\ fresh.hash = h /\ Written(h, v, fresh) /\ fresh.since = Tick /\ fresh.at = Tick
  BY <1>2 DEF QueueRow, Written
<1>4. ASSUME RowOf(h) = {}
      PROVE  /\ \A p \in queue : p.hash # h
             /\ \A p \in all : (p \in queue /\ p.hash # h) \/ Written(h, v, p)
             /\ \A p, q \in all : p.hash = h /\ q.hash = h => p = q
  BY <1>3, <1>4 DEF RowOf
<1>5. fresh \in Trim(all)
  <2>1. ASSUME fresh \in Oldest(all), Cardinality(all) > Cap
        PROVE  FALSE
    <3>1. \A p \in queue : Tick <= p.since
      BY <1>3, <2>1 DEF Oldest
    <3>2. \A p \in queue : p.since \in Nat
      BY <1>1 DEF TypeOK, QueueRow
    <3>3. queue = {}
      BY <1>2, <3>1, <3>2
    <3>4. Cardinality(all) = 1
      BY <3>3, FS_Singleton
    <3>5. QED
      BY <2>1, <3>4, GatewayAssumption
  <2>2. QED
    BY <2>1 DEF Trim
<1>6. Trim(all) \subseteq all
  BY DEF Trim
<1>7. CASE RowOf(h) = {} /\ queue' \in {all, Trim(all)}
  <2>1. fresh \in queue' /\ queue' \subseteq all
    BY <1>5, <1>6, <1>7
  <2>2. QED
    BY <1>3, <1>4, <1>7, <2>1
<1>8. CASE RowOf(h) # {} /\ queue' = (queue \ RowOf(h)) \cup moved
  <2>1. PICK o \in queue : o.hash = h
    BY <1>8 DEF RowOf
  <2>2. RowOf(h) = {o}
    BY <1>1, <2>1 DEF RowOf
  <2> DEFINE n == [fresh EXCEPT !.since = o.since]
  <2>3. o.since \in Nat /\ o.since <= Tick
    BY <1>1, <1>2 DEF TypeOK, QueueRow
  <2>4. n = [hash |-> h, version |-> v, since |-> o.since, at |-> Tick]
    OBVIOUS
  <2>5. Written(h, v, n) /\ n.hash = h
    BY <1>2, <2>3, <2>4 DEF Written, QueueRow
  <2>6. moved = {n}
    BY <2>2
  <2> HIDE DEF moved, n, fresh
  <2>7. queue' = (queue \ {o}) \cup {n}
    BY <1>8, <2>2, <2>6
  <2>8. \A p \in queue \ {o} : p.hash # h
    BY <2>2 DEF RowOf
  <2>9. QED
    BY <2>5, <2>7, <2>8
<1>9. CASE mode = "degraded"
  BY <1>7, <1>8, <1>9 DEF EnqueueApproval, SetEntry
<1>10. CASE mode = "postgres"
  BY <1>7, <1>10 DEF EnqueueApproval
<1>11. QED
  BY <1>1, <1>9, <1>10 DEF TypeOK

\* So the queue keeps its invariant.
LEMMA EnqueueFacts ==
    ASSUME CoreInv, NEW h \in Hashes, NEW v \in 0..MaxVersion, EnqueueApproval(h, v) \/ queue' = queue,
           EnqueueApproval(h, v) => chain[h].escalated /\ v >= chain[h].version, UNCHANGED chain
    PROVE  queue' \subseteq QueueRow /\ QueueInv'
<1>1. TypeOK /\ ClockInv /\ QueueHoldsEscalations /\ (\A p, q \in queue : p.hash = q.hash => p = q)
  BY DEF CoreInv, QueueInv
<1>2. CASE queue' = queue
  BY <1>1, <1>2 DEF TypeOK, QueueInv, ClockInv, Ats, QueueHoldsEscalations
<1>3. ASSUME EnqueueApproval(h, v), NEW o \in queue', Written(h, v, o),
             \A p \in queue' : (p \in queue /\ p.hash # h) \/ Written(h, v, p),
             \A p, q \in queue' : p.hash = h /\ q.hash = h => p = q
      PROVE  queue' \subseteq QueueRow /\ QueueInv'
  <2>1. queue' \subseteq QueueRow
    BY <1>1, <1>3 DEF TypeOK, Written
  <2>2. Tick \in Nat /\ \A q \in queue : q.at < Tick /\ q.since < Tick
    BY <1>1, TickFacts
  <2>3. \A q \in queue' : q.at \in Nat /\ q.at <= Tick /\ q.since <= q.at
    BY <1>1, <1>3, <2>1, <2>2 DEF Written, QueueRow, ClockInv
  <2>4. PICK now \in Nat : now = Tick
    BY <2>2
  <2>5. ClockInv'
    <3>1. o.at = now /\ now \in {0} \cup {q.at : q \in queue'}
      BY <1>3, <2>4 DEF Written
    <3>2. \A u \in {0} \cup {q.at : q \in queue'} : u <= now
      BY <2>3, <2>4
    <3>3. QED
      BY <2>3, <3>1, <3>2 DEF ClockInv, Ats
  <2>6. QueueHoldsEscalations'
    BY <1>1, <1>3 DEF QueueHoldsEscalations, Written
  <2>7. \A p, q \in queue' : p.hash = q.hash => p = q
    BY <1>1, <1>3 DEF Written
  <2>8. QED
    BY <2>1, <2>5, <2>6, <2>7 DEF QueueInv
<1>4. QED
  BY <1>2, <1>3, SetEntryFacts

-----------------------------------------------------------------------------
(* The invariant is kept. *)

\* What the other handlers rely on survives the step of one of them.
LEMMA OwnRequests ==
    ASSUME CoreInv, NEW r \in Requests, HasEffect(r), ChainMoves, StoreGrows,
           \A x \in Requests : x # r => outcome'[x] = outcome[x] /\ (x \in wire' => x \in wire)
    PROVE  req' \in [Requests -> Handlers] /\ RequestsInv'
<1>1. PICK s \in Handlers : RequestIs(r, s) /\ Inv(r, s)'
  BY DEF HasEffect, Effect
<1>2. ASSUME NEW x \in Requests
      PROVE  \E t \in Handlers : req'[x] = t /\ Inv(x, t)'
  <2>1. CASE x = r
    BY <1>1, <2>1 DEF RequestIs
  <2>2. CASE x # r
    <3>1. PICK t \in Handlers : t = req[x]
      BY Before
    <3>2. Inv(x, t)
      BY <3>1, Before DEF Inv
    <3>3. Inv(x, t)'
      BY <2>2, <3>2, InvStays DEF Inv
    <3>4. req'[x] = t
      BY <1>1, <2>2, <3>1 DEF RequestIs
    <3>5. QED
      BY <3>3, <3>4
  <2>3. QED
    BY <2>1, <2>2
<1>3. RequestsInv'
  BY <1>2 DEF RequestsInv, Inv
<1>4. QED
  BY <1>1, <1>3 DEF RequestIs

\* And so it does when nobody moves.
LEMMA StillRequests ==
    ASSUME CoreInv, UNCHANGED <<req, outcome>>, wire' \subseteq wire, ChainMoves, StoreGrows
    PROVE  RequestsInv'
<1>1. ASSUME NEW x \in Requests
      PROVE  \E t \in Handlers : req'[x] = t /\ Inv(x, t)'
  <2>1. PICK t \in Handlers : t = req[x]
    BY Before
  <2>2. Inv(x, t)
    BY <2>1, Before DEF Inv
  <2>3. Inv(x, t)'
    BY <2>2, InvStays DEF Inv
  <2>4. QED
    BY <2>1, <2>3
<1>2. QED
  BY <1>1 DEF RequestsInv, Inv

\* The rest is kept by a step that leaves the cache and the queue alone.
LEMMA StillStore ==
    ASSUME CoreInv, ChainMoves, chain' \in [Hashes -> Decision], UNCHANGED <<rows, queue>>
    PROVE  CacheTrailsChain' /\ QueueInv'
<1>1. rows \in [Hashes -> Decision] /\ queue \subseteq QueueRow
  BY DEF CoreInv, TypeOK
<1>2. CacheTrailsChain'
  <2>1. ASSUME NEW h \in Hashes, rows[h] # NoDecision
        PROVE  WasOnChain(rows[h], h)'
    <3>1. PICK d \in Decision : d = rows[h] /\ WasOnChain(d, h)
      BY <1>1, <2>1 DEF CoreInv, CacheTrailsChain
    <3>2. WasOnChain(d, h)'
      BY <3>1, WasOnChainStays DEF CoreInv
    <3>3. QED
      BY <3>1, <3>2 DEF WasOnChain
  <2>2. QED
    BY <2>1 DEF CacheTrailsChain, WasOnChain
<1>3. \A h \in Hashes : chain[h].escalated => chain'[h].escalated /\ chain'[h].version = chain[h].version
  BY DecisionFacts DEF ChainMoves, CoreInv, ChainInv
<1>4. QueueHoldsEscalations'
  BY <1>1, <1>3 DEF QueueHoldsEscalations, CoreInv, QueueInv, QueueRow
<1>5. QED
  BY <1>2, <1>4 DEF CoreInv, QueueInv, ClockInv, Ats

\* A step of a handler or of its client.
LEMMA CoreOwn ==
    ASSUME CoreInv, NEW r \in Requests, Client(r) \/ Handler(r)
    PROVE  CoreInv'
<1>1. Frame(r) /\ HasEffect(r)
  BY HandlerFrame, ClientEffect, HandlerEffect
<1>2. StoreGrows /\ intents' \in Seq(Hashes)
  BY <1>1, FrameStore
<1>3. ChainMoves
  BY <1>1 DEF Frame, ChainMoves
<1>4. TypeOK /\ ChainInv
  BY DEF CoreInv
<1>5. outcome' \in [Requests -> Outcome] /\ \A x \in Requests : x # r => outcome'[x] = outcome[x]
  BY <1>1, <1>4, DecisionFacts DEF Frame, TypeOK
<1>6. req' \in [Requests -> Handlers] /\ RequestsInv'
  BY <1>1, <1>2, <1>3, <1>5, OwnRequests DEF Frame
<1>7. ChainInv' /\ DecidedIsStored'
  BY <1>1, <1>2 DEF Frame, CoreInv, ChainInv, DecidedIsStored, StoreGrows
<1>8. rows' \in [Hashes -> Decision] /\ CacheTrailsChain'
  <2>1. PICK h \in Hashes, d \in Decision : h = req[r].hash /\ d = req[r].held
    BY Before
  <2>2. CASE rows' = rows
    BY <1>1, <1>4, <2>2 DEF Frame, TypeOK, CoreInv, CacheTrailsChain, WasOnChain
  <2>3. CASE req[r].pc = "decided" /\ RecordRow(h, d)
    <3>1. WasOnChain(d, h)
      BY <2>1, <2>3, Before DEF HandlerInv, WasTold
    <3>2. QED
      BY <1>1, <2>3, <3>1, RowFacts DEF Frame
  <2>4. QED
    BY <1>1, <2>1, <2>2, <2>3 DEF Frame
<1>9. queue' \subseteq QueueRow /\ QueueInv'
  <2>1. PICK h \in Hashes, v \in 0..MaxVersion : h = req[r].hash /\ v = req[r].rule
    BY Before DEF Handlers
  <2>2. CASE queue' = queue
    BY <1>1, <1>4, <2>2, EnqueueFacts DEF Frame, TypeOK, CoreInv, QueueInv, ClockInv, Ats, QueueHoldsEscalations
  <2>3. CASE req[r].pc = "ruled" /\ EnqueueApproval(h, v)
    <3>1. chain[h].escalated /\ v >= chain[h].version
      BY <2>1, <2>3, Before DEF HandlerInv, WasTold, WasOnChain
    <3>2. QED
      BY <1>1, <2>3, <3>1, EnqueueFacts DEF Frame
  <2>4. QED
    BY <1>1, <2>1, <2>2, <2>3 DEF Frame
<1>10. TypeOK'
  BY <1>1, <1>2, <1>4, <1>5, <1>6, <1>8, <1>9 DEF TypeOK, Frame
<1>11. QED
  BY <1>6, <1>7, <1>8, <1>9, <1>10 DEF CoreInv

\* The listing touches nothing but itself.
LEMMA ListingFrame ==
    ASSUME CoreInv, Listing
    PROVE  /\ UNCHANGED <<chainVars, req, lane, storeVars>>
           /\ list' \in Lists
           /\ faults' \in Nat /\ (faults' = 0 => faults = 0)
<1>1. TypeOK /\ list \in Lists /\ queue \subseteq QueueRow
  BY DEF CoreInv, TypeOK
<1>2. CASE ListStart
  <2>1. PICK limit \in Limits : \E todo \in {Candidates(limit), {}} :
          list' = [pc |-> "reading", calls |-> list.calls + 1, todo |-> todo, shown |-> {},
                   closed |-> Hashes \ Outstanding, behind |-> Behind(limit),
                   due |-> {req[r].hash : r \in {x \in Requests : req[x].status = 202}}]
    BY <1>2 DEF ListStart
  <2>2. Candidates(limit) \subseteq QueueRow /\ Behind(limit) \subseteq Hashes
    BY <1>1 DEF Candidates, Behind, QueueRow
  <2>3. {req[r].hash : r \in {x \in Requests : req[x].status = 202}} \subseteq Hashes
    BY Before
  <2>4. list.calls + 1 \in Nat /\ Hashes \ Outstanding \subseteq Hashes
    BY <1>1 DEF Lists
  <2>5. list' \in Lists
    BY <2>1, <2>2, <2>3, <2>4 DEF Lists
  <2>6. QED
    BY <1>1, <1>2, <2>5, FaultFacts DEF ListStart, TypeOK
<1>3. ASSUME NEW q \in list.todo, ListRead(q)
      PROVE  /\ UNCHANGED <<chainVars, req, lane, storeVars>>
             /\ list' \in Lists
             /\ faults' \in Nat /\ (faults' = 0 => faults = 0)
  <2>1. PICK shown \in SUBSET Hashes : list' = [list EXCEPT !.todo = @ \ {q}, !.shown = shown]
    <3>1. q.hash \in Hashes
      BY <1>1 DEF Lists, QueueRow
    <3>2. CASE list' = [list EXCEPT !.todo = @ \ {q},
                          !.shown = IF q.hash \in Outstanding THEN @ \cup {q.hash} ELSE @]
      <4> DEFINE shown == IF q.hash \in Outstanding THEN list.shown \cup {q.hash} ELSE list.shown
      <4>1. shown \in SUBSET Hashes
        BY <1>1, <3>1 DEF Lists
      <4>2. list' = [list EXCEPT !.todo = @ \ {q}, !.shown = shown]
        BY <3>2
      <4> HIDE DEF shown
      <4>3. QED
        BY <4>1, <4>2
    <3>3. CASE list' = [list EXCEPT !.todo = @ \ {q}]
      <4>1. list.shown \in SUBSET Hashes /\ list' = [list EXCEPT !.todo = @ \ {q}, !.shown = list.shown]
        BY <1>1, <3>3 DEF Lists
      <4>2. QED
        BY <4>1
    <3>4. QED
      BY <1>3, <3>2, <3>3 DEF ListRead
  <2>2. list' \in Lists
    BY <1>1, <2>1 DEF Lists
  <2>3. QED
    BY <1>1, <1>3, <2>2, FaultFacts DEF ListRead, TypeOK
<1>4. CASE ListReply
  BY <1>1, <1>4 DEF ListReply, TypeOK, Lists
<1>5. QED
  BY <1>2, <1>3, <1>4 DEF Listing

LEMMA CoreListing ==
    ASSUME CoreInv, Listing
    PROVE  CoreInv'
<1>1. /\ UNCHANGED <<chainVars, req, lane, storeVars>>
      /\ list' \in Lists
      /\ faults' \in Nat /\ (faults' = 0 => faults = 0)
  BY ListingFrame
<1>2. ChainMoves /\ StoreGrows
  BY <1>1 DEF ChainMoves, StoreGrows, Faultless, Stored, chainVars, storeVars
<1>3. RequestsInv'
  BY <1>1, <1>2, StillRequests DEF chainVars
<1>4. TypeOK'
  BY <1>1 DEF CoreInv, TypeOK, chainVars, storeVars
<1>5. CacheTrailsChain' /\ QueueInv'
  BY <1>1, <1>2, <1>4, StillStore DEF TypeOK, storeVars
<1>6. ChainInv' /\ DecidedIsStored'
  BY <1>1, <1>2 DEF CoreInv, ChainInv, DecidedIsStored, StoreGrows, chainVars
<1>7. QED
  BY <1>3, <1>4, <1>5, <1>6 DEF CoreInv

LEMMA CoreOthers ==
    ASSUME CoreInv, Others
    PROVE  CoreInv'
<1>1. /\ version' \in 1..MaxVersion /\ chain' \in [Hashes -> Decision] /\ ChainMoves /\ ChainInv'
      /\ \A h \in Hashes : chain[h].stage = "None" => chain'[h] = chain[h]
      /\ UNCHANGED <<wire, outcome, req, lane, intents, rows, queue, mode, list, faults>>
  BY OthersFacts DEF storeVars
<1>2. StoreGrows
  BY <1>1 DEF StoreGrows, Faultless, Stored
<1>3. RequestsInv'
  BY <1>1, <1>2, StillRequests
<1>4. CacheTrailsChain' /\ QueueInv'
  BY <1>1, StillStore
<1>5. TypeOK'
  BY <1>1 DEF CoreInv, TypeOK
<1>6. DecidedIsStored'
  BY <1>1, <1>2 DEF CoreInv, DecidedIsStored, StoreGrows
<1>7. QED
  BY <1>1, <1>3, <1>4, <1>5, <1>6 DEF CoreInv

\* A transaction lands, whether or not its handler still waits for it.
LEMMA CoreLand ==
    ASSUME CoreInv, NEW r \in wire, Land(r)
    PROVE  CoreInv'
<1>1. PICK o \in Outcome : Landed(r, o)
  BY LandFacts
<1>2. chain' \in [Hashes -> Decision] /\ ChainMoves /\ ChainInv'
  BY LandFacts
<1>3. /\ wire' = wire \ {r}
      /\ UNCHANGED <<version, req, lane, intents, rows, queue, mode, list, faults>>
  BY DEF Land, storeVars
<1>4. r \in Requests /\ TypeOK
  BY DEF CoreInv, TypeOK
<1>5. StoreGrows
  BY <1>3 DEF StoreGrows, Faultless, Stored
<1>6. /\ outcome' \in [Requests -> Outcome]
      /\ \A x \in Requests : x # r => outcome'[x] = outcome[x]
      /\ outcome'[r] = IF req[r].pc = "submitted" THEN o ELSE outcome[r]
  BY <1>1, <1>4 DEF Landed, Tell, TypeOK
<1>7. ASSUME NEW x \in Requests
      PROVE  \E t \in Handlers : req'[x] = t /\ Inv(x, t)'
  <2>1. PICK t \in Handlers : t = req[x]
    BY Before
  <2>2. Inv(x, t)
    BY <2>1, Before DEF Inv
  <2>3. HandlerInv(x, t)' /\ StoredInv(x, t)' /\ (outcome'[x] = outcome[x] => OutcomeInv(x, t)')
    BY <1>2, <1>3, <1>5, <2>2, InvStays
  <2>4. CASE outcome'[x] = outcome[x]
    BY <1>3, <2>1, <2>3, <2>4 DEF Inv
  <2>5. CASE outcome'[x] # outcome[x]
    <3>1. x = r /\ t.pc = "submitted" /\ outcome'[x] = o
      BY <1>6, <2>1, <2>5
    <3>2. PICK h \in Hashes : h = t.hash
      BY DEF Handlers
    <3>3. o.error = "Ok" => o.decision = chain'[h] /\ chain'[h].stage # "None"
      BY <1>1, <2>1, <3>1, <3>2 DEF Landed
    <3>4. chain'[h] \in Decision /\ (chain'[h].stage = "Pending" => chain'[h].escalated)
      BY <1>2 DEF ChainInv
    <3>5. ASSUME o.error = "Ok"
          PROVE  WasTold(o.decision, h)'
      BY <3>3, <3>4, <3>5 DEF WasTold, WasOnChain, Later, Decision, Stages
    <3>6. OutcomeInv(x, t)'
      BY <3>1, <3>2, <3>3, <3>5 DEF OutcomeInv, WasTold, WasOnChain
    <3>7. QED
      BY <1>3, <2>1, <2>3, <3>6 DEF Inv
  <2>6. QED
    BY <2>4, <2>5
<1>8. RequestsInv'
  BY <1>7 DEF RequestsInv, Inv
<1>9. CacheTrailsChain' /\ QueueInv'
  BY <1>2, <1>3, StillStore
<1>10. TypeOK'
  BY <1>2, <1>3, <1>4, <1>6 DEF TypeOK
<1>11. DecidedIsStored'
  <2>1. ASSUME Faultless', NEW g \in Hashes, chain'[g].stage # "None"
        PROVE  Stored(g)
    <3>1. Faultless
      BY <1>5, <2>1 DEF StoreGrows
    <3>2. CASE chain[g].stage # "None"
      BY <3>1, <3>2 DEF CoreInv, DecidedIsStored
    <3>3. CASE chain[g].stage = "None"
      <4>1. g = req[r].hash /\ req[r].kind = "intent"
        BY <1>1, <2>1, <3>3 DEF Landed
      <4>2. QED
        BY <1>4, <3>1, <4>1, Before DEF StoredInv
    <3>4. QED
      BY <3>2, <3>3
  <2>2. QED
    BY <1>5, <2>1 DEF DecidedIsStored, StoreGrows
<1>12. QED
  BY <1>2, <1>8, <1>9, <1>10, <1>11 DEF CoreInv

LEMMA CoreExpire ==
    ASSUME CoreInv, NEW r \in wire, Expire(r)
    PROVE  CoreInv'
<1>1. /\ wire' \subseteq wire /\ faults' \in Nat /\ (faults' = 0 => faults = 0)
      /\ UNCHANGED <<version, chain, outcome, req, intents, rows, queue, mode, list>>
  BY FaultFacts DEF Expire, storeVars
<1>2. ChainMoves /\ StoreGrows
  BY <1>1 DEF ChainMoves, StoreGrows, Faultless, Stored
<1>3. RequestsInv'
  BY <1>1, <1>2, StillRequests
<1>4. TypeOK'
  BY <1>1 DEF CoreInv, TypeOK
<1>5. CacheTrailsChain' /\ QueueInv'
  BY <1>1, <1>2, <1>4, StillStore DEF TypeOK
<1>6. ChainInv' /\ DecidedIsStored'
  BY <1>1, <1>2 DEF CoreInv, ChainInv, DecidedIsStored, StoreGrows
<1>7. QED
  BY <1>3, <1>4, <1>5, <1>6 DEF CoreInv

\* A crash loses the handlers, the answers on their way and the degraded store.
LEMMA CoreCrash ==
    ASSUME CoreInv, Crash
    PROVE  CoreInv'
<1>1. /\ outcome' = [r \in Requests |-> NoOutcome]
      /\ faults' \in Nat /\ faults' # 0
      /\ req' = [r \in Requests |-> IF Live(r) THEN [req[r] EXCEPT !.pc = "lost"] ELSE req[r]]
      /\ list' = [list EXCEPT !.pc = "idle", !.todo = {}, !.shown = {}]
      /\ queue' \in {{}, queue} /\ intents' \in {<<>>, intents}
      /\ UNCHANGED <<version, chain, wire, rows, mode>>
  BY FaultFacts DEF Crash
<1>2. TypeOK
  BY DEF CoreInv
<1>3. ~Faultless'
  BY <1>1 DEF Faultless
<1>4. \A d, g : WasTold(d, g)' <=> WasTold(d, g)
  BY <1>1 DEF WasTold, WasOnChain
<1>5. ASSUME NEW x \in Requests
      PROVE  \E t \in Handlers : req'[x] = t /\ Inv(x, t)'
  <2>1. PICK t \in Handlers : /\ t = IF Live(x) THEN [req[x] EXCEPT !.pc = "lost"] ELSE req[x]
                              /\ t.pc = (IF Live(x) THEN "lost" ELSE req[x].pc)
                              /\ t.held = req[x].held /\ t.hash = req[x].hash /\ t.kind = req[x].kind
                              /\ t.status = req[x].status
    <3>1. [req[x] EXCEPT !.pc = "lost"] \in Handlers
      BY Before DEF Handlers, Pcs
    <3>2. QED
      BY <3>1, Before DEF Handlers
  <2>2. t.pc \in {"idle", "answered", "lost"}
    BY <2>1 DEF Live
  <2>3. HandlerInv(x, t)'
    BY <1>1, <1>4, <2>1, <2>2, Before DEF HandlerInv
  <2>4. OutcomeInv(x, t)'
    BY <1>1, DecisionFacts DEF OutcomeInv
  <2>5. StoredInv(x, t)'
    BY <1>3 DEF StoredInv
  <2>6. QED
    BY <1>1, <2>1, <2>3, <2>4, <2>5 DEF Inv
<1>6. req' \in [Requests -> Handlers]
  BY <1>1, <1>5
<1>7. RequestsInv'
  BY <1>5 DEF RequestsInv, Inv
<1>8. list' \in Lists /\ intents' \in Seq(Hashes) /\ queue' \subseteq QueueRow
  <2>1. list' \in Lists
    BY <1>1, <1>2 DEF TypeOK, Lists
  <2>2. <<>> \in Seq(Hashes)
    OBVIOUS
  <2>3. QED
    BY <1>1, <1>2, <2>1, <2>2 DEF TypeOK
<1>9. outcome' \in [Requests -> Outcome]
  BY <1>1, DecisionFacts
<1>10. TypeOK'
  BY <1>1, <1>2, <1>6, <1>8, <1>9 DEF TypeOK
<1>11. ChainInv' /\ DecidedIsStored' /\ CacheTrailsChain'
  BY <1>1, <1>3 DEF CoreInv, ChainInv, DecidedIsStored, CacheTrailsChain, WasOnChain
<1>12. QueueInv'
  <2>1. CASE queue' = queue
    BY <1>1, <2>1 DEF CoreInv, QueueInv, ClockInv, Ats, QueueHoldsEscalations
  <2>2. CASE queue' = {}
    <3>1. {0} \cup {q.at : q \in queue'} = {0}
      BY <2>2
    <3>2. QED
      BY <2>2, <3>1 DEF QueueInv, ClockInv, Ats, QueueHoldsEscalations
  <2>3. QED
    BY <1>1, <2>1, <2>2
<1>13. QED
  BY <1>7, <1>10, <1>11, <1>12 DEF CoreInv

LEMMA CoreInit ==
    ASSUME Init, Modes \subseteq {"postgres", "degraded"}
    PROVE  CoreInv
<1>1. TypeOK
  <2>1. version \in 1..MaxVersion
    BY GatewayAssumption DEF Init
  <2>2. list \in Lists
    BY DEF Init, Lists
  <2>3. QED
    BY <2>1, <2>2, DecisionFacts, IdleFacts DEF Init, TypeOK
<1>2. ChainInv /\ DecidedIsStored /\ CacheTrailsChain
  BY DecisionFacts DEF Init, ChainInv, DecidedIsStored, CacheTrailsChain
<1>3. RequestsInv
  <2>1. Idle.pc = "idle"
    BY DEF Idle
  <2>2. QED
    BY <2>1, DecisionFacts, IdleFacts DEF Init, RequestsInv, HandlerInv, OutcomeInv, StoredInv
<1>4. QueueInv
  <2>1. Ats = {0}
    BY DEF Init, Ats
  <2>2. QED
    BY <2>1 DEF Init, QueueInv, ClockInv, QueueHoldsEscalations
<1>5. QED
  BY <1>1, <1>2, <1>3, <1>4 DEF CoreInv

LEMMA CoreStill ==
    ASSUME CoreInv, UNCHANGED vars
    PROVE  CoreInv'
<1>1. UNCHANGED <<version, chain, wire, outcome, req, intents, rows, queue, mode, list, faults>>
  BY DEF vars
<1>2. ChainMoves /\ StoreGrows
  BY <1>1 DEF ChainMoves, StoreGrows, Faultless, Stored
<1>3. RequestsInv'
  BY <1>1, <1>2, StillRequests
<1>4. TypeOK'
  BY <1>1 DEF CoreInv, TypeOK
<1>5. CacheTrailsChain' /\ QueueInv'
  BY <1>1, <1>2, <1>4, StillStore DEF TypeOK
<1>6. ChainInv' /\ DecidedIsStored'
  BY <1>1, <1>2 DEF CoreInv, ChainInv, DecidedIsStored, StoreGrows
<1>7. QED
  BY <1>3, <1>4, <1>5, <1>6 DEF CoreInv

LEMMA CoreStep ==
    ASSUME CoreInv, [Next]_vars
    PROVE  CoreInv'
<1>1. CASE \E r \in Requests : Client(r) \/ Handler(r)
  BY <1>1, CoreOwn
<1>2. CASE Listing
  BY <1>2, CoreListing
<1>3. CASE Ledger
  BY <1>3, CoreLand, CoreExpire DEF Ledger
<1>4. CASE Others
  BY <1>4, CoreOthers
<1>5. CASE Crash
  BY <1>5, CoreCrash
<1>6. CASE UNCHANGED vars
  BY <1>6, CoreStill
<1>7. QED
  BY <1>1, <1>2, <1>3, <1>4, <1>5, <1>6 DEF Next

\* The invariant on which everything below rests: what the handlers hold is the chain's, the
\* rows of the store are of decisions that were on chain, in the order of the clock.
THEOREM CoreHolds == Spec => []CoreInv
<1>1. Init => CoreInv
  BY CoreInit, GatewayAssumption
<1>2. CoreInv /\ [Next]_vars => CoreInv'
  BY CoreStep
<1>3. QED
  BY <1>1, <1>2, PTL DEF Spec

\* The gateway's state is well typed in every reachable state, whatever fails.
THEOREM TypeCorrect == Spec => []TypeOK
<1>1. CoreInv => TypeOK
  BY DEF CoreInv
<1>2. QED
  BY <1>1, CoreHolds, PTL

\* The cache trails the chain: a row of `decisions` is one the chain had under that hash,
\* whichever writes were lost and whenever the transactions landed.
THEOREM CacheIsHonest == Spec => []CacheTrailsChain
<1>1. CoreInv => CacheTrailsChain
  BY DEF CoreInv
<1>2. QED
  BY <1>1, CoreHolds, PTL

\* What POST /v1/intents, the resolution and the two reads answer with a 200 or a 202 is a
\* decision the chain has or had, 202 only for an escalation, with its preimage if nothing fails.
THEOREM AnswersAreHonest == Spec => []AnswersAreTheChains
<1>1. CoreInv => AnswersAreTheChains
  <2>1. ASSUME CoreInv, NEW r \in Requests, req[r].pc = "answered", req[r].status \in {200, 202}
        PROVE  /\ WasOnChain(req[r].held, req[r].hash)
               /\ req[r].status = 202 => req[r].held.escalated
               /\ req[r].kind = "decision" /\ mode = "postgres" /\ faults = 0 => req[r].preimage
    BY <2>1, Before DEF HandlerInv, StoredInv, Faultless, WasTold
  <2>2. QED
    BY <2>1 DEF AnswersAreTheChains
<1>2. QED
  BY <1>1, CoreHolds, PTL

\* The approval queue holds escalated intents only, each with a threshold no older than the
\* policy that escalated it: snapshotEscalation reads the policy after authorize() returned.
THEOREM QueueIsHonest == Spec => []QueueHoldsEscalations
<1>1. CoreInv => QueueHoldsEscalations
  BY DEF CoreInv, QueueInv
<1>2. QED
  BY <1>1, CoreHolds, PTL

-----------------------------------------------------------------------------
(* A queued entry is written once, in Postgres. *)

\* In Postgres a row is only ever added, for a hash that has none.
LEMMA SnapshotStep ==
    ASSUME CoreInv, [Next]_vars, mode = "postgres", NEW p \in queue, NEW q \in queue', p.hash = q.hash
    PROVE  p.version = q.version
<1>1. \A x, y \in queue : x.hash = y.hash => x = y
  BY DEF CoreInv, QueueInv
<1>2. CASE queue' = queue
  BY <1>1, <1>2
<1>3. ASSUME NEW r \in Requests, EnqueueApproval(req[r].hash, req[r].rule)
      PROVE  p.version = q.version
  <2>1. PICK h \in Hashes, v \in 0..MaxVersion : h = req[r].hash /\ v = req[r].rule
    BY Before DEF Handlers
  <2> DEFINE fresh == [hash |-> h, version |-> v, since |-> Tick, at |-> Tick]
  <2>2. queue' = queue \/ (RowOf(h) = {} /\ queue' = queue \cup {fresh})
    BY <1>3, <2>1 DEF EnqueueApproval
  <2>3. fresh.hash = h
    OBVIOUS
  <2>4. RowOf(h) = {} => p.hash # h
    BY DEF RowOf
  <2> HIDE DEF fresh
  <2>5. QED
    BY <1>1, <2>2, <2>3, <2>4
<1>4. CASE \E r \in Requests : Client(r) \/ Handler(r)
  <2>1. PICK r \in Requests : Frame(r)
    BY <1>4, HandlerFrame
  <2>2. QED
    BY <1>2, <1>3, <2>1 DEF Frame
<1>5. CASE Listing \/ Others \/ Ledger \/ Crash \/ UNCHANGED vars
  <2>1. Listing => queue' = queue
    BY ListingFrame DEF storeVars
  <2>2. Others => queue' = queue
    BY OthersFacts DEF storeVars
  <2>3. Ledger => queue' = queue
    BY DEF Ledger, Land, Expire, storeVars
  <2>4. Crash => queue' = queue
    BY DEF Crash
  <2>5. UNCHANGED vars => queue' = queue
    BY DEF vars
  <2>6. QED
    BY <1>2, <1>5, <2>1, <2>2, <2>3, <2>4, <2>5
<1>6. QED
  BY <1>4, <1>5 DEF Next

\* With Postgres, neither set_policy nor a second submission of the intent ever changes the
\* threshold that a queued entry shows.
THEOREM SnapshotStays == Spec => SnapshotIsKept
<1>1. CoreInv /\ [Next]_vars =>
        [mode = "postgres" =>
           \A p \in queue, q \in queue' : p.hash = q.hash => p.version = q.version]_vars
  BY SnapshotStep
<1>2. QED
  BY <1>1, CoreHolds, PTL DEF Spec, SnapshotIsKept

-----------------------------------------------------------------------------
(* The listing shows nothing that was over when it began. *)

Over(h) == chain[h].stage \notin {"None", "Pending"}

ListInv ==
    /\ list.pc \in {"reading", "done"} => list.shown \cap list.closed = {}
    /\ list.pc = "reading" => \A q \in list.todo : q.hash \in list.closed => Over(q.hash)

\* What is over stays so.
LEMMA OverStays ==
    ASSUME CoreInv, ChainMoves, NEW h \in Hashes, Over(h)
    PROVE  Over(h)'
<1>1. chain[h].stage \in {"Approved", "Rejected", "Settled"}
  BY DEF CoreInv, TypeOK, Decision, Stages, Over
<1>2. QED
  BY <1>1 DEF Over, ChainMoves, Later

\* Every step leaves the listing alone, ends it, or is one of its own.
LEMMA ListFrame ==
    ASSUME CoreInv, [Next]_vars
    PROVE  \/ ChainMoves /\ UNCHANGED list
           \/ list'.pc = "idle"
           \/ UNCHANGED <<chain, queue, mode, req>> /\ Listing
<1>1. CASE \E r \in Requests : Client(r) \/ Handler(r)
  BY <1>1, HandlerFrame DEF Frame, ChainMoves
<1>2. CASE Listing
  BY <1>2, ListingFrame DEF chainVars, storeVars
<1>3. ASSUME NEW r \in wire, Land(r) \/ Expire(r)
      PROVE  ChainMoves /\ UNCHANGED list
  BY <1>3, LandFacts DEF Land, Expire, ChainMoves
<1>4. CASE Others
  BY <1>4, OthersFacts
<1>5. CASE Crash
  BY <1>5 DEF Crash, CoreInv, TypeOK, Lists
<1>6. CASE UNCHANGED vars
  BY <1>6 DEF vars, ChainMoves
<1>7. QED
  BY <1>1, <1>2, <1>3, <1>4, <1>5, <1>6 DEF Next, Ledger

\* A listing that starts: its candidates are escalated, so one that is not waiting is over.
LEMMA ListStartStep ==
    ASSUME CoreInv, ListStart
    PROVE  ListInv'
<1>1. /\ list'.pc = "reading" /\ list'.todo \subseteq queue /\ list'.shown = {}
      /\ list'.closed = Hashes \ Outstanding /\ chain' = chain
  <2>1. PICK limit \in Limits : \E todo \in {Candidates(limit), {}} :
          list' = [pc |-> "reading", calls |-> list.calls + 1, todo |-> todo, shown |-> {},
                   closed |-> Hashes \ Outstanding, behind |-> Behind(limit),
                   due |-> {req[r].hash : r \in {x \in Requests : req[x].status = 202}}]
    BY DEF ListStart
  <2>2. Candidates(limit) \subseteq queue
    BY DEF Candidates
  <2>3. QED
    BY <2>1, <2>2 DEF ListStart, chainVars
<1>2. ASSUME NEW q \in queue, q.hash \in Hashes \ Outstanding
      PROVE  Over(q.hash)
  <2>1. chain[q.hash].escalated /\ q.hash \in Hashes
    BY <1>2 DEF CoreInv, QueueInv, QueueHoldsEscalations
  <2>2. chain[q.hash].stage # "None"
    BY <2>1, DecisionFacts DEF CoreInv, ChainInv
  <2>3. QED
    BY <1>2, <2>1, <2>2 DEF Over, Outstanding
<1>3. QED
  BY <1>1, <1>2 DEF ListInv, Over

\* One candidate is read: it is shown only if the chain has it waiting.
LEMMA ListReadStep ==
    ASSUME CoreInv, ListInv, NEW q \in list.todo, ListRead(q)
    PROVE  ListInv'
<1>1. list \in Lists /\ list.pc = "reading" /\ chain' = chain
  BY DEF CoreInv, TypeOK, ListRead, chainVars
<1>2. /\ list'.pc = "reading" /\ list'.closed = list.closed /\ list'.todo \subseteq list.todo
      /\ list'.shown = list.shown \/ (q.hash \in Outstanding /\ list'.shown = list.shown \cup {q.hash})
  BY <1>1 DEF ListRead, Lists
<1>3. q.hash \in Outstanding => q.hash \notin list.closed
  BY <1>1 DEF ListInv, Over, Outstanding
<1>4. QED
  BY <1>1, <1>2, <1>3 DEF ListInv, Over

LEMMA ListStep ==
    ASSUME CoreInv, ListInv, [Next]_vars
    PROVE  ListInv'
<1>1. CASE ChainMoves /\ UNCHANGED list
  <2>1. \A q \in list.todo : q.hash \in Hashes
    BY DEF CoreInv, TypeOK, Lists, QueueRow
  <2>2. QED
    BY <1>1, <2>1, OverStays DEF ListInv, Over
<1>2. CASE list'.pc = "idle"
  BY <1>2 DEF ListInv
<1>3. CASE Listing
  <2>1. CASE ListReply
    BY <2>1 DEF ListReply, ListInv, CoreInv, TypeOK, Lists
  <2>2. QED
    BY <1>3, <2>1, ListStartStep, ListReadStep DEF Listing
<1>4. QED
  BY <1>1, <1>2, <1>3, ListFrame

\* GET /v1/approvals shows no intent that the owner had already answered when the call began,
\* through whatever path it was answered and however stale the rows of the queue are.
THEOREM ListIsHonest == Spec => []ListedWasWaiting
<1>1. Init => ListInv
  BY DEF Init, ListInv
<1>2. CoreInv /\ ListInv /\ [Next]_vars => ListInv'
  BY ListStep
<1>3. ListInv => ListedWasWaiting
  BY DEF ListInv, ListedWasWaiting
<1>4. QED
  BY <1>1, <1>2, <1>3, CoreHolds, PTL DEF Spec

-----------------------------------------------------------------------------
(* The listing is complete as long as nothing fails and the store has room. *)

Escalated == {h \in Hashes : chain[h].escalated}

Fits == faults = 0 /\ (mode = "degraded" => Cardinality(Escalated) <= Cap)

\* The client of a handler in this state was told, or is about to be, that the owner is awaited.
Owed(s) == s.status = 202 \/ (s.pc = "decided" /\ s.kind = "intent" /\ s.held.stage = "Pending")

Queued(h) == \E q \in queue : q.hash = h

KeptInv == Fits => \A r \in Requests : Owed(req[r]) => Queued(req[r].hash)

\* Rows of different escalated intents are no more than those.
LEMMA RowsAreFew ==
    ASSUME CoreInv, NEW Q \in SUBSET QueueRow, \A q \in Q : chain[q.hash].escalated,
           \A p, q \in Q : p.hash = q.hash => p = q
    PROVE  /\ IsFiniteSet(Q) /\ Cardinality(Q) \in Nat
           /\ Cardinality(Escalated) \in Nat /\ Cardinality(Q) <= Cardinality(Escalated)
<1>1. IsFiniteSet(Escalated)
  BY GatewayAssumption, FS_Subset DEF Escalated
<1> DEFINE f == [q \in Q |-> q.hash]
<1>2. f \in Injection(Q, Escalated)
  <2>1. \A q \in Q : q.hash \in Escalated
    BY DEF QueueRow, Escalated
  <2>2. QED
    BY <2>1 DEF Injection, IsInjective
<1> HIDE DEF f
<1>3. IsFiniteSet(Q) /\ Cardinality(Q) <= Cardinality(Escalated)
  BY <1>1, <1>2, FS_Injection
<1>4. QED
  BY <1>1, <1>3, FS_CardinalityType

\* What every step does to the chain, the store's kind and the number of faults.
LEMMA NextFacts ==
    ASSUME CoreInv, [Next]_vars
    PROVE  ChainMoves /\ mode' = mode /\ (faults' = 0 => faults = 0)
<1>1. faults \in Nat
  BY DEF CoreInv, TypeOK
<1>2. CASE \E r \in Requests : Client(r) \/ Handler(r)
  BY <1>1, <1>2, HandlerFrame DEF Frame, ChainMoves
<1>3. CASE Listing
  BY <1>3, ListingFrame DEF ChainMoves, chainVars, storeVars
<1>4. ASSUME NEW r \in wire, Land(r) \/ Expire(r)
      PROVE  ChainMoves /\ mode' = mode /\ (faults' = 0 => faults = 0)
  BY <1>4, LandFacts, FaultFacts DEF Land, Expire, ChainMoves, storeVars
<1>5. CASE Others
  BY <1>5, OthersFacts DEF storeVars
<1>6. CASE Crash
  BY <1>6, FaultFacts DEF Crash, ChainMoves
<1>7. CASE UNCHANGED vars
  BY <1>7 DEF vars, ChainMoves
<1>8. QED
  BY <1>2, <1>3, <1>4, <1>5, <1>6, <1>7 DEF Next, Ledger

\* Escalated intents only become more.
LEMMA EscalatedGrows ==
    ASSUME CoreInv, [Next]_vars
    PROVE  /\ Cardinality(Escalated) \in Nat /\ Cardinality(Escalated') \in Nat
           /\ Cardinality(Escalated) <= Cardinality(Escalated')
           /\ Fits' => Fits
<1>1. \A h \in Hashes : chain[h].escalated => chain'[h].escalated
  BY NextFacts, DecisionFacts DEF ChainMoves, CoreInv, ChainInv
<1>2. Escalated \subseteq Escalated'
  BY <1>1 DEF Escalated
<1>3. IsFiniteSet(Escalated')
  BY GatewayAssumption, FS_Subset DEF Escalated
<1>4. IsFiniteSet(Escalated) /\ Cardinality(Escalated) <= Cardinality(Escalated')
  BY <1>2, <1>3, FS_Subset
<1>5. Cardinality(Escalated) \in Nat /\ Cardinality(Escalated') \in Nat
  BY <1>3, <1>4, FS_CardinalityType
<1>6. Fits' => Fits
  BY <1>4, <1>5, NextFacts, GatewayAssumption DEF Fits
<1>7. QED
  BY <1>4, <1>5, <1>6

\* With room in the store an escalation enters the queue and pushes none out.
LEMMA EnqueueKeeps ==
    ASSUME CoreInv, Fits, NEW h \in Hashes, NEW v \in 0..MaxVersion, EnqueueApproval(h, v),
           chain[h].escalated, mode = "postgres" => Stored(h)
    PROVE  Queued(h)' /\ \A g \in Hashes : Queued(g) => Queued(g)'
<1> DEFINE fresh == [hash |-> h, version |-> v, since |-> Tick, at |-> Tick]
           all == queue \cup {fresh}
           moved == {[fresh EXCEPT !.since = q.since] : q \in RowOf(h)}
<1>1. TypeOK /\ ClockInv /\ QueueHoldsEscalations /\ (\A p, q \in queue : p.hash = q.hash => p = q)
  BY DEF CoreInv, QueueInv
<1>2. fresh \in QueueRow /\ fresh.hash = h
  BY <1>1, TickFacts DEF QueueRow
<1>3. ASSUME RowOf(h) = {}, mode = "degraded"
      PROVE  Trim(all) = all
  <2>1. \A p \in queue : p.hash # h
    BY <1>3 DEF RowOf
  <2> HIDE DEF fresh
  <2>2. all \in SUBSET QueueRow /\ (\A q \in all : chain[q.hash].escalated)
        /\ \A p, q \in all : p.hash = q.hash => p = q
    BY <1>1, <1>2, <2>1 DEF TypeOK, QueueHoldsEscalations
  <2> HIDE DEF all
  <2>3. Cardinality(all) \in Nat /\ Cardinality(Escalated) \in Nat /\ Cardinality(all) <= Cardinality(Escalated)
    BY <2>2, RowsAreFew
  <2>4. ~(Cardinality(all) > Cap)
    BY <1>3, <2>3, GatewayAssumption DEF Fits
  <2>5. QED
    BY <2>4 DEF Trim
<1>4. CASE RowOf(h) = {} /\ queue' = all
  BY <1>2, <1>4 DEF Queued
<1>5. CASE RowOf(h) # {} /\ queue' = queue
  BY <1>5 DEF Queued, RowOf
<1>6. CASE RowOf(h) # {} /\ queue' = (queue \ RowOf(h)) \cup moved
  <2>1. PICK o \in queue : o.hash = h /\ o \in RowOf(h)
    BY <1>6 DEF RowOf
  <2>2. [fresh EXCEPT !.since = o.since].hash = h
    OBVIOUS
  <2>3. [fresh EXCEPT !.since = o.since] \in queue'
    BY <1>6, <2>1
  <2> HIDE DEF fresh
  <2>4. \E q \in queue' : q.hash = h
    BY <2>2, <2>3
  <2>5. \A p \in queue : p.hash # h => p \in queue'
    BY <1>6 DEF RowOf
  <2>6. QED
    BY <2>4, <2>5 DEF Queued
<1>7. CASE mode = "degraded"
  BY <1>3, <1>4, <1>6, <1>7 DEF EnqueueApproval, SetEntry
<1>8. CASE mode = "postgres"
  BY <1>4, <1>5, <1>8 DEF EnqueueApproval
<1>9. QED
  BY <1>1, <1>7, <1>8 DEF TypeOK

\* A request that is sent owes nothing yet.
LEMMA ClientOwesNothing ==
    ASSUME CoreInv, NEW r \in Requests, Client(r)
    PROVE  ~Owed(req'[r])
<1>1. TypeOK /\ req[r] \in Handlers /\ Idle \in Handlers /\ Idle.status = 0
  BY Before, IdleFacts
<1>2. ASSUME NEW s, req' = [req EXCEPT ![r] = s], s.status # 202, s.pc # "decided"
      PROVE  ~Owed(req'[r])
  BY <1>1, <1>2 DEF TypeOK, Owed
<1>3. CASE TurnAway(r)
  <2>1. PICK status \in {401, 503} : Reply(r, status)
    BY <1>3 DEF TurnAway
  <2>2. status \in Nat /\ status # 202
    OBVIOUS
  <2>3. PICK s \in Handlers : Onward(r, s, "answered", status)
    BY <1>1, <2>1, <2>2, ReplyFacts
  <2>4. QED
    BY <2>2, <2>3 DEF Onward, RequestIs, Owed
<1>4. ASSUME NEW h \in Hashes, PostIntent(r, h)
      PROVE  ~Owed(req'[r])
  <2> DEFINE s == [Idle EXCEPT !.pc = "received", !.hash = h]
  <2>1. req' = [req EXCEPT ![r] = s]
    BY <1>4 DEF PostIntent
  <2>2. s.status # 202 /\ s.pc # "decided"
    BY <1>1 DEF Handlers
  <2> HIDE DEF s
  <2>3. QED
    BY <1>2, <2>1, <2>2
<1>5. ASSUME NEW h \in Hashes, GetDecision(r, h)
      PROVE  ~Owed(req'[r])
  <2> DEFINE s == [Idle EXCEPT !.pc = "reading", !.kind = "decision", !.hash = h]
  <2>1. req' = [req EXCEPT ![r] = s]
    BY <1>5 DEF GetDecision
  <2>2. s.status # 202 /\ s.pc # "decided"
    BY <1>1 DEF Handlers
  <2> HIDE DEF s
  <2>3. QED
    BY <1>2, <2>1, <2>2
<1>6. ASSUME NEW h \in Hashes, GetIntent(r, h)
      PROVE  ~Owed(req'[r])
  <2> DEFINE s == [Idle EXCEPT !.pc = "looking", !.kind = "preimage", !.hash = h]
  <2>1. req' = [req EXCEPT ![r] = s]
    BY <1>6 DEF GetIntent
  <2>2. s.status # 202 /\ s.pc # "decided"
    BY <1>1 DEF Handlers
  <2> HIDE DEF s
  <2>3. QED
    BY <1>2, <2>1, <2>2
<1>7. ASSUME NEW h \in Hashes, NEW approve \in BOOLEAN, PostResolve(r, h, approve)
      PROVE  ~Owed(req'[r])
  <2> DEFINE received == [Idle EXCEPT !.kind = "resolve", !.hash = h, !.approve = approve]
             queued == [received EXCEPT !.pc = "queued"]
             failed == [received EXCEPT !.pc = "failed", !.status = BadGateway]
  <2>1. received \in Handlers /\ received.status = 0
    BY <1>1 DEF Handlers
  <2>2. req' = [req EXCEPT ![r] = queued] \/ req' = [req EXCEPT ![r] = failed]
    BY <1>7 DEF PostResolve
  <2> HIDE DEF received
  <2>3. queued.status # 202 /\ queued.pc # "decided"
    BY <2>1 DEF Handlers
  <2>4. failed.status # 202 /\ failed.pc # "decided"
    BY <2>1 DEF Handlers, BadGateway
  <2> HIDE DEF queued, failed
  <2>5. QED
    BY <1>2, <2>2, <2>3, <2>4
<1>8. QED
  BY <1>3, <1>4, <1>5, <1>6, <1>7 DEF Client

\* A handler comes to owe an entry of the queue only by having put it there.
LEMMA OwedStep ==
    ASSUME CoreInv, NEW r \in Requests, Client(r) \/ Handler(r), faults' = 0, Owed(req'[r])
    PROVE  /\ req'[r].hash = req[r].hash
           /\ Owed(req[r]) \/ (req[r].pc = "ruled" /\ EnqueueApproval(req[r].hash, req[r].rule))
<1>1. TypeOK /\ req[r] \in Handlers
  BY Before
<1>2. ASSUME NEW s \in Handlers, NEW pc, NEW status, Onward(r, s, pc, status),
             status = 202 => req[r].status = 202 \/ Owed(req[r]), pc # "decided"
      PROVE  req'[r].hash = req[r].hash /\ Owed(req[r])
  BY <1>2 DEF Onward, RequestIs, Owed
<1>3. ASSUME NEW pc \in Pcs \ {"decided"}, Goto(r, pc)
      PROVE  req'[r].hash = req[r].hash /\ Owed(req[r])
  <2>1. PICK s \in Handlers : Onward(r, s, pc, req[r].status)
    BY <1>1, <1>3, GotoFacts
  <2>2. QED
    BY <1>2, <2>1, <1>3
<1>4. ASSUME NEW status \in Nat, status # 202 \/ Owed(req[r]), Reply(r, status) \/ Fail(r, status)
      PROVE  req'[r].hash = req[r].hash /\ Owed(req[r])
  <2>1. PICK s \in Handlers, pc \in {"answered", "failed"} : Onward(r, s, pc, status)
    BY <1>1, <1>4, ReplyFacts, FailFacts
  <2>2. QED
    BY <1>2, <2>1, <1>4
<1>5. CASE RecordIntent(r) \/ Submit(r) \/ ReplyFailure(r)
  <2>1. PICK pc \in {"queued", "submitted", "answered"} : Goto(r, pc)
    BY <1>5 DEF RecordIntent, Submit, ReplyFailure
  <2>2. QED
    BY <1>3, <2>1 DEF Pcs
<1>6. CASE SimulationFails(r) \/ Unobserved(r)
  <2>1. PICK status \in Nat : status \notin {200, 202} /\ Fail(r, status)
    BY <1>6, HttpFacts DEF SimulationFails, Unobserved
  <2>2. QED
    BY <1>4, <2>1
<1>7. CASE Observe(r)
  <2>1. CASE outcome[r].error # "Ok"
    BY <1>4, <1>7, <2>1, HttpFacts DEF Observe
  <2>2. ASSUME NEW pc, pc = IF req[r].kind = "intent" /\ outcome[r].decision.stage = "Pending"
                            THEN "escalated" ELSE "decided",
               req' = [req EXCEPT ![r].held = outcome[r].decision, ![r].pc = pc]
        PROVE  FALSE
    <3> DEFINE s == [req[r] EXCEPT !.held = outcome[r].decision, !.pc = pc]
    <3>1. /\ s.pc = pc /\ s.held = outcome[r].decision /\ s.kind = req[r].kind /\ s.status = req[r].status
      BY <1>1 DEF Handlers
    <3>2. req'[r] = s
      BY <1>1, <2>2 DEF TypeOK
    <3> HIDE DEF s
    <3>3. req[r].status # 202
      BY <1>7, Before DEF Observe, HandlerInv
    <3>4. QED
      BY <2>2, <3>1, <3>2, <3>3 DEF Owed
  <2>3. QED
    BY <1>7, <2>1, <2>2 DEF Observe
<1>8. CASE ReadPolicy(r)
  <2>1. req' = [req EXCEPT ![r].pc = "ruled", ![r].rule = version]
    BY <1>8, FaultFacts DEF ReadPolicy, GetPolicy
  <2>2. req'[r].pc = "ruled" /\ req'[r].status = req[r].status /\ req'[r].hash = req[r].hash
    BY <1>1, <2>1 DEF TypeOK, Handlers
  <2>3. QED
    BY <2>2 DEF Owed
<1>9. CASE SnapshotEscalation(r)
  <2>1. PICK s \in Handlers : Onward(r, s, "decided", req[r].status)
    BY <1>1, <1>9, GotoFacts DEF SnapshotEscalation, Pcs
  <2>2. EnqueueApproval(req[r].hash, req[r].rule)
    BY <1>9, FaultFacts DEF SnapshotEscalation, Guard
  <2>3. QED
    BY <1>9, <2>1, <2>2 DEF SnapshotEscalation, Onward, RequestIs
<1>10. CASE RecordDecision(r)
  BY <1>4, <1>10 DEF RecordDecision, Answer, Owed
<1>11. CASE RecordResolution(r)
  BY <1>4, <1>11 DEF RecordResolution
<1>12. CASE ReadDecision(r)
  <2>1. CASE Reply(r, HttpForContractFailure("DecisionNotFound")) \/ Reply(r, BadGateway)
    BY <1>4, <2>1, HttpFacts
  <2>2. ASSUME NEW pc, pc # "decided", req' = [req EXCEPT ![r].held = chain[req[r].hash], ![r].status = 200, ![r].pc = pc]
        PROVE  FALSE
    <3> DEFINE s == [req[r] EXCEPT !.held = chain[req[r].hash], !.status = 200, !.pc = pc]
    <3>1. s.pc = pc /\ s.status = 200
      BY <1>1 DEF Handlers
    <3>2. req'[r] = s
      BY <1>1, <2>2 DEF TypeOK
    <3> HIDE DEF s
    <3>3. QED
      BY <2>2, <3>1, <3>2 DEF Owed
  <2>3. QED
    BY <1>12, <2>1, <2>2 DEF ReadDecision
<1>13. CASE LookForIntent(r)
  <2>1. PICK found \in BOOLEAN : PreimageBlock(r, found)
    BY <1>13 DEF LookForIntent, Guard, Stored
  <2>2. req'[r].pc # "decided" /\ req'[r].status = req[r].status /\ req'[r].hash = req[r].hash
    BY <1>1, <2>1 DEF TypeOK, Handlers, PreimageBlock
  <2>3. QED
    BY <2>2 DEF Owed
<1>14. CASE Client(r)
  BY <1>14, ClientOwesNothing
<1>15. QED
  BY <1>5, <1>6, <1>7, <1>8, <1>9, <1>10, <1>11, <1>12, <1>13, <1>14 DEF Handler

\* Whoever is owed an entry has it.
LEMMA KeptStep ==
    ASSUME CoreInv, KeptInv, [Next]_vars
    PROVE  KeptInv'
<1> SUFFICES ASSUME Fits', NEW x \in Requests, Owed(req'[x])
             PROVE  \E q \in queue' : q.hash = req'[x].hash
  BY DEF KeptInv, Queued, Owed
<1>1. Fits /\ faults' = 0
  BY EscalatedGrows DEF Fits
<1>2. \A y \in Requests : Owed(req[y]) => Queued(req[y].hash)
  BY <1>1 DEF KeptInv
<1>3. CASE queue' = queue /\ req' = req
  BY <1>2, <1>3 DEF Queued
<1>4. ASSUME NEW r \in Requests, Client(r) \/ Handler(r)
      PROVE  \E q \in queue' : q.hash = req'[x].hash
  <2>1. PICK h \in Hashes, v \in 0..MaxVersion : h = req[r].hash /\ v = req[r].rule
    BY Before DEF Handlers
  <2>2. ASSUME req[r].pc = "ruled", EnqueueApproval(h, v)
        PROVE  Queued(h)' /\ \A g \in Hashes : Queued(g) => Queued(g)'
    <3>1. chain[h].escalated /\ chain[h].stage # "None"
      BY <2>1, <2>2, Before DEF HandlerInv, WasTold, WasOnChain, Later, Decision, Stages
    <3>2. mode = "postgres" => Stored(h)
      BY <1>1, <3>1 DEF CoreInv, DecidedIsStored, Faultless, Fits
    <3>3. QED
      BY <1>1, <2>2, <3>1, <3>2, EnqueueKeeps
  <2>3. \A g \in Hashes : Queued(g) => Queued(g)'
    BY <1>4, <2>1, <2>2, HandlerFrame DEF Frame, Queued
  <2>4. \E g \in Hashes : g = req'[x].hash /\ Queued(g)'
    <3>1. CASE x = r
      <4>1. req'[r].hash = h /\ (Owed(req[r]) \/ (req[r].pc = "ruled" /\ EnqueueApproval(h, v)))
        BY <1>1, <1>4, <2>1, <3>1, OwedStep
      <4>2. Owed(req[r]) => Queued(h)
        BY <1>2, <2>1
      <4>3. QED
        BY <2>2, <2>3, <3>1, <4>1, <4>2
    <3>2. CASE x # r
      <4>1. HasEffect(r)
        BY <1>4, ClientEffect, HandlerEffect
      <4>2. req'[x] = req[x]
        BY <3>2, <4>1 DEF HasEffect, Effect, RequestIs
      <4>3. PICK g \in Hashes : g = req[x].hash
        BY Before
      <4>4. Queued(g)
        BY <1>2, <4>2, <4>3
      <4>5. QED
        BY <2>3, <4>2, <4>3, <4>4
    <3>3. QED
      BY <3>1, <3>2
  <2>5. QED
    BY <2>4 DEF Queued
<1>5. CASE Listing
  BY <1>3, <1>5, ListingFrame DEF storeVars
<1>6. CASE Ledger
  BY <1>3, <1>6 DEF Ledger, Land, Expire, storeVars
<1>7. CASE Others
  BY <1>3, <1>7, OthersFacts DEF storeVars
<1>8. CASE Crash
  BY <1>1, <1>8, FaultFacts DEF Crash
<1>9. CASE UNCHANGED vars
  BY <1>3, <1>9 DEF vars
<1>10. QED
  BY <1>4, <1>5, <1>6, <1>7, <1>8, <1>9 DEF Next

\* A listing without a fault: what was due and still waits is shown, or is behind the limit,
\* or is a candidate yet to be read.
Covered(h) ==
    \/ h \in list.shown \cup list.behind
    \/ list.pc = "reading" /\ \E q \in list.todo : q.hash = h

WholeInv ==
    Fits /\ list.pc \in {"reading", "done"} =>
        \A h \in list.due : chain[h].stage # "None" /\ (chain[h].stage = "Pending" => Covered(h))

\* A row is a candidate, or there are as many later ones as the list takes.
LEMMA CutAtTheLimit ==
    ASSUME CoreInv, NEW limit \in Limits, NEW q \in queue
    PROVE  q \in Candidates(limit) \/ q.hash \in Behind(limit)
<1>1. PICK later \in SUBSET queue : later = {p \in queue : p.at > q.at}
  OBVIOUS
<1>2. later \in SUBSET QueueRow /\ (\A p \in later : chain[p.hash].escalated)
      /\ (\A p, o \in later : p.hash = o.hash => p = o)
  BY DEF CoreInv, TypeOK, QueueInv, QueueHoldsEscalations
<1>3. Cardinality(later) \in Nat
  BY <1>2, RowsAreFew
<1>4. limit \in Nat
  BY GatewayAssumption
<1>5. Cardinality(later) < limit \/ Cardinality(later) >= limit
  BY <1>3, <1>4
<1>6. QED
  BY <1>1, <1>5 DEF Candidates, Behind

LEMMA WholeStart ==
    ASSUME CoreInv, KeptInv, ListStart
    PROVE  WholeInv'
<1> SUFFICES ASSUME Fits'
             PROVE  \A h \in list'.due :
                      /\ chain'[h].stage # "None" /\ list'.pc = "reading"
                      /\ h \in list'.behind \/ \E q \in list'.todo : q.hash = h
  BY DEF WholeInv, Covered
<1>1. UNCHANGED <<chain, mode>> /\ faults' = 0
  BY DEF ListStart, Fits, chainVars, storeVars
<1>2. Fits /\ NoFault
  BY <1>1, FaultFacts DEF Fits, Escalated, ListStart, NoFault
<1>3. PICK limit \in Limits :
        /\ list'.pc = "reading" /\ list'.todo = Candidates(limit) /\ list'.behind = Behind(limit)
        /\ list'.due = {req[r].hash : r \in {x \in Requests : req[x].status = 202}}
  BY <1>1, FaultFacts DEF ListStart
<1>4. ASSUME NEW r \in Requests, req[r].status = 202
      PROVE  chain[req[r].hash].stage # "None" /\ Queued(req[r].hash)
  <2>1. chain[req[r].hash].stage # "None"
    <3>1. PICK h \in Hashes, d \in Decision : h = req[r].hash /\ d = req[r].held
      BY Before
    <3>2. WasOnChain(d, h)
      BY <1>4, <3>1, Before DEF HandlerInv, WasTold
    <3>3. QED
      BY <3>1, <3>2 DEF WasOnChain, Later, Decision, Stages
  <2>2. QED
    BY <1>2, <1>4, <2>1 DEF KeptInv, Owed
<1>5. QED
  BY <1>1, <1>3, <1>4, CutAtTheLimit DEF Queued

LEMMA WholeRead ==
    ASSUME CoreInv, WholeInv, NEW q \in list.todo, ListRead(q)
    PROVE  WholeInv'
<1> SUFFICES ASSUME Fits', NEW h \in list'.due
             PROVE  /\ chain'[h].stage # "None"
                    /\ chain'[h].stage = "Pending" =>
                         \/ h \in list'.shown \cup list'.behind
                         \/ list'.pc = "reading" /\ \E p \in list'.todo : p.hash = h
  BY DEF WholeInv, Covered
<1>1. UNCHANGED <<chain, mode>> /\ faults' = 0 /\ list \in Lists
  BY DEF ListRead, Fits, chainVars, storeVars, CoreInv, TypeOK
<1>2. Fits
  BY <1>1, FaultFacts DEF Fits, Escalated, ListRead, NoFault
<1>3. list' = [list EXCEPT !.todo = @ \ {q},
                 !.shown = IF q.hash \in Outstanding THEN @ \cup {q.hash} ELSE @]
  BY <1>1, FaultFacts DEF ListRead
<1>4. /\ list'.pc = list.pc /\ list'.due = list.due /\ list'.behind = list.behind /\ list'.todo = list.todo \ {q}
      /\ list'.shown = IF q.hash \in Outstanding THEN list.shown \cup {q.hash} ELSE list.shown
  BY <1>1, <1>3 DEF Lists
<1>5. list.pc = "reading" /\ h \in Hashes
  BY <1>1, <1>4 DEF ListRead, Lists
<1>6. chain[h].stage # "None" /\ (chain[h].stage = "Pending" =>
        h \in list.shown \cup list.behind \/ \E p \in list.todo : p.hash = h)
  BY <1>2, <1>4, <1>5 DEF WholeInv, Covered
<1>7. QED
  BY <1>1, <1>4, <1>5, <1>6 DEF Outstanding

LEMMA WholeStep ==
    ASSUME CoreInv, KeptInv, WholeInv, [Next]_vars
    PROVE  WholeInv'
<1>1. Fits' => Fits
  BY EscalatedGrows
<1>2. CASE ChainMoves /\ UNCHANGED list
  <2>1. ASSUME Fits', list.pc \in {"reading", "done"}, NEW h \in list.due
        PROVE  chain'[h].stage # "None" /\ (chain'[h].stage = "Pending" => Covered(h))
    <3>1. h \in Hashes
      BY <2>1 DEF CoreInv, TypeOK, Lists
    <3>2. chain[h].stage # "None" /\ (chain[h].stage = "Pending" => Covered(h)) /\ chain[h].stage \in Stages
      BY <1>1, <2>1, <3>1 DEF WholeInv, CoreInv, TypeOK, Decision
    <3>3. chain'[h] = chain[h] \/ chain'[h].stage \in Later(chain[h].stage)
      BY <1>2, <3>1, <3>2 DEF ChainMoves
    <3>4. QED
      BY <3>2, <3>3 DEF Later, Stages
  <2>2. QED
    BY <1>2, <2>1 DEF WholeInv, Covered
<1>3. CASE list'.pc = "idle"
  BY <1>3 DEF WholeInv
<1>4. CASE ListReply
  <2>1. /\ list.pc = "reading" /\ list.todo = {} /\ chain' = chain
        /\ list'.pc = "done" /\ list'.due = list.due /\ list'.shown = list.shown
        /\ list'.behind = list.behind
    BY <1>4 DEF ListReply, CoreInv, TypeOK, Lists, chainVars
  <2>2. QED
    BY <1>1, <2>1 DEF WholeInv, Covered
<1>5. CASE Listing
  BY <1>4, <1>5, WholeStart, WholeRead DEF Listing
<1>6. QED
  BY <1>2, <1>3, <1>5, ListFrame

\* GET /v1/approvals is complete: what a client was told is waiting, and still waits, is listed
\* unless something has failed or there were more escalations than the store holds; the limit of
\* the list leaves out only what has as many later entries ahead of it.
THEOREM ListIsWhole == Spec => []ListIsComplete
<1>1. Init => KeptInv /\ WholeInv
  <2>1. Idle.pc = "idle" /\ Idle.status = 0
    BY DEF Idle
  <2>2. QED
    BY <2>1 DEF Init, KeptInv, WholeInv, Owed
<1>2. CoreInv /\ KeptInv /\ WholeInv /\ [Next]_vars => KeptInv' /\ WholeInv'
  BY KeptStep, WholeStep
<1>3. CoreInv /\ WholeInv => ListIsComplete
  BY DEF WholeInv, ListIsComplete, Covered, Fits, Escalated, Outstanding
<1>4. QED
  BY <1>1, <1>2, <1>3, CoreHolds, PTL DEF Spec

===============================================================================
