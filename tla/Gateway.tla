-------------------------------- MODULE Gateway --------------------------------
(***************************************************************************)
(* The HTTP gateway between agents and the authorization contract: every   *)
(* request runs as an async handler that awaits the database and the chain *)
(* between its steps, so the handlers interleave with each other, with the *)
(* ledger, with the owner acting through other tools, and with a crash.    *)
(*                                                                         *)
(* Left out: parsing and the registry look-up (a refused body reaches no   *)
(* step below), timings, the transcript records, the failure table (which  *)
(* nothing reads) and submit()'s branch for a call without auth entries    *)
(* (authorize and resolve both require a signature, so it is not taken).   *)
(* A policy version stands for the threshold that version holds.           *)
(***************************************************************************)
EXTENDS Naturals, Sequences, FiniteSets

CONSTANTS
    Hashes,         \* intent hashes (one decision each)
    Requests,       \* the requests that clients may send, each sent once
    Modes,          \* stores the process may open: "postgres", "degraded"
    Keys,           \* the secrets configured, a subset of {"caller", "agent", "owner", "write"}
    Faults,         \* what may fail, a subset of {"rpc", "db", "crash"}
    Limits,         \* the limits clients give GET /v1/approvals
    Cap,            \* rows the degraded store keeps
    MaxVersion,     \* bound on the policy versions the owner publishes
    MaxCalls,       \* bound on the HTTP requests
    MaxLists,       \* ... and on those that are GET /v1/approvals
    MaxFaults       \* bound on the faults

ASSUME GatewayAssumption ==
    /\ Modes \subseteq {"postgres", "degraded"}
    /\ Limits \subseteq Nat \ {0}
    /\ Cap \in Nat \ {0}
    /\ MaxVersion \in Nat \ {0}
    /\ Hashes # {} /\ IsFiniteSet(Hashes)

VARIABLES
    version,        \* the agent's current policy version on chain
    chain,          \* intent hash -> its decision on chain
    wire,           \* requests whose transaction the network holds
    outcome,        \* request -> what the ledger answered it
    req,            \* request -> its handler: where it is and what it holds
    lane,           \* signing account -> the handlers queued on its mutex
    intents,        \* the intent hashes with a row in `intents`, oldest first
    rows,           \* intent hash -> the cached decision in `decisions`
    queue,          \* the rows of `approval_queue`, or of the degraded store's Map
    list,           \* the GET /v1/approvals in progress, or the last one answered
    mode,           \* the store that was opened at start-up
    faults          \* number of faults so far

chainVars == <<version, chain, wire, outcome>>
storeVars == <<intents, rows, queue, mode>>
vars == <<version, chain, wire, outcome, req, lane, intents, rows, queue, list, mode, faults>>

-----------------------------------------------------------------------------
(* Decisions.  `escalated` is original_reason_code = PendingApproval.       *)

Stages == {"None", "Pending", "Approved", "Rejected", "Settled"}

Decision == [stage : Stages, version : 0..MaxVersion, escalated : BOOLEAN]
NoDecision == [stage |-> "None", version |-> 0, escalated |-> FALSE]

\* The stages a decision may still be in after it was seen in stage s.
Later(s) == CASE s = "None" -> Stages
              [] s = "Pending" -> {"Pending", "Approved", "Rejected", "Settled"}
              [] s = "Approved" -> {"Approved", "Settled"}
              [] OTHER -> {s}

\* d is a decision h really had, now or before.
WasOnChain(d, h) == /\ d.stage # "None"
                    /\ chain[h].stage \in Later(d.stage)
                    /\ d.version = chain[h].version
                    /\ d.escalated = chain[h].escalated

\* What the contract may make of a new intent, and of the owner's answer.
Judged(h) == {[stage |-> s, version |-> version, escalated |-> s = "Pending"] :
                 s \in {"Pending", "Approved", "Rejected"}}

Resolved(h, approve) == {[chain[h] EXCEPT !.stage = s] :
                            s \in IF approve THEN {"Approved", "Rejected"} ELSE {"Rejected"}}

NoOutcome == [error |-> "None", decision |-> NoDecision]
Succeeded(d) == [error |-> "Ok", decision |-> d]
Refused(name) == [error |-> name, decision |-> NoDecision]

(* Handlers.                                                                *)

Idle == [pc |-> "idle", kind |-> "intent", hash |-> CHOOSE h \in Hashes : TRUE,
         approve |-> FALSE, held |-> NoDecision, rule |-> 0, preimage |-> FALSE, status |-> 0]

Live(r) == req[r].pc \notin {"idle", "answered", "lost"}

\* Handler r goes on to pc, everything else it holds unchanged.
Goto(r, pc) == req' = [req EXCEPT ![r].pc = pc]

\* The handler will answer with an error once it has recorded the failure.
Fail(r, status) == req' = [req EXCEPT ![r].pc = "failed", ![r].status = status]

\* A request that is answered at once.
Reply(r, status) == req' = [req EXCEPT ![r].pc = "answered", ![r].status = status]

\* Something of this kind fails, or nothing does.
Happens(kind) == kind \in Faults /\ faults < MaxFaults /\ faults' = faults + 1
NoFault == UNCHANGED faults

\* The clients' budget.
Calls == list.calls + Cardinality({r \in Requests : req[r].pc # "idle"})

Signer(kind) == IF kind = "intent" THEN "caller" ELSE "owner"

Head1(r) == LET s == Signer(req[r].kind) IN lane[s] # <<>> /\ Head(lane[s]) = r

Join(r, s) == lane' = [lane EXCEPT ![s] = Append(@, r)]

\* The mutex lets the next handler in, whether this one succeeded or threw.
Release(r) == lane' = [lane EXCEPT ![Signer(req[r].kind)] = Tail(@)]

BadGateway == 502

HttpForContractFailure(name) ==
    CASE name = "DecisionNotFound" -> 404
      [] name \in {"NotPendingApproval", "AlreadyResolved"} -> 409
      [] name = "AgentNotRegistered" -> 422
      [] OTHER -> 500

-----------------------------------------------------------------------------
(* The store.  A row of the queue keeps when it was put first (`since`, the *)
(* Map's insertion order) and when it was written last (`at`, escalatedAt). *)

QueueRow == [hash : Hashes, version : 0..MaxVersion, since : Nat, at : Nat]

\* The clock behind `now()`: later than every row there is.
Tick == LET ats == {0} \cup {q.at : q \in queue}
        IN  1 + CHOOSE t \in ats : \A u \in ats : u <= t

\* guard(): what is awaited of Postgres comes to pass, or is given up and logged; the
\* degraded store cannot fail.
Guard(done, lost) == (done /\ NoFault) \/ (mode = "postgres" /\ Happens("db") /\ lost)

Stored(h) == \E i \in DOMAIN intents : intents[i] = h

\* onConflictDoNothing: a second submission leaves the first one's row.  The degraded
\* store keeps as many as it keeps queue entries.
InsertIntent(h) ==
    LET all == IF Stored(h) THEN intents ELSE Append(intents, h)
    IN  intents' = IF mode = "degraded" /\ Len(all) > Cap THEN Tail(all) ELSE all

RowOf(h) == {q \in queue : q.hash = h}

Oldest(q) == {x \in q : \A y \in q : x.since <= y.since}
Trim(q) == IF Cardinality(q) > Cap THEN q \ Oldest(q) ELSE q

\* Mutant: a later submission writes the snapshot again (onConflictDoUpdate).
EnqueueApprovalMutant(h, v) ==
    LET fresh == [hash |-> h, version |-> v, since |-> Tick, at |-> Tick]
    IN  queue' = IF Stored(h) THEN (queue \ RowOf(h)) \cup {fresh} ELSE queue

\* Map.set writes over an entry and leaves it in its place.
SetEntry(fresh) ==
    IF RowOf(fresh.hash) = {} THEN Trim(queue \cup {fresh})
    ELSE (queue \ RowOf(fresh.hash)) \cup {[fresh EXCEPT !.since = q.since] : q \in RowOf(fresh.hash)}

\* Both tables reference `intents`: without its row an insert fails and is dropped.
EnqueueApproval(h, v) ==
    LET fresh == [hash |-> h, version |-> v, since |-> Tick, at |-> Tick]
    IN  queue' = CASE mode = "degraded" -> SetEntry(fresh)
                   [] mode = "postgres" /\ Stored(h) /\ RowOf(h) = {} -> queue \cup {fresh}
                   [] OTHER -> queue

\* Mutant: the row is stamped with the policy version of the moment it is written.
RecordRowMutant(h, d) ==
    rows' = IF mode = "degraded" \/ ~Stored(h) THEN rows
            ELSE [rows EXCEPT ![h] = [d EXCEPT !.version = version]]

RecordRow(h, d) ==
    rows' = CASE mode = "degraded" \/ ~Stored(h) -> rows
              [] rows[h] = NoDecision -> [rows EXCEPT ![h] = d]
              [] OTHER -> [rows EXCEPT ![h].stage = d.stage]

\* Mutant: off by one at the limit.
CandidatesMutant(limit) == {q \in queue : Cardinality({p \in queue : p.at > q.at}) + 1 < limit}

\* ORDER BY escalated_at DESC LIMIT n
Candidates(limit) == {q \in queue : Cardinality({p \in queue : p.at > q.at}) < limit}

-----------------------------------------------------------------------------
Init ==
    /\ version = 1
    /\ chain = [h \in Hashes |-> NoDecision]
    /\ wire = {}
    /\ outcome = [r \in Requests |-> NoOutcome]
    /\ req = [r \in Requests |-> Idle]
    /\ lane = [s \in {"caller", "owner"} |-> <<>>]
    /\ intents = <<>>
    /\ rows = [h \in Hashes |-> NoDecision]
    /\ queue = {}
    /\ list = [pc |-> "idle", calls |-> 0, todo |-> {}, shown |-> {}, closed |-> {}, due |-> {},
               behind |-> {}]
    /\ mode \in Modes
    /\ faults = 0

(* The door: every POST has to present the write key, and there is none without one. *)

Classify(presented) ==
    IF "write" \notin Keys THEN "writes-disabled" ELSE IF presented THEN "allowed" ELSE "unauthorized"

Admitted == \E presented \in BOOLEAN : Classify(presented) = "allowed"

TurnAway(r) ==
    /\ req[r].pc = "idle" /\ Calls < MaxCalls
    /\ \E presented \in BOOLEAN :
          /\ Classify(presented) # "allowed"
          /\ Reply(r, IF Classify(presented) = "unauthorized" THEN 401 ELSE 503)
    /\ UNCHANGED <<chainVars, lane, storeVars, list, faults>>

(* POST /v1/intents *)

PostIntent(r, h) ==
    /\ req[r].pc = "idle" /\ Calls < MaxCalls /\ Admitted
    /\ req' = [req EXCEPT ![r] = [Idle EXCEPT !.pc = "received", !.hash = h]]
    /\ UNCHANGED <<chainVars, lane, storeVars, list, faults>>

\* recordIntent, then straight on to the caller's mutex; a lost row is only logged.
RecordIntent(r) ==
    /\ req[r].pc = "received"
    /\ Guard(InsertIntent(req[r].hash), UNCHANGED intents)
    /\ Join(r, "caller")
    /\ Goto(r, "queued")
    /\ UNCHANGED <<chainVars, rows, queue, mode, list>>

(* POST /v1/decisions/:id/resolve *)

PostResolve(r, h, approve) ==
    LET received == [Idle EXCEPT !.kind = "resolve", !.hash = h, !.approve = approve]
    IN  /\ req[r].pc = "idle" /\ Calls < MaxCalls /\ Admitted
        /\ IF "owner" \in Keys
           THEN /\ req' = [req EXCEPT ![r] = [received EXCEPT !.pc = "queued"]]
                /\ Join(r, "owner")
           ELSE /\ req' = [req EXCEPT ![r] = [received EXCEPT !.pc = "failed", !.status = BadGateway]]
                /\ UNCHANGED lane
        /\ UNCHANGED <<chainVars, storeVars, list, faults>>

(* chain.submit, one handler per signing account at a time *)

\* What the contract may say of the call in this ledger state.  Whether it knows the
\* gateway's account and the agent is not followed here, so an intent may be refused.
Refusals(r) ==
    LET d == chain[req[r].hash]
    IN  CASE req[r].kind = "intent" ->
                {"Ok", "NotAuthorizedCaller"}
                    \cup (IF d.stage = "None" THEN {"AgentNotRegistered"} ELSE {})
          [] d.stage = "None" -> {"DecisionNotFound"}
          [] d.stage = "Pending" -> {"Ok"}
          [] d.escalated -> {"AlreadyResolved"}
          [] OTHER -> {"NotPendingApproval"}

\* A key for every auth entry the simulation asks for: the agent's, of an intent.
CanSignAll(r) == req[r].kind = "intent" => "agent" \in Keys

SimulationFails(r) ==
    /\ req[r].pc = "queued" /\ Head1(r)
    /\ \/ \E name \in Refusals(r) \ {"Ok"} : NoFault /\ Fail(r, HttpForContractFailure(name))
       \/ /\ Happens("rpc") \/ (~CanSignAll(r) /\ NoFault)
          /\ Fail(r, BadGateway)
    /\ Release(r)
    /\ UNCHANGED <<chainVars, storeVars, list>>

\* Mutant: the simulated verdict is answered without waiting for the ledger.
SubmitMutant(r) ==
    /\ req[r].pc = "queued" /\ Head1(r)
    /\ "Ok" \in Refusals(r)
    /\ \E d \in IF req[r].kind = "resolve" THEN Resolved(req[r].hash, req[r].approve)
                 ELSE IF chain[req[r].hash].stage = "None" THEN Judged(req[r].hash)
                 ELSE {chain[req[r].hash]} :
           req' = [req EXCEPT ![r].held = d, ![r].pc = "decided"]
    /\ wire' = wire \cup {r}
    /\ Release(r)
    /\ UNCHANGED <<version, chain, outcome, storeVars, list, faults>>

\* Simulated, every auth entry signed, sent, and the hash handed to onSubmitted.
Submit(r) ==
    /\ req[r].pc = "queued" /\ Head1(r)
    /\ "Ok" \in Refusals(r)
    /\ CanSignAll(r)
    /\ wire' = wire \cup {r}
    /\ Goto(r, "submitted")
    /\ UNCHANGED <<version, chain, outcome, lane, storeVars, list, faults>>

\* Mutant: every decision is put in the approval queue.
ObserveMutant(r) ==
    /\ req[r].pc = "submitted" /\ outcome[r].error = "Ok"
    /\ req' = [req EXCEPT ![r].held = outcome[r].decision, ![r].pc = "escalated"]
    /\ outcome' = [outcome EXCEPT ![r] = NoOutcome]
    /\ Release(r)
    /\ UNCHANGED <<version, chain, wire, storeVars, list, faults>>

\* The result of the transaction reaches the handler.
Observe(r) ==
    /\ req[r].pc = "submitted" /\ outcome[r].error # "None"
    /\ LET d == outcome[r].decision
       IN  IF outcome[r].error # "Ok"
           THEN Fail(r, HttpForContractFailure(outcome[r].error))
           ELSE req' = [req EXCEPT ![r].held = d,
                          ![r].pc = IF req[r].kind = "intent" /\ d.stage = "Pending"
                                    THEN "escalated" ELSE "decided"]
    /\ outcome' = [outcome EXCEPT ![r] = NoOutcome]
    /\ Release(r)
    /\ UNCHANGED <<version, chain, wire, storeVars, list, faults>>

\* "submitted as ... but the result was not observed": the transaction may still land.
Unobserved(r) ==
    /\ req[r].pc = "submitted" /\ Happens("rpc")
    /\ Fail(r, BadGateway)
    /\ outcome' = [outcome EXCEPT ![r] = NoOutcome]
    /\ Release(r)
    /\ UNCHANGED <<version, chain, wire, storeVars, list>>

(* snapshotEscalation: the policy is read after authorize() has returned *)

\* get_policy: today's policy goes on to `next`, or the RPC fails.
GetPolicy(next, otherwise) == (next /\ NoFault) \/ (Happens("rpc") /\ otherwise)

ReadPolicy(r) ==
    /\ req[r].pc = "escalated"
    /\ GetPolicy(req' = [req EXCEPT ![r].pc = "ruled", ![r].rule = version], Goto(r, "decided"))
    /\ UNCHANGED <<chainVars, lane, storeVars, list>>

SnapshotEscalation(r) ==
    /\ req[r].pc = "ruled"
    /\ Guard(EnqueueApproval(req[r].hash, req[r].rule), UNCHANGED queue)
    /\ Goto(r, "decided")
    /\ UNCHANGED <<chainVars, lane, intents, rows, mode, list>>

(* recordDecision, and the answer *)

Answer(r) == IF req[r].held.stage = "Pending" THEN 202 ELSE 200

RecordDecision(r) ==
    /\ req[r].pc = "decided" /\ req[r].kind = "intent"
    /\ Guard(RecordRow(req[r].hash, req[r].held), UNCHANGED rows)
    /\ Reply(r, Answer(r))
    /\ UNCHANGED <<chainVars, lane, intents, queue, mode, list>>

RecordResolution(r) ==
    /\ req[r].pc = "decided" /\ req[r].kind = "resolve"
    /\ Guard(RecordRow(req[r].hash, req[r].held), UNCHANGED rows)
    /\ Reply(r, 200)
    /\ UNCHANGED <<chainVars, lane, intents, queue, mode, list>>

ReplyFailure(r) ==
    /\ req[r].pc = "failed"
    /\ Goto(r, "answered")
    /\ UNCHANGED <<chainVars, lane, storeVars, list, faults>>

(* GET /v1/decisions/:id reads the chain and then looks for the row of the    *)
(* intent, GET /v1/intents/:intent_hash does it the other way round.         *)

GetDecision(r, h) ==
    /\ req[r].pc = "idle" /\ Calls < MaxCalls
    /\ req' = [req EXCEPT ![r] = [Idle EXCEPT !.pc = "reading", !.kind = "decision", !.hash = h]]
    /\ UNCHANGED <<chainVars, lane, storeVars, list, faults>>

GetIntent(r, h) ==
    /\ req[r].pc = "idle" /\ Calls < MaxCalls
    /\ req' = [req EXCEPT ![r] = [Idle EXCEPT !.pc = "looking", !.kind = "preimage", !.hash = h]]
    /\ UNCHANGED <<chainVars, lane, storeVars, list, faults>>

\* get_decision or decision_by_intent, simulated: a trap of the contract is told from a
\* source that cannot be reached.
ReadDecision(r) ==
    LET d == chain[req[r].hash]
    IN  /\ req[r].pc = "reading"
        /\ \/ /\ d # NoDecision /\ NoFault
              /\ req' = [req EXCEPT ![r].held = d, ![r].status = 200,
                           ![r].pc = IF req[r].kind = "decision" THEN "looking" ELSE "answered"]
           \/ d = NoDecision /\ NoFault /\ Reply(r, HttpForContractFailure("DecisionNotFound"))
           \/ Happens("rpc") /\ Reply(r, BadGateway)
        /\ UNCHANGED <<chainVars, lane, storeVars, list>>

\* What intentByHash found: a row, none, or the fallback when the query failed.
PreimageBlock(r, found) ==
    req' = [req EXCEPT ![r].preimage = found,
              ![r].pc = IF req[r].kind = "decision" THEN "answered" ELSE "reading"]

LookForIntent(r) ==
    /\ req[r].pc = "looking"
    /\ Guard(PreimageBlock(r, Stored(req[r].hash)), PreimageBlock(r, FALSE))
    /\ UNCHANGED <<chainVars, lane, storeVars, list>>

(* GET /v1/approvals: candidates once, then one chain read per candidate, newest first *)

Outstanding == {h \in Hashes : chain[h].stage = "Pending"}

\* The intents with `limit` later entries in the queue.
Behind(limit) == {q.hash : q \in {x \in queue : Cardinality({p \in queue : p.at > x.at}) >= limit}}

\* `closed`, `due` and `behind` only serve the properties: what had already been answered
\* by the owner, what a client had been told is waiting, and what `limit` later entries
\* were ahead of, when the listing began.
ListStart ==
    /\ list.pc # "reading" /\ list.calls < MaxLists /\ Calls < MaxCalls
    /\ \E limit \in Limits : \E todo \in {Candidates(limit), {}} :
       /\ \/ todo = Candidates(limit) /\ NoFault
          \/ todo = {} /\ mode = "postgres" /\ Happens("db")
       /\ list' = [pc |-> "reading", calls |-> list.calls + 1, todo |-> todo, shown |-> {},
                   closed |-> Hashes \ Outstanding, behind |-> Behind(limit),
                   due |-> {req[r].hash : r \in {x \in Requests : req[x].status = 202}}]
    /\ UNCHANGED <<chainVars, req, lane, storeVars>>

\* Mutant: the stored row is believed, and the chain not asked.
ListReadMutant(q) ==
    /\ list.pc = "reading" /\ q \in list.todo
    /\ list' = [list EXCEPT !.todo = @ \ {q}, !.shown = @ \cup {q.hash}]
    /\ UNCHANGED <<chainVars, req, lane, storeVars, faults>>

ListRead(q) ==
    /\ list.pc = "reading" /\ q \in list.todo
    /\ \A p \in list.todo : p.at <= q.at
    /\ \/ /\ list' = [list EXCEPT !.todo = @ \ {q},
                        !.shown = IF q.hash \in Outstanding THEN @ \cup {q.hash} ELSE @]
          /\ NoFault
       \/ Happens("rpc") /\ list' = [list EXCEPT !.todo = @ \ {q}]
    /\ UNCHANGED <<chainVars, req, lane, storeVars>>

ListReply ==
    /\ list.pc = "reading" /\ list.todo = {}
    /\ list' = [list EXCEPT !.pc = "done"]
    /\ UNCHANGED <<chainVars, req, lane, storeVars, faults>>

(* A crash loses every handler and the degraded store; the network and Postgres stay. *)

Crash ==
    /\ Happens("crash")
    /\ \E r \in Requests : Live(r)
    /\ req' = [r \in Requests |-> IF Live(r) THEN [req[r] EXCEPT !.pc = "lost"] ELSE req[r]]
    /\ lane' = [s \in {"caller", "owner"} |-> <<>>]
    /\ list' = [list EXCEPT !.pc = "idle", !.todo = {}, !.shown = {}]
    /\ outcome' = [r \in Requests |-> NoOutcome]
    /\ queue' = IF mode = "degraded" THEN {} ELSE queue
    /\ intents' = IF mode = "degraded" THEN <<>> ELSE intents
    /\ UNCHANGED <<version, chain, wire, rows, mode>>

-----------------------------------------------------------------------------
(* The ledger (module Authorization in one step per call) and the others    *)
(* who write to it.                                                         *)

\* A result reaches a handler only while it still waits for it.
Tell(r, o) == outcome' = IF req[r].pc = "submitted" THEN [outcome EXCEPT ![r] = o] ELSE outcome

\* authorize is idempotent on the hash; either may be refused by then.
Land(r) ==
    LET h == req[r].hash
    IN  /\ r \in wire
        /\ wire' = wire \ {r}
        /\ \/ /\ req[r].kind = "intent" /\ chain[h].stage # "None"
              /\ Tell(r, Succeeded(chain[h]))
              /\ UNCHANGED chain
           \/ /\ \E name \in Refusals(r) \ {"Ok"} : Tell(r, Refused(name))
              /\ UNCHANGED chain
           \/ \E d \in CASE req[r].kind = "intent" /\ chain[h].stage = "None" -> Judged(h)
                         [] req[r].kind = "resolve" /\ chain[h].stage = "Pending" ->
                               Resolved(h, req[r].approve)
                         [] OTHER -> {} :
                /\ chain' = [chain EXCEPT ![h] = d]
                /\ Tell(r, Succeeded(d))
        /\ UNCHANGED <<version, req, lane, storeVars, list, faults>>

\* A transaction that misses its time bounds never lands.
Expire(r) ==
    /\ r \in wire /\ Happens("rpc")
    /\ wire' = wire \ {r}
    /\ UNCHANGED <<version, chain, outcome, req, lane, storeVars, list>>

SetPolicy ==
    /\ version < MaxVersion
    /\ version' = version + 1
    /\ UNCHANGED <<chain, wire, outcome, req, lane, storeVars, list, faults>>

\* The owner answers through the console, the CLI or a second gateway.
ResolveElsewhere(h) ==
    /\ chain[h].stage = "Pending"
    /\ \E d \in Resolved(h, TRUE) : chain' = [chain EXCEPT ![h] = d]
    /\ UNCHANGED <<version, wire, outcome, req, lane, storeVars, list, faults>>

\* The executor settles an approved decision.
MarkSettled(h) ==
    /\ chain[h].stage = "Approved"
    /\ chain' = [chain EXCEPT ![h].stage = "Settled"]
    /\ UNCHANGED <<version, wire, outcome, req, lane, storeVars, list, faults>>

-----------------------------------------------------------------------------
Client(r) == \/ TurnAway(r)
             \/ \E h \in Hashes : \/ PostIntent(r, h) \/ GetDecision(r, h) \/ GetIntent(r, h)
                                \/ \E approve \in BOOLEAN : PostResolve(r, h, approve)

Handler(r) == \/ RecordIntent(r) \/ SimulationFails(r) \/ Submit(r)
              \/ Observe(r) \/ Unobserved(r)
              \/ ReadPolicy(r) \/ SnapshotEscalation(r)
              \/ RecordDecision(r) \/ RecordResolution(r) \/ ReplyFailure(r)
              \/ ReadDecision(r) \/ LookForIntent(r)

Listing == ListStart \/ (\E q \in list.todo : ListRead(q)) \/ ListReply

Ledger == (\E r \in wire : Land(r) \/ Expire(r))

Others == SetPolicy \/ \E h \in Hashes : ResolveElsewhere(h) \/ MarkSettled(h)

Next == \/ \E r \in Requests : Client(r) \/ Handler(r)
        \/ Listing \/ Ledger \/ Others \/ Crash

Spec == Init /\ [][Next]_vars

-----------------------------------------------------------------------------
\* A 200 or a 202 carries a decision that is, or was, on chain for that intent, even when
\* other handlers, the owner and the executor move it on before the answer is written; a
\* 202 is sent for an escalated decision and nothing else; and a decision that is asked for by
\* its id comes with the preimage to recompute its hash from, unless something has failed.
AnswersAreTheChains ==
    \A r \in Requests : req[r].pc = "answered" /\ req[r].status \in {200, 202} =>
        /\ WasOnChain(req[r].held, req[r].hash)
        /\ req[r].status = 202 => req[r].held.escalated
        /\ req[r].kind = "decision" /\ mode = "postgres" /\ faults = 0 => req[r].preimage

\* A cached decision is never ahead of the chain and never of another policy version, with
\* rows lost, transactions landing after their handler gave up, and crashes in between.
CacheTrailsChain ==
    \A h \in Hashes : rows[h] # NoDecision => WasOnChain(rows[h], h)

\* Only escalated decisions enter the approval queue, and the threshold shown with one is
\* never older than the policy that escalated it.
QueueHoldsEscalations ==
    \A q \in queue : chain[q.hash].escalated /\ q.version >= chain[q.hash].version

\* What GET /v1/approvals lists was still waiting for the owner at some moment of that
\* call: nothing the owner answered before it, through whatever path, is listed.
ListedWasWaiting == list.pc = "done" => list.shown \cap list.closed = {}

\* What a client was told is waiting (202) and still waits is listed, unless something
\* failed meanwhile or more was escalated than the degraded store holds; and the limit,
\* which cuts before the chain is asked, leaves out only what has `limit` later
\* entries of the queue ahead of it, be those answered or not.
ListIsComplete ==
    /\ list.pc = "done" /\ faults = 0
    /\ mode = "degraded" => Cardinality({h \in Hashes : chain[h].escalated}) <= Cap
    => (list.due \cap Outstanding) \subseteq list.shown \cup list.behind

\* In Postgres, set_policy and a repeated submission never change what a queued entry means.
SnapshotIsKept ==
    [][mode = "postgres" =>
         \A p \in queue, q \in queue' : p.hash = q.hash => p.version = q.version]_vars

\* The cached decision follows the chain: a write never takes it back to an earlier stage.
CacheMovesForward ==
    [][\A h \in Hashes : rows'[h].stage \in Later(rows[h].stage)]_vars

=============================================================================
