------------------------------- MODULE Executor -------------------------------
(***************************************************************************)
(* The settlement executor: apps/executor/src.  A run of settle() or       *)
(* recover() gates on the chain's decision, commits a signed envelope to   *)
(* its journal, marks the decision settled on chain, and only then POSTs   *)
(* the stored bytes to Horizon and polls for their fate.                   *)
(*                                                                         *)
(* One action per stretch of code between two awaits that touch shared     *)
(* state, so runs, other processes, the network and crashes interleave     *)
(* wherever the code lets them.  The contract is DecisionLifecycle, which  *)
(* Authorization implements.  The ledger and Horizon are external: the     *)
(* ledger closes with at most one payment of the executor's account,       *)
(* Horizon ingests closed ledgers later, and all it answers is as of the   *)
(* last one ingested.                                                      *)
(*                                                                         *)
(* Signing is deterministic, so an envelope IS what it is built from: two  *)
(* prepares of one decision with one sequence number and one max_time give *)
(* the same bytes and the same hash.  Left out: amounts, destinations and  *)
(* the registry and preflight refusals they lead to, which end a run as    *)
(* Stop does (a preflight refusal ends it by itself), and receipts.        *)
(***************************************************************************)
EXTENDS Integers, FiniteSets

CONSTANTS
    Decisions,      \* decision ids
    Processes,      \* executor processes
    JournalOf,      \* process -> the journal (database file) it opens
    None,           \* no record, no envelope
    Timeout,        \* config.timeoutSeconds, in ledgers
    MaxTime,        \* bound: the last ledger of the model
    MaxStops        \* bound: runs that end early

Journals == {JournalOf[p] : p \in Processes}

Envelope == [decision : Decisions, sequence : Nat, maxTime : Nat]

Statuses == {"PREPARED", "MARKED", "SUBMITTED", "SETTLED", "ABANDONED"}
TERMINAL == {"SETTLED", "ABANDONED"}
SettlementRecord == [envelope : Envelope, status : Statuses]

ASSUME BoundsAssumption == Timeout \in Nat /\ MaxTime \in Nat /\ MaxStops \in Nat
ASSUME AbsentAssumption == None \notin SettlementRecord \cup Envelope

VARIABLES
    stage,          \* the contract: decision -> stage (DecisionLifecycle)
    marks,          \* process, decision -> the mark_settled a run is waiting for
    lateMarks,      \* decisions with a mark_settled in flight that no run waits for
    journal,        \* journal, decision -> settlement record or None
    run,            \* process, decision -> where its run is and what it has read
    pool,           \* payment envelopes the network has accepted
    included,       \* payments on the ledger: envelope, ledger, successful
    ledgerTime,     \* close time of the last ledger
    horizonTime,    \* close time of the last ledger Horizon has ingested
    stops           \* runs that have ended early

chainVars == <<stage, marks, lateMarks>>
ledgerVars == <<included, ledgerTime, horizonTime>>
vars == <<stage, marks, lateMarks, journal, run, pool, included, ledgerTime, horizonTime, stops>>

Contract == INSTANCE DecisionLifecycle WITH Hashes <- Decisions

Idle == [pc |-> "idle", allowFresh |-> FALSE, settled |-> FALSE, envelope |-> None]

Init ==
    /\ Contract!Init
    /\ marks = [p \in Processes |-> [d \in Decisions |-> "none"]]
    /\ lateMarks = {}
    /\ journal = [j \in Journals |-> [d \in Decisions |-> None]]
    /\ run = [p \in Processes |-> [d \in Decisions |-> Idle]]
    /\ pool = {}
    /\ included = {}
    /\ ledgerTime = 0
    /\ horizonTime = 0
    /\ stops = 0

----------------------------------------------------------------------------
(* The payment ledger and Horizon. *)

\* The account's sequence number moves with each of its transactions, failed ones too.
AccountSequence == Cardinality(included)

\* What the next ledger accepts: the account's next sequence number, in time.
Includable(e) == e.sequence = AccountSequence + 1 /\ ledgerTime + 1 <= e.maxTime

Ingested == {t \in included : t.ledger <= horizonTime}

Visible(e) == \E t \in Ingested : t.envelope = e

CloseLedger ==
    /\ ledgerTime < MaxTime
    /\ ledgerTime' = ledgerTime + 1
    /\ \/ UNCHANGED included
       \/ \E e \in pool, successful \in BOOLEAN :
             /\ Includable(e)
             /\ included' = included \cup {[envelope |-> e, ledger |-> ledgerTime + 1,
                                            successful |-> successful]}
    /\ UNCHANGED <<chainVars, journal, run, pool, horizonTime, stops>>

Ingest ==
    /\ horizonTime < ledgerTime
    /\ horizonTime' = horizonTime + 1
    /\ UNCHANGED <<chainVars, journal, run, pool, included, ledgerTime, stops>>

\* The gateway and the owner bring decisions to Approved or Rejected.
Govern ==
    /\ \E d \in Decisions : Contract!Judge(d) \/ Contract!Answer(d)
    /\ UNCHANGED <<marks, lateMarks, journal, run, pool, ledgerVars, stops>>

----------------------------------------------------------------------------
(* A run of one process p for one decision d, under the lock for d. *)

Row(p, d) == journal[JournalOf[p]][d]
PutRow(p, d, row) == journal' = [journal EXCEPT ![JournalOf[p]][d] = row]

\* advance(): no guard on the status the record is in.
Advance(p, d, status) == PutRow(p, d, [Row(p, d) EXCEPT !.status = status])

Goto(p, d, pc) == run' = [run EXCEPT ![p][d].pc = pc]
GotoWith(p, d, pc, e) ==
    run' = [run EXCEPT ![p][d] = [pc |-> pc, allowFresh |-> FALSE, settled |-> FALSE,
                                  envelope |-> e]]
Return(p, d) == run' = [run EXCEPT ![p][d] = Idle]

At(p, d, pc) == run[p][d].pc = pc

\* withLock, then the gate: the decision is read from the chain.  One that is
\* missing or not approved ends the run here.
Gate(p, d, allowFresh) ==
    /\ At(p, d, "idle")
    /\ stage[d] \in {"Approved", "Settled"}
    /\ run' = [run EXCEPT ![p][d] = [pc |-> "gated", allowFresh |-> allowFresh,
                                     settled |-> stage[d] = "Settled", envelope |-> None]]
    /\ UNCHANGED <<chainVars, journal, pool, ledgerVars, stops>>

\* Mutant: an abandoned attempt is taken up again.
ResumeAtMutantAbandoned(r, row) ==
    IF row = None THEN IF r.allowFresh /\ ~r.settled THEN "prepare" ELSE "idle"
    ELSE IF r.settled /\ row.status = "SETTLED" THEN "idle"
    ELSE IF row.status # "PREPARED" THEN "lookup"
    ELSE IF r.settled THEN "journal_marked" ELSE "check_expiry"

\* Mutant: a PREPARED record is resumed without a look at the chain's flag.
ResumeAtMutantPrepared(r, row) ==
    IF row = None THEN IF r.allowFresh /\ ~r.settled THEN "prepare" ELSE "idle"
    ELSE IF row.status = "ABANDONED" \/ (r.settled /\ row.status = "SETTLED") THEN "idle"
    ELSE IF row.status # "PREPARED" THEN "lookup" ELSE "check_expiry"

\* Mutant: what was POSTed once is refused as ALREADY_SETTLED.
ResumeAtMutantSubmitted(r, row) ==
    IF row = None THEN IF r.allowFresh /\ ~r.settled THEN "prepare" ELSE "idle"
    ELSE IF row.status \in TERMINAL \cup {"SUBMITTED"} THEN "idle"
    ELSE IF row.status # "PREPARED" THEN "lookup"
    ELSE IF r.settled THEN "journal_marked" ELSE "check_expiry"

\* Where a run goes with what the chain and the journal said: the recovery matrix.
ResumeAt(r, row) ==
    IF row = None THEN IF r.allowFresh /\ ~r.settled THEN "prepare" ELSE "idle"
    ELSE IF row.status = "ABANDONED" \/ (r.settled /\ row.status = "SETTLED") THEN "idle"
    ELSE IF row.status # "PREPARED" THEN "lookup"
    ELSE IF r.settled THEN "journal_marked" ELSE "check_expiry"

ReadJournal(p, d) ==
    LET row == Row(p, d)
        pc == ResumeAt(run[p][d], row)
    IN /\ At(p, d, "gated")
       /\ IF pc = "idle" THEN Return(p, d)
          ELSE GotoWith(p, d, pc, IF row = None THEN None ELSE row.envelope)
       /\ UNCHANGED <<chainVars, journal, pool, ledgerVars, stops>>

\* PREPARED and unsettled: an envelope past its max_time is rebuilt, nothing
\* else about it is looked at.
CheckExpiry(p, d) ==
    /\ At(p, d, "check_expiry")
    /\ Goto(p, d, IF horizonTime >= run[p][d].envelope.maxTime THEN "rebuild" ELSE "mark")
    /\ UNCHANGED <<chainVars, journal, pool, ledgerVars, stops>>

\* chooseMaxTime: the local clock is only a floor under Horizon's.
ChooseMaxTime(now) == (IF now > horizonTime THEN now ELSE horizonTime) + Timeout

\* preflight reads the account's sequence number, as far as Horizon has it.
NewEnvelope(d, now) ==
    [decision |-> d, sequence |-> Cardinality(Ingested) + 1, maxTime |-> ChooseMaxTime(now)]

\* Local clocks: right, or behind Horizon's.
Clocks == {0, ledgerTime}

\* Mutant: the envelope stays in memory until the payment is sent.
PrepareMutantMemory(p, d) ==
    \E now \in Clocks :
        /\ At(p, d, "prepare") \/ At(p, d, "rebuild")
        /\ ChooseMaxTime(now) < MaxTime
        /\ GotoWith(p, d, "mark", NewEnvelope(d, now))
        /\ UNCHANGED <<chainVars, journal, pool, ledgerVars, stops>>

\* Mutant: replacePrepared without its WHERE status = 'PREPARED'.
PrepareMutantWhere(p, d) ==
    \E now \in Clocks :
        /\ (At(p, d, "prepare") /\ Row(p, d) = None) \/ At(p, d, "rebuild")
        /\ ChooseMaxTime(now) < MaxTime
        /\ PutRow(p, d, [envelope |-> NewEnvelope(d, now), status |-> "PREPARED"])
        /\ GotoWith(p, d, "mark", NewEnvelope(d, now))
        /\ UNCHANGED <<chainVars, pool, ledgerVars, stops>>

\* putPrepared wants no record, replacePrepared a PREPARED one.
MayPrepare(p, d) ==
    IF At(p, d, "prepare") THEN Row(p, d) = None ELSE Row(p, d).status = "PREPARED"

\* prepare(): build, and the durable write; or STORE_CONFLICT.  MaxTime bounds
\* the model: no envelope may outlive it.
Prepare(p, d) ==
    \E now \in Clocks :
        /\ At(p, d, "prepare") \/ At(p, d, "rebuild")
        /\ ChooseMaxTime(now) < MaxTime
        /\ IF MayPrepare(p, d)
           THEN /\ PutRow(p, d, [envelope |-> NewEnvelope(d, now), status |-> "PREPARED"])
                /\ GotoWith(p, d, "mark", NewEnvelope(d, now))
           ELSE Return(p, d) /\ UNCHANGED journal
        /\ UNCHANGED <<chainVars, pool, ledgerVars, stops>>

\* preflight refuses: an account, a trustline or a balance the payment needs is
\* missing.
PreflightFailed(p, d) ==
    /\ At(p, d, "prepare") \/ At(p, d, "rebuild")
    /\ Return(p, d)
    /\ UNCHANGED <<chainVars, journal, pool, ledgerVars, stops>>

\* Mutant: the run goes on before mark_settled is confirmed.
SendMarkMutant(p, d) ==
    /\ At(p, d, "mark")
    /\ stage[d] = "Approved"
    /\ marks' = [marks EXCEPT ![p][d] = "sent"]
    /\ Goto(p, d, "journal_marked")
    /\ UNCHANGED <<stage, lateMarks, journal, pool, ledgerVars, stops>>

\* mark_settled simulates, then is signed and sent.
SendMark(p, d) ==
    /\ At(p, d, "mark")
    /\ stage[d] = "Approved"
    /\ marks' = [marks EXCEPT ![p][d] = "sent"]
    /\ Goto(p, d, "marking")
    /\ UNCHANGED <<stage, lateMarks, journal, pool, ledgerVars, stops>>

\* The simulation is refused: AlreadySettled, or AgentRevoked.
MarkRefused(p, d) ==
    /\ At(p, d, "mark")
    /\ Return(p, d)
    /\ UNCHANGED <<chainVars, journal, pool, ledgerVars, stops>>

\* The ledger applies a mark_settled, or refuses it for what happened since the simulation.
LandMark(p, d) ==
    /\ marks[p][d] = "sent"
    /\ \/ Contract!Settle(d) /\ marks' = [marks EXCEPT ![p][d] = "applied"]
       \/ marks' = [marks EXCEPT ![p][d] = "failed"] /\ UNCHANGED stage
    /\ UNCHANGED <<lateMarks, journal, run, pool, ledgerVars, stops>>

\* A mark_settled whose run has ended applies all the same.
LandLateMark(d) ==
    /\ d \in lateMarks
    /\ Contract!Settle(d)
    /\ lateMarks' = lateMarks \ {d}
    /\ UNCHANGED <<marks, journal, run, pool, ledgerVars, stops>>

MarkReturned(p, d) ==
    /\ At(p, d, "marking")
    /\ marks[p][d] \in {"applied", "failed"}
    /\ IF marks[p][d] = "applied" THEN Goto(p, d, "journal_marked") ELSE Return(p, d)
    /\ marks' = [marks EXCEPT ![p][d] = "none"]
    /\ UNCHANGED <<stage, lateMarks, journal, pool, ledgerVars, stops>>

\* advance() hands back the row as stored; that is what the run goes on with.
JournalMarked(p, d) ==
    /\ At(p, d, "journal_marked")
    /\ Advance(p, d, "MARKED")
    /\ GotoWith(p, d, "journal_submitted", Row(p, d).envelope)
    /\ UNCHANGED <<chainVars, pool, ledgerVars, stops>>

\* MARKED or SUBMITTED before: is the stored hash on the ledger already?
Lookup(p, d) ==
    /\ At(p, d, "lookup")
    /\ Goto(p, d, IF Visible(run[p][d].envelope) THEN "await" ELSE "journal_submitted")
    /\ UNCHANGED <<chainVars, journal, pool, ledgerVars, stops>>

JournalSubmitted(p, d) ==
    /\ At(p, d, "journal_submitted")
    /\ Advance(p, d, "SUBMITTED")
    /\ GotoWith(p, d, "post", Row(p, d).envelope)
    /\ UNCHANGED <<chainVars, pool, ledgerVars, stops>>

\* POST /transactions reaches the network, whether or not the answer comes back.
PostDelivered(p, d) ==
    /\ At(p, d, "post")
    /\ Includable(run[p][d].envelope)
    /\ pool' = pool \cup {run[p][d].envelope}
    /\ Goto(p, d, "await")
    /\ UNCHANGED <<chainVars, journal, ledgerVars, stops>>

\* The POST is lost, or Horizon already knows the transaction.
PostLost(p, d) ==
    /\ At(p, d, "post")
    /\ Goto(p, d, "await")
    /\ UNCHANGED <<chainVars, journal, pool, ledgerVars, stops>>

\* Horizon refuses the bytes (tx_bad_seq, tx_too_late): the run ends with the
\* record still SUBMITTED.
PostRejected(p, d) ==
    /\ At(p, d, "post")
    /\ ~Includable(run[p][d].envelope)
    /\ ~Visible(run[p][d].envelope)
    /\ Return(p, d)
    /\ UNCHANGED <<chainVars, journal, pool, ledgerVars, stops>>

\* Mutant: an included transaction counts as paid.
IncludedMutant(p, d) ==
    \E t \in Ingested :
        /\ At(p, d, "await")
        /\ t.envelope = run[p][d].envelope
        /\ Advance(p, d, "SETTLED")
        /\ Return(p, d)
        /\ UNCHANGED <<chainVars, pool, ledgerVars, stops>>

\* awaitInclusion: GET /transactions/{hash} finds it.
Included(p, d) ==
    \E t \in Ingested :
        /\ At(p, d, "await")
        /\ t.envelope = run[p][d].envelope
        /\ Advance(p, d, IF t.successful THEN "SETTLED" ELSE "ABANDONED")
        /\ Return(p, d)
        /\ UNCHANGED <<chainVars, pool, ledgerVars, stops>>

\* ... or answers 404,
Absent(p, d) ==
    /\ At(p, d, "await")
    /\ ~Visible(run[p][d].envelope)
    /\ Goto(p, d, "absent")
    /\ UNCHANGED <<chainVars, journal, pool, ledgerVars, stops>>

\* Mutant: a 404 is taken for the proof.
ProveNonInclusionMutant(p, d) ==
    /\ At(p, d, "absent")
    /\ Advance(p, d, "ABANDONED")
    /\ Return(p, d)
    /\ UNCHANGED <<chainVars, pool, ledgerVars, stops>>

\* and the close time, read after that, proves non-inclusion,
ProveNonInclusion(p, d) ==
    /\ At(p, d, "absent")
    /\ horizonTime > run[p][d].envelope.maxTime
    /\ Advance(p, d, "ABANDONED")
    /\ Return(p, d)
    /\ UNCHANGED <<chainVars, pool, ledgerVars, stops>>

\* or leaves it open: poll again, or give up at the deadline.
StillPending(p, d) ==
    /\ At(p, d, "absent")
    /\ horizonTime <= run[p][d].envelope.maxTime
    /\ Goto(p, d, "await") \/ Return(p, d)
    /\ UNCHANGED <<chainVars, journal, pool, ledgerVars, stops>>

\* A run ends early: a crash of its process, an unavailable Horizon or RPC, a
\* failed preflight, a dry run.  What it wrote stays; what it sent may still land.
Stop(p, d) ==
    /\ ~At(p, d, "idle")
    /\ stops < MaxStops
    /\ stops' = stops + 1
    /\ lateMarks' = IF marks[p][d] = "sent" THEN lateMarks \cup {d} ELSE lateMarks
    /\ marks' = [marks EXCEPT ![p][d] = "none"]
    /\ Return(p, d)
    /\ UNCHANGED <<stage, journal, pool, ledgerVars>>

\* The steps the run takes by itself.
Proceed(p, d) ==
    \/ ReadJournal(p, d) \/ CheckExpiry(p, d) \/ Prepare(p, d) \/ PreflightFailed(p, d)
    \/ SendMark(p, d) \/ MarkRefused(p, d) \/ MarkReturned(p, d)
    \/ JournalMarked(p, d) \/ Lookup(p, d) \/ JournalSubmitted(p, d)
    \/ PostDelivered(p, d) \/ PostLost(p, d) \/ PostRejected(p, d)
    \/ Included(p, d) \/ Absent(p, d) \/ ProveNonInclusion(p, d) \/ StillPending(p, d)

Next ==
    \/ CloseLedger \/ Ingest \/ Govern
    \/ \E d \in Decisions : LandLateMark(d)
    \/ \E p \in Processes, d \in Decisions :
          \/ \E allowFresh \in BOOLEAN : Gate(p, d, allowFresh)
          \/ LandMark(p, d) \/ Proceed(p, d) \/ Stop(p, d)

Spec == Init /\ [][Next]_vars

\* Ledgers close and are ingested, marks that were sent land, a started run
\* goes on, and whoever operates the executor keeps calling recover().
Fairness ==
    /\ WF_vars(CloseLedger) /\ WF_vars(Ingest)
    /\ \A p \in Processes, d \in Decisions :
          WF_vars(Gate(p, d, FALSE)) /\ WF_vars(LandMark(p, d)) /\ WF_vars(Proceed(p, d))

FairSpec == Spec /\ Fairness

----------------------------------------------------------------------------
(* Properties. *)

Pcs == {"idle", "gated", "prepare", "check_expiry", "rebuild", "mark", "marking",
        "journal_marked", "lookup", "journal_submitted", "post", "await", "absent"}

RunState == [pc : Pcs, allowFresh : BOOLEAN, settled : BOOLEAN, envelope : Envelope \cup {None}]

LedgerEntry == [envelope : Envelope, ledger : Nat, successful : BOOLEAN]

TypeOK ==
    /\ stage \in [Decisions -> Contract!Stages]
    /\ marks \in [Processes -> [Decisions -> {"none", "sent", "applied", "failed"}]]
    /\ lateMarks \subseteq Decisions
    /\ journal \in [Journals -> [Decisions -> SettlementRecord \cup {None}]]
    /\ run \in [Processes -> [Decisions -> RunState]]
    /\ pool \subseteq Envelope
    /\ included \subseteq LedgerEntry
    /\ ledgerTime \in Nat /\ horizonTime \in Nat /\ stops \in Nat

StatusOf(j, d) == IF journal[j][d] = None THEN "NONE" ELSE journal[j][d].status

Payments(d) == {t \in included : t.successful /\ t.envelope.decision = d}

\* Whatever crashes, retries and late answers happen, the owner of the money
\* sees PaymentOnce: one payment per decision, after the contract settled it.
Promise == INSTANCE PaymentOnce WITH
    settled <- {d \in Decisions : stage[d] = "Settled"},
    paid <- [d \in Decisions |-> Cardinality(Payments(d))]
ImplementsPaymentOnce == Promise!Spec

Rank == [status \in Statuses |-> CASE status = "PREPARED" -> 1 [] status = "MARKED" -> 2
                                    [] status = "SUBMITTED" -> 3 [] OTHER -> 4]

\* A record only moves right, or stops (store/types.ts): no step lowers its
\* status, changes a terminal one, or deletes it.
JournalMovesRight ==
    [][\A j \in Journals, d \in Decisions : journal[j][d] # None =>
          /\ journal'[j][d] # None
          /\ Rank[journal[j][d].status] <= Rank[journal'[j][d].status]
          /\ journal[j][d].status \in TERMINAL => journal'[j][d] = journal[j][d]]_vars

\* The durable write comes first: no mark_settled is sent or lands for a
\* decision whose envelope some journal does not hold.
EnvelopeBeforeMark ==
    \A d \in Decisions :
        \/ stage[d] = "Settled" \/ d \in lateMarks \/ \E p \in Processes : marks[p][d] # "none"
        => \E j \in Journals : journal[j][d] # None

\* Bytes that reached the network are never replaced: whatever is accepted or
\* on the ledger is the envelope a journal holds, for a decision the chain has settled.
SentBytesAreStored ==
    \A e \in pool \cup {t.envelope : t \in included} :
        /\ stage[e.decision] = "Settled"
        /\ \E j \in Journals : /\ journal[j][e.decision] # None
                                /\ journal[j][e.decision].envelope = e
                                /\ journal[j][e.decision].status # "PREPARED"

\* SETTLED is only journalled for a payment that is on the ledger and succeeded.
SettledIsPaid ==
    \A j \in Journals, d \in Decisions :
        StatusOf(j, d) = "SETTLED" =>
            \E t \in Payments(d) : t.envelope = journal[j][d].envelope

\* Once ABANDONED is journalled nothing can be paid any more: what a human
\* reconciles afterwards does not move.
AbandonedIsClosed ==
    \A j \in Journals, d \in Decisions :
        StatusOf(j, d) = "ABANDONED" =>
            ~Includable(journal[j][d].envelope)

\* A decision the contract settled while the journal says PREPARED (the crash
\* inside mark_settled) is caught up by recover().
InterruptedMarkIsCaughtUp ==
    \A j \in Journals, d \in Decisions :
        (stage[d] = "Settled" /\ StatusOf(j, d) = "PREPARED") ~> (StatusOf(j, d) # "PREPARED")

\* A payment on the ledger, whatever happened to the answers about it, ends as
\* a terminal record.
PaymentIsJournalled ==
    \A j \in Journals, d \in Decisions :
        (Payments(d) # {}) ~> (StatusOf(j, d) \in TERMINAL)

----------------------------------------------------------------------------
(* What the comments of the code say, and the code does not do. *)

\* settle.ts: the record stays SUBMITTED because "`recover()` will reach that
\* proof", the non-inclusion proof of max_time.
RecoverReachesTerminal ==
    \A j \in Journals, d \in Decisions :
        (StatusOf(j, d) = "SUBMITTED") ~> (StatusOf(j, d) \in TERMINAL)

\* store/types.ts: ABANDONED is "terminal WITHOUT a payment".
AbandonedIsUnpaid ==
    \A j \in Journals, d \in Decisions :
        StatusOf(j, d) = "ABANDONED" => Payments(d) = {}

\* lock.ts: the guarantees that survive multiple processes are the contract's
\* settled flag and the journal's primary key; settle.ts: a rebuilt envelope is
\* one that "could pay twice".
NeverPaidTwice == \A d \in Decisions : Cardinality(Payments(d)) <= 1
=============================================================================
