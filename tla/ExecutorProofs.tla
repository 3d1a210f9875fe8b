---------------------------- MODULE ExecutorProofs ----------------------------
(***************************************************************************)
(* Proofs about the executor, for any number of processes, decisions and   *)
(* journals and every bound.                                               *)
(*                                                                         *)
(* IInv says, for each program counter, what a run may rely on although    *)
(* other runs and late transactions move under it: a row that is there     *)
(* stays, a row past PREPARED keeps its envelope, a settled stage stays.   *)
(* That the runs of other processes only make such moves is RowStep; it is *)
(* why nothing here needs the lock.                                        *)
(***************************************************************************)
EXTENDS Executor, FiniteSetTheorems, TLAPS

\* Program counters of runs that go by a row they have read.
RowPcs == Pcs \ {"idle", "gated", "prepare"}
\* ... that the chain has settled,
SettledPcs == {"journal_marked", "lookup", "journal_submitted", "post", "await", "absent"}
\* ... whose row is past PREPARED,
FrozenPcs == SettledPcs \ {"journal_marked"}
\* ... and whose own copy of the envelope is the row's.
CopyPcs == FrozenPcs \ {"journal_submitted"}

\* What a run may rely on, for its state r, its row and the stage s of its decision.
RunInv(r, row, s) ==
    /\ r.pc = "gated" /\ r.settled => s = "Settled"
    /\ r.pc \in SettledPcs => s = "Settled"
    /\ r.pc \in RowPcs => row # None /\ r.envelope # None
    /\ r.pc \in FrozenPcs => row.status # "PREPARED"
    /\ r.pc \in CopyPcs => r.envelope = row.envelope

\* What a row of decision d in stage s says.
RowInv(d, row, s) ==
    row # None => /\ row.envelope.decision = d
                  /\ row.status # "PREPARED" => s = "Settled"

RunsInv == \A p \in Processes, d \in Decisions : RunInv(run[p][d], Row(p, d), stage[d])
RowsInv == \A j \in Journals, d \in Decisions : RowInv(d, journal[j][d], stage[d])
MarksInv == \A p \in Processes, d \in Decisions : marks[p][d] = "applied" => stage[d] = "Settled"

\* Each payment on the ledger took a sequence number of its own.
SequenceInv ==
    /\ IsFiniteSet(included)
    /\ \A t \in included : t.envelope.sequence <= AccountSequence
    /\ \A t, u \in included : t.envelope.sequence = u.envelope.sequence => t = u

IInv == /\ TypeOK /\ RunsInv /\ RowsInv /\ MarksInv
        /\ EnvelopeBeforeMark /\ SentBytesAreStored /\ SequenceInv

----------------------------------------------------------------------------
(* The helpers that move a run and write a row. *)

\* A run moves to state r and no other run moves.
RunIs(p, d, r) ==
    /\ run' \in [Processes -> [Decisions -> RunState]]
    /\ run'[p][d] = r
    /\ \A q \in Processes, c \in Decisions : q # p \/ c # d => run'[q][c] = run[q][c]

\* Goto only changes the program counter.
LEMMA GotoFacts ==
    ASSUME TypeOK, NEW p \in Processes, NEW d \in Decisions, NEW pc \in Pcs, Goto(p, d, pc)
    PROVE  RunIs(p, d, [run[p][d] EXCEPT !.pc = pc])
<1>1. run \in [Processes -> [Decisions -> RunState]]
  BY DEF TypeOK
<1>2. run[p][d] \in RunState
  BY <1>1
<1>3. [run[p][d] EXCEPT !.pc = pc] \in RunState
  BY <1>2 DEF RunState
<1>4. run' = [run EXCEPT ![p][d] = [run[p][d] EXCEPT !.pc = pc]]
  BY <1>1 DEF Goto
<1>5. QED
  BY <1>1, <1>3, <1>4 DEF RunIs

\* GotoWith also replaces the envelope the run holds.
LEMMA GotoWithFacts ==
    ASSUME TypeOK, NEW p \in Processes, NEW d \in Decisions, NEW pc \in Pcs,
           NEW e \in Envelope \cup {None}, GotoWith(p, d, pc, e)
    PROVE  RunIs(p, d, [pc |-> pc, allowFresh |-> FALSE, settled |-> FALSE, envelope |-> e])
<1>1. run \in [Processes -> [Decisions -> RunState]]
  BY DEF TypeOK
<1>2. [pc |-> pc, allowFresh |-> FALSE, settled |-> FALSE, envelope |-> e] \in RunState
  BY DEF RunState
<1>3. QED
  BY <1>1, <1>2 DEF GotoWith, RunIs

\* Return leaves the run idle.
LEMMA ReturnFacts ==
    ASSUME TypeOK, NEW p \in Processes, NEW d \in Decisions, Return(p, d)
    PROVE  RunIs(p, d, Idle)
<1>1. run \in [Processes -> [Decisions -> RunState]]
  BY DEF TypeOK
<1>2. Idle \in RunState
  BY DEF RunState, Idle, Pcs
<1>3. QED
  BY <1>1, <1>2 DEF Return, RunIs

\* One row is written, and no other.
RowIs(p, d, row) ==
    /\ journal' \in [Journals -> [Decisions -> SettlementRecord \cup {None}]]
    /\ Row(p, d)' = row
    /\ \A j \in Journals, c \in Decisions :
          j # JournalOf[p] \/ c # d => journal'[j][c] = journal[j][c]

\* PutRow writes that row.
LEMMA PutRowFacts ==
    ASSUME TypeOK, NEW p \in Processes, NEW d \in Decisions, NEW row \in SettlementRecord,
           PutRow(p, d, row)
    PROVE  RowIs(p, d, row)
<1>1. JournalOf[p] \in Journals
  BY DEF Journals
<1>2. QED
  BY <1>1 DEF TypeOK, PutRow, RowIs, Row

\* A step that leaves the journals alone writes the row that is there.
LEMMA JournalStays ==
    ASSUME TypeOK, NEW p \in Processes, NEW d \in Decisions, UNCHANGED journal
    PROVE  RowIs(p, d, Row(p, d))
  BY DEF TypeOK, RowIs, Row

----------------------------------------------------------------------------
(* What a run's own step does to the run and to its row. *)

\* How a row may change under a run that has read it.
RowStep(row, next) ==
    row # None => /\ next # None
                  /\ row.status # "PREPARED" => /\ next.status # "PREPARED"
                                                /\ next.envelope = row.envelope

Effect(p, d, r, row) ==
    /\ RunIs(p, d, r)
    /\ RowIs(p, d, row)
    /\ RowStep(Row(p, d), row)
    /\ RowInv(d, row, stage[d])
    /\ RunInv(r, row, stage[d])

HasEffect(p, d) ==
    \E r \in RunState, row \in SettlementRecord \cup {None} : Effect(p, d, r, row)

\* What is known of a run and of its row before a step.
LEMMA Before ==
    ASSUME IInv, NEW p \in Processes, NEW d \in Decisions
    PROVE  /\ run[p][d] \in RunState
           /\ JournalOf[p] \in Journals
           /\ Row(p, d) \in SettlementRecord \cup {None}
           /\ RunInv(run[p][d], Row(p, d), stage[d])
           /\ RowInv(d, Row(p, d), stage[d])
           /\ TypeOK
<1>1. JournalOf[p] \in Journals
  BY DEF Journals
<1>2. QED
  BY <1>1 DEF IInv, TypeOK, RunsInv, RowsInv, Row

\* The end of a run that writes nothing.
LEMMA ReturnEffect ==
    ASSUME IInv, NEW p \in Processes, NEW d \in Decisions, Return(p, d), UNCHANGED journal
    PROVE  HasEffect(p, d)
<1>1. RunIs(p, d, Idle) /\ RowIs(p, d, Row(p, d))
  BY Before, ReturnFacts, JournalStays
<1>2. RunInv(Idle, Row(p, d), stage[d])
  BY DEF RunInv, Idle, RowPcs, CopyPcs, FrozenPcs, SettledPcs
<1>3. Effect(p, d, Idle, Row(p, d))
  BY <1>1, <1>2, Before DEF Effect, RowStep
<1>4. Idle \in RunState
  BY DEF Idle, RunState, Pcs
<1>5. QED
  BY <1>3, <1>4, Before DEF HasEffect

\* A move of the program counter that writes nothing.
LEMMA GotoEffect ==
    ASSUME IInv, NEW p \in Processes, NEW d \in Decisions, NEW pc \in Pcs,
           Goto(p, d, pc), UNCHANGED journal,
           RunInv([run[p][d] EXCEPT !.pc = pc], Row(p, d), stage[d])
    PROVE  HasEffect(p, d)
<1> DEFINE r == [run[p][d] EXCEPT !.pc = pc]
<1>1. RunIs(p, d, r) /\ RowIs(p, d, Row(p, d))
  BY Before, GotoFacts, JournalStays
<1>2. r \in RunState
  BY Before DEF RunState
<1>3. Effect(p, d, r, Row(p, d))
  BY <1>1, Before DEF Effect, RowStep
<1>4. QED
  BY <1>2, <1>3, Before DEF HasEffect

\* A row written while the run moves on with a given envelope.
LEMMA WriteEffect ==
    ASSUME IInv, NEW p \in Processes, NEW d \in Decisions, NEW pc \in Pcs,
           NEW e \in Envelope \cup {None}, NEW row \in SettlementRecord \cup {None},
           GotoWith(p, d, pc, e), RowIs(p, d, row),
           RowStep(Row(p, d), row), RowInv(d, row, stage[d]),
           RunInv([pc |-> pc, allowFresh |-> FALSE, settled |-> FALSE, envelope |-> e],
                  row, stage[d])
    PROVE  HasEffect(p, d)
<1> DEFINE r == [pc |-> pc, allowFresh |-> FALSE, settled |-> FALSE, envelope |-> e]
<1>1. RunIs(p, d, r)
  BY Before, GotoWithFacts
<1>2. r \in RunState
  BY DEF RunState
<1>3. Effect(p, d, r, row)
  BY <1>1 DEF Effect
<1>4. QED
  BY <1>2, <1>3 DEF HasEffect

\* advance() of a row that is there, to a status past PREPARED of a settled decision.
LEMMA AdvanceFacts ==
    ASSUME IInv, NEW p \in Processes, NEW d \in Decisions, NEW status \in Statuses \ {"PREPARED"},
           Row(p, d) # None, stage[d] = "Settled", Advance(p, d, status)
    PROVE  LET row == [Row(p, d) EXCEPT !.status = status]
           IN /\ row \in SettlementRecord
              /\ row.envelope = Row(p, d).envelope
              /\ row.status = status
              /\ RowIs(p, d, row)
              /\ RowStep(Row(p, d), row)
              /\ RowInv(d, row, stage[d])
<1> DEFINE row == [Row(p, d) EXCEPT !.status = status]
<1>1. Row(p, d) \in SettlementRecord
  BY Before
<1>2. row \in SettlementRecord /\ row.envelope = Row(p, d).envelope /\ row.status = status
  BY <1>1 DEF SettlementRecord
<1>3. RowIs(p, d, row)
  BY <1>2, Before, PutRowFacts DEF Advance
<1>4. row # None
  BY <1>2, AbsentAssumption
<1>5. RowStep(Row(p, d), row) /\ RowInv(d, row, stage[d])
  BY <1>2, <1>4, Before DEF RowStep, RowInv
<1>6. QED
  BY <1>2, <1>3, <1>5

\* A row that is there holds an envelope.
LEMMA RowEnvelope ==
    ASSUME IInv, NEW p \in Processes, NEW d \in Decisions, Row(p, d) # None
    PROVE  Row(p, d).envelope \in Envelope /\ Row(p, d).envelope # None /\ Row(p, d).status \in Statuses
  BY Before, AbsentAssumption DEF SettlementRecord

\* An advance() that the run goes on from.
LEMMA AdvanceEffect ==
    ASSUME IInv, NEW p \in Processes, NEW d \in Decisions,
           NEW status \in Statuses \ {"PREPARED"}, NEW pc \in {"journal_submitted", "post"},
           run[p][d].pc \in SettledPcs,
           Advance(p, d, status), GotoWith(p, d, pc, Row(p, d).envelope)
    PROVE  HasEffect(p, d)
<1> DEFINE e == Row(p, d).envelope
           row == [Row(p, d) EXCEPT !.status = status]
<1>1. Row(p, d) # None /\ stage[d] = "Settled"
  BY Before DEF RunInv, RowPcs, SettledPcs, Pcs, At
<1>2. e \in Envelope /\ e # None
  BY <1>1, RowEnvelope
<1>3. /\ row \in SettlementRecord /\ row.envelope = e /\ row.status = status
      /\ RowIs(p, d, row) /\ RowStep(Row(p, d), row) /\ RowInv(d, row, stage[d])
  BY <1>1, AdvanceFacts
<1>4. row # None
  BY <1>3, AbsentAssumption
<1>5. RunInv([pc |-> pc, allowFresh |-> FALSE, settled |-> FALSE, envelope |-> e], row, stage[d])
  BY <1>1, <1>2, <1>3, <1>4 DEF RunInv, RowPcs, CopyPcs, FrozenPcs, SettledPcs, Pcs
<1>6. pc \in Pcs
  BY DEF Pcs
<1> HIDE DEF e, row
<1>7. GotoWith(p, d, pc, e)
  BY DEF e
<1>8. QED
  BY <1>2, <1>3, <1>5, <1>6, <1>7, WriteEffect

\* An advance() that ends the run.
LEMMA AdvanceReturnEffect ==
    ASSUME IInv, NEW p \in Processes, NEW d \in Decisions,
           NEW status \in Statuses \ {"PREPARED"}, run[p][d].pc \in SettledPcs,
           Advance(p, d, status), Return(p, d)
    PROVE  HasEffect(p, d)
<1> DEFINE row == [Row(p, d) EXCEPT !.status = status]
<1>1. Row(p, d) # None /\ stage[d] = "Settled"
  BY Before DEF RunInv, RowPcs, SettledPcs, Pcs
<1>2. /\ row \in SettlementRecord
      /\ RowIs(p, d, row) /\ RowStep(Row(p, d), row) /\ RowInv(d, row, stage[d])
  BY <1>1, AdvanceFacts
<1>3. RunIs(p, d, Idle)
  BY Before, ReturnFacts
<1>4. RunInv(Idle, row, stage[d])
  BY DEF RunInv, Idle, RowPcs, CopyPcs, FrozenPcs, SettledPcs
<1>5. Effect(p, d, Idle, row)
  BY <1>2, <1>3, <1>4 DEF Effect
<1>6. Idle \in RunState
  BY DEF Idle, RunState, Pcs
<1>7. QED
  BY <1>2, <1>5, <1>6 DEF HasEffect

\* The gate's answer is the stage of the decision, and Settled is for good.
LEMMA GateEffect ==
    ASSUME IInv, NEW p \in Processes, NEW d \in Decisions, NEW allowFresh \in BOOLEAN,
           Gate(p, d, allowFresh)
    PROVE  HasEffect(p, d)
<1> DEFINE r == [pc |-> "gated", allowFresh |-> allowFresh,
                 settled |-> stage[d] = "Settled", envelope |-> None]
<1>1. r \in RunState
  <2>1. (stage[d] = "Settled") \in BOOLEAN
    OBVIOUS
  <2>2. "gated" \in Pcs /\ None \in Envelope \cup {None}
    BY DEF Pcs
  <2>3. QED
    BY <2>1, <2>2 DEF RunState
<1>2. run' = [run EXCEPT ![p][d] = r]
  BY DEF Gate
<1>3. RunInv(r, Row(p, d), stage[d])
  BY DEF RunInv, RowPcs, CopyPcs, FrozenPcs, SettledPcs
<1> HIDE DEF r
<1>4. RunIs(p, d, r)
  BY <1>1, <1>2, Before DEF RunIs, TypeOK
<1>5. RowIs(p, d, Row(p, d))
  BY Before, JournalStays DEF Gate
<1>6. Effect(p, d, r, Row(p, d))
  BY <1>3, <1>4, <1>5, Before DEF Effect, RowStep
<1>7. QED
  BY <1>1, <1>6, Before DEF HasEffect

\* The recovery matrix only picks a way on that the row and the chain allow.
LEMMA ReadJournalEffect ==
    ASSUME IInv, NEW p \in Processes, NEW d \in Decisions, ReadJournal(p, d)
    PROVE  HasEffect(p, d)
<1> DEFINE row == Row(p, d)
           pc == ResumeAt(run[p][d], row)
           e == IF row = None THEN None ELSE row.envelope
           r == [pc |-> pc, allowFresh |-> FALSE, settled |-> FALSE, envelope |-> e]
<1>1. CASE pc = "idle"
  BY <1>1, ReturnEffect DEF ReadJournal
<1>2. CASE pc # "idle"
  <2>1. GotoWith(p, d, pc, e)
    BY <1>2 DEF ReadJournal
  <2>2. e \in Envelope \cup {None} /\ (row # None => e = row.envelope /\ e # None)
    BY RowEnvelope
  <2>3. pc \in Pcs /\ RunInv(r, row, stage[d])
    <3>1. CASE row = None
      BY <3>1, <1>2 DEF ResumeAt, RunInv, RowPcs, CopyPcs, FrozenPcs, SettledPcs, Pcs
    <3>2. CASE row # None
      <4>1. /\ run[p][d].settled => stage[d] = "Settled"
            /\ row.status # "PREPARED" => stage[d] = "Settled"
        BY <3>2, Before DEF RunInv, RowInv, ReadJournal, At
      <4>2. pc \in {"lookup", "journal_marked", "check_expiry"}
        BY <3>2, <1>2 DEF ResumeAt
      <4>3. pc = "lookup" => row.status # "PREPARED"
        BY <3>2 DEF ResumeAt
      <4>4. pc = "journal_marked" => run[p][d].settled
        BY <3>2 DEF ResumeAt
      <4> HIDE DEF pc, e, row
      <4>5. QED
        BY <3>2, <2>2, <4>1, <4>2, <4>3, <4>4
           DEF RunInv, RowPcs, CopyPcs, FrozenPcs, SettledPcs, Pcs
    <3>3. QED
      BY <3>1, <3>2
  <2>4. RowIs(p, d, row) /\ RowStep(row, row) /\ RowInv(d, row, stage[d])
    BY Before, JournalStays DEF ReadJournal, RowStep
  <2>5. row \in SettlementRecord \cup {None}
    BY Before
  <2> HIDE DEF pc, e
  <2>6. QED
    BY <2>1, <2>2, <2>3, <2>4, <2>5, WriteEffect
<1>3. QED
  BY <1>1, <1>2

\* What prepare() builds is an envelope of its decision.
LEMMA NewEnvelopeType ==
    ASSUME IInv, NEW d \in Decisions, NEW now \in Clocks
    PROVE  NewEnvelope(d, now) \in Envelope /\ NewEnvelope(d, now).decision = d
<1>1. Cardinality(Ingested) \in Nat
  <2>1. IsFiniteSet(included) /\ Ingested \subseteq included
    BY DEF IInv, SequenceInv, Ingested
  <2>2. QED
    BY <2>1, FS_Subset, FS_CardinalityType
<1>2. now \in Nat /\ horizonTime \in Nat /\ Timeout \in Nat
  BY BoundsAssumption DEF IInv, TypeOK, Clocks
<1>3. ChooseMaxTime(now) \in Nat
  BY <1>2 DEF ChooseMaxTime
<1>4. QED
  BY <1>1, <1>3 DEF NewEnvelope, Envelope

\* A new envelope only replaces one that no run may have sent.
LEMMA PrepareEffect ==
    ASSUME IInv, NEW p \in Processes, NEW d \in Decisions, Prepare(p, d)
    PROVE  HasEffect(p, d)
<1>1. PICK now \in Clocks :
        /\ At(p, d, "prepare") \/ At(p, d, "rebuild")
        /\ IF MayPrepare(p, d)
           THEN /\ PutRow(p, d, [envelope |-> NewEnvelope(d, now), status |-> "PREPARED"])
                /\ GotoWith(p, d, "mark", NewEnvelope(d, now))
           ELSE Return(p, d) /\ UNCHANGED journal
  BY DEF Prepare
<1>2. CASE ~MayPrepare(p, d)
  BY <1>1, <1>2, ReturnEffect
<1>3. CASE MayPrepare(p, d)
  <2> DEFINE e == NewEnvelope(d, now)
             row == [envelope |-> e, status |-> "PREPARED"]
  <2>1. e \in Envelope /\ e.decision = d
    BY NewEnvelopeType
  <2>2. e # None
    BY <2>1, AbsentAssumption
  <2>3. GotoWith(p, d, "mark", e) /\ PutRow(p, d, row)
    BY <1>1, <1>3
  <2> HIDE DEF e
  <2>4. /\ row \in SettlementRecord /\ row # None
        /\ row.envelope = e /\ row.status = "PREPARED"
    BY <2>1, AbsentAssumption DEF SettlementRecord, Statuses
  <2>5. Row(p, d) # None => Row(p, d).status = "PREPARED"
    BY <1>1, <1>3 DEF MayPrepare, At
  <2> HIDE DEF row
  <2>6. RowIs(p, d, row)
    BY <2>3, <2>4, Before, PutRowFacts
  <2>7. RowStep(Row(p, d), row) /\ RowInv(d, row, stage[d])
    BY <2>1, <2>4, <2>5 DEF RowStep, RowInv
  <2>8. RunInv([pc |-> "mark", allowFresh |-> FALSE, settled |-> FALSE, envelope |-> e],
               row, stage[d])
    BY <2>2, <2>4 DEF RunInv, RowPcs, CopyPcs, FrozenPcs, SettledPcs, Pcs
  <2>9. "mark" \in Pcs
    BY DEF Pcs
  <2>10. QED
    BY <2>1, <2>3, <2>4, <2>6, <2>7, <2>8, <2>9, WriteEffect
<1>4. QED
  BY <1>2, <1>3

\* Every step a run takes has such an effect.
LEMMA ProceedEffect ==
    ASSUME IInv, NEW p \in Processes, NEW d \in Decisions, Proceed(p, d)
    PROVE  HasEffect(p, d)
<1> DEFINE r == run[p][d]
           row == Row(p, d)
<1>1. CASE ReadJournal(p, d)
  BY <1>1, ReadJournalEffect
<1>2. CASE CheckExpiry(p, d)
  <2> DEFINE pc == IF horizonTime >= r.envelope.maxTime THEN "rebuild" ELSE "mark"
  <2>1. pc \in {"rebuild", "mark"} /\ pc \in Pcs
    BY DEF Pcs
  <2>2. Goto(p, d, pc) /\ r.pc = "check_expiry" /\ UNCHANGED journal
    BY <1>2 DEF CheckExpiry, At
  <2> HIDE DEF pc
  <2>3. RunInv([r EXCEPT !.pc = pc], row, stage[d])
    BY <2>1, <2>2, Before DEF RunState, RunInv, RowPcs, CopyPcs, FrozenPcs, SettledPcs, Pcs
  <2>4. QED
    BY <2>1, <2>2, <2>3, GotoEffect
<1>3. CASE Prepare(p, d)
  BY <1>3, PrepareEffect
<1>4. CASE PreflightFailed(p, d)
  BY <1>4, ReturnEffect DEF PreflightFailed
<1>5. CASE SendMark(p, d)
  <2>1. Goto(p, d, "marking") /\ r.pc = "mark" /\ UNCHANGED journal /\ "marking" \in Pcs
    BY <1>5 DEF SendMark, At, Pcs
  <2>2. RunInv([r EXCEPT !.pc = "marking"], row, stage[d])
    BY <2>1, Before DEF RunState, RunInv, RowPcs, CopyPcs, FrozenPcs, SettledPcs, Pcs
  <2>3. QED
    BY <2>1, <2>2, GotoEffect
<1>6. CASE MarkRefused(p, d)
  BY <1>6, ReturnEffect DEF MarkRefused
<1>7. CASE MarkReturned(p, d)
  <2>1. r.pc = "marking" /\ UNCHANGED journal
    BY <1>7 DEF MarkReturned, At
  <2>2. CASE marks[p][d] = "applied"
    <3>1. stage[d] = "Settled"
      BY <2>2 DEF IInv, MarksInv
    <3>2. Goto(p, d, "journal_marked") /\ "journal_marked" \in Pcs
      BY <1>7, <2>2 DEF MarkReturned, Pcs
    <3>3. RunInv([r EXCEPT !.pc = "journal_marked"], row, stage[d])
      BY <2>1, <3>1, Before DEF RunState, RunInv, RowPcs, CopyPcs, FrozenPcs, SettledPcs, Pcs
    <3>4. QED
      BY <2>1, <3>2, <3>3, GotoEffect
  <2>3. CASE marks[p][d] # "applied"
    BY <1>7, <2>3, ReturnEffect DEF MarkReturned
  <2>4. QED
    BY <2>2, <2>3
<1>8. CASE JournalMarked(p, d)
  <2>1. r.pc \in SettledPcs /\ "MARKED" \in Statuses \ {"PREPARED"}
    BY <1>8 DEF JournalMarked, At, SettledPcs, Statuses
  <2>2. Advance(p, d, "MARKED") /\ GotoWith(p, d, "journal_submitted", row.envelope)
    BY <1>8 DEF JournalMarked
  <2>3. QED
    BY <2>1, <2>2, AdvanceEffect
<1>9. CASE Lookup(p, d)
  <2> DEFINE pc == IF Visible(r.envelope) THEN "await" ELSE "journal_submitted"
  <2>1. pc \in {"await", "journal_submitted"} /\ pc \in Pcs
    BY DEF Pcs
  <2>2. Goto(p, d, pc) /\ r.pc = "lookup" /\ UNCHANGED journal
    BY <1>9 DEF Lookup, At
  <2> HIDE DEF pc
  <2>3. RunInv([r EXCEPT !.pc = pc], row, stage[d])
    BY <2>1, <2>2, Before DEF RunState, RunInv, RowPcs, CopyPcs, FrozenPcs, SettledPcs, Pcs
  <2>4. QED
    BY <2>1, <2>2, <2>3, GotoEffect
<1>10. CASE JournalSubmitted(p, d)
  <2>1. r.pc \in SettledPcs /\ "SUBMITTED" \in Statuses \ {"PREPARED"}
    BY <1>10 DEF JournalSubmitted, At, SettledPcs, Statuses
  <2>2. Advance(p, d, "SUBMITTED") /\ GotoWith(p, d, "post", row.envelope)
    BY <1>10 DEF JournalSubmitted
  <2>3. QED
    BY <2>1, <2>2, AdvanceEffect
<1>11. CASE PostDelivered(p, d) \/ PostLost(p, d)
  <2>1. Goto(p, d, "await") /\ r.pc = "post" /\ UNCHANGED journal /\ "await" \in Pcs
    BY <1>11 DEF PostDelivered, PostLost, At, Pcs
  <2>2. RunInv([r EXCEPT !.pc = "await"], row, stage[d])
    BY <2>1, Before DEF RunState, RunInv, RowPcs, CopyPcs, FrozenPcs, SettledPcs, Pcs
  <2>3. QED
    BY <2>1, <2>2, GotoEffect
<1>12. CASE PostRejected(p, d)
  BY <1>12, ReturnEffect DEF PostRejected
<1>13. CASE Included(p, d)
  <2>1. PICK t \in Ingested :
          /\ Advance(p, d, IF t.successful THEN "SETTLED" ELSE "ABANDONED")
          /\ Return(p, d)
    BY <1>13 DEF Included
  <2>2. r.pc \in SettledPcs /\ {"SETTLED", "ABANDONED"} \subseteq Statuses \ {"PREPARED"}
    BY <1>13 DEF Included, At, SettledPcs, Statuses
  <2>3. QED
    BY <2>1, <2>2, AdvanceReturnEffect
<1>14. CASE Absent(p, d)
  <2>1. Goto(p, d, "absent") /\ r.pc = "await" /\ UNCHANGED journal /\ "absent" \in Pcs
    BY <1>14 DEF Absent, At, Pcs
  <2>2. RunInv([r EXCEPT !.pc = "absent"], row, stage[d])
    BY <2>1, Before DEF RunState, RunInv, RowPcs, CopyPcs, FrozenPcs, SettledPcs, Pcs
  <2>3. QED
    BY <2>1, <2>2, GotoEffect
<1>15. CASE ProveNonInclusion(p, d)
  <2>1. r.pc \in SettledPcs /\ "ABANDONED" \in Statuses \ {"PREPARED"}
    BY <1>15 DEF ProveNonInclusion, At, SettledPcs, Statuses
  <2>2. Advance(p, d, "ABANDONED") /\ Return(p, d)
    BY <1>15 DEF ProveNonInclusion
  <2>3. QED
    BY <2>1, <2>2, AdvanceReturnEffect
<1>16. CASE StillPending(p, d)
  <2>1. r.pc = "absent" /\ UNCHANGED journal /\ "await" \in Pcs
    BY <1>16 DEF StillPending, At, Pcs
  <2>2. CASE Return(p, d)
    BY <2>1, <2>2, ReturnEffect
  <2>3. CASE Goto(p, d, "await")
    <3>1. RunInv([r EXCEPT !.pc = "await"], row, stage[d])
      BY <2>1, Before DEF RunState, RunInv, RowPcs, CopyPcs, FrozenPcs, SettledPcs, Pcs
    <3>2. QED
      BY <2>1, <2>3, <3>1, GotoEffect
  <2>4. QED
    BY <1>16, <2>2, <2>3 DEF StillPending
<1>17. QED
  BY <1>1, <1>2, <1>3, <1>4, <1>5, <1>6, <1>7, <1>8, <1>9, <1>10, <1>11, <1>12, <1>13, <1>14,
     <1>15, <1>16 DEF Proceed

\* So does the end of a run that stops.
LEMMA StopEffect ==
    ASSUME IInv, NEW p \in Processes, NEW d \in Decisions, Stop(p, d)
    PROVE  HasEffect(p, d)
  BY ReturnEffect DEF Stop

----------------------------------------------------------------------------
(* What a step may do to the rest of the state. *)

\* The contract never takes a settled decision back.
StageGrows ==
    /\ stage' \in [Decisions -> Contract!Stages]
    /\ \A d \in Decisions : stage[d] = "Settled" => stage'[d] = "Settled"

\* No row is deleted, and one past PREPARED keeps its envelope.
JournalGrows ==
    /\ journal' \in [Journals -> [Decisions -> SettlementRecord \cup {None}]]
    /\ \A j \in Journals, d \in Decisions : RowStep(journal[j][d], journal'[j][d])

\* A run's knowledge survives what others do to its row and to the contract.
LEMMA RunInvStable ==
    ASSUME NEW r, NEW row, NEW next, NEW s, NEW t, RunInv(r, row, s), RowStep(row, next),
           s = "Settled" => t = "Settled"
    PROVE  RunInv(r, next, t)
<1>1. r.pc \in CopyPcs => r.pc \in FrozenPcs
  BY DEF CopyPcs
<1>2. r.pc \in FrozenPcs => r.pc \in RowPcs
  BY DEF FrozenPcs, SettledPcs, RowPcs, Pcs
<1>3. QED
  BY <1>1, <1>2 DEF RunInv, RowStep

\* A step of one run keeps what every run knows, and the rows.
LEMMA EffectPreserves ==
    ASSUME IInv, NEW p \in Processes, NEW d \in Decisions, HasEffect(p, d), UNCHANGED stage
    PROVE  /\ run' \in [Processes -> [Decisions -> RunState]]
           /\ JournalGrows /\ RunsInv' /\ RowsInv'
<1>1. PICK r \in RunState, row \in SettlementRecord \cup {None} : Effect(p, d, r, row)
  BY DEF HasEffect
<1>2. RunIs(p, d, r) /\ RowIs(p, d, row)
  BY <1>1 DEF Effect
<1>3. JournalGrows
  <2>1. SUFFICES ASSUME NEW j \in Journals, NEW c \in Decisions
                 PROVE  RowStep(journal[j][c], journal'[j][c])
    BY <1>2 DEF JournalGrows, RowIs
  <2>2. CASE j = JournalOf[p] /\ c = d
    BY <1>1, <2>2 DEF Effect, RowIs, Row
  <2>3. CASE j # JournalOf[p] \/ c # d
    BY <1>2, <2>3 DEF RowIs, RowStep
  <2>4. QED
    BY <2>2, <2>3
<1>4. RowsInv'
  <2>1. SUFFICES ASSUME NEW j \in Journals, NEW c \in Decisions
                 PROVE  RowInv(c, journal'[j][c], stage[c])
    BY DEF RowsInv, RowInv
  <2>2. CASE j = JournalOf[p] /\ c = d
    BY <1>1, <2>2 DEF Effect, RowIs, Row
  <2>3. CASE j # JournalOf[p] \/ c # d
    BY <1>2, <2>3 DEF RowIs, IInv, RowsInv
  <2>4. QED
    BY <2>2, <2>3
<1>5. RunsInv'
  <2>1. SUFFICES ASSUME NEW q \in Processes, NEW c \in Decisions
                 PROVE  RunInv(run'[q][c], journal'[JournalOf[q]][c], stage[c])
    BY DEF RunsInv, RunInv, Row
  <2>2. CASE q = p /\ c = d
    BY <1>1, <2>2 DEF Effect, RunIs, RowIs, Row
  <2>3. CASE q # p \/ c # d
    <3>1. run'[q][c] = run[q][c]
      BY <1>2, <2>3 DEF RunIs
    <3>2. RowStep(journal[JournalOf[q]][c], journal'[JournalOf[q]][c])
      BY <1>3 DEF JournalGrows, Journals
    <3>3. RunInv(run[q][c], journal[JournalOf[q]][c], stage[c])
      BY DEF IInv, RunsInv, Row
    <3>4. QED
      BY <3>1, <3>2, <3>3, RunInvStable
  <2>4. QED
    BY <2>2, <2>3
<1>6. QED
  BY <1>2, <1>3, <1>4, <1>5 DEF RunIs

\* So does a step of the contract.
LEMMA StagePreserves ==
    ASSUME IInv, StageGrows, UNCHANGED <<run, journal>>
    PROVE  JournalGrows /\ RunsInv' /\ RowsInv'
<1>1. JournalGrows
  BY DEF JournalGrows, RowStep, IInv, TypeOK
<1>2. RowsInv'
  BY DEF RowsInv, RowInv, StageGrows, IInv
<1>3. RunsInv'
  <2>1. SUFFICES ASSUME NEW q \in Processes, NEW c \in Decisions
                 PROVE  RunInv(run[q][c], Row(q, c), stage'[c])
    BY DEF RunsInv, RunInv, Row
  <2>2. RunInv(run[q][c], Row(q, c), stage[c]) /\ RowStep(Row(q, c), Row(q, c))
    BY DEF IInv, RunsInv, RowStep
  <2>3. stage[c] = "Settled" => stage'[c] = "Settled"
    BY DEF StageGrows
  <2>4. QED
    BY <2>2, <2>3, RunInvStable
<1>4. QED
  BY <1>1, <1>2, <1>3

\* A decision that is settled or may yet be: marked, or with a mark on its way.
Committed(d) ==
    stage[d] = "Settled" \/ d \in lateMarks \/ \E p \in Processes : marks[p][d] # "none"

Journalled(d) == \E j \in Journals : journal[j][d] # None

\* EnvelopeBeforeMark survives if only journalled decisions become committed.
LEMMA EnvelopePreserved ==
    ASSUME EnvelopeBeforeMark, JournalGrows,
           \A d \in Decisions : Committed(d)' => Committed(d) \/ Journalled(d)
    PROVE  EnvelopeBeforeMark'
<1>1. \A d \in Decisions : Committed(d) => Journalled(d)
  BY DEF EnvelopeBeforeMark, Committed, Journalled
<1>2. \A d \in Decisions : Journalled(d) => Journalled(d)'
  BY DEF Journalled, JournalGrows, RowStep
<1>3. \A d \in Decisions : Committed(d)' => Journalled(d)'
  BY <1>1, <1>2
<1>4. QED
  BY <1>3 DEF EnvelopeBeforeMark, Committed, Journalled

\* The bytes that have reached the network, and what is known of them.
Sent == pool \cup {t.envelope : t \in included}

Stored(e) ==
    /\ stage[e.decision] = "Settled"
    /\ \E j \in Journals : /\ journal[j][e.decision] # None
                            /\ journal[j][e.decision].envelope = e
                            /\ journal[j][e.decision].status # "PREPARED"

\* SentBytesAreStored survives if only stored bytes are sent.
LEMMA StoredPreserved ==
    ASSUME SentBytesAreStored, JournalGrows, StageGrows, Sent \subseteq Envelope,
           \A e \in Sent' : e \in Sent \/ (e \in Envelope /\ Stored(e))
    PROVE  SentBytesAreStored'
<1>1. \A e \in Sent' : e \in Envelope /\ Stored(e)
  BY DEF SentBytesAreStored, Stored, Sent
<1>2. ASSUME NEW e \in Sent'
      PROVE  /\ stage'[e.decision] = "Settled"
             /\ \E j \in Journals : /\ journal'[j][e.decision] # None
                                     /\ journal'[j][e.decision].envelope = e
                                     /\ journal'[j][e.decision].status # "PREPARED"
  <2>1. e.decision \in Decisions
    BY <1>1, <1>2 DEF Envelope
  <2>2. Stored(e)
    BY <1>1, <1>2
  <2>3. PICK j \in Journals : /\ journal[j][e.decision] # None
                              /\ journal[j][e.decision].envelope = e
                              /\ journal[j][e.decision].status # "PREPARED"
    BY <2>2 DEF Stored
  <2>4. RowStep(journal[j][e.decision], journal'[j][e.decision])
    BY <2>1 DEF JournalGrows
  <2>5. QED
    BY <2>1, <2>2, <2>3, <2>4 DEF Stored, StageGrows, RowStep
<1>3. QED
  BY <1>2 DEF SentBytesAreStored, Sent

----------------------------------------------------------------------------
(* IInv is inductive: one lemma for the steps of a run, one for each other  *)
(* action.                                                                  *)

RunAction(p, d) ==
    (\E allowFresh \in BOOLEAN : Gate(p, d, allowFresh)) \/ Proceed(p, d) \/ Stop(p, d)

\* Which of them touch the contract's transactions, the network, or the count of stops.
LEMMA RunFrame ==
    ASSUME NEW p \in Processes, NEW d \in Decisions, RunAction(p, d)
    PROVE  /\ UNCHANGED <<stage, included, ledgerTime, horizonTime>>
           /\ \/ SendMark(p, d) \/ MarkReturned(p, d) \/ Stop(p, d)
              \/ UNCHANGED <<marks, lateMarks>>
           /\ PostDelivered(p, d) \/ UNCHANGED pool
           /\ Stop(p, d) \/ UNCHANGED stops
<1>1. CASE \E allowFresh \in BOOLEAN : Gate(p, d, allowFresh)
  BY <1>1 DEF Gate, chainVars, ledgerVars
<1>2. CASE Proceed(p, d)
  <2>1. CASE ReadJournal(p, d) \/ CheckExpiry(p, d) \/ Prepare(p, d) \/ PreflightFailed(p, d)
    BY <2>1 DEF ReadJournal, CheckExpiry, Prepare, PreflightFailed, chainVars, ledgerVars
  <2>2. CASE SendMark(p, d) \/ MarkRefused(p, d) \/ MarkReturned(p, d)
    BY <2>2 DEF SendMark, MarkRefused, MarkReturned, chainVars, ledgerVars
  <2>3. CASE JournalMarked(p, d) \/ Lookup(p, d) \/ JournalSubmitted(p, d)
    BY <2>3 DEF JournalMarked, Lookup, JournalSubmitted, chainVars, ledgerVars
  <2>4. CASE PostDelivered(p, d) \/ PostLost(p, d) \/ PostRejected(p, d)
    BY <2>4 DEF PostDelivered, PostLost, PostRejected, chainVars, ledgerVars
  <2>5. CASE Included(p, d) \/ Absent(p, d) \/ ProveNonInclusion(p, d) \/ StillPending(p, d)
    BY <2>5 DEF Included, Absent, ProveNonInclusion, StillPending, chainVars, ledgerVars
  <2>6. QED
    BY <1>2, <2>1, <2>2, <2>3, <2>4, <2>5 DEF Proceed
<1>3. CASE Stop(p, d)
  BY <1>3 DEF Stop, ledgerVars
<1>4. QED
  BY <1>1, <1>2, <1>3 DEF RunAction

\* A run commits its decision only when its row is there: it is at "mark".
LEMMA RunMarks ==
    ASSUME IInv, NEW p \in Processes, NEW d \in Decisions, RunAction(p, d)
    PROVE  /\ marks' \in [Processes -> [Decisions -> {"none", "sent", "applied", "failed"}]]
           /\ lateMarks' \subseteq Decisions
           /\ MarksInv'
           /\ \A c \in Decisions : Committed(c)' => Committed(c) \/ Journalled(c)
<1>1. stage' = stage
  BY RunFrame
<1>2. marks \in [Processes -> [Decisions -> {"none", "sent", "applied", "failed"}]]
      /\ lateMarks \subseteq Decisions /\ MarksInv
  BY DEF IInv, TypeOK
<1>3. CASE SendMark(p, d)
  <2>1. marks' = [marks EXCEPT ![p][d] = "sent"] /\ lateMarks' = lateMarks
    BY <1>3 DEF SendMark
  <2>2. Row(p, d) # None /\ JournalOf[p] \in Journals
    BY <1>3, Before DEF SendMark, At, RunInv, RowPcs, Pcs
  <2>3. Journalled(d)
    BY <2>2 DEF Journalled, Row
  <2>4. QED
    BY <1>1, <1>2, <2>1, <2>3 DEF MarksInv, Committed
<1>4. CASE MarkReturned(p, d)
  <2>1. marks' = [marks EXCEPT ![p][d] = "none"] /\ lateMarks' = lateMarks
    BY <1>4 DEF MarkReturned
  <2>2. QED
    BY <1>1, <1>2, <2>1 DEF MarksInv, Committed
<1>5. CASE Stop(p, d)
  <2>1. /\ marks' = [marks EXCEPT ![p][d] = "none"]
        /\ lateMarks' = IF marks[p][d] = "sent" THEN lateMarks \cup {d} ELSE lateMarks
    BY <1>5 DEF Stop
  <2>2. QED
    BY <1>1, <1>2, <2>1 DEF MarksInv, Committed
<1>6. CASE UNCHANGED <<marks, lateMarks>>
  BY <1>1, <1>2, <1>6 DEF MarksInv, Committed
<1>7. QED
  BY <1>3, <1>4, <1>5, <1>6, RunFrame

\* A run sends the stored bytes: it is at "post", with a copy of its row's envelope.
LEMMA RunSends ==
    ASSUME IInv, NEW p \in Processes, NEW d \in Decisions, RunAction(p, d)
    PROVE  /\ pool' \subseteq Envelope
           /\ \A e \in Sent' : e \in Sent \/ (e \in Envelope /\ Stored(e))
<1>1. included' = included /\ pool \subseteq Envelope
  BY RunFrame DEF IInv, TypeOK
<1>2. CASE PostDelivered(p, d)
  <2> DEFINE e == run[p][d].envelope
             row == Row(p, d)
  <2>1. pool' = pool \cup {e} /\ run[p][d].pc = "post"
    BY <1>2 DEF PostDelivered, At
  <2>2. /\ stage[d] = "Settled" /\ row # None /\ row.status # "PREPARED"
        /\ e = row.envelope /\ row.envelope.decision = d
    BY <2>1, Before DEF RunInv, RowInv, RowPcs, CopyPcs, FrozenPcs, SettledPcs, Pcs
  <2>3. e \in Envelope
    BY <2>2, RowEnvelope
  <2>4. Stored(e)
    BY <2>2, Before DEF Stored, Row
  <2> HIDE DEF e
  <2>5. QED
    BY <1>1, <2>1, <2>3, <2>4 DEF Sent
<1>3. CASE UNCHANGED pool
  BY <1>1, <1>3 DEF Sent
<1>4. QED
  BY <1>2, <1>3, RunFrame

\* The envelopes that have been sent are envelopes.
LEMMA SentType ==
    ASSUME TypeOK
    PROVE  Sent \subseteq Envelope
  BY DEF TypeOK, Sent, LedgerEntry

\* The steps of a run.
LEMMA RunStep ==
    ASSUME IInv, NEW p \in Processes, NEW d \in Decisions, RunAction(p, d)
    PROVE  IInv'
<1>1. HasEffect(p, d)
  BY GateEffect, ProceedEffect, StopEffect DEF RunAction
<1>2. UNCHANGED <<stage, included, ledgerTime, horizonTime>>
  BY RunFrame
<1>3. /\ run' \in [Processes -> [Decisions -> RunState]]
      /\ JournalGrows /\ RunsInv' /\ RowsInv'
  BY <1>1, <1>2, EffectPreserves
<1>4. StageGrows
  BY <1>2 DEF StageGrows, IInv, TypeOK
<1>5. stops' \in Nat
  BY RunFrame DEF IInv, TypeOK, Stop
<1>6. TypeOK'
  BY <1>2, <1>3, <1>5, RunMarks, RunSends DEF IInv, TypeOK, JournalGrows
<1>7. EnvelopeBeforeMark'
  BY <1>3, RunMarks, EnvelopePreserved DEF IInv
<1>8. SentBytesAreStored'
  BY <1>3, <1>4, RunSends, SentType, StoredPreserved DEF IInv
<1>9. SequenceInv'
  BY <1>2 DEF IInv, SequenceInv, AccountSequence
<1>10. QED
  BY <1>3, <1>6, <1>7, <1>8, <1>9, RunMarks DEF IInv

\* A step that leaves runs and journals alone, and keeps the rest as IInv wants it.
LEMMA OutsideStep ==
    ASSUME IInv, UNCHANGED <<run, journal, pool, stops>>, StageGrows,
           marks' \in [Processes -> [Decisions -> {"none", "sent", "applied", "failed"}]],
           lateMarks' \subseteq Decisions, MarksInv',
           \A d \in Decisions : Committed(d)' => Committed(d) \/ Journalled(d),
           included' \subseteq LedgerEntry, ledgerTime' \in Nat, horizonTime' \in Nat,
           Sent' \subseteq Sent, SequenceInv'
    PROVE  IInv'
<1>1. JournalGrows /\ RunsInv' /\ RowsInv'
  BY StagePreserves
<1>2. TypeOK'
  BY DEF IInv, TypeOK, StageGrows
<1>3. EnvelopeBeforeMark'
  BY <1>1, EnvelopePreserved DEF IInv
<1>4. SentBytesAreStored'
  BY <1>1, SentType, StoredPreserved DEF IInv
<1>5. QED
  BY <1>1, <1>2, <1>3, <1>4 DEF IInv

\* What an action that does not touch the contract leaves as it is,
LEMMA ChainStays ==
    ASSUME IInv, UNCHANGED <<stage, marks, lateMarks>>
    PROVE  /\ StageGrows /\ MarksInv'
           /\ marks' \in [Processes -> [Decisions -> {"none", "sent", "applied", "failed"}]]
           /\ lateMarks' \subseteq Decisions
           /\ \A d \in Decisions : Committed(d)' => Committed(d)
  BY DEF IInv, TypeOK, StageGrows, MarksInv, Committed

\* and one that does not touch the ledger.
LEMMA LedgerStays ==
    ASSUME IInv, UNCHANGED <<pool, included, ledgerTime, horizonTime>>
    PROVE  /\ included' \subseteq LedgerEntry /\ ledgerTime' \in Nat /\ horizonTime' \in Nat
           /\ Sent' \subseteq Sent /\ SequenceInv'
  BY DEF IInv, TypeOK, Sent, SequenceInv, AccountSequence

\* What a payment takes on the ledger: the next sequence number.
LEMMA IncludeFacts ==
    ASSUME IInv, NEW e \in pool, NEW successful \in BOOLEAN, Includable(e),
           included' = included \cup {[envelope |-> e, ledger |-> ledgerTime + 1,
                                       successful |-> successful]}
    PROVE  /\ included' \subseteq LedgerEntry
           /\ AccountSequence \in Nat /\ AccountSequence' = AccountSequence + 1
           /\ \A t \in included : t.envelope.sequence < e.sequence
           /\ SequenceInv'
<1> DEFINE new == [envelope |-> e, ledger |-> ledgerTime + 1, successful |-> successful]
<1>1. /\ pool \subseteq Envelope /\ included \subseteq LedgerEntry /\ ledgerTime \in Nat
      /\ IsFiniteSet(included)
      /\ \A t \in included : t.envelope.sequence <= AccountSequence
      /\ \A t, u \in included : t.envelope.sequence = u.envelope.sequence => t = u
  BY DEF IInv, TypeOK, SequenceInv
<1>2. AccountSequence \in Nat
  BY <1>1, FS_CardinalityType DEF AccountSequence
<1>3. e \in Envelope /\ e.sequence = AccountSequence + 1
  BY <1>1 DEF Includable
<1>4. new \in LedgerEntry /\ new.envelope = e
  BY <1>1, <1>3 DEF LedgerEntry
<1> HIDE DEF new
<1>5. included' = included \cup {new}
  BY DEF new
<1>6. \A t \in included : t.envelope.sequence \in Nat /\ t.envelope.sequence < e.sequence
  BY <1>1, <1>2, <1>3 DEF LedgerEntry, Envelope
<1>7. new \notin included
  BY <1>2, <1>3, <1>4, <1>6
<1>8. IsFiniteSet(included') /\ AccountSequence' = AccountSequence + 1
  <2>1. IsFiniteSet(included \cup {new})
        /\ Cardinality(included \cup {new}) = Cardinality(included) + 1
    BY <1>1, <1>7, FS_AddElement
  <2>2. QED
    BY <1>5, <2>1 DEF AccountSequence
<1>9. \A t \in included' : t.envelope.sequence <= AccountSequence'
  BY <1>2, <1>3, <1>4, <1>5, <1>6, <1>8
<1>10. \A t, u \in included' : t.envelope.sequence = u.envelope.sequence => t = u
  BY <1>1, <1>2, <1>3, <1>4, <1>5, <1>6
<1>11. SequenceInv'
  BY <1>8, <1>9, <1>10 DEF SequenceInv
<1>12. QED
  BY <1>1, <1>2, <1>4, <1>5, <1>6, <1>8, <1>11

LEMMA CloseLedgerStep ==
    ASSUME IInv, CloseLedger
    PROVE  IInv'
<1>1. /\ UNCHANGED <<run, journal, pool, stops>>
      /\ UNCHANGED <<stage, marks, lateMarks>>
      /\ horizonTime' = horizonTime /\ ledgerTime' = ledgerTime + 1
      /\ horizonTime \in Nat /\ ledgerTime \in Nat
  BY DEF CloseLedger, chainVars, IInv, TypeOK
<1>2. CASE UNCHANGED included
  <2>1. included' \subseteq LedgerEntry /\ Sent' \subseteq Sent /\ SequenceInv'
    BY <1>1, <1>2 DEF IInv, TypeOK, Sent, SequenceInv, AccountSequence
  <2>2. QED
    BY <1>1, <2>1, ChainStays, OutsideStep
<1>3. CASE ~ UNCHANGED included
  <2>1. PICK e \in pool, successful \in BOOLEAN :
          /\ Includable(e)
          /\ included' = included \cup {[envelope |-> e, ledger |-> ledgerTime + 1,
                                         successful |-> successful]}
    BY <1>3 DEF CloseLedger
  <2>2. included' \subseteq LedgerEntry /\ SequenceInv'
    BY <2>1, IncludeFacts
  <2>3. Sent' \subseteq Sent
    BY <1>1, <2>1 DEF Sent
  <2>4. QED
    BY <1>1, <2>2, <2>3, ChainStays, OutsideStep
<1>4. QED
  BY <1>2, <1>3

LEMMA IngestStep ==
    ASSUME IInv, Ingest
    PROVE  IInv'
<1>1. /\ UNCHANGED <<run, journal, pool, stops>>
      /\ UNCHANGED <<stage, marks, lateMarks>>
      /\ UNCHANGED <<included, ledgerTime>>
      /\ horizonTime' \in Nat /\ ledgerTime' \in Nat
  BY DEF Ingest, chainVars, IInv, TypeOK
<1>2. included' \subseteq LedgerEntry /\ Sent' \subseteq Sent /\ SequenceInv'
  BY <1>1 DEF IInv, TypeOK, Sent, SequenceInv, AccountSequence
<1>3. QED
  BY <1>1, <1>2, ChainStays, OutsideStep

\* The gateway and the owner only move decisions that are not approved yet.
LEMMA GovernStep ==
    ASSUME IInv, Govern
    PROVE  IInv'
<1>1. /\ UNCHANGED <<marks, lateMarks, journal, run, pool, stops>>
      /\ UNCHANGED <<included, ledgerTime, horizonTime>>
  BY DEF Govern, ledgerVars
<1>2. PICK d \in Decisions, verdict \in {"Pending", "Approved", "Rejected"} :
        /\ stage[d] \in {"None", "Pending"}
        /\ stage' = [stage EXCEPT ![d] = verdict]
  BY DEF Govern, Contract!Judge, Contract!Answer, Contract!Move
<1>3. stage \in [Decisions -> Contract!Stages]
  BY DEF IInv, TypeOK
<1>4. StageGrows /\ \A c \in Decisions : stage'[c] = "Settled" => stage[c] = "Settled"
  BY <1>2, <1>3 DEF StageGrows, Contract!Stages
<1>5. /\ MarksInv' /\ lateMarks' \subseteq Decisions
      /\ marks' \in [Processes -> [Decisions -> {"none", "sent", "applied", "failed"}]]
      /\ \A c \in Decisions : Committed(c)' => Committed(c)
  BY <1>1, <1>4 DEF IInv, TypeOK, MarksInv, StageGrows, Committed
<1>6. QED
  BY <1>1, <1>4, <1>5, LedgerStays, OutsideStep

\* The contract settles an approved decision.
LEMMA SettleFacts ==
    ASSUME IInv, NEW d \in Decisions, Contract!Settle(d)
    PROVE  /\ StageGrows
           /\ stage'[d] = "Settled" /\ stage[d] # "Settled"
           /\ \A c \in Decisions \ {d} : stage'[c] = stage[c]
  BY DEF IInv, TypeOK, Contract!Settle, Contract!Move, StageGrows, Contract!Stages

LEMMA LandMarkStep ==
    ASSUME IInv, NEW p \in Processes, NEW d \in Decisions, LandMark(p, d)
    PROVE  IInv'
<1>1. /\ UNCHANGED <<lateMarks, journal, run, pool, stops>>
      /\ UNCHANGED <<included, ledgerTime, horizonTime>>
      /\ marks[p][d] = "sent"
  BY DEF LandMark, ledgerVars
<1>2. /\ marks \in [Processes -> [Decisions -> {"none", "sent", "applied", "failed"}]]
      /\ lateMarks \subseteq Decisions /\ MarksInv /\ stage \in [Decisions -> Contract!Stages]
  BY DEF IInv, TypeOK
<1>3. Committed(d)
  BY <1>1 DEF Committed
<1>4. CASE Contract!Settle(d) /\ marks' = [marks EXCEPT ![p][d] = "applied"]
  <2>1. /\ MarksInv'
        /\ marks' \in [Processes -> [Decisions -> {"none", "sent", "applied", "failed"}]]
        /\ \A c \in Decisions : Committed(c)' => Committed(c)
    BY <1>1, <1>2, <1>3, <1>4, SettleFacts DEF MarksInv, Committed, StageGrows
  <2>2. QED
    BY <1>1, <1>2, <1>4, <2>1, SettleFacts, LedgerStays, OutsideStep
<1>5. CASE marks' = [marks EXCEPT ![p][d] = "failed"] /\ UNCHANGED stage
  <2>1. /\ MarksInv' /\ StageGrows
        /\ marks' \in [Processes -> [Decisions -> {"none", "sent", "applied", "failed"}]]
        /\ \A c \in Decisions : Committed(c)' => Committed(c)
    BY <1>1, <1>2, <1>3, <1>5 DEF MarksInv, Committed, StageGrows
  <2>2. QED
    BY <1>1, <1>2, <2>1, LedgerStays, OutsideStep
<1>6. QED
  BY <1>4, <1>5 DEF LandMark

LEMMA LandLateMarkStep ==
    ASSUME IInv, NEW d \in Decisions, LandLateMark(d)
    PROVE  IInv'
<1>1. /\ UNCHANGED <<marks, journal, run, pool, stops>>
      /\ UNCHANGED <<included, ledgerTime, horizonTime>>
      /\ d \in lateMarks /\ lateMarks' = lateMarks \ {d} /\ Contract!Settle(d)
  BY DEF LandLateMark, ledgerVars
<1>2. /\ marks \in [Processes -> [Decisions -> {"none", "sent", "applied", "failed"}]]
      /\ lateMarks \subseteq Decisions /\ MarksInv
  BY DEF IInv, TypeOK
<1>3. /\ MarksInv' /\ lateMarks' \subseteq Decisions
      /\ \A c \in Decisions : Committed(c)' => Committed(c)
  BY <1>1, <1>2, SettleFacts DEF MarksInv, Committed, StageGrows
<1>4. QED
  BY <1>1, <1>2, <1>3, SettleFacts, LedgerStays, OutsideStep

----------------------------------------------------------------------------
(* The inductive invariant, and what follows from it for any assignment of  *)
(* journals to processes.                                                   *)

LEMMA IInvInit ==
    ASSUME Init
    PROVE  IInv
<1>1. TypeOK
  <2>1. Idle \in RunState
    BY DEF Idle, RunState, Pcs
  <2>2. stage \in [Decisions -> Contract!Stages]
    BY DEF Init, Contract!Init, Contract!Stages
  <2>3. QED
    BY <2>1, <2>2 DEF Init, TypeOK
<1>2. RunsInv
  BY DEF Init, RunsInv, RunInv, Idle, RowPcs, CopyPcs, FrozenPcs, SettledPcs
<1>3. RowsInv /\ MarksInv
  BY DEF Init, RowsInv, RowInv, MarksInv
<1>4. EnvelopeBeforeMark
  BY DEF Init, Contract!Init, EnvelopeBeforeMark
<1>5. SentBytesAreStored
  BY DEF Init, SentBytesAreStored
<1>6. SequenceInv
  BY FS_EmptySet DEF Init, SequenceInv
<1>7. QED
  BY <1>1, <1>2, <1>3, <1>4, <1>5, <1>6 DEF IInv

LEMMA IInvNext ==
    ASSUME IInv, [Next]_vars
    PROVE  IInv'
<1>1. CASE CloseLedger \/ Ingest \/ Govern
  BY <1>1, CloseLedgerStep, IngestStep, GovernStep
<1>2. CASE \E d \in Decisions : LandLateMark(d)
  BY <1>2, LandLateMarkStep
<1>3. CASE \E p \in Processes, d \in Decisions : LandMark(p, d)
  BY <1>3, LandMarkStep
<1>4. CASE \E p \in Processes, d \in Decisions : RunAction(p, d)
  BY <1>4, RunStep
<1>5. CASE UNCHANGED vars
  <2>1. UNCHANGED <<stage, marks, lateMarks, run, journal, pool, stops, included, ledgerTime,
                    horizonTime>>
    BY <1>5 DEF vars
  <2>2. QED
    BY <2>1, ChainStays, LedgerStays, OutsideStep
<1>6. QED
  BY <1>1, <1>2, <1>3, <1>4, <1>5 DEF Next, RunAction

\* IInv holds in every state the executor can reach.
THEOREM Invariance == Spec => []IInv
<1>1. Init => IInv
  BY IInvInit
<1>2. IInv /\ [Next]_vars => IInv'
  BY IInvNext
<1>3. QED
  BY <1>1, <1>2, PTL DEF Spec

\* Every variable keeps its type, for any number of processes and every bound.
THEOREM TypeCorrect == Spec => []TypeOK
<1>1. IInv => TypeOK
  BY DEF IInv
<1>2. QED
  BY <1>1, Invariance, PTL

\* The envelope is durable before mark_settled is sent, whatever runs race,
\* stop or land late.
THEOREM WriteBeforeMark == Spec => []EnvelopeBeforeMark
<1>1. IInv => EnvelopeBeforeMark
  BY DEF IInv
<1>2. QED
  BY <1>1, Invariance, PTL

\* What reached the network is what a journal holds, and stays so.
THEOREM SentBytesStored == Spec => []SentBytesAreStored
<1>1. IInv => SentBytesAreStored
  BY DEF IInv
<1>2. QED
  BY <1>1, Invariance, PTL

----------------------------------------------------------------------------
(* What a terminal row says is true, for any assignment of journals.        *)

\* No ledger to come can include e: its sequence number is used or its time is over.
Closed(e) == e.sequence <= AccountSequence \/ e.maxTime <= ledgerTime

Outcome(d, row) ==
    row # None => /\ row.status = "SETTLED" => \E t \in Payments(d) : t.envelope = row.envelope
                  /\ row.status = "ABANDONED" => Closed(row.envelope)

OutcomesInv ==
    /\ horizonTime <= ledgerTime
    /\ \A j \in Journals, d \in Decisions : Outcome(d, journal[j][d])

\* advance() to a status that is not terminal, or to a terminal one that is the outcome.
LEMMA AdvanceOutcome ==
    ASSUME IInv, NEW p \in Processes, NEW d \in Decisions, NEW status \in Statuses \ {"PREPARED"},
           run[p][d].pc \in SettledPcs, Advance(p, d, status),
           status = "SETTLED" => \E t \in Payments(d) : t.envelope = Row(p, d).envelope,
           status = "ABANDONED" => Closed(Row(p, d).envelope),
           NEW j \in Journals, NEW c \in Decisions
    PROVE  journal'[j][c] = journal[j][c] \/ Outcome(c, journal'[j][c])
<1> DEFINE row == [Row(p, d) EXCEPT !.status = status]
<1>1. Row(p, d) # None /\ stage[d] = "Settled"
  BY Before DEF RunInv, RowPcs, SettledPcs, Pcs
<1>2. RowIs(p, d, row) /\ row.envelope = Row(p, d).envelope /\ row.status = status
  BY <1>1, AdvanceFacts
<1> HIDE DEF row
<1>3. Outcome(d, row)
  BY <1>2 DEF Outcome
<1>4. CASE j = JournalOf[p] /\ c = d
  BY <1>2, <1>3, <1>4 DEF RowIs, Row
<1>5. CASE j # JournalOf[p] \/ c # d
  BY <1>2, <1>5 DEF RowIs
<1>6. QED
  BY <1>4, <1>5

\* A run at the poll knows the fate of its row's envelope when it writes it down.
LEMMA RunWrites ==
    ASSUME IInv, horizonTime <= ledgerTime, NEW p \in Processes, NEW d \in Decisions,
           RunAction(p, d), NEW j \in Journals, NEW c \in Decisions
    PROVE  journal'[j][c] = journal[j][c] \/ Outcome(c, journal'[j][c])
<1>1. CASE UNCHANGED journal
  BY <1>1
<1>2. CASE Prepare(p, d)
  <2>1. CASE UNCHANGED journal
    BY <2>1
  <2>2. CASE \E e : PutRow(p, d, [envelope |-> e, status |-> "PREPARED"])
    <3>1. PICK e : PutRow(p, d, [envelope |-> e, status |-> "PREPARED"])
      BY <2>2
    <3> DEFINE row == [envelope |-> e, status |-> "PREPARED"]
    <3>2. row.status = "PREPARED"
      OBVIOUS
    <3>3. PutRow(p, d, row)
      BY <3>1
    <3> HIDE DEF row
    <3>4. journal'[j][c] = journal[j][c] \/ journal'[j][c] = row
      BY <3>3 DEF PutRow, IInv, TypeOK
    <3>5. QED
      BY <3>2, <3>4 DEF Outcome
  <2>3. QED
    BY <1>2, <2>1, <2>2 DEF Prepare
<1>3. CASE JournalMarked(p, d) \/ JournalSubmitted(p, d)
  <2>1. /\ {"MARKED", "SUBMITTED"} \subseteq Statuses \ {"PREPARED"}
        /\ run[p][d].pc \in SettledPcs
    BY <1>3 DEF JournalMarked, JournalSubmitted, At, SettledPcs, Statuses
  <2>2. Advance(p, d, "MARKED") \/ Advance(p, d, "SUBMITTED")
    BY <1>3 DEF JournalMarked, JournalSubmitted
  <2>3. QED
    BY <2>1, <2>2, AdvanceOutcome
<1>4. CASE Included(p, d)
  <2>1. PICK t \in Ingested :
          /\ t.envelope = run[p][d].envelope
          /\ Advance(p, d, IF t.successful THEN "SETTLED" ELSE "ABANDONED")
    BY <1>4 DEF Included
  <2>2. /\ run[p][d].pc \in SettledPcs
        /\ {"SETTLED", "ABANDONED"} \subseteq Statuses \ {"PREPARED"}
    BY <1>4 DEF Included, At, SettledPcs, Statuses
  <2>3. t.envelope = Row(p, d).envelope /\ t.envelope.decision = d
    BY <1>4, <2>1, Before
       DEF Included, At, RunInv, RowInv, RowPcs, CopyPcs, FrozenPcs, SettledPcs, Pcs
  <2>4. t \in included /\ t.envelope.sequence <= AccountSequence
    BY DEF Ingested, IInv, SequenceInv
  <2>5. CASE t.successful
    <3>1. t \in Payments(d)
      BY <2>3, <2>4, <2>5 DEF Payments
    <3>2. QED
      BY <2>1, <2>2, <2>3, <2>5, <3>1, AdvanceOutcome
  <2>6. CASE ~t.successful
    <3>1. Closed(Row(p, d).envelope)
      BY <2>3, <2>4 DEF Closed
    <3>2. QED
      BY <2>1, <2>2, <2>6, <3>1, AdvanceOutcome
  <2>7. QED
    BY <2>5, <2>6
<1>5. CASE ProveNonInclusion(p, d)
  <2>1. /\ run[p][d].pc \in SettledPcs
        /\ "ABANDONED" \in Statuses \ {"PREPARED"}
    BY <1>5 DEF ProveNonInclusion, At, SettledPcs, Statuses
  <2>2. run[p][d].envelope = Row(p, d).envelope /\ Row(p, d) # None
    BY <1>5, Before
       DEF ProveNonInclusion, At, RunInv, RowPcs, CopyPcs, FrozenPcs, SettledPcs, Pcs
  <2>3. Row(p, d).envelope.maxTime \in Nat /\ horizonTime \in Nat /\ ledgerTime \in Nat
    BY <2>2, RowEnvelope DEF Envelope, IInv, TypeOK
  <2>4. Closed(Row(p, d).envelope)
    BY <1>5, <2>2, <2>3 DEF ProveNonInclusion, Closed
  <2>5. Advance(p, d, "ABANDONED")
    BY <1>5 DEF ProveNonInclusion
  <2>6. QED
    BY <2>1, <2>4, <2>5, AdvanceOutcome
<1>6. QED
  <2>1. CASE \E allowFresh \in BOOLEAN : Gate(p, d, allowFresh)
    BY <1>1, <2>1 DEF Gate
  <2>2. CASE Stop(p, d)
    BY <1>1, <2>2 DEF Stop
  <2>3. CASE Proceed(p, d)
    <3>1. CASE ReadJournal(p, d) \/ CheckExpiry(p, d) \/ PreflightFailed(p, d)
      BY <1>1, <3>1 DEF ReadJournal, CheckExpiry, PreflightFailed
    <3>2. CASE SendMark(p, d) \/ MarkRefused(p, d) \/ MarkReturned(p, d) \/ Lookup(p, d)
      BY <1>1, <3>2 DEF SendMark, MarkRefused, MarkReturned, Lookup
    <3>3. CASE PostDelivered(p, d) \/ PostLost(p, d) \/ PostRejected(p, d)
      BY <1>1, <3>3 DEF PostDelivered, PostLost, PostRejected
    <3>4. CASE Absent(p, d) \/ StillPending(p, d)
      BY <1>1, <3>4 DEF Absent, StillPending
    <3>5. QED
      BY <1>2, <1>3, <1>4, <1>5, <2>3, <3>1, <3>2, <3>3, <3>4 DEF Proceed
  <2>4. QED
    BY <2>1, <2>2, <2>3 DEF RunAction

\* Payments stay, the sequence number and the time only grow.
LedgerGrows ==
    /\ included \subseteq included'
    /\ AccountSequence \in Nat /\ AccountSequence' \in Nat /\ AccountSequence <= AccountSequence'
    /\ ledgerTime \in Nat /\ ledgerTime' \in Nat /\ ledgerTime <= ledgerTime'

LEMMA NextGrows ==
    ASSUME IInv, IInv', [Next]_vars
    PROVE  LedgerGrows
<1>1. /\ AccountSequence \in Nat /\ AccountSequence' \in Nat
      /\ ledgerTime \in Nat /\ ledgerTime' \in Nat
  BY FS_CardinalityType DEF IInv, TypeOK, SequenceInv, AccountSequence
<1>2. CASE UNCHANGED <<included, ledgerTime>>
  BY <1>1, <1>2 DEF LedgerGrows, AccountSequence
<1>3. CASE CloseLedger
  <2>1. ledgerTime <= ledgerTime'
    BY <1>1, <1>3 DEF CloseLedger
  <2>2. included \subseteq included' /\ AccountSequence <= AccountSequence'
    <3>1. CASE UNCHANGED included
      BY <1>1, <3>1 DEF AccountSequence
    <3>2. CASE ~ UNCHANGED included
      <4>1. PICK e \in pool, successful \in BOOLEAN :
              /\ Includable(e)
              /\ included' = included \cup {[envelope |-> e, ledger |-> ledgerTime + 1,
                                             successful |-> successful]}
        BY <1>3, <3>2 DEF CloseLedger
      <4>2. AccountSequence' = AccountSequence + 1
        BY <4>1, IncludeFacts
      <4>3. QED
        BY <1>1, <4>1, <4>2
    <3>3. QED
      BY <3>1, <3>2
  <2>3. QED
    BY <1>1, <2>1, <2>2 DEF LedgerGrows
<1>4. CASE Ingest \/ Govern
  BY <1>2, <1>4 DEF Ingest, Govern, ledgerVars
<1>5. CASE \E d \in Decisions : LandLateMark(d)
  BY <1>2, <1>5 DEF LandLateMark, ledgerVars
<1>6. CASE \E p \in Processes, d \in Decisions : LandMark(p, d)
  BY <1>2, <1>6 DEF LandMark, ledgerVars
<1>7. CASE \E p \in Processes, d \in Decisions : RunAction(p, d)
  BY <1>2, <1>7, RunFrame
<1>8. CASE UNCHANGED vars
  BY <1>2, <1>8 DEF vars
<1>9. QED
  BY <1>3, <1>4, <1>5, <1>6, <1>7, <1>8 DEF Next, RunAction

\* The outcome of a row that stays remains true.
LEMMA OutcomeStable ==
    ASSUME IInv, LedgerGrows, NEW j \in Journals, NEW d \in Decisions,
           Outcome(d, journal[j][d]), journal'[j][d] = journal[j][d]
    PROVE  Outcome(d, journal[j][d])'
<1> DEFINE row == journal[j][d]
<1>1. row # None => /\ row.envelope \in Envelope
                    /\ row.envelope.sequence \in Nat /\ row.envelope.maxTime \in Nat
  BY DEF IInv, TypeOK, SettlementRecord, Envelope
<1>2. Payments(d) \subseteq Payments(d)'
  BY DEF LedgerGrows, Payments
<1>3. row # None /\ Closed(row.envelope) =>
          row.envelope.sequence <= AccountSequence' \/ row.envelope.maxTime <= ledgerTime'
  BY <1>1 DEF Closed, LedgerGrows
<1>4. QED
  BY <1>1, <1>2, <1>3 DEF Outcome, Closed

\* How far Horizon is, and how the journal changes, in a step of the whole system.
LEMMA OutcomesNext ==
    ASSUME IInv, IInv', OutcomesInv, [Next]_vars
    PROVE  OutcomesInv'
<1>1. LedgerGrows
  BY NextGrows
<1>2. horizonTime \in Nat /\ horizonTime <= ledgerTime
  BY DEF OutcomesInv, IInv, TypeOK
<1>3. ASSUME NEW j \in Journals, NEW d \in Decisions,
             journal'[j][d] = journal[j][d]
      PROVE  Outcome(d, journal[j][d])'
  BY <1>1, <1>3, OutcomeStable DEF OutcomesInv
<1>4. CASE UNCHANGED <<journal, horizonTime>>
  <2>1. horizonTime' <= ledgerTime'
    BY <1>1, <1>2, <1>4 DEF LedgerGrows
  <2>2. QED
    BY <1>3, <1>4, <2>1 DEF OutcomesInv
<1>5. CASE Ingest
  <2>1. horizonTime' <= ledgerTime' /\ UNCHANGED journal
    BY <1>1, <1>2, <1>5 DEF Ingest, LedgerGrows
  <2>2. QED
    BY <1>3, <2>1 DEF OutcomesInv
<1>6. CASE \E p \in Processes, d \in Decisions : RunAction(p, d)
  <2>1. PICK p \in Processes, d \in Decisions : RunAction(p, d)
    BY <1>6
  <2>2. UNCHANGED <<included, ledgerTime, horizonTime>>
    BY <2>1, RunFrame
  <2>3. ASSUME NEW j \in Journals, NEW c \in Decisions
        PROVE  Outcome(c, journal[j][c])'
    <3>1. CASE journal'[j][c] = journal[j][c]
      BY <1>3, <3>1
    <3>2. CASE Outcome(c, journal'[j][c])
      BY <2>2, <3>2 DEF Outcome, Payments, Closed, AccountSequence
    <3>3. QED
      BY <1>2, <2>1, <3>1, <3>2, RunWrites
  <2>4. QED
    BY <1>2, <2>2, <2>3 DEF OutcomesInv
<1>7. QED
  <2>1. CASE CloseLedger \/ Govern
    BY <1>4, <2>1 DEF CloseLedger, Govern, ledgerVars
  <2>2. CASE \E d \in Decisions : LandLateMark(d)
    BY <1>4, <2>2 DEF LandLateMark, ledgerVars
  <2>3. CASE \E p \in Processes, d \in Decisions : LandMark(p, d)
    BY <1>4, <2>3 DEF LandMark, ledgerVars
  <2>4. CASE UNCHANGED vars
    BY <1>4, <2>4 DEF vars
  <2>5. QED
    BY <1>5, <1>6, <2>1, <2>2, <2>3, <2>4 DEF Next, RunAction

\* Terminal rows tell the truth in every state.
LEMMA Outcomes == Spec => []OutcomesInv
<1>1. Init => OutcomesInv
  BY DEF Init, OutcomesInv, Outcome
<1>2. IInv /\ IInv' /\ OutcomesInv /\ [Next]_vars => OutcomesInv'
  BY OutcomesNext
<1>3. QED
  BY <1>1, <1>2, Invariance, PTL DEF Spec

\* A row says SETTLED only when its payment is on the ledger and succeeded.
THEOREM SettledRowsArePaid == Spec => []SettledIsPaid
<1>1. OutcomesInv => SettledIsPaid
  BY DEF OutcomesInv, Outcome, SettledIsPaid, StatusOf
<1>2. QED
  BY <1>1, Outcomes, PTL

\* Once a row says ABANDONED, no ledger to come can include its envelope.
THEOREM AbandonedRowsAreClosed == Spec => []AbandonedIsClosed
<1>1. IInv /\ OutcomesInv => AbandonedIsClosed
  <2>1. SUFFICES ASSUME IInv, OutcomesInv, NEW j \in Journals, NEW d \in Decisions,
                        StatusOf(j, d) = "ABANDONED"
                 PROVE  ~Includable(journal[j][d].envelope)
    BY DEF AbandonedIsClosed
  <2>2. journal[j][d] # None /\ journal[j][d].status = "ABANDONED"
    BY <2>1 DEF StatusOf
  <2>3. Closed(journal[j][d].envelope)
    BY <2>1, <2>2 DEF OutcomesInv, Outcome
  <2>4. journal[j][d].envelope \in Envelope /\ ledgerTime \in Nat /\ AccountSequence \in Nat
    BY <2>1, <2>2, FS_CardinalityType
       DEF IInv, TypeOK, SettlementRecord, SequenceInv, AccountSequence
  <2>5. QED
    BY <2>3, <2>4 DEF Closed, Includable, Envelope
<1>2. QED
  BY <1>1, Invariance, Outcomes, PTL

----------------------------------------------------------------------------
(* One payment per decision, if all processes open one journal.             *)

OneJournal == \A p, q \in Processes : JournalOf[p] = JournalOf[q]

\* With one journal there is one envelope per decision that can have been sent.
LEMMA OneEnvelope ==
    ASSUME OneJournal, IInv, NEW e \in Sent, NEW f \in Sent, e.decision = f.decision
    PROVE  e = f
<1>1. \A i, j \in Journals : i = j
  BY DEF OneJournal, Journals
<1>2. SentBytesAreStored
  BY DEF IInv
<1>3. PICK i \in Journals : journal[i][e.decision].envelope = e
  BY <1>2 DEF SentBytesAreStored, Sent
<1>4. PICK j \in Journals : journal[j][f.decision].envelope = f
  BY <1>2 DEF SentBytesAreStored, Sent
<1>5. QED
  BY <1>1, <1>3, <1>4

\* ... and its sequence number is good for one payment.
LEMMA OnePayment ==
    ASSUME OneJournal, IInv, NEW d \in Decisions, NEW t \in Payments(d), NEW u \in Payments(d)
    PROVE  t = u
<1>1. t \in included /\ u \in included /\ t.envelope.decision = u.envelope.decision
  BY DEF Payments
<1>2. t.envelope \in Sent /\ u.envelope \in Sent
  BY <1>1 DEF Sent
<1>3. t.envelope = u.envelope
  BY <1>1, <1>2, OneEnvelope
<1>4. QED
  BY <1>1, <1>3 DEF IInv, SequenceInv

\* No decision is paid twice, however many processes run on the one journal.
THEOREM PaidAtMostOnce ==
    ASSUME OneJournal
    PROVE  Spec => []NeverPaidTwice
<1>1. IInv => NeverPaidTwice
  <2>1. SUFFICES ASSUME IInv, NEW d \in Decisions
                 PROVE  Cardinality(Payments(d)) <= 1
    BY DEF NeverPaidTwice
  <2>2. CASE Payments(d) = {}
    BY <2>2, FS_EmptySet
  <2>3. CASE Payments(d) # {}
    <3>1. PICK t \in Payments(d) : TRUE
      BY <2>3
    <3>2. Payments(d) = {t}
      BY <2>1, <3>1, OnePayment
    <3>3. Cardinality({t}) = 1
      BY FS_Singleton
    <3>4. QED
      BY <3>2, <3>3
  <2>4. QED
    BY <2>2, <2>3
<1>2. QED
  BY <1>1, Invariance, PTL

\* The variables of PaymentOnce under the refinement.
SettledDecisions == {d \in Decisions : stage[d] = "Settled"}
PaymentCounts == [d \in Decisions |-> Cardinality(Payments(d))]

\* What the contract settles is a step of PaymentOnce.
LEMMA SettleRefines ==
    ASSUME IInv, NEW d \in Decisions, Contract!Settle(d), UNCHANGED included
    PROVE  Promise!Next
<1>1. stage[d] # "Settled"
  BY SettleFacts
<1>2. SettledDecisions' = SettledDecisions \cup {d}
  BY SettleFacts DEF SettledDecisions
<1>3. UNCHANGED PaymentCounts
  BY DEF PaymentCounts, Payments
<1>4. Promise!Settle(d)
  BY <1>1, <1>2, <1>3 DEF Promise!Settle, SettledDecisions, PaymentCounts
<1>5. QED
  BY <1>4 DEF Promise!Next

\* A ledger with a payment pays a settled decision that was not paid; a failed
\* transaction pays nothing.
LEMMA IncludeRefines ==
    ASSUME OneJournal, IInv, IInv', UNCHANGED stage,
           NEW e \in pool, NEW successful \in BOOLEAN, Includable(e),
           included' = included \cup {[envelope |-> e, ledger |-> ledgerTime + 1,
                                       successful |-> successful]}
    PROVE  Promise!Next \/ UNCHANGED <<SettledDecisions, PaymentCounts>>
<1> DEFINE new == [envelope |-> e, ledger |-> ledgerTime + 1, successful |-> successful]
           d == e.decision
<1>1. new.envelope = e /\ new.successful = successful
  OBVIOUS
<1> HIDE DEF new
<1>2. included' = included \cup {new}
  BY DEF new
<1>3. d \in Decisions /\ stage[d] = "Settled"
  BY DEF IInv, TypeOK, Envelope, SentBytesAreStored
<1>4. UNCHANGED SettledDecisions
  BY DEF SettledDecisions
<1>5. \A c \in Decisions : c # d \/ ~successful => Payments(c)' = Payments(c)
  BY <1>1, <1>2 DEF Payments
<1>6. CASE ~successful
  BY <1>4, <1>5, <1>6 DEF PaymentCounts
<1>7. CASE successful
  <2>1. Payments(d) = {}
    <3>1. SUFFICES ASSUME NEW t \in Payments(d) PROVE FALSE
      OBVIOUS
    <3>2. t \in included /\ t.envelope \in Sent /\ t.envelope.decision = d /\ e \in Sent
      BY DEF Payments, Sent
    <3>3. t.envelope = e
      BY <3>2, OneEnvelope
    <3>4. t.envelope.sequence < e.sequence
      BY <3>2, IncludeFacts
    <3>5. e.sequence \in Nat
      BY DEF IInv, TypeOK, Envelope
    <3>6. QED
      BY <3>3, <3>4, <3>5
  <2>2. Payments(d)' = {new}
    BY <1>1, <1>2, <1>7, <2>1 DEF Payments
  <2>3. Cardinality(Payments(d)) = 0 /\ Cardinality(Payments(d)') = 1
    BY <2>1, <2>2, FS_EmptySet, FS_Singleton
  <2>4. PaymentCounts' = [PaymentCounts EXCEPT ![d] = 1]
    BY <1>3, <1>5, <2>3 DEF PaymentCounts
  <2>5. Promise!Pay(d)
    BY <1>3, <1>4, <2>3, <2>4 DEF Promise!Pay, SettledDecisions, PaymentCounts
  <2>6. QED
    BY <1>3, <2>5 DEF Promise!Next
<1>8. QED
  BY <1>6, <1>7

\* Every other step is one that PaymentOnce does not see.
LEMMA StepRefines ==
    ASSUME OneJournal, IInv, IInv', [Next]_vars
    PROVE  Promise!Next \/ UNCHANGED <<SettledDecisions, PaymentCounts>>
<1>1. ASSUME UNCHANGED <<stage, included>>
      PROVE  UNCHANGED <<SettledDecisions, PaymentCounts>>
  BY <1>1 DEF SettledDecisions, PaymentCounts, Payments
<1>2. CASE CloseLedger
  <2>1. CASE UNCHANGED included
    BY <1>1, <1>2, <2>1 DEF CloseLedger, chainVars
  <2>2. CASE ~ UNCHANGED included
    <3>1. PICK e \in pool, successful \in BOOLEAN :
            /\ Includable(e)
            /\ included' = included \cup {[envelope |-> e, ledger |-> ledgerTime + 1,
                                           successful |-> successful]}
      BY <1>2, <2>2 DEF CloseLedger
    <3>2. UNCHANGED stage
      BY <1>2 DEF CloseLedger, chainVars
    <3>3. QED
      BY <3>1, <3>2, IncludeRefines
  <2>3. QED
    BY <2>1, <2>2
<1>3. CASE Ingest
  BY <1>1, <1>3 DEF Ingest, chainVars
<1>4. CASE Govern
  <2>1. PICK d \in Decisions, verdict \in {"Pending", "Approved", "Rejected"} :
          /\ stage[d] \in {"None", "Pending"}
          /\ stage' = [stage EXCEPT ![d] = verdict]
    BY <1>4 DEF Govern, Contract!Judge, Contract!Answer, Contract!Move
  <2>2. \A c \in Decisions : stage'[c] = "Settled" <=> stage[c] = "Settled"
    BY <2>1 DEF IInv, TypeOK
  <2>3. UNCHANGED SettledDecisions
    BY <2>2 DEF SettledDecisions
  <2>4. UNCHANGED PaymentCounts
    BY <1>4 DEF Govern, ledgerVars, PaymentCounts, Payments
  <2>5. QED
    BY <2>3, <2>4
<1>5. CASE \E d \in Decisions : LandLateMark(d)
  BY <1>5, SettleRefines DEF LandLateMark, ledgerVars
<1>6. CASE \E p \in Processes, d \in Decisions : LandMark(p, d)
  <2>1. PICK p \in Processes, d \in Decisions : LandMark(p, d)
    BY <1>6
  <2>2. UNCHANGED included /\ (Contract!Settle(d) \/ UNCHANGED stage)
    BY <2>1 DEF LandMark, ledgerVars
  <2>3. QED
    BY <1>1, <2>2, SettleRefines
<1>7. CASE \E p \in Processes, d \in Decisions : RunAction(p, d)
  BY <1>1, <1>7, RunFrame
<1>8. CASE UNCHANGED vars
  BY <1>1, <1>8 DEF vars
<1>9. QED
  BY <1>2, <1>3, <1>4, <1>5, <1>6, <1>7, <1>8 DEF Next, RunAction

\* The executor implements PaymentOnce, however many processes run on the one journal.
THEOREM ExecutorImplementsPaymentOnce ==
    ASSUME OneJournal
    PROVE  Spec => ImplementsPaymentOnce
<1>1. Init => Promise!Init
  <2>1. ASSUME Init
        PROVE  SettledDecisions = {} /\ PaymentCounts = [d \in Decisions |-> 0]
    BY <2>1, FS_EmptySet DEF Init, Contract!Init, SettledDecisions, PaymentCounts, Payments
  <2>2. QED
    BY <2>1 DEF Promise!Init, SettledDecisions, PaymentCounts
<1>2. IInv /\ IInv' /\ [Next]_vars => [Promise!Next]_(Promise!payVars)
  <2>1. SUFFICES ASSUME IInv, IInv', [Next]_vars
                 PROVE  Promise!Next \/ UNCHANGED Promise!payVars
    OBVIOUS
  <2>2. CASE Promise!Next
    BY <2>2
  <2>3. CASE UNCHANGED <<SettledDecisions, PaymentCounts>>
    BY <2>3 DEF Promise!payVars, SettledDecisions, PaymentCounts
  <2>4. QED
    BY <2>1, <2>2, <2>3, StepRefines
<1>3. QED
  BY <1>1, <1>2, Invariance, PTL DEF Spec, ImplementsPaymentOnce, Promise!Spec

----------------------------------------------------------------------------
(* A record moves right, if no two processes open one journal.              *)

OwnJournals == \A p, q \in Processes : JournalOf[p] = JournalOf[q] => p = q

\* What a run knows of the status of its row when no other process writes it: the gate has
\* seen the settlement of a row past PREPARED, so that lookup never starts from a terminal one.
KnowsStatus(r, row) ==
    /\ r.pc = "gated" /\ row # None /\ row.status # "PREPARED" => r.settled
    /\ r.pc \in {"check_expiry", "rebuild", "mark", "marking", "journal_marked"} =>
           row.status = "PREPARED"
    /\ r.pc \in FrozenPcs => row.status \in {"MARKED", "SUBMITTED"}

StatusesKnown == \A p \in Processes, d \in Decisions : KnowsStatus(run[p][d], Row(p, d))

MovesRight(row, next) ==
    row # None => /\ next # None
                  /\ Rank[row.status] <= Rank[next.status]
                  /\ row.status \in TERMINAL => next = row

\* A step of a run moves its own row right, and the run knows where the row is.
Advances(p, d) == MovesRight(Row(p, d), Row(p, d)') /\ KnowsStatus(run'[p][d], Row(p, d)')

\* The order of the statuses.
LEMMA Ranks ==
    /\ Rank["PREPARED"] = 1 /\ Rank["MARKED"] = 2 /\ Rank["SUBMITTED"] = 3
    /\ Rank["SETTLED"] = 4 /\ Rank["ABANDONED"] = 4
    /\ \A status \in Statuses : Rank[status] \in Nat
  BY DEF Rank, Statuses

\* A row that is left alone moves nowhere.
LEMMA RowStays ==
    ASSUME IInv, NEW j \in Journals, NEW d \in Decisions
    PROVE  MovesRight(journal[j][d], journal[j][d])
<1>1. journal[j][d] \in SettlementRecord \cup {None}
  BY DEF IInv, TypeOK
<1>2. journal[j][d] # None => Rank[journal[j][d].status] \in Nat
  BY <1>1, Ranks DEF SettlementRecord
<1>3. QED
  BY <1>2 DEF MovesRight

\* A step that leaves the journals alone moves no row.
LEMMA StaysRight ==
    ASSUME IInv, NEW p \in Processes, NEW d \in Decisions, UNCHANGED journal
    PROVE  Row(p, d)' = Row(p, d) /\ MovesRight(Row(p, d), Row(p, d)')
<1>1. JournalOf[p] \in Journals
  BY DEF Journals
<1>2. QED
  BY <1>1, RowStays DEF Row

\* An idle run knows nothing.
LEMMA ReturnKnows ==
    ASSUME IInv, NEW p \in Processes, NEW d \in Decisions, Return(p, d)
    PROVE  KnowsStatus(run'[p][d], Row(p, d)')
<1>1. run'[p][d] = Idle
  BY Before, ReturnFacts DEF RunIs
<1>2. QED
  BY <1>1 DEF KnowsStatus, Idle, FrozenPcs, SettledPcs

\* A run that ends without a write.
LEMMA ReturnAdvances ==
    ASSUME IInv, NEW p \in Processes, NEW d \in Decisions, Return(p, d), UNCHANGED journal
    PROVE  Advances(p, d)
  BY StaysRight, ReturnKnows DEF Advances

\* A run that goes on without a write.
LEMMA GotoAdvances ==
    ASSUME IInv, NEW p \in Processes, NEW d \in Decisions, NEW pc \in Pcs \ {"gated"},
           Goto(p, d, pc), UNCHANGED journal,
           pc \in {"check_expiry", "rebuild", "mark", "marking", "journal_marked"} =>
               Row(p, d).status = "PREPARED",
           pc \in FrozenPcs => Row(p, d).status \in {"MARKED", "SUBMITTED"}
    PROVE  Advances(p, d)
<1>1. run'[p][d] = [run[p][d] EXCEPT !.pc = pc]
  BY Before, GotoFacts DEF RunIs
<1>2. run'[p][d].pc = pc
  BY <1>1, Before DEF RunState
<1>3. QED
  BY <1>2, StaysRight DEF Advances, KnowsStatus

\* advance() moves a row right when it comes from where the run knows the row to be.
LEMMA AdvanceMoves ==
    ASSUME IInv, NEW p \in Processes, NEW d \in Decisions, NEW status \in Statuses \ {"PREPARED"},
           run[p][d].pc \in SettledPcs, Advance(p, d, status),
           Row(p, d).status \in {"PREPARED", "MARKED", "SUBMITTED"},
           Rank[Row(p, d).status] <= Rank[status]
    PROVE  Row(p, d)'.status = status /\ MovesRight(Row(p, d), Row(p, d)')
<1> DEFINE row == [Row(p, d) EXCEPT !.status = status]
<1>1. Row(p, d) # None /\ stage[d] = "Settled"
  BY Before DEF RunInv, RowPcs, SettledPcs, Pcs
<1>2. row \in SettlementRecord /\ RowIs(p, d, row) /\ row.status = status
  BY <1>1, AdvanceFacts
<1>3. Row(p, d)' = row
  BY <1>2 DEF RowIs
<1>4. row # None
  BY <1>2, AbsentAssumption
<1> HIDE DEF row
<1>5. QED
  BY <1>2, <1>3, <1>4 DEF MovesRight, TERMINAL

\* The recovery matrix goes by the status, and past PREPARED by the settlement the gate saw.
LEMMA ReadJournalAdvances ==
    ASSUME IInv, StatusesKnown, NEW p \in Processes, NEW d \in Decisions, ReadJournal(p, d)
    PROVE  Advances(p, d)
<1> DEFINE row == Row(p, d)
           pc == ResumeAt(run[p][d], row)
           e == IF row = None THEN None ELSE row.envelope
           r == [pc |-> pc, allowFresh |-> FALSE, settled |-> FALSE, envelope |-> e]
<1>1. CASE pc = "idle"
  BY <1>1, ReturnAdvances DEF ReadJournal
<1>2. CASE pc # "idle"
  <2>1. GotoWith(p, d, pc, e) /\ UNCHANGED journal
    BY <1>2 DEF ReadJournal
  <2>2. e \in Envelope \cup {None}
    BY RowEnvelope
  <2>3. row = None => pc = "prepare"
    BY <1>2 DEF ResumeAt
  <2>4. row # None =>
          /\ row.status \in Statuses
          /\ \/ pc = "lookup" /\ row.status \in {"MARKED", "SUBMITTED"}
             \/ pc \in {"journal_marked", "check_expiry"} /\ row.status = "PREPARED"
    <3>1. SUFFICES ASSUME row # None
                   PROVE  /\ row.status \in Statuses
                          /\ \/ pc = "lookup" /\ row.status \in {"MARKED", "SUBMITTED"}
                             \/ pc \in {"journal_marked", "check_expiry"} /\ row.status = "PREPARED"
      OBVIOUS
    <3>2. row.status \in Statuses
      BY <3>1, RowEnvelope
    <3>3. row.status # "PREPARED" => run[p][d].settled
      BY <3>1 DEF StatusesKnown, KnowsStatus, ReadJournal, At
    <3>4. CASE row.status = "PREPARED"
      BY <1>2, <3>1, <3>2, <3>4 DEF ResumeAt
    <3>5. CASE row.status # "PREPARED"
      <4>1. PICK old, saw : old = row /\ saw = run[p][d]
        OBVIOUS
      <4>2. /\ ResumeAt(saw, old) # "idle" /\ old # None /\ saw.settled = TRUE
            /\ old.status \in Statuses \ {"PREPARED"} /\ pc = ResumeAt(saw, old)
        BY <1>2, <3>1, <3>2, <3>3, <3>5, <4>1
      <4>3. old.status \notin TERMINAL /\ ResumeAt(saw, old) = "lookup"
        BY ONLY <4>2 DEF ResumeAt, TERMINAL
      <4>4. QED
        BY ONLY <3>2, <4>1, <4>2, <4>3 DEF Statuses, TERMINAL
    <3>6. QED
      BY <3>4, <3>5
  <2>5. pc \in Pcs
    BY <2>3, <2>4 DEF Pcs
  <2>6. run'[p][d] = r
    BY <2>1, <2>2, <2>5, Before, GotoWithFacts DEF RunIs
  <2>7. run'[p][d].pc = pc
    BY <2>6
  <2>8. Row(p, d)' = row /\ MovesRight(row, Row(p, d)')
    BY <2>1, StaysRight
  <2> HIDE DEF pc, row, r, e
  <2>9. KnowsStatus(run'[p][d], row)
    BY <2>3, <2>4, <2>7 DEF KnowsStatus, FrozenPcs, SettledPcs
  <2>10. QED
    BY <2>8, <2>9 DEF Advances, row
<1>3. QED
  BY <1>1, <1>2

\* A new record, or a new envelope in a PREPARED one.
LEMMA PrepareAdvances ==
    ASSUME IInv, NEW p \in Processes, NEW d \in Decisions, Prepare(p, d)
    PROVE  Advances(p, d)
<1>1. PICK now \in Clocks :
        /\ At(p, d, "prepare") \/ At(p, d, "rebuild")
        /\ IF MayPrepare(p, d)
           THEN /\ PutRow(p, d, [envelope |-> NewEnvelope(d, now), status |-> "PREPARED"])
                /\ GotoWith(p, d, "mark", NewEnvelope(d, now))
           ELSE Return(p, d) /\ UNCHANGED journal
  BY DEF Prepare
<1>2. CASE ~MayPrepare(p, d)
  BY <1>1, <1>2, ReturnAdvances
<1>3. CASE MayPrepare(p, d)
  <2>1. PICK e : e = NewEnvelope(d, now)
    OBVIOUS
  <2>2. PICK row : row = [envelope |-> e, status |-> "PREPARED"]
    OBVIOUS
  <2>3. GotoWith(p, d, "mark", e) /\ PutRow(p, d, row)
    BY <1>1, <1>3, <2>1, <2>2
  <2>4. e \in Envelope
    BY <2>1, NewEnvelopeType
  <2>5. row \in SettlementRecord /\ row # None /\ row.status = "PREPARED"
    BY <2>2, <2>4, AbsentAssumption DEF SettlementRecord, Statuses
  <2>6. Row(p, d)' = row
    BY <2>3, <2>5, Before, PutRowFacts DEF RowIs
  <2>7. Row(p, d) # None => Row(p, d).status = "PREPARED"
    BY <1>1, <1>3 DEF MayPrepare, At
  <2>8. MovesRight(Row(p, d), row)
    <3>1. PICK old : old = Row(p, d)
      OBVIOUS
    <3>2. (old # None => old.status = "PREPARED") /\ Rank["PREPARED"] = 1
      BY <2>7, <3>1, Ranks
    <3>3. MovesRight(old, row)
      BY ONLY <2>5, <3>2 DEF MovesRight, TERMINAL
    <3>4. QED
      BY <3>1, <3>3
  <2>9. run'[p][d].pc = "mark"
    <3>1. run \in [Processes -> [Decisions -> RunState]]
      BY DEF IInv, TypeOK
    <3>2. QED
      BY ONLY <2>3, <3>1 DEF GotoWith
  <2>10. KnowsStatus(run'[p][d], row)
    BY <2>5, <2>9 DEF KnowsStatus, FrozenPcs, SettledPcs
  <2>11. QED
    BY <2>6, <2>8, <2>10 DEF Advances
<1>4. QED
  BY <1>2, <1>3

\* The writes on the way to the POST.
LEMMA JournalAdvances ==
    ASSUME IInv, StatusesKnown, NEW p \in Processes, NEW d \in Decisions,
           JournalMarked(p, d) \/ JournalSubmitted(p, d)
    PROVE  Advances(p, d)
<1>1. run[p][d].pc \in SettledPcs /\ KnowsStatus(run[p][d], Row(p, d))
  BY DEF JournalMarked, JournalSubmitted, At, SettledPcs, StatusesKnown
<1>2. Row(p, d) # None
  BY <1>1, Before DEF RunInv, RowPcs, SettledPcs, Pcs
<1>3. Row(p, d).envelope \in Envelope \cup {None}
  BY <1>2, RowEnvelope
<1>4. PICK status \in {"MARKED", "SUBMITTED"}, pc \in {"journal_submitted", "post"} :
        /\ Advance(p, d, status) /\ GotoWith(p, d, pc, Row(p, d).envelope)
        /\ Rank[Row(p, d).status] <= Rank[status]
        /\ Row(p, d).status \in {"PREPARED", "MARKED", "SUBMITTED"}
  <2>1. CASE JournalMarked(p, d)
    <3>1. Row(p, d).status = "PREPARED"
      BY <1>1, <2>1 DEF JournalMarked, At, KnowsStatus
    <3>2. QED
      BY <2>1, <3>1, Ranks DEF JournalMarked
  <2>2. CASE JournalSubmitted(p, d)
    <3>1. Row(p, d).status \in {"MARKED", "SUBMITTED"}
      BY <1>1, <2>2 DEF JournalSubmitted, At, KnowsStatus, FrozenPcs, SettledPcs
    <3>2. QED
      BY <2>2, <3>1, Ranks DEF JournalSubmitted
  <2>3. QED
    BY <2>1, <2>2
<1>5. status \in Statuses \ {"PREPARED"} /\ pc \in Pcs
  BY DEF Statuses, Pcs
<1>6. Row(p, d)'.status = status /\ MovesRight(Row(p, d), Row(p, d)')
  BY <1>1, <1>4, <1>5, AdvanceMoves
<1>7. run'[p][d].pc = pc
  <2>1. PICK e : e = Row(p, d).envelope
    OBVIOUS
  <2>2. GotoWith(p, d, pc, e) /\ e \in Envelope \cup {None}
    BY <1>3, <1>4, <2>1
  <2>3. run \in [Processes -> [Decisions -> RunState]]
    BY DEF IInv, TypeOK
  <2>4. QED
    BY <2>2, <2>3 DEF GotoWith
<1>8. KnowsStatus(run'[p][d], Row(p, d)')
  BY <1>4, <1>6, <1>7 DEF KnowsStatus, FrozenPcs
<1>9. QED
  BY <1>6, <1>8 DEF Advances

\* The terminal writes: only of a record that is not terminal.
LEMMA FinishAdvances ==
    ASSUME IInv, StatusesKnown, NEW p \in Processes, NEW d \in Decisions,
           Included(p, d) \/ ProveNonInclusion(p, d)
    PROVE  Advances(p, d)
<1>1. run[p][d].pc \in FrozenPcs /\ run[p][d].pc \in SettledPcs
  BY DEF Included, ProveNonInclusion, At, FrozenPcs, SettledPcs
<1>2. Row(p, d).status \in {"MARKED", "SUBMITTED"}
  BY <1>1 DEF StatusesKnown, KnowsStatus
<1>3. PICK status \in {"SETTLED", "ABANDONED"} : Advance(p, d, status)
  BY DEF Included, ProveNonInclusion
<1>4. status \in Statuses \ {"PREPARED"} /\ Rank[Row(p, d).status] <= Rank[status]
  BY <1>2, Ranks DEF Statuses
<1>5. MovesRight(Row(p, d), Row(p, d)')
  BY <1>1, <1>2, <1>3, <1>4, AdvanceMoves
<1>6. Return(p, d)
  BY DEF Included, ProveNonInclusion
<1>7. QED
  BY <1>5, <1>6, ReturnKnows DEF Advances

\* Every step of a run.
LEMMA RunAdvances ==
    ASSUME IInv, StatusesKnown, NEW p \in Processes, NEW d \in Decisions, RunAction(p, d)
    PROVE  Advances(p, d)
<1>1. KnowsStatus(run[p][d], Row(p, d))
  BY DEF StatusesKnown
<1>2. CASE \E allowFresh \in BOOLEAN : Gate(p, d, allowFresh)
  <2>1. PICK allowFresh \in BOOLEAN : Gate(p, d, allowFresh)
    BY <1>2
  <2>2. /\ run'[p][d].pc = "gated" /\ run'[p][d].settled = (stage[d] = "Settled")
        /\ UNCHANGED journal
    <3>1. run \in [Processes -> [Decisions -> RunState]]
      BY DEF IInv, TypeOK
    <3>2. QED
      BY <2>1, <3>1 DEF Gate
  <2>3. Row(p, d) # None /\ Row(p, d).status # "PREPARED" => stage[d] = "Settled"
    BY Before DEF RowInv
  <2>4. KnowsStatus(run'[p][d], Row(p, d))
    BY <2>2, <2>3 DEF KnowsStatus, FrozenPcs, SettledPcs
  <2>5. QED
    BY <2>2, <2>4, StaysRight DEF Advances
<1>3. CASE Stop(p, d)
  BY <1>3, ReturnAdvances DEF Stop
<1>4. CASE Proceed(p, d)
  <2>1. CASE ReadJournal(p, d)
    BY <2>1, ReadJournalAdvances
  <2>2. CASE Prepare(p, d)
    BY <2>2, PrepareAdvances
  <2>3. CASE JournalMarked(p, d) \/ JournalSubmitted(p, d)
    BY <2>3, JournalAdvances
  <2>4. CASE Included(p, d) \/ ProveNonInclusion(p, d)
    BY <2>4, FinishAdvances
  <2>5. CASE CheckExpiry(p, d)
    <3>1. PICK pc \in {"rebuild", "mark"} : Goto(p, d, pc) /\ UNCHANGED journal
      BY <2>5 DEF CheckExpiry
    <3>2. Row(p, d).status = "PREPARED"
      BY <1>1, <2>5 DEF CheckExpiry, At, KnowsStatus
    <3>3. pc \in Pcs \ {"gated"} /\ pc \notin FrozenPcs
      BY DEF Pcs, FrozenPcs, SettledPcs
    <3>4. QED
      BY <3>1, <3>2, <3>3, GotoAdvances
  <2>6. CASE PreflightFailed(p, d) \/ MarkRefused(p, d) \/ PostRejected(p, d)
    BY <2>6, ReturnAdvances DEF PreflightFailed, MarkRefused, PostRejected
  <2>7. CASE SendMark(p, d) \/ MarkReturned(p, d)
    <3>1. Row(p, d).status = "PREPARED"
      BY <1>1, <2>7 DEF SendMark, MarkReturned, At, KnowsStatus
    <3>2. (\E pc \in {"marking", "journal_marked"} : Goto(p, d, pc)) \/ Return(p, d)
      BY <2>7 DEF SendMark, MarkReturned
    <3>3. UNCHANGED journal
      BY <2>7 DEF SendMark, MarkReturned
    <3>4. CASE Return(p, d)
      BY <3>3, <3>4, ReturnAdvances
    <3>5. CASE \E pc \in {"marking", "journal_marked"} : Goto(p, d, pc)
      <4>1. PICK pc \in {"marking", "journal_marked"} : Goto(p, d, pc)
        BY <3>5
      <4>2. pc \in Pcs \ {"gated"} /\ pc \notin FrozenPcs
        BY DEF Pcs, FrozenPcs, SettledPcs
      <4>3. QED
        BY <3>1, <3>3, <4>1, <4>2, GotoAdvances
    <3>6. QED
      BY <3>2, <3>4, <3>5
  <2>8. CASE Lookup(p, d) \/ PostDelivered(p, d) \/ PostLost(p, d) \/ Absent(p, d) \/ StillPending(p, d)
    <3>1. Row(p, d).status \in {"MARKED", "SUBMITTED"}
      <4>1. run[p][d].pc \in FrozenPcs
        BY <2>8 DEF Lookup, PostDelivered, PostLost, Absent, StillPending, At, FrozenPcs, SettledPcs
      <4>2. QED
        BY <1>1, <4>1 DEF KnowsStatus
    <3>2. (\E pc \in {"await", "absent", "journal_submitted"} : Goto(p, d, pc)) \/ Return(p, d)
      BY <2>8 DEF Lookup, PostDelivered, PostLost, Absent, StillPending
    <3>3. UNCHANGED journal
      BY <2>8 DEF Lookup, PostDelivered, PostLost, Absent, StillPending
    <3>4. CASE Return(p, d)
      BY <3>3, <3>4, ReturnAdvances
    <3>5. CASE \E pc \in {"await", "absent", "journal_submitted"} : Goto(p, d, pc)
      <4>1. PICK pc \in {"await", "absent", "journal_submitted"} : Goto(p, d, pc)
        BY <3>5
      <4>2. pc \in Pcs \ {"gated"}
        BY DEF Pcs
      <4>3. QED
        BY <3>1, <3>3, <4>1, <4>2, GotoAdvances
    <3>6. QED
      BY <3>2, <3>4, <3>5
  <2>9. QED
    BY <1>4, <2>1, <2>2, <2>3, <2>4, <2>5, <2>6, <2>7, <2>8 DEF Proceed
<1>5. QED
  BY <1>2, <1>3, <1>4 DEF RunAction

\* A step of a run leaves every other run, and every other row, alone.
LEMMA OthersStay ==
    ASSUME IInv, NEW p \in Processes, NEW d \in Decisions, RunAction(p, d)
    PROVE  /\ \A q \in Processes, c \in Decisions : q # p \/ c # d => run'[q][c] = run[q][c]
           /\ \A j \in Journals, c \in Decisions : j # JournalOf[p] \/ c # d => journal'[j][c] = journal[j][c]
  BY GateEffect, ProceedEffect, StopEffect DEF RunAction, HasEffect, Effect, RunIs, RowIs

\* What every step does to the runs and to the rows.
LEMMA RightStep ==
    ASSUME OwnJournals, IInv, StatusesKnown, [Next]_vars
    PROVE  /\ StatusesKnown'
           /\ \A j \in Journals, d \in Decisions : MovesRight(journal[j][d], journal'[j][d])
<1>1. CASE \E p \in Processes, d \in Decisions : RunAction(p, d)
  <2>1. PICK p \in Processes, d \in Decisions : RunAction(p, d)
    BY <1>1
  <2>2. Advances(p, d)
    BY <2>1, RunAdvances
  <2>3. ASSUME NEW q \in Processes, NEW c \in Decisions
        PROVE  KnowsStatus(run'[q][c], Row(q, c)')
    <3>1. CASE q = p /\ c = d
      BY <2>2, <3>1 DEF Advances
    <3>2. CASE q # p \/ c # d
      <4>1. JournalOf[q] \in Journals /\ (q # p => JournalOf[q] # JournalOf[p])
        BY DEF Journals, OwnJournals
      <4>2. run'[q][c] = run[q][c] /\ Row(q, c)' = Row(q, c)
        BY <2>1, <3>2, <4>1, OthersStay DEF Row
      <4>3. KnowsStatus(run[q][c], Row(q, c))
        BY DEF StatusesKnown
      <4>4. QED
        BY <4>2, <4>3
    <3>3. QED
      BY <3>1, <3>2
  <2>4. ASSUME NEW j \in Journals, NEW c \in Decisions
        PROVE  MovesRight(journal[j][c], journal'[j][c])
    <3>1. CASE j = JournalOf[p] /\ c = d
      BY <2>2, <3>1 DEF Advances, Row
    <3>2. CASE j # JournalOf[p] \/ c # d
      <4>1. journal'[j][c] = journal[j][c]
        BY <2>1, <3>2, OthersStay
      <4>2. QED
        BY <4>1, RowStays
    <3>3. QED
      BY <3>1, <3>2
  <2>5. QED
    BY <2>3, <2>4 DEF StatusesKnown
<1>2. CASE UNCHANGED <<run, journal>>
  <2>1. StatusesKnown'
    BY <1>2 DEF StatusesKnown, Row
  <2>2. QED
    BY <1>2, <2>1, RowStays
<1>3. UNCHANGED <<run, journal>> \/ \E p \in Processes, d \in Decisions : RunAction(p, d)
  BY DEF Next, RunAction, CloseLedger, Ingest, Govern, LandLateMark, LandMark, vars
<1>4. QED
  BY <1>1, <1>2, <1>3

\* With a journal of its own, no process lowers a status, changes a terminal record or deletes
\* one, with any number of processes and decisions and through crashes and late transactions.
THEOREM RecordsMoveRight ==
    ASSUME OwnJournals
    PROVE  Spec => JournalMovesRight
<1>1. Init => StatusesKnown
  BY DEF Init, StatusesKnown, KnowsStatus, Idle, FrozenPcs, SettledPcs
<1>2. IInv /\ StatusesKnown /\ [Next]_vars => StatusesKnown'
  BY RightStep
<1>3. IInv /\ StatusesKnown /\ [Next]_vars =>
        [\A j \in Journals, d \in Decisions : journal[j][d] # None =>
              /\ journal'[j][d] # None
              /\ Rank[journal[j][d].status] <= Rank[journal'[j][d].status]
              /\ journal[j][d].status \in TERMINAL => journal'[j][d] = journal[j][d]]_vars
  BY RightStep DEF MovesRight
<1>4. QED
  BY <1>1, <1>2, <1>3, Invariance, PTL DEF Spec, JournalMovesRight
=============================================================================
