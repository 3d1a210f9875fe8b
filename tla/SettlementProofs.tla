--------------------------- MODULE SettlementProofs ---------------------------
(***************************************************************************)
(* What Settlement promises of one settlement, proved for every registry   *)
(* file, decision, configuration and bound.                                *)
(***************************************************************************)
EXTENDS Settlement, FiniteSetTheorems, TLAPS

-----------------------------------------------------------------------------
(* The inductive invariant.                                                 *)

Texts == Files \cup Edits
Entries == [env : Envelopes \cup {None}, at : Nat, successful : BOOLEAN]
Places == {"gate", "read", "expiry", "prepare", "mark", "journal_marked", "lookup", "submit",
           "await", "result"}
Runs == [pc : Places, fresh : BOOLEAN, dryRun : BOOLEAN, file : Texts, settled : BOOLEAN]

\* A decision keeps the fields it was written with, but for the owner's answer.
DecisionInv ==
    decision # NotFound =>
        /\ {"id", "hash", "version", "agent", "service", "asset", "amount", "verdict"} \subseteq DOMAIN decision
        /\ decision.version \in 0..MAX_U32
        /\ MemoHash(decision) \in Memos

TypeInv ==
    /\ file \in Texts /\ settled \in Nat /\ now \in Nat
    /\ ledger \in Seq(Entries) /\ pool \subseteq Envelopes
    /\ journal \in Rows \cup {None} /\ run \in Runs \cup {None}
    /\ DecisionInv

\* What an envelope says of the decision it pays.
Fits(env) ==
    /\ env.amount = decision.amount /\ DeriveSac(env.code, Config.passphrase) = decision.asset
    /\ env.memo = MemoHash(decision) /\ env.from = Config.account

\* A row is of an approved decision; past PREPARED the contract has settled it.
JournalInv ==
    journal # None =>
        /\ decision # NotFound /\ decision.verdict = "Approved" /\ PayableAmount(decision.amount)
        /\ Fits(journal.env)
        /\ journal.status # "PREPARED" => settled # 0

\* Settled only over a row, sent only what the row holds, and only when settled.
PaymentInv ==
    /\ settled # 0 => journal # None
    /\ settled = 0 => pool = {}
    /\ \A env \in pool : env = journal.env
    /\ \A i \in DOMAIN ledger : ledger[i].env = None \/ ledger[i].env \in pool

BeforeMark == {"expiry", "prepare", "mark"}
AfterMark == {"journal_marked", "lookup", "submit", "await"}

\* What a run may rely on at each place.
RunInv ==
    run # None =>
        /\ Agrees(Registry)
        /\ run.pc # "gate" => Passes(decision)
        /\ run.pc = "read" => (run.settled <=> settled # 0)
        /\ run.pc \in BeforeMark => settled = 0
        /\ run.pc \in AfterMark => settled # 0
        /\ run.pc \in {"expiry", "mark", "result"} => journal # None

CoreInv == TypeInv /\ JournalInv /\ PaymentInv /\ RunInv

-----------------------------------------------------------------------------
(* The registry, the rows and the moves of a run.                           *)

Loaded(f) == R!LoadExecutor(f)

\* A registry the executor did not refuse has the values of the file.
LEMMA LoadedValues ==
  ASSUME NEW f, Loaded(f) # Refused
  PROVE  /\ R!ExecutorAccepts(f)
         /\ Loaded(f).passphrase = f.passphrase /\ Loaded(f).contractId = f.contract_id
         /\ Loaded(f).account = f.executor /\ Loaded(f).code = f.code /\ Loaded(f).sac = f.sac
         /\ Loaded(f).destinations = R!ExecutorDestinations(f)
  BY DEF Loaded, R!LoadExecutor

\* The active entry the executor takes the payee of a service from.
ActiveEntry(f, s) == CHOOSE i \in R!ActiveAt(f) : f.services[i].service_id = s

\* There is one, it lists the service, and the payee is its account.
LEMMA PayeeIsListed ==
  ASSUME NEW f, NEW s, R!ExecutorAccepts(f), s \in DOMAIN R!ExecutorDestinations(f)
  PROVE  /\ ActiveEntry(f, s) \in DOMAIN f.services
         /\ f.services[ActiveEntry(f, s)].active = TRUE
         /\ f.services[ActiveEntry(f, s)].service_id = s
         /\ f.services[ActiveEntry(f, s)].destination = R!ExecutorDestinations(f)[s]
         /\ R!ExecutorDestinations(f)[s] \in G
  <1>1. \E i \in R!ActiveAt(f) : f.services[i].service_id = s
    BY DEF R!ExecutorDestinations
  <1>2. ActiveEntry(f, s) \in R!ActiveAt(f) /\ f.services[ActiveEntry(f, s)].service_id = s
    BY <1>1 DEF ActiveEntry
  <1>3. R!ExecutorDestinations(f)[s] = f.services[ActiveEntry(f, s)].destination
    BY DEF R!ExecutorDestinations, ActiveEntry
  <1>4. ActiveEntry(f, s) \in DOMAIN f.services /\ f.services[ActiveEntry(f, s)].active = TRUE
    BY <1>2 DEF R!ActiveAt
  <1>5. f.services[ActiveEntry(f, s)].destination \in G
    BY <1>4 DEF R!ExecutorAccepts
  <1> QED BY <1>2, <1>3, <1>4, <1>5

\* A run that agrees with its registry and passes the gate has a payer, a payee and a code.
LEMMA PayerAndPayee ==
  ASSUME run \in Runs, Agrees(Registry), Passes(decision)
  PROVE  /\ Config.account \in G /\ Config.contractId \in C /\ Payee \in G
         /\ Registry.code \in Codes
         /\ DeriveSac(Registry.code, Config.passphrase) = decision.asset
  <1>1. Registry = Loaded(run.file) /\ Loaded(run.file) # Refused /\ run.file \in Texts
    BY DEF Registry, Loaded, Agrees, Runs
  <1>2. R!ExecutorAccepts(run.file)
    BY <1>1, LoadedValues
  <1>3. Config.account \in G /\ Config.contractId \in C /\ run.file # Missing
    BY <1>1, <1>2, LoadedValues DEF Agrees, R!ExecutorAccepts
  <1>4. Registry.code = run.file.code /\ Registry.destinations = R!ExecutorDestinations(run.file)
    BY <1>1, LoadedValues
  <1>5. decision.service \in DOMAIN R!ExecutorDestinations(run.file)
    BY <1>4 DEF Passes
  <1>6. R!ExecutorDestinations(run.file)[decision.service] \in G
    BY <1>2, <1>5, PayeeIsListed
  <1>7. Payee \in G
    BY <1>4, <1>6 DEF Payee
  <1>8. DeriveSac(Registry.code, Config.passphrase) = decision.asset
    BY DEF Passes
  <1>9. Registry.code \in Codes
    <2>1. run.file \in Texts \ {Missing}
      BY <1>1, <1>3
    <2> QED BY <2>1, <1>4, Zenon DEF Codes, Texts
  <1> QED BY <1>3, <1>7, <1>8, <1>9

\* advance() keeps the envelope.
LEMMA RowAdvances ==
  ASSUME journal \in Rows, NEW status \in {"PREPARED", "MARKED", "SUBMITTED", "SETTLED", "ABANDONED"},
         Advance(status)
  PROVE  /\ journal' \in Rows /\ journal' # None
         /\ journal'.env = journal.env /\ journal'.status = status
  BY AbsentAssumption DEF Rows, Advance

\* A run that moves on keeps what it has loaded and read.
LEMMA RunMoves ==
  ASSUME run \in Runs, NEW pc \in Places, Goto(pc)
  PROVE  /\ run' \in Runs /\ run'.pc = pc /\ run'.file = run.file /\ run'.settled = run.settled
         /\ run'.dryRun = run.dryRun /\ run'.fresh = run.fresh
  BY DEF Runs, Goto

\* What was judged of the decision stays judged while neither it nor the registry changes.
LEMMA JudgedStays ==
  ASSUME run'.file = run.file, decision' = decision
  PROVE  /\ Registry' = Registry
         /\ Agrees(Registry) => Agrees(Registry)' 
         /\ Passes(decision) => Passes(decision)'
  <1>1. Registry' = Registry
    BY DEF Registry
  <1> QED BY <1>1 DEF Agrees, Passes

\* An approved decision is not answered.
LEMMA FitsStays ==
  ASSUME decision' = decision, NEW env PROVE Fits(env) => Fits(env)'
  BY DEF Fits

-----------------------------------------------------------------------------
(* The inductive invariant is kept: the run.                                *)

\* It holds at first.
LEMMA InitCore == Init => CoreInv
  <1> SUFFICES ASSUME Init PROVE CoreInv
    OBVIOUS
  <1>1. DecisionInv
    <2>1. decision # NotFound => decision \in DecisionRecords \ {NotFound}
      BY DEF Init
    <2>2. decision # NotFound => MemoHash(decision) \in Memos
      BY <2>1 DEF Memos
    <2> QED BY <2>1, <2>2, RecordAssumption DEF DecisionInv
  <1>2. TypeInv
    BY <1>1 DEF Init, TypeInv, Texts
  <1> QED BY <1>2 DEF CoreInv, Init, JournalInv, PaymentInv, RunInv

\* A step that leaves the decision alone leaves it well formed.
LEMMA DecisionStays == DecisionInv /\ decision' = decision => DecisionInv'
  BY DEF DecisionInv

\* A step of the run that moves it and touches nothing else.
LEMMA OnlyTheRun ==
  ASSUME CoreInv, run' \in Runs \cup {None}, RunInv',
         UNCHANGED <<file, chainVars, ledgerVars, journal>>
  PROVE  CoreInv'
  <1> USE DEF CoreInv, chainVars, ledgerVars
  <1>1. TypeInv'
    BY DecisionStays DEF TypeInv
  <1>2. JournalInv'
    BY DEF JournalInv, PayableAmount, Fits
  <1>3. PaymentInv'
    BY DEF PaymentInv
  <1> QED BY <1>1, <1>2, <1>3

\* A run that has ended relies on nothing.
LEMMA EndedRun == Return => RunInv' /\ run' \in Runs \cup {None}
  BY DEF Return, RunInv

\* settle() and recover() load the registry before anything else.
LEMMA StartKeeps == ASSUME CoreInv, NEW fresh \in BOOLEAN, NEW dryRun \in BOOLEAN, Start(fresh, dryRun) PROVE CoreInv'
  <1>1. run' = [pc |-> "gate", fresh |-> fresh, dryRun |-> dryRun, file |-> file, settled |-> FALSE]
    BY DEF Start
  <1>2. run' \in Runs /\ run'.pc = "gate" /\ run'.file = file
    BY <1>1 DEF Runs, Places, CoreInv, TypeInv
  <1>3. Agrees(R!LoadExecutor(file))
    BY DEF Start
  <1>4. Registry' = R!LoadExecutor(file)
    BY <1>2 DEF Registry
  <1>5. Agrees(Registry)'
    BY <1>3, <1>4 DEF Agrees
  <1>6. RunInv'
    BY <1>2, <1>5 DEF RunInv, BeforeMark, AfterMark
  <1> QED BY <1>2, <1>6, OnlyTheRun DEF Start

\* The gate.
LEMMA GateKeeps == ASSUME CoreInv, Gate PROVE CoreInv'
  <1> USE DEF Gate
  <1>1. CASE ~Passes(decision)
    BY <1>1, EndedRun, OnlyTheRun
  <1>2. CASE Passes(decision)
    <2>1. run' = [run EXCEPT !.pc = "read", !.settled = settled # 0] /\ run \in Runs
      BY <1>2 DEF At, CoreInv, TypeInv
    <2>2. run' \in Runs /\ run'.pc = "read" /\ run'.file = run.file /\ (run'.settled <=> settled # 0)
      BY <2>1 DEF Runs, Places
    <2>3. Agrees(Registry) /\ decision' = decision /\ settled' = settled
      BY DEF CoreInv, RunInv, At, chainVars
    <2>4. Agrees(Registry)' /\ Passes(decision)'
      BY <1>2, <2>2, <2>3, JudgedStays
    <2>5. RunInv'
      BY <2>2, <2>3, <2>4 DEF RunInv, BeforeMark, AfterMark
    <2> QED BY <2>2, <2>5, OnlyTheRun
  <1> QED BY <1>1, <1>2

\* A run past the gate that moves on is still past it.
LEMMA StillJudged ==
  ASSUME CoreInv, run # None, run.pc # "gate", NEW pc \in Places, Goto(pc), decision' = decision
  PROVE  /\ run' \in Runs /\ run'.pc = pc /\ run'.settled = run.settled
         /\ Agrees(Registry)' /\ Passes(decision)'
  <1>1. run \in Runs /\ Agrees(Registry) /\ Passes(decision)
    BY DEF CoreInv, TypeInv, RunInv
  <1> QED BY <1>1, RunMoves, JudgedStays

\* The matrix sends a run on only where it may go.
LEMMA ReadJournalKeeps == ASSUME CoreInv, ReadJournal PROVE CoreInv'
  <1> USE DEF ReadJournal
  <1>1. CASE ResumeAt = "end"
    BY <1>1, EndedRun, OnlyTheRun
  <1>2. CASE ResumeAt # "end"
    <2>1. ResumeAt \in Places
          /\ (ResumeAt \in {"prepare", "expiry"} => ~run.settled)
          /\ (ResumeAt \in {"journal_marked", "lookup", "expiry", "result"} => journal # None)
          /\ (ResumeAt = "journal_marked" => run.settled)
          /\ (ResumeAt = "lookup" => journal.status # "PREPARED")
          /\ ResumeAt \notin {"read", "gate", "mark", "submit", "await"}
      BY <1>2 DEF ResumeAt, Places
    <2>2. run.settled <=> settled # 0
      BY DEF At, CoreInv, RunInv
    <2>3. run' \in Runs /\ run'.pc = ResumeAt /\ Agrees(Registry)' /\ Passes(decision)'
      BY <1>2, <2>1, StillJudged DEF At, chainVars
    <2>4. journal' = journal /\ settled' = settled
      BY DEF chainVars
    <2>5. RunInv'
      BY <2>1, <2>2, <2>3, <2>4 DEF RunInv, BeforeMark, AfterMark, CoreInv, JournalInv
    <2> QED BY <2>3, <2>5, OnlyTheRun
  <1> QED BY <1>1, <1>2

\* An expired envelope is built again, another is used.
LEMMA ExpiryKeeps == ASSUME CoreInv, Expiry PROVE CoreInv'
  <1> DEFINE pc == IF now >= journal.env.maxTime THEN "prepare" ELSE Prepared
  <1>1. pc \in {"prepare", "mark", "result"} /\ Goto(pc)
    BY DEF Expiry, Prepared
  <1>2. settled = 0 /\ journal # None /\ run # None /\ run.pc # "gate"
    BY DEF Expiry, At, CoreInv, RunInv, BeforeMark
  <1>3. journal' = journal /\ settled' = settled /\ decision' = decision
    BY DEF Expiry, chainVars
  <1> HIDE DEF pc
  <1>4. run' \in Runs /\ run'.pc = pc /\ Agrees(Registry)' /\ Passes(decision)'
    BY <1>1, <1>2, <1>3, StillJudged DEF Places
  <1>5. RunInv'
    BY <1>1, <1>2, <1>3, <1>4 DEF RunInv, BeforeMark, AfterMark
  <1> QED BY <1>4, <1>5, OnlyTheRun DEF Expiry

\* Is the stored hash on the ledger?
LEMMA LookupKeeps == ASSUME CoreInv, Lookup PROVE CoreInv'
  <1> DEFINE pc == IF OnLedger(journal.env) # {} THEN "await" ELSE "submit"
  <1>1. pc \in {"await", "submit"} /\ Goto(pc)
    BY DEF Lookup
  <1>2. settled # 0 /\ run # None /\ run.pc # "gate"
    BY DEF Lookup, At, CoreInv, RunInv, AfterMark
  <1>3. journal' = journal /\ settled' = settled /\ decision' = decision
    BY DEF Lookup, chainVars
  <1> HIDE DEF pc
  <1>4. run' \in Runs /\ run'.pc = pc /\ Agrees(Registry)' /\ Passes(decision)'
    BY <1>1, <1>2, <1>3, StillJudged DEF Places
  <1>5. RunInv'
    BY <1>1, <1>2, <1>3, <1>4 DEF RunInv, BeforeMark, AfterMark
  <1> QED BY <1>4, <1>5, OnlyTheRun DEF Lookup

\* A receipt is handed out and the run is over.
LEMMA ResultKeeps == ASSUME CoreInv, Result PROVE CoreInv'
  BY EndedRun, OnlyTheRun DEF Result

\* A crash.
LEMMA StopKeeps == ASSUME CoreInv, Stop PROVE CoreInv'
  BY EndedRun, OnlyTheRun DEF Stop

-----------------------------------------------------------------------------
(* The steps that write the row, the flag or the pool.                      *)

\* The envelope a run builds pays its decision.
LEMMA EnvelopeIsGood ==
  ASSUME TypeInv, run \in Runs, decision # NotFound, Agrees(Registry), Passes(decision)
  PROVE  Envelope \in Envelopes /\ Fits(Envelope)
  <1>1. /\ Config.account \in G /\ Payee \in G
        /\ Registry.code \in Codes
        /\ DeriveSac(Registry.code, Config.passphrase) = decision.asset
    BY PayerAndPayee DEF Texts
  <1>2. Sequence + 1 \in Nat /\ now + Timeout \in Nat
    BY BoundsAssumption DEF TypeInv, Sequence
  <1>3. decision.amount \in 1..MAX_INT64
    BY DEF Passes, PayableAmount
  <1>4. MemoHash(decision) \in Memos
    BY DEF TypeInv, DecisionInv
  <1> QED BY <1>1, <1>2, <1>3, <1>4 DEF Envelope, Envelopes, Fits

\* Preflight, and the row.
LEMMA PrepareKeeps == ASSUME CoreInv, Prepare PROVE CoreInv'
  <1> USE DEF Prepare
  <1>1. CASE ~Preflight
    BY <1>1, EndedRun, OnlyTheRun
  <1>2. CASE Preflight
    <2>1. /\ run # None /\ run \in Runs /\ run.pc = "prepare" /\ settled = 0
          /\ Agrees(Registry) /\ Passes(decision)
      BY DEF At, CoreInv, TypeInv, RunInv, BeforeMark
    <2>2. decision # NotFound /\ decision.verdict = "Approved" /\ PayableAmount(decision.amount)
      BY <2>1 DEF Passes
    <2>3. Envelope \in Envelopes /\ Fits(Envelope)
      BY <2>1, <2>2, EnvelopeIsGood DEF CoreInv
    <2>4. PICK env : env = Envelope
      OBVIOUS
    <2>5. journal' = [status |-> "PREPARED", env |-> env] /\ Goto(Prepared)
      BY <1>2, <2>4
    <2>6. journal' \in Rows /\ journal' # None /\ journal'.env = env /\ journal'.status = "PREPARED"
      BY <2>3, <2>4, <2>5, AbsentAssumption DEF Rows
    <2>7. /\ decision' = decision /\ settled' = settled /\ pool' = pool /\ ledger' = ledger
          /\ file' = file /\ now' = now
      BY DEF chainVars, ledgerVars
    <2>8. Fits(env)'
      BY <2>3, <2>4, <2>7 DEF Fits
    <2>9. Prepared \in {"mark", "result"}
      BY DEF Prepared
    <2>10. run' \in Runs /\ run'.pc = Prepared /\ Agrees(Registry)' /\ Passes(decision)'
      BY <2>1, <2>5, <2>7, <2>9, StillJudged DEF Places
    <2>11. TypeInv'
      BY <2>6, <2>7, <2>10, DecisionStays DEF CoreInv, TypeInv
    <2>12. JournalInv'
      BY <2>2, <2>6, <2>7, <2>8 DEF JournalInv, PayableAmount, Fits
    <2>13. PaymentInv'
      BY <2>1, <2>6, <2>7 DEF CoreInv, PaymentInv
    <2>14. RunInv'
      BY <2>1, <2>6, <2>7, <2>9, <2>10 DEF RunInv, BeforeMark, AfterMark
    <2> QED BY <2>11, <2>12, <2>13, <2>14 DEF CoreInv
  <1> QED BY <1>1, <1>2

\* mark_settled: the row is there, whoever is told.
LEMMA MarkKeeps == ASSUME CoreInv, Mark PROVE CoreInv'
  <1> USE DEF Mark
  <1>1. /\ run # None /\ run \in Runs /\ run.pc = "mark" /\ settled = 0 /\ journal # None
        /\ pool = {} /\ now \in Nat
    BY DEF At, CoreInv, TypeInv, RunInv, PaymentInv
  <1>2. /\ decision' = decision /\ journal' = journal /\ pool' = pool /\ ledger' = ledger /\ file' = file
    OBVIOUS
  <1>3. settled' \in Nat /\ now' \in Nat
    BY <1>1 DEF chainVars, ledgerVars
  <1>4. run' \in Runs \cup {None} /\ RunInv'
    <2>1. CASE Return
      BY <2>1, EndedRun
    <2>2. CASE Goto("journal_marked") /\ settled' = now + 1
      <3>1. settled' # 0
        BY <1>1, <2>2
      <3>2. run' \in Runs /\ run'.pc = "journal_marked" /\ Agrees(Registry)' /\ Passes(decision)'
        BY <1>1, <1>2, <2>2, StillJudged DEF Places
      <3> QED BY <3>1, <3>2 DEF RunInv, BeforeMark, AfterMark
    <2> QED BY <2>1, <2>2
  <1>5. TypeInv'
    BY <1>2, <1>3, <1>4, DecisionStays DEF CoreInv, TypeInv
  <1>6. JournalInv'
    <2>1. settled' # 0 \/ settled' = settled
      BY <1>1
    <2> QED BY <1>2, <2>1 DEF CoreInv, JournalInv, PayableAmount, Fits
  <1>7. PaymentInv'
    BY <1>1, <1>2 DEF CoreInv, PaymentInv
  <1> QED BY <1>4, <1>5, <1>6, <1>7 DEF CoreInv

\* A run that advances the row of a settled decision, and may send what it holds.
LEMMA AdvanceKeeps ==
  ASSUME CoreInv, run # None, run.pc \in AfterMark, journal # None,
         NEW status \in {"MARKED", "SUBMITTED", "SETTLED", "ABANDONED"}, Advance(status),
         pool' \subseteq pool \cup {journal.env}, pool \subseteq pool',
         UNCHANGED <<file, chainVars, lines, balance, ledger, now>>,
         Return \/ \E pc \in AfterMark \cup {"result"} : Goto(pc)
  PROVE  CoreInv'
  <1>1. journal \in Rows /\ run \in Runs /\ settled # 0 /\ run.pc # "gate"
    BY DEF CoreInv, TypeInv, RunInv, AfterMark
  <1>2. /\ decision' = decision /\ settled' = settled /\ ledger' = ledger /\ file' = file /\ now' = now
    BY DEF chainVars
  <1>3. journal' \in Rows /\ journal' # None /\ journal'.env = journal.env
    BY <1>1, RowAdvances
  <1>4. run' \in Runs \cup {None} /\ RunInv'
    <2>1. CASE Return
      BY <2>1, EndedRun
    <2>2. ASSUME NEW pc \in AfterMark \cup {"result"}, Goto(pc) PROVE run' \in Runs /\ RunInv'
      <3>1. run' \in Runs /\ run'.pc = pc /\ Agrees(Registry)' /\ Passes(decision)'
        BY <1>1, <1>2, <2>2, StillJudged DEF Places, AfterMark
      <3> QED BY <1>1, <1>2, <1>3, <3>1 DEF RunInv, BeforeMark, AfterMark
    <2> QED BY <2>1, <2>2
  <1>5. TypeInv'
    <2>1. journal.env \in Envelopes
      BY <1>1 DEF Rows
    <2> QED BY <1>2, <1>3, <1>4, <2>1, DecisionStays DEF CoreInv, TypeInv
  <1>6. JournalInv'
    BY <1>1, <1>2, <1>3 DEF CoreInv, JournalInv, PayableAmount, Fits
  <1>7. PaymentInv'
    BY <1>1, <1>2, <1>3 DEF CoreInv, PaymentInv
  <1> QED BY <1>4, <1>5, <1>6, <1>7 DEF CoreInv

\* A run past mark_settled has a row.
LEMMA MarkedHasRow ==
  ASSUME CoreInv, run # None, run.pc \in AfterMark PROVE journal # None
  BY DEF CoreInv, RunInv, PaymentInv

\* The row is marked.
LEMMA JournalMarkedKeeps == ASSUME CoreInv, JournalMarked PROVE CoreInv'
  <1>1. run # None /\ run.pc \in AfterMark /\ journal # None
    BY MarkedHasRow DEF JournalMarked, At, AfterMark
  <1>2. \E pc \in AfterMark \cup {"result"} : Goto(pc)
    BY DEF JournalMarked, AfterMark
  <1> QED BY <1>1, <1>2, AdvanceKeeps DEF JournalMarked, ledgerVars

\* The stored bytes are sent.
LEMMA SubmitKeeps == ASSUME CoreInv, Submit PROVE CoreInv'
  <1>1. run # None /\ run.pc \in AfterMark /\ journal # None
    BY MarkedHasRow DEF Submit, At, AfterMark
  <1>2. Return \/ \E pc \in AfterMark \cup {"result"} : Goto(pc)
    BY DEF Submit, AfterMark
  <1>3. pool' \subseteq pool \cup {journal.env} /\ pool \subseteq pool'
    BY DEF Submit
  <1> QED BY <1>1, <1>2, <1>3, AdvanceKeeps DEF Submit

\* The outcome is recorded, or asked for again.
LEMMA AwaitKeeps == ASSUME CoreInv, Await PROVE CoreInv'
  <1>1. run # None /\ run.pc \in AfterMark /\ journal # None
    BY MarkedHasRow DEF Await, At, AfterMark
  <1>2. (Advance("SETTLED") /\ Goto("result")) \/ (Advance("ABANDONED") /\ Return)
    BY DEF Await
  <1> QED BY <1>1, <1>2, AdvanceKeeps DEF Await, ledgerVars

-----------------------------------------------------------------------------
(* The steps of the others, and the whole.                                  *)

\* A step that leaves the run, the row, the flag and the pool alone.
LEMMA OthersKeep ==
  ASSUME CoreInv, UNCHANGED <<chainVars, pool, journal, run>>, file' \in Texts, now' \in Nat,
         ledger' \in Seq(Entries),
         \A i \in DOMAIN ledger' : ledger'[i].env = None \/ ledger'[i].env \in pool
  PROVE  CoreInv'
  <1> USE DEF CoreInv, chainVars
  <1>1. TypeInv'
    BY DecisionStays DEF TypeInv
  <1>2. JournalInv'
    BY DEF JournalInv, PayableAmount, Fits
  <1>3. PaymentInv'
    BY DEF PaymentInv
  <1>4. RunInv'
    <2>1. Registry' = Registry /\ (Agrees(Registry) => Agrees(Registry)') /\ (Passes(decision) => Passes(decision)')
      BY JudgedStays
    <2> QED BY <2>1 DEF RunInv
  <1> QED BY <1>1, <1>2, <1>3, <1>4

\* What a longer ledger says of the pool.
LEMMA LedgerGrows ==
  ASSUME CoreInv, NEW entry \in Entries, ledger' = Append(ledger, entry),
         entry.env = None \/ entry.env \in pool
  PROVE  /\ ledger' \in Seq(Entries)
         /\ \A i \in DOMAIN ledger' : ledger'[i].env = None \/ ledger'[i].env \in pool
  <1>1. ledger \in Seq(Entries) /\ \A i \in DOMAIN ledger : ledger[i].env = None \/ ledger[i].env \in pool
    BY DEF CoreInv, TypeInv, PaymentInv
  <1> QED BY <1>1

\* A ledger closes.
LEMMA CloseLedgerKeeps == ASSUME CoreInv, CloseLedger PROVE CoreInv'
  <1>1. now \in Nat /\ now + 1 \in Nat /\ file \in Texts /\ ledger \in Seq(Entries) /\ pool \subseteq Envelopes
    BY DEF CoreInv, TypeInv
  <1>2. CASE UNCHANGED ledger
    BY <1>1, <1>2, OthersKeep DEF CloseLedger, CoreInv, PaymentInv
  <1>3. CASE ~UNCHANGED ledger
    <2>1. PICK env \in pool, pays \in BOOLEAN :
             ledger' = Append(ledger, [env |-> env, at |-> now + 1, successful |-> pays])
      BY <1>3 DEF CloseLedger
    <2>2. PICK entry : entry = [env |-> env, at |-> now + 1, successful |-> pays]
      OBVIOUS
    <2>3. entry \in Entries /\ entry.env \in pool
      BY <1>1, <2>2 DEF Entries
    <2>4. /\ ledger' \in Seq(Entries)
          /\ \A i \in DOMAIN ledger' : ledger'[i].env = None \/ ledger'[i].env \in pool
      BY <2>1, <2>2, <2>3, LedgerGrows
    <2> QED BY <1>1, <2>4, OthersKeep DEF CloseLedger
  <1> QED BY <1>2, <1>3

\* Another decision is paid.
LEMMA PayAnotherKeeps == ASSUME CoreInv, PayAnother PROVE CoreInv'
  <1>1. now \in Nat /\ now + 1 \in Nat /\ file \in Texts
    BY DEF CoreInv, TypeInv
  <1>2. PICK entry : entry = [env |-> None, at |-> now + 1, successful |-> TRUE]
    OBVIOUS
  <1>3. entry \in Entries /\ entry.env = None
    BY <1>1, <1>2 DEF Entries
  <1>4. /\ ledger' \in Seq(Entries)
        /\ \A i \in DOMAIN ledger' : ledger'[i].env = None \/ ledger'[i].env \in pool
    BY <1>2, <1>3, LedgerGrows DEF PayAnother
  <1> QED BY <1>1, <1>4, OthersKeep DEF PayAnother

\* An edit of the registry, a trustline lost.
LEMMA TroubleKeeps == ASSUME CoreInv, Publish \/ LoseTrustline PROVE CoreInv'
  <1>1. now' = now /\ ledger' = ledger /\ UNCHANGED <<chainVars, pool, journal, run>>
    BY DEF Publish, LoseTrustline, ledgerVars
  <1>2. file' \in Texts /\ now \in Nat /\ ledger \in Seq(Entries)
        /\ \A i \in DOMAIN ledger : ledger[i].env = None \/ ledger[i].env \in pool
    BY DEF CoreInv, TypeInv, PaymentInv, Publish, LoseTrustline, Texts
  <1> QED BY <1>1, <1>2, OthersKeep

\* The owner answers, which only a pending decision lets him: nothing was built on it.
LEMMA AnswerKeeps == ASSUME CoreInv, NEW answer, Answer(answer) PROVE CoreInv'
  <1>1. /\ decision # NotFound /\ decision.verdict = "Pending"
        /\ decision' = [decision EXCEPT !.verdict = answer]
        /\ UNCHANGED <<file, settled, ledgerVars, journal, run>>
    BY DEF Answer
  <1>2. journal = None /\ ~Passes(decision)
    BY <1>1 DEF CoreInv, JournalInv, Passes
  <1>3. settled = 0 /\ pool = {} /\ \A i \in DOMAIN ledger : ledger[i].env = None
    BY <1>2 DEF CoreInv, PaymentInv
  <1>4. DecisionInv'
    <2>1. /\ {"id", "hash", "version", "agent", "service", "asset", "amount", "verdict"} \subseteq DOMAIN decision
          /\ decision.version \in 0..MAX_U32
          /\ MemoHash(decision) \in Memos
      BY <1>1 DEF CoreInv, TypeInv, DecisionInv
    <2>2. /\ DOMAIN decision' = DOMAIN decision /\ decision'.version = decision.version
          /\ decision'.hash = decision.hash /\ decision'.id = decision.id
      BY <1>1, <2>1
    <2>3. MemoHash(decision') = MemoHash(decision)
      BY <2>2 DEF MemoHash, MemoPreimage
    <2> QED BY <2>1, <2>2, <2>3 DEF DecisionInv
  <1>5. TypeInv'
    BY <1>1, <1>4 DEF CoreInv, TypeInv, ledgerVars
  <1>6. RunInv'
    <2>1. run # None => run.pc = "gate" /\ Agrees(Registry)
      BY <1>2 DEF CoreInv, RunInv
    <2>2. Registry' = Registry
      BY <1>1 DEF Registry
    <2> QED BY <1>1, <2>1, <2>2 DEF RunInv, Agrees, BeforeMark, AfterMark
  <1>7. JournalInv' /\ PaymentInv'
    BY <1>1, <1>2, <1>3 DEF JournalInv, PaymentInv, ledgerVars
  <1> QED BY <1>5, <1>6, <1>7 DEF CoreInv

\* Every step keeps it.
LEMMA StepKeepsCore == CoreInv /\ [Next]_vars => CoreInv'
  <1> SUFFICES ASSUME CoreInv, [Next]_vars PROVE CoreInv'
    OBVIOUS
  <1>1. CASE UNCHANGED vars
    <2>1. \A i \in DOMAIN ledger : ledger[i].env = None \/ ledger[i].env \in pool
      BY DEF CoreInv, PaymentInv
    <2> QED BY <1>1, <2>1, OthersKeep DEF vars, chainVars, ledgerVars, CoreInv, TypeInv
  <1>2. CASE \E fresh, dryRun \in BOOLEAN : Start(fresh, dryRun)
    BY <1>2, StartKeeps
  <1>3. CASE Running
    BY <1>3, GateKeeps, ReadJournalKeeps, ExpiryKeeps, PrepareKeeps, MarkKeeps, JournalMarkedKeeps,
       LookupKeeps, SubmitKeeps, AwaitKeeps, ResultKeeps DEF Running
  <1>4. CASE CloseLedger
    BY <1>4, CloseLedgerKeeps
  <1>5. CASE \E verdict \in {"Approved", "Rejected"} : Answer(verdict)
    BY <1>5, AnswerKeeps
  <1>6. CASE Stop \/ Publish \/ LoseTrustline \/ PayAnother
    BY <1>6, StopKeeps, TroubleKeeps, PayAnotherKeeps
  <1> QED BY <1>1, <1>2, <1>3, <1>4, <1>5, <1>6 DEF Next

\* The inductive invariant holds of every behaviour.
THEOREM CoreHolds == Spec => []CoreInv
  BY InitCore, StepKeepsCore, PTL DEF Spec

\* mark_settled is never applied before the journal holds an envelope that carries the
\* decision's amount, asset and memo, within what the rail can carry.
THEOREM SettledPays == Spec => []SettledIsPayable
  <1>1. CoreInv => SettledIsPayable
    BY DEF CoreInv, PaymentInv, JournalInv, Fits, SettledIsPayable, PayableAmount
  <1> QED BY <1>1, CoreHolds, PTL

-----------------------------------------------------------------------------
(* Receipts, payees and the console.                                        *)

\* What the writer writes the validator accepts, if the contract's values are typed.
LEMMA WrittenIsAccepted ==
  ASSUME NEW input, input.contractId \in C, input.source \in G, input.destination \in G,
         input.decision.version \in 0..MAX_U32, input.decision.amount \in 1..MAX_INT64
  PROVE  F!SafeParseReceipt(F!BuildReceipt(input))
  <1> DEFINE doc == F!BuildReceipt(input)
  <1>1. input.contractId \notin G
    BY AddressAssumption
  <1>2. input.decision.amount > 0
    BY BoundsAssumption
  <1>3. F!ReceiptNetwork(doc.network)
    BY <1>1 DEF F!BuildReceipt, F!ReceiptNetwork, F!NonEmptyString, F!Strkey, F!Url, F!Str, F!ToStrkey, F!Json
  <1>4. F!ReceiptChain(doc.chain)
    <2>1. F!Address(F!ToStrkey(input.decision.agent))
      BY DEF F!Address, F!ToStrkey, F!Strkey, F!Str, F!Json
    <2>2. F!Stroops(F!Str("digits", input.decision.amount))
      BY <1>2 DEF F!Stroops, F!Str, F!Json
    <2>3. F!U32(F!Json("number", "", input.decision.version))
      BY DEF F!U32, F!Json
    <2>4. \A is : F!Hex(F!ToHex(32, is), 32)
      BY DEF F!Hex, F!ToHex, F!Json
    <2>5. \A is : F!NonEmptyString(F!Str("text", is)) /\ F!Strkey(F!Str("C", is), "C")
      BY DEF F!NonEmptyString, F!Strkey, F!Str, F!Json
    <2>6. doc.chain = F!ChainBlock(input.decision)
      BY DEF F!BuildReceipt
    <2>7. PICK d, block : d = input.decision /\ block = F!ChainBlock(d)
      OBVIOUS
    <2>8. /\ DOMAIN block = {"decision_id", "intent_hash", "policy_version", "agent", "service_id",
                             "asset", "amount"}
          /\ block.decision_id = F!ToHex(32, d.id) /\ block.intent_hash = F!ToHex(32, d.hash)
          /\ block.policy_version = F!Json("number", "", d.version)
          /\ block.agent = F!ToStrkey(d.agent) /\ block.service_id = F!Str("text", d.service)
          /\ block.asset = F!Str("C", d.asset) /\ block.amount = F!Str("digits", d.amount)
      <3> HIDE DEF doc
      <3> QED BY <2>7 DEF F!ChainBlock
    <2>9. F!ReceiptChain(block)
      <3>1. F!Hex(block.decision_id, 32) /\ F!Hex(block.intent_hash, 32)
        BY <2>4, <2>8, Zenon
      <3>2. F!U32(block.policy_version) /\ F!Address(block.agent) /\ F!Stroops(block.amount)
        BY <2>1, <2>2, <2>3, <2>7, <2>8, Zenon
      <3>3. F!NonEmptyString(block.service_id) /\ F!Strkey(block.asset, "C")
        BY <2>5, <2>8, Zenon
      <3> QED BY <2>8, <3>1, <3>2, <3>3, Zenon DEF F!ReceiptChain
    <2> QED BY <2>6, <2>7, <2>9, Zenon
  <1>5. F!ReceiptSettlement(doc.settlement)
    <2>1. \A is : F!Hex(F!ToHex(32, is), 32) /\ F!Hex(F!ToHex(68, is), 68)
      BY DEF F!Hex, F!ToHex, F!Json
    <2>2. F!Strkey(F!ToStrkey(input.source), "G") /\ F!Strkey(F!ToStrkey(input.destination), "G")
      BY DEF F!ToStrkey, F!Strkey, F!Str, F!Json
    <2>3. F!CodeIssuer(F!Str("code:issuer", input.asset))
      BY DEF F!CodeIssuer, F!NonEmptyString, F!Str, F!Json
    <2> QED BY <2>1, <2>2, <2>3 DEF F!ReceiptSettlement, F!BuildReceipt
  <1>6. DOMAIN doc = {"version", "network", "chain", "settlement", "issued_at"}
        /\ doc.version = F!RECEIPT_VERSION /\ doc.issued_at.kind = "string"
    BY DEF F!BuildReceipt, F!Str, F!Json
  <1> QED BY <1>3, <1>4, <1>5, <1>6 DEF F!SafeParseReceipt

\* What a run past the gate puts on a receipt.
LEMMA ReceiptIsGood ==
  ASSUME CoreInv, run # None, run.pc # "gate" PROVE F!SafeParseReceipt(Receipt)
  <1>1. run \in Runs /\ Agrees(Registry) /\ Passes(decision) /\ DecisionInv
    BY DEF CoreInv, TypeInv, RunInv
  <1>2. /\ decision.version \in 0..MAX_U32 /\ decision.amount \in 1..MAX_INT64
        /\ Config.account \in G /\ Config.contractId \in C /\ Payee \in G
    BY <1>1, PayerAndPayee DEF DecisionInv, Passes, PayableAmount
  <1>3. PICK input : input = ReceiptInputs
    OBVIOUS
  <1>4. /\ input.contractId = Config.contractId /\ input.source = Config.account
        /\ input.destination = Payee /\ input.decision = decision
    BY <1>3 DEF ReceiptInputs
  <1>5. F!SafeParseReceipt(F!BuildReceipt(input))
    BY <1>2, <1>4, WrittenIsAccepted
  <1> QED BY <1>3, <1>5 DEF Receipt

\* A payment that was made never ends in a receipt the shared validator refuses.
THEOREM ReceiptsPass == Spec => []ReceiptIsAccepted
  <1>1. CoreInv => ReceiptIsAccepted
    BY ReceiptIsGood DEF ReceiptIsAccepted, At
  <1> QED BY <1>1, CoreHolds, PTL

\* What the executor's edition says of an active service, a gateway whose edition says the
\* same of it, and lists it once, shows.
LEMMA GatewayShowsPayee ==
  ASSUME NEW f \in Texts, NEW g, NEW s, NEW contractId,
         R!ExecutorAccepts(g), s \in DOMAIN R!ExecutorDestinations(g),
         R!GatewayAccepts(f, contractId), ListsEachOnce(f), EntriesFor(f, s) = EntriesFor(g, s)
  PROVE  R!LoadGateway(f, contractId)[s] = [destination |-> R!ExecutorDestinations(g)[s], active |-> TRUE]
  <1> DEFINE ids == [i \in DOMAIN f.services |-> f.services[i].service_id]
             paid == ActiveEntry(g, s)
  <1>1. /\ paid \in DOMAIN g.services /\ g.services[paid].active = TRUE
        /\ g.services[paid].service_id = s
        /\ g.services[paid].destination = R!ExecutorDestinations(g)[s]
    BY ONLY R!ExecutorAccepts(g), s \in DOMAIN R!ExecutorDestinations(g), PayeeIsListed, ZenonT(60)
  <1>2. PICK at \in DOMAIN f.services : ids[at] = s /\ f.services[at] = g.services[paid]
    <2>1. g.services[paid] \in EntriesFor(g, s)
      BY <1>1 DEF EntriesFor, Ids
    <2> QED BY <2>1 DEF EntriesFor, Ids
  <1>3. DOMAIN f.services \subseteq Int
    BY FileAssumption DEF R!GatewayAccepts, Texts
  <1>4. \A j \in DOMAIN ids : ids[j] = s => j = at
    BY <1>2 DEF ListsEachOnce, Ids
  <1>5. R!LastOf(ids, s) = at
    <2>1. at \in DOMAIN ids /\ ids[at] = s /\ \A j \in DOMAIN ids : ids[j] = s => j <= at
      BY <1>2, <1>3, <1>4
    <2>2. \A i \in DOMAIN ids : ids[i] = s /\ (\A j \in DOMAIN ids : ids[j] = s => j <= i) => i = at
      BY <1>4
    <2>3. PICK list : list = ids
      OBVIOUS
    <2> HIDE DEF ids
    <2>4. R!LastOf(list, s) = at
      BY <2>1, <2>2, <2>3 DEF R!LastOf
    <2> QED BY <2>3, <2>4
  <1>6. s \in {ids[i] : i \in DOMAIN ids}
    BY <1>2
  <1>7. R!LoadGateway(f, contractId)
          = [x \in {ids[i] : i \in DOMAIN ids} |->
               [destination |-> f.services[R!LastOf(ids, x)].destination,
                active |-> f.services[R!LastOf(ids, x)].active]]
    BY DEF R!LoadGateway
  <1>8. R!LoadGateway(f, contractId)[s]
          = [destination |-> f.services[at].destination, active |-> f.services[at].active]
    <2> HIDE DEF ids
    <2> QED BY <1>5, <1>6, <1>7
  <1> QED
    <2> HIDE DEF paid
    <2> QED BY <1>1, <1>2, <1>8

\* Whom a run is about to mark for payment is whom a gateway shows as the service's active
\* destination, if its edition of the file lists each service once and says the same of this
\* one as the executor's.
THEOREM PayeeIsShown == Spec => []ShownIsPaid
  <1>1. ASSUME CoreInv PROVE ShownIsPaid
    <2> DEFINE shown(f) == R!LoadGateway(f, Config.contractId)
    <2> SUFFICES ASSUME At("mark"), NEW f \in Texts, shown(f) # Refused, ListsEachOnce(f),
                        EntriesFor(f, decision.service) = EntriesFor(run.file, decision.service)
                 PROVE  shown(f)[decision.service] = [destination |-> Payee, active |-> TRUE]
      BY DEF ShownIsPaid, Texts
    <2>1. run \in Runs /\ Agrees(Registry) /\ Passes(decision)
      BY <1>1 DEF CoreInv, TypeInv, RunInv, At
    <2>2. Registry = Loaded(run.file) /\ Loaded(run.file) # Refused /\ run.file \in Texts
      BY <2>1 DEF Registry, Loaded, Agrees, Runs
    <2>3. R!ExecutorAccepts(run.file) /\ Registry.destinations = R!ExecutorDestinations(run.file)
      BY <2>2, LoadedValues
    <2>4. decision.service \in DOMAIN R!ExecutorDestinations(run.file)
          /\ Payee = R!ExecutorDestinations(run.file)[decision.service]
      BY <2>1, <2>3 DEF Passes, Payee
    <2>5. R!GatewayAccepts(f, Config.contractId)
      BY DEF R!LoadGateway
    <2> QED BY <2>3, <2>4, <2>5, GatewayShowsPayee
  <1> QED BY <1>1, CoreHolds, PTL

\* Every payment of this decision on the ledger is the row's, and was sent when settled.
LEMMA LedgerHoldsTheRow ==
  ASSUME CoreInv, NEW i \in DOMAIN ledger, ledger[i].env # None
  PROVE  /\ settled # 0 /\ ledger[i].env = journal.env /\ ledger[i].env \in pool
         /\ ledger[i].env \in Envelopes /\ Fits(ledger[i].env)
  BY DEF CoreInv, TypeInv, PaymentInv, JournalInv

\* A history of fewer transactions than the search reads is read to its end.
LEMMA ShortHistoryIsRead ==
  ASSUME NEW txs, IsFiniteSet(txs), Cardinality(txs) < SearchLimit PROVE Newest(txs) = txs
  <1>1. ASSUME NEW i \in txs PROVE Cardinality({j \in txs : j > i}) < SearchLimit
    <2> DEFINE later == {j \in txs : j > i}
    <2>1. later \subseteq txs
      OBVIOUS
    <2>2. Cardinality(later) <= Cardinality(txs) /\ IsFiniteSet(later)
      BY <2>1, FS_Subset
    <2>3. Cardinality(later) \in Nat /\ Cardinality(txs) \in Nat
      BY <2>2, FS_CardinalityType
    <2> HIDE DEF later
    <2>4. Cardinality(later) < SearchLimit
      BY <2>2, <2>3, BoundsAssumption
    <2> QED BY <2>4 DEF later
  <1> QED BY <1>1 DEF Newest

\* The histories are finite.
LEMMA HistoriesAreFinite == ASSUME CoreInv, NEW a PROVE IsFiniteSet(History(a))
  <1>1. ledger \in Seq(Entries)
    BY DEF CoreInv, TypeInv
  <1>2. DOMAIN ledger = 1..Len(ledger) /\ Len(ledger) \in Nat
    BY <1>1
  <1>3. IsFiniteSet(DOMAIN ledger)
    BY <1>2, FS_Interval
  <1>4. History(a) \subseteq DOMAIN ledger
    BY DEF History
  <1> QED BY <1>3, <1>4, FS_Subset

\* The payments with a memo among the transactions the search reads.
Hits(memo, accounts) ==
    {ledger[i].env : i \in {j \in UNION {Newest(History(a)) : a \in accounts} :
                               ledger[j].env # None /\ ledger[j].env.memo = memo}}

\* What the search answers says of them.
LEMMA SearchAnswers ==
  ASSUME NEW memo, NEW accounts, NEW lost, NEW scan, scan = FindSettlement(memo, accounts, lost)
  PROVE  /\ scan.status \in {"unconfigured", "unavailable", "found", "not-found"}
         /\ scan.status = "found" =>
              /\ Hits(memo, accounts) # {}
              /\ scan.matches = {[hash |-> e, payment |-> PaymentOf(e, lost)] : e \in Hits(memo, accounts)}
         /\ scan.status = "not-found" =>
              /\ Hits(memo, accounts) = {}
              /\ scan.exhaustive => \A a \in accounts : Cardinality(History(a)) < SearchLimit
  <1> DEFINE found == Hits(memo, accounts)
             matches == {[hash |-> e, payment |-> PaymentOf(e, lost)] : e \in found}
             whole == \A a \in accounts : Cardinality(History(a)) < SearchLimit
  <1>1. scan = CASE accounts = {} -> [status |-> "unconfigured"]
                 [] accounts # {} /\ lost = "search" -> [status |-> "unavailable"]
                 [] OTHER -> IF found # {} THEN [status |-> "found", matches |-> matches]
                             ELSE [status |-> "not-found", exhaustive |-> whole]
    BY DEF FindSettlement, Hits
  <1> HIDE DEF found, matches, whole
  <1>2. \/ scan = [status |-> "unconfigured"]
        \/ scan = [status |-> "unavailable"]
        \/ found # {} /\ scan = [status |-> "found", matches |-> matches]
        \/ found = {} /\ scan = [status |-> "not-found", exhaustive |-> whole]
    BY <1>1
  <1>3. /\ scan.status \in {"unconfigured", "unavailable", "found", "not-found"}
        /\ scan.status = "found" => found # {} /\ scan.matches = matches
        /\ scan.status = "not-found" => found = {} /\ (scan.exhaustive => whole)
    BY <1>2
  <1> QED BY <1>3 DEF found, matches, whole

\* What is found is the row's payment.
LEMMA HitsAreTheRow ==
  ASSUME CoreInv, NEW accounts, NEW e \in Hits(MemoHash(decision), accounts)
  PROVE  /\ settled # 0 /\ e = journal.env /\ e \in pool /\ Paid(e) /\ e.memo = MemoHash(decision)
         /\ e.amount = decision.amount
  <1>1. PICK i \in UNION {Newest(History(a)) : a \in accounts} :
           e = ledger[i].env /\ e # None /\ e.memo = MemoHash(decision)
    BY DEF Hits
  <1>2. i \in DOMAIN ledger /\ ledger[i].successful
    BY <1>1 DEF Newest, History
  <1>3. settled # 0 /\ e = journal.env /\ e \in pool /\ Fits(e)
    BY <1>1, <1>2, LedgerHoldsTheRow
  <1>4. Paid(e)
    BY <1>1, <1>2 DEF Paid, OnLedger
  <1> QED BY <1>1, <1>3, <1>4 DEF Fits

\* A payment in a history that was read to its end is found.
LEMMA PaidIsHit ==
  ASSUME CoreInv, NEW accounts, \A a \in accounts : Cardinality(History(a)) < SearchLimit,
         NEW e \in pool, Paid(e), e.memo = MemoHash(decision), NEW a \in {e.from, e.to}, a \in accounts
  PROVE  e \in Hits(MemoHash(decision), accounts)
  <1>1. PICK i \in DOMAIN ledger : ledger[i].env = e /\ ledger[i].successful
    BY DEF Paid, OnLedger
  <1>2. e \in Envelopes /\ e # None
    BY AbsentAssumption DEF CoreInv, TypeInv
  <1>3. Fits(e)
    BY <1>1, <1>2, LedgerHoldsTheRow
  <1>4. i \in History(a)
    BY <1>1, <1>2, <1>3 DEF History, Fits
  <1>5. Newest(History(a)) = History(a)
    BY HistoriesAreFinite, ShortHistoryIsRead
  <1>6. i \in UNION {Newest(History(x)) : x \in accounts}
    BY <1>4, <1>5
  <1> QED BY <1>1, <1>2, <1>6 DEF Hits

\* The payments made for this decision, and what a card may say of them.
PaidFor == {e \in pool : Paid(e) /\ e.memo = MemoHash(decision)}
TellsTruth(card, accounts) ==
    CASE card.says = "found" ->
            /\ settled # 0 /\ Cardinality(card.matches) = 1
            /\ \A m \in card.matches :
                  /\ m.hash = journal.env /\ m.hash \in PaidFor
                  /\ m.payment # None => m.payment.amount = decision.amount
      [] card.says = "none, as not settled" -> PaidFor = {}
      [] card.says = "settled, no transaction found" ->
            card.provesAbsence => \A e \in PaidFor : {e.from, e.to} \cap accounts = {}
      [] OTHER -> TRUE

\* What the console says of the payment is true, whichever accounts it searches and whatever
\* it cannot read.
THEOREM CardTells == Spec => []CardIsTrue
  <1>1. ASSUME CoreInv PROVE CardIsTrue
    <2>1. ASSUME NEW accounts \in SearchedSets, NEW lost \in {"nothing", "operations", "search"},
                 NEW scan, scan = FindSettlement(MemoHash(decision), accounts, lost),
                 NEW card, card = SettlementSearch(scan, settled # 0)
          PROVE  TellsTruth(card, accounts)
      <3> DEFINE found == Hits(MemoHash(decision), accounts)
      <3>1. scan.status \in {"unconfigured", "unavailable", "found", "not-found"}
        BY <2>1, SearchAnswers, Zenon
      <3>2. (settled # 0) \in BOOLEAN
        OBVIOUS
      <3>3. PICK isSettled \in BOOLEAN : isSettled = (settled # 0)
        BY <3>2, Zenon
      <3>4. card = SettlementSearch(scan, isSettled)
        BY <2>1, <3>3, Zenon
      <3>5. ASSUME card.says = "found"
            PROVE  /\ found # {}
                   /\ card.matches = {[hash |-> e, payment |-> PaymentOf(e, lost)] : e \in found}
        <4>1. scan.status = "found" /\ card.matches = scan.matches
          BY <3>1, <3>4, <3>5 DEF SettlementSearch
        <4> QED BY <2>1, <4>1, SearchAnswers, Zenon
      <3>6. ASSUME card.says = "none, as not settled" PROVE settled = 0
        <4>1. ~isSettled
          BY <3>1, <3>4, <3>6 DEF SettlementSearch
        <4> QED BY <3>3, <4>1
      <3>7. ASSUME card.says = "settled, no transaction found", card.provesAbsence
            PROVE  found = {} /\ \A a \in accounts : Cardinality(History(a)) < SearchLimit
        <4>1. scan.status = "not-found" /\ card.provesAbsence = scan.exhaustive
          BY <3>1, <3>4, <3>7 DEF SettlementSearch
        <4>2. scan.exhaustive
          BY <3>7, <4>1
        <4> QED BY <2>1, <4>1, <4>2, SearchAnswers, Zenon
      <3>8. CASE card.says = "found"
        <4>1. found # {} /\ \A e \in found : e = journal.env
          BY <1>1, <3>5, <3>8, HitsAreTheRow
        <4>2. journal.env \in found /\ found = {journal.env}
          BY <4>1
        <4>3. card.matches = {[hash |-> journal.env, payment |-> PaymentOf(journal.env, lost)]}
          BY <3>5, <3>8, <4>2
        <4>4. Cardinality(card.matches) = 1
          BY <4>3, FS_Singleton
        <4>5. settled # 0 /\ journal.env \in PaidFor /\ journal.env.amount = decision.amount
          BY <1>1, <4>2, HitsAreTheRow DEF PaidFor
        <4>6. PaymentOf(journal.env, lost) # None => PaymentOf(journal.env, lost).amount = decision.amount
          BY <4>5 DEF PaymentOf
        <4>7. \A m \in card.matches : m.hash = journal.env /\ m.payment = PaymentOf(journal.env, lost)
          BY <4>3
        <4> HIDE DEF found
        <4> QED BY <3>8, <4>4, <4>5, <4>6, <4>7 DEF TellsTruth
      <3>9. CASE card.says = "none, as not settled"
        <4>1. PaidFor = {}
          BY <1>1, <3>6, <3>9 DEF CoreInv, PaymentInv, PaidFor
        <4> QED BY <3>9, <4>1 DEF TellsTruth
      <3>10. CASE card.says = "settled, no transaction found"
        <4>1. ASSUME card.provesAbsence, NEW e \in PaidFor, NEW a \in {e.from, e.to} \cap accounts PROVE FALSE
          <5>1. found = {} /\ \A x \in accounts : Cardinality(History(x)) < SearchLimit
            BY <3>7, <3>10, <4>1
          <5>2. e \in found
            BY <1>1, <4>1, <5>1, PaidIsHit DEF PaidFor
          <5> QED BY <5>1, <5>2
        <4> HIDE DEF found
        <4> QED BY <3>10, <4>1 DEF TellsTruth
      <3> HIDE DEF found
      <3> QED BY <3>8, <3>9, <3>10 DEF TellsTruth
    <2>2. \A accounts \in SearchedSets, lost \in {"nothing", "operations", "search"} :
             TellsTruth(SettlementSearch(FindSettlement(MemoHash(decision), accounts, lost), settled # 0), accounts)
      BY <2>1, Zenon
    <2> QED BY <2>2 DEF CardIsTrue, TellsTruth, PaidFor
  <1> QED BY <1>1, CoreHolds, PTL

-----------------------------------------------------------------------------
(* The verifier on a receipt: what the ledger and the receipts say.         *)

\* A decision is one of those the contract may hold, but for the owner's answer.
OriginInv ==
    decision # NotFound =>
        \E d \in DecisionRecords \ {NotFound} :
            /\ DOMAIN decision = DOMAIN d
            /\ \A f \in DOMAIN d \ {"verdict"} : decision[f] = d[f]

\* A payment stands at its sequence number, and no earlier than the settlement.
LedgerInv ==
    /\ settled <= now
    /\ \A i \in DOMAIN ledger : ledger[i].env # None => ledger[i].env.sequence = i /\ settled <= ledger[i].at

\* What the verifier reads in a receipt is the decision, and the bytes the row held.
Describes(doc, env) ==
    /\ doc.settlement.tx_hash.is = env
    /\ ReadBack(doc) =
         [tx |-> env, memo |-> MemoHash(decision), preimage |-> MemoPreimage(decision),
          id |-> decision.id, hash |-> decision.hash, version |-> decision.version,
          agent |-> decision.agent, service |-> decision.service, asset |-> decision.asset,
          amount |-> decision.amount, contract |-> Config.contractId, network |-> Config.passphrase]

ReceiptsInv ==
    \A doc \in receipts :
        /\ decision # NotFound /\ decision.verdict = "Approved"
        /\ LET env == doc.settlement.tx_hash.is
           IN  env \in Envelopes /\ Describes(doc, env) /\ Fits(env)

TruthInv == OriginInv /\ LedgerInv /\ ReceiptsInv

\* It holds at first.
LEMMA InitTruth == Init => TruthInv
  <1> SUFFICES ASSUME Init PROVE TruthInv
    OBVIOUS
  <1>1. OriginInv
    BY DEF Init, OriginInv
  <1>2. LedgerInv /\ ReceiptsInv
    BY DEF Init, LedgerInv, ReceiptsInv
  <1> QED BY <1>1, <1>2 DEF TruthInv

\* The decision changes by an answer only.
LEMMA DecisionMoves ==
  ASSUME [Next]_vars
  PROVE  decision' = decision \/ \E answer \in {"Approved", "Rejected"} : Answer(answer)
  BY DEF Next, vars, chainVars, Start, Running, Gate, ReadJournal, Expiry, Prepare, Mark,
         JournalMarked, Lookup, Submit, Await, Result, CloseLedger, Stop, Publish, LoseTrustline, PayAnother

\* An answer changes the verdict.
LEMMA OriginStays == ASSUME OriginInv, [Next]_vars PROVE OriginInv'
  <1>1. CASE decision' = decision
    BY <1>1 DEF OriginInv
  <1>2. ASSUME NEW answer, Answer(answer) PROVE OriginInv'
    <2>1. decision # NotFound /\ decision' = [decision EXCEPT !.verdict = answer]
      BY <1>2 DEF Answer
    <2>2. PICK d \in DecisionRecords \ {NotFound} :
             DOMAIN decision = DOMAIN d /\ \A f \in DOMAIN d \ {"verdict"} : decision[f] = d[f]
      BY <2>1 DEF OriginInv
    <2>3. DOMAIN decision' = DOMAIN d /\ \A f \in DOMAIN d \ {"verdict"} : decision'[f] = d[f]
      BY <2>1, <2>2
    <2> QED BY <2>3 DEF OriginInv
  <1> QED BY <1>1, <1>2, DecisionMoves

\* What a step may do to the flag, the time and the ledger.
LEMMA LedgerMoves ==
  ASSUME CoreInv, [Next]_vars
  PROVE  \/ UNCHANGED <<settled, now, ledger>>
         \/ settled = 0 /\ settled' \in {0, now + 1} /\ now' \in {now, now + 1} /\ ledger' = ledger
            /\ (settled' = now + 1 => now' = now + 1)
         \/ settled' = settled /\ now' = now + 1
            /\ (ledger' = ledger \/ \E env \in pool \cup {None}, pays \in BOOLEAN :
                    /\ env # None => Includable(env)
                    /\ ledger' = Append(ledger, [env |-> env, at |-> now + 1, successful |-> pays]))
  <1>1. CASE UNCHANGED vars
    BY <1>1 DEF vars, chainVars, ledgerVars
  <1>2. CASE Mark
    BY <1>2 DEF Mark
  <1>3. CASE CloseLedger
    BY <1>3 DEF CloseLedger, chainVars
  <1>4. CASE PayAnother
    BY <1>4 DEF PayAnother, chainVars
  <1>5. CASE \/ \E fresh, dryRun \in BOOLEAN : Start(fresh, dryRun)
             \/ \E verdict \in {"Approved", "Rejected"} : Answer(verdict)
             \/ Stop \/ Publish \/ LoseTrustline
    BY <1>5 DEF Start, Answer, Stop, Publish, LoseTrustline, chainVars, ledgerVars
  <1>6. CASE Gate \/ ReadJournal \/ Expiry \/ Prepare \/ JournalMarked \/ Lookup \/ Submit \/ Await \/ Result
    BY <1>6 DEF Gate, ReadJournal, Expiry, Prepare, JournalMarked, Lookup, Submit, Await, Result,
                chainVars, ledgerVars
  <1> QED BY <1>1, <1>2, <1>3, <1>4, <1>5, <1>6 DEF Next, Running

\* A payment enters the ledger at its sequence number, after the settlement.
LEMMA LedgerStays == ASSUME CoreInv, LedgerInv, [Next]_vars PROVE LedgerInv'
  <1>1. /\ settled \in Nat /\ now \in Nat /\ settled <= now /\ ledger \in Seq(Entries)
        /\ pool \subseteq Envelopes /\ None \notin pool
    BY AbsentAssumption DEF CoreInv, TypeInv, LedgerInv
  <1>2. CASE UNCHANGED <<settled, now, ledger>>
    BY <1>2 DEF LedgerInv
  <1>3. CASE settled = 0 /\ settled' \in {0, now + 1} /\ now' \in {now, now + 1} /\ ledger' = ledger
            /\ (settled' = now + 1 => now' = now + 1)
    <2>1. \A i \in DOMAIN ledger : ledger[i].env = None
      BY <1>3 DEF CoreInv, PaymentInv
    <2>2. settled' <= now'
      BY <1>1, <1>3
    <2> QED BY <1>3, <2>1, <2>2 DEF LedgerInv
  <1>4. CASE settled' = settled /\ now' = now + 1 /\ ledger' = ledger
    BY <1>1, <1>4 DEF LedgerInv
  <1>5. ASSUME settled' = settled, now' = now + 1, NEW env \in pool \cup {None}, NEW pays \in BOOLEAN,
               env # None => Includable(env),
               ledger' = Append(ledger, [env |-> env, at |-> now + 1, successful |-> pays])
        PROVE  LedgerInv'
    <2>1. PICK entry : entry = [env |-> env, at |-> now + 1, successful |-> pays]
      OBVIOUS
    <2>2. entry.env = env /\ entry.at = now + 1
      BY <2>1
    <2>3. Len(ledger) \in Nat /\ DOMAIN ledger' = 1..Len(ledger) + 1
          /\ ledger'[Len(ledger) + 1] = entry
          /\ \A i \in DOMAIN ledger' : i # Len(ledger) + 1 => i \in DOMAIN ledger /\ ledger'[i] = ledger[i]
      BY <1>1, <1>5, <2>1
    <2>4. env # None => env.sequence = Len(ledger) + 1
      BY <1>5 DEF Includable, Sequence
    <2>5. settled' <= now' /\ settled' <= now + 1
      BY <1>1, <1>5
    <2>6. ASSUME NEW i \in DOMAIN ledger', ledger'[i].env # None
          PROVE  ledger'[i].env.sequence = i /\ settled' <= ledger'[i].at
      <3>1. CASE i = Len(ledger) + 1
        BY <2>2, <2>3, <2>4, <2>5, <2>6, <3>1
      <3>2. CASE i # Len(ledger) + 1
        BY <1>5, <2>3, <2>6, <3>2 DEF LedgerInv
      <3> QED BY <3>1, <3>2
    <2> QED BY <2>5, <2>6 DEF LedgerInv
  <1> QED BY <1>2, <1>3, <1>4, <1>5, LedgerMoves

\* What the writer wrote the verifier reads.
LEMMA WrittenIsRead ==
  ASSUME CoreInv, At("result")
  PROVE  /\ decision # NotFound /\ decision.verdict = "Approved"
         /\ LET env == Receipt.settlement.tx_hash.is
            IN  env \in Envelopes /\ Describes(Receipt, env) /\ Fits(env)
  <1>1. journal # None /\ journal \in Rows
    BY DEF At, CoreInv, RunInv, TypeInv
  <1>2. PICK env \in Envelopes : env = journal.env
    BY <1>1 DEF Rows
  <1>3. decision # NotFound /\ decision.verdict = "Approved" /\ Fits(env)
    BY <1>1, <1>2 DEF CoreInv, JournalInv
  <1>4. Describes(Receipt, env)
    BY <1>2 DEF Describes, ReadBack, Receipt, ReceiptInputs, F!BuildReceipt, F!ChainBlock, F!ToHex,
                F!Str, F!ToStrkey, F!Json
  <1>5. Receipt.settlement.tx_hash.is = env
    BY <1>4 DEF Describes
  <1> QED BY <1>3, <1>4, <1>5

\* A receipt is written at the end of a run, and its decision is not answered any more.
LEMMA ReceiptsStay == ASSUME CoreInv, ReceiptsInv, [Next]_vars PROVE ReceiptsInv'
  <1>1. ASSUME decision' = decision, NEW doc \in receipts'
        PROVE  /\ decision' # NotFound /\ decision'.verdict = "Approved"
               /\ LET env == doc.settlement.tx_hash.is
                  IN  env \in Envelopes /\ Describes(doc, env)' /\ Fits(env)'
    <2>1. /\ decision # NotFound /\ decision.verdict = "Approved"
          /\ LET env == doc.settlement.tx_hash.is
             IN  env \in Envelopes /\ Describes(doc, env) /\ Fits(env)
      <3>1. CASE doc \in receipts
        BY <3>1 DEF ReceiptsInv
      <3>2. CASE doc \notin receipts
        <4>1. Result
          BY <1>1, <3>2 DEF Next, vars, Start, Running, Gate, ReadJournal, Expiry, Prepare, Mark,
             JournalMarked, Lookup, Submit, Await, CloseLedger, Answer, Stop, Publish, LoseTrustline, PayAnother
        <4>2. At("result") /\ doc = Receipt
          BY <1>1, <3>2, <4>1 DEF Result
        <4> QED BY <4>2, WrittenIsRead
      <3> QED BY <3>1, <3>2
    <2>2. PICK env \in Envelopes : env = doc.settlement.tx_hash.is /\ Describes(doc, env) /\ Fits(env)
      BY <2>1
    <2>3. Describes(doc, env)' /\ Fits(env)'
      BY <1>1, <2>2 DEF Describes, Fits
    <2> QED BY <1>1, <2>1, <2>2, <2>3
  <1>2. ASSUME NEW answer, Answer(answer) PROVE ReceiptsInv'
    BY <1>2 DEF Answer, ReceiptsInv
  <1>3. CASE decision' = decision
    BY <1>1, <1>3 DEF ReceiptsInv
  <1> QED BY <1>2, <1>3, DecisionMoves

\* The second invariant holds of every behaviour.
LEMMA TruthHolds == Spec => []TruthInv
  <1>1. CoreInv /\ TruthInv /\ [Next]_vars => TruthInv'
    BY OriginStays, LedgerStays, ReceiptsStay DEF TruthInv
  <1> QED BY <1>1, InitTruth, CoreHolds, PTL DEF Spec

\* A file that publishes an envelope is one the verifier takes, with the same payee.
LEMMA VerifierReadsPayee ==
  ASSUME NEW f \in Texts, NEW s, R!ExecutorAccepts(f), s \in DOMAIN R!ExecutorDestinations(f),
         ListsEachOnce(f), \A i \in DOMAIN f.services : f.services[i].id \in {Missing, f.services[i].service_id}
  PROVE  /\ R!VerifierAccepts(f)
         /\ s \in DOMAIN R!LoadVerifier(f).destinations
         /\ R!LoadVerifier(f).destinations[s] = R!ExecutorDestinations(f)[s]
         /\ R!LoadVerifier(f).contractId = f.contract_id /\ R!LoadVerifier(f).account = f.executor
  <1> DEFINE ids == [i \in DOMAIN f.services |-> f.services[i].service_id]
             at == ActiveEntry(f, s)
  <1>1. /\ at \in DOMAIN f.services /\ f.services[at].service_id = s
        /\ f.services[at].destination = R!ExecutorDestinations(f)[s]
    BY ONLY R!ExecutorAccepts(f), s \in DOMAIN R!ExecutorDestinations(f), PayeeIsListed, ZenonT(60)
  <1>2. DOMAIN f.services \subseteq Int
    BY FileAssumption DEF R!ExecutorAccepts, Texts
  <1>3. R!VerifierIds(f) = ids
    BY DEF R!VerifierIds
  <1>4. Missing \notin G
    BY MarkerAssumption
  <1>5. \A i \in DOMAIN f.services :
           R!Text(ids[i]) /\ R!DestinationOf(f.services[i]) = f.services[i].destination
           /\ f.services[i].destination \in G
    BY <1>4 DEF R!ExecutorAccepts, R!DestinationOf
  <1>6. R!VerifierAccepts(f)
    BY <1>3, <1>5 DEF R!VerifierAccepts, R!ExecutorAccepts
  <1>7. \A j \in DOMAIN ids : ids[j] = s => j = at
    BY <1>1 DEF ListsEachOnce, Ids
  <1>8. R!LastOf(ids, s) = at
    <2>1. at \in DOMAIN ids /\ ids[at] = s /\ \A j \in DOMAIN ids : ids[j] = s => j <= at
      BY <1>1, <1>2, <1>7
    <2>2. \A i \in DOMAIN ids : ids[i] = s /\ (\A j \in DOMAIN ids : ids[j] = s => j <= i) => i = at
      BY <1>7
    <2>3. PICK list, place : list = ids /\ place = at
      OBVIOUS
    <2> HIDE DEF ids, at
    <2>4. R!LastOf(list, s) = place
      BY <2>1, <2>2, <2>3 DEF R!LastOf
    <2> QED BY <2>3, <2>4
  <1>9. PICK list : list = ids
    OBVIOUS
  <1>10. /\ R!LoadVerifier(f).contractId = f.contract_id /\ R!LoadVerifier(f).account = f.executor
         /\ R!LoadVerifier(f).destinations =
              [x \in {list[i] : i \in DOMAIN list} |-> R!DestinationOf(f.services[R!LastOf(list, x)])]
    <2> HIDE DEF ids
    <2> QED BY <1>3, <1>6, <1>9 DEF R!LoadVerifier
  <1>11. s \in {list[i] : i \in DOMAIN list}
    BY <1>1, <1>9
  <1>12. R!LastOf(list, s) = at
    BY <1>8, <1>9
  <1> HIDE DEF ids, at
  <1>13. R!LoadVerifier(f).destinations[s] = R!DestinationOf(f.services[at])
    BY <1>10, <1>11, <1>12
  <1> QED BY <1>1, <1>5, <1>6, <1>10, <1>11, <1>13

\* What the verifier reads in the registry, if the file publishes an envelope.
LEMMA RegistryIsRead ==
  ASSUME CoreInv, NEW env, Publishes(file, env), Fits(env)
  PROVE  /\ RegistryRead = [pin |-> Config.contractId, executor |-> env.from,
                            services |-> [s \in {decision.service} |-> env.to]]
         /\ Config.contractId \in C /\ env.from \in G /\ env.to \in G
  <1>1. PICK f \in Texts : f = file
    BY DEF CoreInv, TypeInv
  <1>2. /\ Loaded(f) # Refused /\ Agrees(Loaded(f)) /\ ListsEachOnce(f)
        /\ \A i \in DOMAIN f.services : f.services[i].id \in {Missing, f.services[i].service_id}
        /\ decision.service \in DOMAIN Loaded(f).destinations
        /\ Loaded(f).destinations[decision.service] = env.to
    BY <1>1 DEF Publishes, Loaded, Agrees
  <1>3. /\ R!ExecutorAccepts(f) /\ Loaded(f).destinations = R!ExecutorDestinations(f)
        /\ f.contract_id = Config.contractId /\ f.executor = Config.account
    BY <1>2, LoadedValues DEF Agrees
  <1>4. PICK s : s = decision.service
    OBVIOUS
  <1>5. s \in DOMAIN R!ExecutorDestinations(f) /\ R!ExecutorDestinations(f)[s] = env.to
    BY <1>2, <1>3, <1>4
  <1>6. /\ R!VerifierAccepts(f)
        /\ s \in DOMAIN R!LoadVerifier(f).destinations
        /\ R!LoadVerifier(f).destinations[s] = env.to
        /\ R!LoadVerifier(f).contractId = Config.contractId /\ R!LoadVerifier(f).account = Config.account
    BY <1>2, <1>3, <1>5, VerifierReadsPayee
  <1>7. f # Missing /\ Config.contractId \in C /\ Config.account \in G
    BY <1>3 DEF R!ExecutorAccepts
  <1>8. R!LoadVerifier(f) # Refused
    BY <1>6, <1>7, FileAssumption DEF Texts
  <1>9. env.to \in G
    BY <1>3, <1>5, PayeeIsListed
  <1>10. PICK r : r = R!LoadVerifier(f)
    OBVIOUS
  <1> DEFINE payees == [x \in {s} |-> IF x \in DOMAIN r.destinations THEN r.destinations[x] ELSE None]
  <1>11. RegistryRead = [pin |-> r.contractId, executor |-> r.account,
                         services |-> payees]
    BY <1>1, <1>4, <1>8, <1>10 DEF RegistryRead
  <1>12. payees = [x \in {s} |-> env.to]
    BY <1>6, <1>10
  <1>13. env.from = Config.account
    BY DEF Fits
  <1> HIDE DEF payees
  <1> QED BY <1>4, <1>6, <1>7, <1>9, <1>10, <1>11, <1>12, <1>13

\* An envelope is on the ledger once, at its sequence number.
LEMMA OnePlace ==
  ASSUME CoreInv, TruthInv, NEW env \in Envelopes, NEW i \in OnLedger(env)
  PROVE  OnLedger(env) = {i} /\ env = journal.env /\ settled # 0 /\ settled <= ledger[i].at
  <1>1. env # None
    BY AbsentAssumption
  <1>2. \A j \in OnLedger(env) : j \in DOMAIN ledger /\ ledger[j].env = env /\ env.sequence = j
    BY <1>1 DEF OnLedger, TruthInv, LedgerInv
  <1>3. OnLedger(env) = {i}
    BY <1>2
  <1>4. settled <= ledger[i].at
    BY <1>1, <1>2 DEF TruthInv, LedgerInv
  <1>5. settled # 0 /\ env = journal.env
    BY <1>1, <1>2, LedgerHoldsTheRow
  <1> QED BY <1>3, <1>4, <1>5

\* What the sources show of an envelope that is on the ledger, and of one that is not.
LEMMA LedgerIsSeen ==
  ASSUME CoreInv, TruthInv, NEW doc, NEW env \in Envelopes, env = doc.settlement.tx_hash.is,
         NEW i \in OnLedger(env)
  PROVE  /\ SeenFrom(doc).tx = [successful |-> ledger[i].successful, memo |-> env.memo,
                                source |-> env.from, count |-> 1, ledger |-> ledger[i].at]
         /\ SeenFrom(doc).ops = <<[type |-> "payment", to |-> env.to, amount |-> env.amount, asset |-> env.code]>>
         /\ ledger[i].successful => SeenFrom(doc).scan = [exhaustive |-> TRUE, hashes |-> {env}]
  <1>1. OnLedger(env) = {i} /\ env = journal.env
    BY OnePlace
  <1>2. (CHOOSE j \in OnLedger(env) : TRUE) = i /\ OnLedger(env) # {}
    BY <1>1
  <1> DEFINE hits == {ledger[j].env : j \in {k \in DOMAIN ledger : /\ ledger[k].env # None /\ ledger[k].successful
                                                                   /\ ledger[k].env.memo = env.memo}}
  <1>3. /\ SeenFrom(doc).tx = [successful |-> ledger[i].successful, memo |-> env.memo,
                               source |-> env.from, count |-> 1, ledger |-> ledger[i].at]
        /\ SeenFrom(doc).ops = <<[type |-> "payment", to |-> env.to, amount |-> env.amount, asset |-> env.code]>>
        /\ SeenFrom(doc).scan = [exhaustive |-> TRUE, hashes |-> hits]
    BY <1>2 DEF SeenFrom
  <1>4. ASSUME ledger[i].successful PROVE hits = {env}
    <2>1. env # None /\ i \in DOMAIN ledger /\ ledger[i].env = env
      BY AbsentAssumption DEF OnLedger
    <2>2. env \in hits
      BY <1>4, <2>1
    <2>3. \A e \in hits : e = env
      BY <1>1, LedgerHoldsTheRow
    <2> HIDE DEF hits
    <2> QED BY <2>2, <2>3
  <1> HIDE DEF hits
  <1> QED BY <1>3, <1>4

\* What no ledger holds, no Horizon shows.
LEMMA AbsenceIsSeen ==
  ASSUME NEW doc, OnLedger(doc.settlement.tx_hash.is) = {} PROVE SeenFrom(doc).tx = NotFound
  BY DEF SeenFrom

\* A check that fails is a verdict, and so are checks that all pass.
LEMMA FailIsFailed ==
  ASSUME NEW doc, NEW s, "fail" \in V(doc, s)!Checks PROVE VerdictOn(doc, s) = "FAILED"
  BY DEF VerdictOn, V!ExitCodeFor, V!VerdictFor, V!Exit

\* Nothing but passes is VERIFIED.
LEMMA PassIsVerified ==
  ASSUME NEW doc, NEW s, V(doc, s)!Checks \subseteq {"pass"} PROVE VerdictOn(doc, s) = "VERIFIED"
  BY DEF VerdictOn, V!ExitCodeFor, V!VerdictFor, V!Exit

\* A receipt whose transaction has not paid fails the first check of the ledger.
LEMMA UnpaidFails ==
  ASSUME CoreInv, TruthInv, NEW doc \in receipts, NEW s \in BOOLEAN, ~Paid(doc.settlement.tx_hash.is)
  PROVE  VerdictOn(doc, s) = "FAILED"
  <1>1. PICK env \in Envelopes : env = doc.settlement.tx_hash.is
    BY DEF TruthInv, ReceiptsInv
  <1>2. V(doc, s)!TransactionSuccessful = "fail"
    <2>1. CASE OnLedger(env) = {}
      <3>1. SeenFrom(doc).tx = NotFound
        BY <1>1, <2>1, AbsenceIsSeen
      <3> QED BY <3>1 DEF V!TransactionSuccessful
    <2>2. CASE OnLedger(env) # {}
      <3>1. PICK i \in OnLedger(env) : ~ledger[i].successful
        BY <1>1, <2>2 DEF Paid
      <3>2. PICK tx : tx = [successful |-> ledger[i].successful, memo |-> env.memo,
                            source |-> env.from, count |-> 1, ledger |-> ledger[i].at]
        OBVIOUS
      <3>3. SeenFrom(doc).tx = tx
        BY <1>1, <3>2, LedgerIsSeen
      <3>4. ledger[i] \in Entries
        BY <3>1 DEF CoreInv, TypeInv, OnLedger
      <3>5. tx \in [successful : BOOLEAN, memo : Memos, source : G, count : Nat, ledger : Nat]
        BY <3>2, <3>4 DEF Entries, Envelopes
      <3>6. tx \notin {NotFound, Missing, Unread} /\ ~tx.successful
        BY <3>1, <3>2, <3>5, MarkerAssumption
      <3> QED BY <3>3, <3>6 DEF V!TransactionSuccessful, V!Judge, V!Found
    <2> QED BY <2>1, <2>2
  <1>3. "fail" \in V(doc, s)!Checks
    BY <1>2 DEF V!Checks, V!LedgerChecks
  <1> QED BY <1>3, FailIsFailed

\* What get_decision answers of an approved decision.
LEMMA DecisionIsTold ==
  ASSUME CoreInv, TruthInv, decision # NotFound, decision.verdict = "Approved", NEW isSettled \in BOOLEAN,
         NEW told, told = Told(decision, isSettled)
  PROVE  /\ told \notin {NotFound, Missing, Unread} /\ told.settled = isSettled
         /\ told.verdict = "Approved"
         /\ \A f \in {"id", "hash", "version", "agent", "service", "asset", "amount"} : told[f] = decision[f]
         /\ decision.id = <<"decision", decision.hash, decision.version>>
         /\ \A m \in {NotFound, Missing, Unread} : m \notin [pin : C, executor : G, services : [{decision.service} -> G]]
  <1>1. PICK d \in DecisionRecords \ {NotFound} :
           DOMAIN decision = DOMAIN d /\ \A f \in DOMAIN d \ {"verdict"} : decision[f] = d[f]
    BY DEF TruthInv, OriginInv
  <1>2. {"id", "hash", "version", "agent", "service", "asset", "amount", "verdict"} \subseteq DOMAIN d
        /\ d.id = <<"decision", d.hash, d.version>>
    BY RecordAssumption
  <1>3. PICK e : e = [d EXCEPT !.verdict = "Approved"]
    OBVIOUS
  <1>4. DOMAIN e = DOMAIN decision /\ \A f \in DOMAIN e : e[f] = decision[f]
    BY <1>1, <1>2, <1>3
  <1>5. Told(e, isSettled) = told
    BY <1>4 DEF Told
  <1>6. \A m \in {NotFound, Missing, Unread} :
           Told(e, isSettled) # m /\ m \notin [pin : C, executor : G, services : [{d.service} -> G]]
    BY <1>3, MarkerAssumption
  <1>7. told.settled = isSettled
        /\ \A f \in DOMAIN decision : f # "settled" => told[f] = decision[f]
    BY DEF Told
  <1>8. /\ decision.id = d.id /\ decision.hash = d.hash /\ decision.version = d.version
        /\ decision.service = d.service
    BY <1>1, <1>2
  <1> QED BY <1>1, <1>2, <1>5, <1>6, <1>7, <1>8

\* A receipt whose transaction has paid passes every check, while the file publishes whom.
LEMMA PaidPasses ==
  ASSUME CoreInv, TruthInv, NEW doc \in receipts, NEW s \in BOOLEAN,
         Paid(doc.settlement.tx_hash.is), Publishes(file, doc.settlement.tx_hash.is)
  PROVE  VerdictOn(doc, s) = "VERIFIED"
  <1>1. PICK env \in Envelopes : env = doc.settlement.tx_hash.is /\ Describes(doc, env) /\ Fits(env)
    BY DEF TruthInv, ReceiptsInv
  <1>2. decision # NotFound /\ decision.verdict = "Approved"
    BY DEF TruthInv, ReceiptsInv
  <1>3. PICK i \in OnLedger(env) : ledger[i].successful
    BY <1>1 DEF Paid
  <1>4. settled # 0 /\ settled <= ledger[i].at /\ settled \in Nat /\ ledger[i] \in Entries
    BY <1>3, OnePlace DEF CoreInv, TypeInv, OnLedger
  <1>5. PICK tx, op, told, scan, registry :
           /\ tx = [successful |-> ledger[i].successful, memo |-> env.memo,
                    source |-> env.from, count |-> 1, ledger |-> ledger[i].at]
           /\ op = [type |-> "payment", to |-> env.to, amount |-> env.amount, asset |-> env.code]
           /\ told = Told(decision, TRUE) /\ scan = [exhaustive |-> TRUE, hashes |-> {env}]
           /\ registry = [pin |-> Config.contractId, executor |-> env.from,
                          services |-> [x \in {decision.service} |-> env.to]]
    OBVIOUS
  <1>6. /\ SeenFrom(doc).tx = tx /\ SeenFrom(doc).ops = <<op>> /\ SeenFrom(doc).scan = scan
    BY <1>1, <1>3, <1>5, LedgerIsSeen, ZenonT(60)
  <1>7. RegistryRead = registry /\ Config.contractId \in C /\ env.from \in G /\ env.to \in G
    BY <1>1, <1>5, RegistryIsRead
  <1>8. /\ SeenFrom(doc).receipt = ReadBack(doc) /\ SeenFrom(doc).view = MemoHash(decision)
        /\ SeenFrom(doc).entry = settled /\ SeenFrom(doc).registry = RegistryRead
        /\ SeenFrom(doc).decision = Told(decision, settled # 0)
    BY DEF SeenFrom
  <1>9. SeenFrom(doc).decision = told
    BY <1>4, <1>5, <1>8
  <1>10. /\ told \notin {NotFound, Missing, Unread} /\ told.settled = TRUE /\ told.verdict = "Approved"
         /\ \A f \in {"id", "hash", "version", "agent", "service", "asset", "amount"} : told[f] = decision[f]
         /\ decision.id = <<"decision", decision.hash, decision.version>>
         /\ registry \notin {NotFound, Missing, Unread}
    <2>1. registry \in [pin : C, executor : G, services : [{decision.service} -> G]]
      BY <1>5, <1>7
    <2> QED BY <1>2, <1>5, <2>1, DecisionIsTold
  <1>11. tx \notin {NotFound, Missing, Unread}
    <2>1. tx \in [successful : BOOLEAN, memo : Memos, source : G, count : Nat, ledger : Nat]
      BY <1>4, <1>5 DEF Entries, Envelopes
    <2> QED BY <2>1, MarkerAssumption
  <1>12. <<op>> \notin {NotFound, Missing, Unread}
    <2>1. op \in [type : {"payment"}, to : G, amount : 1..MAX_INT64, asset : Codes]
      BY <1>5 DEF Envelopes
    <2>2. <<op>> \in [1..1 -> [type : {"payment"}, to : G, amount : 1..MAX_INT64, asset : Codes]]
      BY <2>1
    <2> QED BY <2>2, MarkerAssumption
  <1>13. scan \notin {NotFound, Missing, Unread}
    <2>1. scan \in [exhaustive : BOOLEAN, hashes : SUBSET Envelopes]
      BY <1>5
    <2> QED BY <2>1, MarkerAssumption
  <1>14. /\ MemoHash(decision) \in Memos /\ env.memo = MemoHash(decision)
         /\ env.memo \notin {NotFound, Missing, Unread, None} /\ settled \notin {NotFound, Missing, Unread}
    <2>1. env.memo = MemoHash(decision) /\ env.memo \in Memos
      BY <1>1 DEF Fits, Envelopes
    <2> QED BY <1>4, <2>1, MarkerAssumption, AbsentAssumption
  <1>15. None \notin C /\ None \notin G
    BY AbsentAssumption
  <1> DEFINE seen == SeenFrom(doc)
  <1>16. /\ tx.successful /\ tx.memo = env.memo /\ tx.source = env.from /\ tx.count = 1 /\ tx.ledger = ledger[i].at
         /\ op.type = "payment" /\ op.to = env.to /\ op.amount = env.amount /\ op.asset = env.code
         /\ scan.exhaustive /\ scan.hashes = {env}
         /\ registry.pin = Config.contractId /\ registry.executor = env.from
         /\ registry.services[decision.service] = env.to
    BY <1>3, <1>5
  <1>17. /\ seen.receipt.tx = env /\ seen.receipt.memo = MemoHash(decision)
         /\ seen.receipt.preimage = MemoPreimage(decision) /\ seen.receipt.contract = Config.contractId
         /\ seen.receipt.network = Config.passphrase
         /\ \A f \in {"id", "hash", "version", "agent", "service", "asset", "amount"} :
               seen.receipt[f] = decision[f]
    BY <1>1, <1>8 DEF Describes
  <1>18. env.amount = decision.amount /\ <<"sac", Config.passphrase, env.code>> = decision.asset
    BY <1>1 DEF Fits, DeriveSac
  <1>19. /\ seen.tx = tx /\ seen.ops = <<op>> /\ seen.scan = scan /\ seen.registry = registry
         /\ seen.view = env.memo /\ seen.entry = settled /\ seen.decision = told
    BY <1>6, <1>7, <1>8, <1>9, <1>14
  <1> HIDE DEF seen
  <1>20. V(doc, s)!CheckTxMatchesReceipt = "pass"
    BY <1>1, <1>17 DEF V!CheckTxMatchesReceipt, V!Judge, seen
  <1>21. V(doc, s)!CheckRegistryContract = "pass"
    BY <1>7, <1>10, <1>15, <1>16, <1>17, <1>19
       DEF V!CheckRegistryContract, V!Judge, V!Found, V!ContractId, seen
  <1>22. V(doc, s)!IsPayment /\ V(doc, s)!Payment = op
    <2>1. seen.tx # NotFound /\ seen.tx # Unread /\ seen.tx # Missing
      BY ONLY <1>11, <1>19
    <2>2. seen.ops # NotFound /\ seen.ops # Unread /\ seen.ops # Missing
      BY ONLY <1>12, <1>19
    <2>3. Len(seen.ops) = 1 /\ seen.ops[1] = op
      BY ONLY <1>19
    <2> QED BY ONLY <1>16, <1>19, <2>1, <2>2, <2>3 DEF V!IsPayment, V!Payment, V!Found, seen
  <1>23. V(doc, s)!HasMemo
    BY <1>11, <1>14, <1>16, <1>19 DEF V!HasMemo, V!Found, seen
  <1>24. V(doc, s)!LedgerChecks \subseteq {"pass"}
    BY <1>11, <1>12, <1>16, <1>19, <1>22, <1>23
       DEF V!LedgerChecks, V!TransactionSuccessful, V!SinglePayment, V!MemoIsHash, V!Judge, V!Found, seen
  <1>25. V(doc, s)!ChainChecks \subseteq {"pass"}
    BY <1>10, <1>17, <1>19
       DEF V!ChainChecks, V!DecisionFound, V!VerdictApproved, V!Settled, V!ReceiptMatchesDecision,
           V!Judge, V!Found, seen
  <1>26. V(doc, s)!CommitmentChecks \subseteq {"pass"}
    BY <1>14, <1>16, <1>17, <1>19, <1>23
       DEF V!CommitmentChecks, V!MemoCommitment, V!ContractMemoHash, V!ReceiptPreimage, V!ReceiptMemoHash,
           V!Judge, V!Found, V!Sha256, V!Preimage, MemoHash, MemoPreimage, seen
  <1>27. V(doc, s)!PaymentAmount = "pass" /\ V(doc, s)!PaymentAsset = "pass"
    BY <1>10, <1>16, <1>17, <1>18, <1>19, <1>22
       DEF V!PaymentAmount, V!PaymentAsset, V!Judge, V!Found, V!Sac, seen
  <1>28. V(doc, s)!RegistryChecks \subseteq {"pass"}
    BY <1>7, <1>10, <1>11, <1>15, <1>16, <1>19, <1>22
       DEF V!RegistryChecks, V!Destination, V!Source, V!Judge, V!Found, seen
  <1>29. V(doc, s)!StrictChecks \subseteq {"pass"}
    BY <1>4, <1>10, <1>11, <1>14, <1>16, <1>19
       DEF V!StrictChecks, V!DecisionIdDerivation, V!SettlementOrder, V!Judge, V!Found, V!DecisionId, seen
  <1>30. V(doc, s)!CheckReplay = "pass"
    BY <1>1, <1>13, <1>16, <1>19 DEF V!CheckReplay, V!Judge, V!Found, seen
  <1>31. V(doc, s)!Checks \subseteq {"pass"}
    BY <1>20, <1>21, <1>24, <1>25, <1>26, <1>27, <1>28, <1>29, <1>30 DEF V!Checks
  <1> QED BY <1>31, PassIsVerified

\* A receipt the executor hands out, of a dry run too, is VERIFIED in either mode exactly when
\* its transaction has paid, as long as the file publishes whom it pays.
THEOREM ReceiptsVerify == Spec => []ReceiptVerifiesIffPaid
  <1>1. CoreInv /\ TruthInv => ReceiptVerifiesIffPaid
    BY PaidPasses, UnpaidFails DEF ReceiptVerifiesIffPaid
  <1> QED BY <1>1, CoreHolds, TruthHolds, PTL

===============================================================================
