------------------------------ MODULE Settlement ------------------------------
(***************************************************************************)
(* One settlement from the published registry to the verifier's verdict.   *)
(* The executor (Executor) with the data its control flow leaves out: what *)
(* the gate compares, what preflight asks, what the envelope says, the     *)
(* receipt it writes (ReceiptFormat) and the registry it goes by           *)
(* (Registries); and the verifier (Verifier) judging that receipt against  *)
(* the same contract, ledger and registry, its reads taken at one instant. *)
(*                                                                         *)
(* One decision, one process, which stops and starts again; Horizon shows  *)
(* what the ledger holds.  The races are Executor's.                       *)
(***************************************************************************)
EXTENDS Integers, Sequences, FiniteSets

CONSTANTS
    DecisionRecords,  \* what the contract may hold under the id
    Files, Edits,     \* what services.json may hold at first, and what it is edited to
    Funds,            \* what the executor's account holds at first
    Config,           \* [contractId, account, passphrase], from the environment
    G, C,             \* account and contract addresses
    Missing, Refused, None, NotFound, Unread,
    MAX_INT64,        \* what a classic payment carries
    MAX_U32,
    Timeout,          \* config.timeoutSeconds, in ledgers
    SearchedSets,     \* account lists the console may be built with
    SearchLimit,      \* transactions of one account the console reads (PAGE * MAX_PAGES)
    MaxTime,          \* bound: ledgers of the model
    MaxTrouble        \* bound: crashes, edits, accounts that change, foreign payments

VARIABLES
    file,       \* services.json
    decision,   \* the decision on chain
    settled,    \* its flag, with the ledger that set it; 0 before
    lines,      \* accounts with an authorized trustline
    balance,    \* what the executor's account holds
    ledger,     \* the executor account's transactions: [env, at, successful]
    now,        \* the last ledger closed
    pool,       \* envelopes the network has accepted
    journal,    \* the journal's row, or None
    run,        \* the process: None, or where it is and what it has read
    receipts,   \* the receipts that were handed out
    trouble

chainVars == <<decision, settled>>
ledgerVars == <<lines, balance, ledger, now, pool>>
vars == <<file, chainVars, ledgerVars, journal, run, receipts, trouble>>

R == INSTANCE Registries
F == INSTANCE ReceiptFormat

MemoPreimage(d) == <<d.hash, d.version, d.id>>
MemoHash(d) == <<"sha256", MemoPreimage(d)>>
DeriveSac(code, passphrase) == <<"sac", passphrase, code>>

\* What an envelope and a row of the journal hold.
Codes == {f.code : f \in (Files \cup Edits) \ {Missing}}
Memos == {MemoHash(d) : d \in DecisionRecords \ {NotFound}}
Envelopes == [sequence : Nat, maxTime : Nat, from : G, to : G, amount : 1..MAX_INT64, code : Codes, memo : Memos]
Rows == [status : {"PREPARED", "MARKED", "SUBMITTED", "SETTLED", "ABANDONED"}, env : Envelopes]

\* A decision with its settlement flag, as get_decision answers.
Told(d, isSettled) == [f \in DOMAIN d \cup {"settled"} |-> IF f = "settled" THEN isSettled ELSE d[f]]

ASSUME BoundsAssumption ==
    MAX_INT64 \in Nat /\ Timeout \in Nat /\ MaxTime \in Nat /\ SearchLimit \in Nat

ASSUME AddressAssumption == G \cap C = {}

\* The fields and types of the contract, and an id that it derived.
ASSUME RecordAssumption ==
    \A d \in DecisionRecords \ {NotFound} :
        /\ {"id", "hash", "version", "agent", "service", "asset", "amount", "verdict"} \subseteq DOMAIN d
        /\ d.version \in 0..MAX_U32 /\ d.id = <<"decision", d.hash, d.version>>

\* The services of a published file are a list, and what is loaded of a good file is no refusal.
ASSUME FileAssumption ==
    \A f \in (Files \cup Edits) \ {Missing} :
        /\ DOMAIN f.services = 1..Len(f.services)
        /\ R!VerifierAccepts(f) => R!LoadVerifier(f) # Refused

ASSUME AbsentAssumption == None \notin Rows \cup Envelopes \cup G \cup C \cup Memos

\* No answer of a source is one of the ways to have none.
ASSUME MarkerAssumption ==
    \A m \in {NotFound, Missing, Unread} :
        /\ m \notin Nat \cup Memos \cup G \cup [exhaustive : BOOLEAN, hashes : SUBSET Envelopes]
        /\ m \notin [successful : BOOLEAN, memo : Memos, source : G, count : Nat, ledger : Nat]
        /\ m \notin [1..1 -> [type : {"payment"}, to : G, amount : 1..MAX_INT64, asset : Codes]]
        /\ \A d \in DecisionRecords \ {NotFound}, isSettled \in BOOLEAN :
              /\ Told([d EXCEPT !.verdict = "Approved"], isSettled) # m
              /\ m \notin [pin : C, executor : G, services : [{d.service} -> G]]

Sequence == Len(ledger)

Init ==
    /\ file \in Files /\ decision \in DecisionRecords /\ settled = 0
    /\ lines = G /\ balance = Funds /\ ledger = <<>> /\ now = 0 /\ pool = {}
    /\ journal = None /\ run = None /\ receipts = {} /\ trouble = MaxTrouble

-----------------------------------------------------------------------------
(* A run of settle() (fresh) or recover().                                  *)

At(pc) == run # None /\ run.pc = pc
Goto(pc) == run' = [run EXCEPT !.pc = pc]
Return == run' = None
\* The last await before mark_settled, or the end of a dry run.
Prepared == IF run.dryRun THEN "result" ELSE "mark"

\* assertConfigAgreesWithRegistry
Agrees(registry) ==
    /\ registry # Refused
    /\ registry.contractId = Config.contractId /\ registry.account = Config.account
    /\ registry.passphrase = Config.passphrase
    /\ registry.sac = DeriveSac(registry.code, registry.passphrase)

\* createRuntime loads the registry once; a run that may not start changes nothing.
Start(fresh, dryRun) ==
    /\ run = None /\ Agrees(R!LoadExecutor(file))
    /\ dryRun => fresh
    /\ run' = [pc |-> "gate", fresh |-> fresh, dryRun |-> dryRun, file |-> file, settled |-> FALSE]
    /\ UNCHANGED <<file, chainVars, ledgerVars, journal, receipts, trouble>>

Registry == R!LoadExecutor(run.file)

\* Mutant: nothing looks at the int64 limit.
PayableAmountMutant(stroops) == stroops >= 1

\* assertPayableAmount: an i128 on chain, an int64 on the classic rail.
PayableAmount(stroops) == stroops \in 1..MAX_INT64

\* Mutant: the asset the contract authorized is not compared.
PassesMutant(d) ==
    /\ d # NotFound /\ d.verdict = "Approved" /\ PayableAmount(d.amount)
    /\ d.service \in DOMAIN Registry.destinations

\* The gate: `settled` is not part of it.
Passes(d) ==
    /\ d # NotFound /\ d.verdict = "Approved" /\ PayableAmount(d.amount)
    /\ d.service \in DOMAIN Registry.destinations
    /\ d.asset = DeriveSac(Registry.code, Config.passphrase)

Payee == Registry.destinations[decision.service]

Gate ==
    /\ At("gate")
    /\ IF Passes(decision) THEN run' = [run EXCEPT !.pc = "read", !.settled = settled # 0] ELSE Return
    /\ UNCHANGED <<file, chainVars, ledgerVars, journal, receipts, trouble>>

\* What the run does with the journal's row: the recovery matrix, "end" for a refusal.
ResumeAt ==
    CASE journal = None -> IF run.fresh /\ ~run.settled THEN "prepare" ELSE "end"
      [] journal # None /\ journal.status \in {"SETTLED", "ABANDONED"} -> "end"
      [] journal # None /\ journal.status = "PREPARED" -> IF run.settled THEN "journal_marked" ELSE "expiry"
      [] OTHER -> IF run.dryRun THEN "result" ELSE "lookup"

ReadJournal ==
    /\ At("read")
    /\ IF ResumeAt = "end" THEN Return ELSE Goto(ResumeAt)
    /\ UNCHANGED <<file, chainVars, ledgerVars, journal, receipts, trouble>>

\* PREPARED and not settled: an envelope past its max_time is built again.
Expiry ==
    /\ At("expiry")
    /\ Goto(IF now >= journal.env.maxTime THEN "prepare" ELSE Prepared)
    /\ UNCHANGED <<file, chainVars, ledgerVars, journal, receipts, trouble>>

Preflight == {Config.account, Payee} \subseteq lines /\ balance >= decision.amount

\* preparePayment: the decision's amount and memo, the registry's payee and asset.  The
\* envelope is its own hash.
Envelope ==
    [sequence |-> Sequence + 1, maxTime |-> now + Timeout, from |-> Config.account, to |-> Payee,
     code |-> Registry.code, amount |-> decision.amount, memo |-> MemoHash(decision)]

\* Preflight refuses, or the envelope is committed.
Prepare ==
    /\ At("prepare") /\ now + Timeout <= MaxTime
    /\ IF Preflight THEN journal' = [status |-> "PREPARED", env |-> Envelope] /\ Goto(Prepared)
       ELSE Return /\ UNCHANGED journal
    /\ UNCHANGED <<file, chainVars, ledgerVars, receipts, trouble>>

\* mark_settled: applied in the next ledger and confirmed, applied without the run being
\* told, or refused (the agent was revoked, the simulation failed).
Mark ==
    /\ At("mark") /\ settled = 0 /\ now < MaxTime
    /\ \/ Goto("journal_marked") /\ settled' = now + 1 /\ now' = now + 1
       \/ Return /\ settled' = now + 1 /\ now' = now + 1
       \/ Return /\ UNCHANGED <<settled, now>>
    /\ UNCHANGED <<file, decision, lines, balance, ledger, pool, journal, receipts, trouble>>

Advance(status) == journal' = [journal EXCEPT !.status = status]

JournalMarked ==
    /\ At("journal_marked") /\ Advance("MARKED")
    /\ Goto(IF run.dryRun THEN "result" ELSE "submit")
    /\ UNCHANGED <<file, chainVars, ledgerVars, receipts, trouble>>

OnLedger(env) == {i \in DOMAIN ledger : ledger[i].env = env}

\* MARKED or SUBMITTED before: is the stored hash on the ledger already?
Lookup ==
    /\ At("lookup") /\ Goto(IF OnLedger(journal.env) # {} THEN "await" ELSE "submit")
    /\ UNCHANGED <<file, chainVars, ledgerVars, journal, receipts, trouble>>

Includable(env) == env.sequence = Sequence + 1 /\ now + 1 <= env.maxTime

\* The stored bytes are POSTed: taken, refused, or nobody knows.
Submit ==
    /\ At("submit") /\ Advance("SUBMITTED")
    /\ \/ Includable(journal.env) /\ pool' = pool \cup {journal.env} /\ Goto("await")
       \/ ~Includable(journal.env) /\ OnLedger(journal.env) = {} /\ Return /\ UNCHANGED pool
       \/ Goto("await") /\ UNCHANGED pool
    /\ UNCHANGED <<file, chainVars, lines, balance, ledger, now, receipts, trouble>>

\* awaitInclusion: found, proven absent, or asked again.
Await ==
    /\ At("await")
    /\ \/ \E i \in OnLedger(journal.env) :
            IF ledger[i].successful THEN Advance("SETTLED") /\ Goto("result")
            ELSE Advance("ABANDONED") /\ Return
       \/ OnLedger(journal.env) = {} /\ now > journal.env.maxTime /\ Advance("ABANDONED") /\ Return
    /\ UNCHANGED <<file, chainVars, ledgerVars, receipts, trouble>>

\* What receiptFor gathers: the decision, the configuration, the stored hash, and the
\* registry this run has loaded.
ReceiptInputs ==
    [decision |-> decision, passphrase |-> Config.passphrase, contractId |-> Config.contractId,
     txHash |-> journal.env, memo |-> MemoHash(decision), preimage |-> MemoPreimage(decision),
     source |-> Config.account, destination |-> Payee, asset |-> Registry.code]

Receipt == F!BuildReceipt(ReceiptInputs)

\* parseReceipt throws on a document of the wrong shape: then nothing is handed out.
Result ==
    /\ At("result") /\ Return
    /\ receipts' = receipts \cup (IF F!SafeParseReceipt(Receipt) THEN {Receipt} ELSE {})
    /\ UNCHANGED <<file, chainVars, ledgerVars, journal, trouble>>

Running == Gate \/ ReadJournal \/ Expiry \/ Prepare \/ Mark \/ JournalMarked \/ Lookup
             \/ Submit \/ Await \/ Result

-----------------------------------------------------------------------------
(* The ledger, the owner, and trouble.                                      *)

\* A ledger closes, with the pooled payment that fits or without; a payment the accounts
\* cannot make any more is included and fails.
CloseLedger ==
    /\ now < MaxTime /\ now' = now + 1
    /\ \/ UNCHANGED <<ledger, balance>>
       \/ \E env \in pool :
            LET pays == {env.from, env.to} \subseteq lines /\ balance >= env.amount
            IN  /\ Includable(env)
                /\ ledger' = Append(ledger, [env |-> env, at |-> now + 1, successful |-> pays])
                /\ balance' = IF pays THEN balance - env.amount ELSE balance
    /\ UNCHANGED <<file, chainVars, lines, pool, journal, run, receipts, trouble>>

Answer(verdict) ==
    /\ decision # NotFound /\ decision.verdict = "Pending"
    /\ decision' = [decision EXCEPT !.verdict = verdict]
    /\ UNCHANGED <<file, settled, ledgerVars, journal, run, receipts, trouble>>

Trouble == trouble > 0 /\ trouble' = trouble - 1

\* A crash, a source that cannot be reached, a timeout.
Stop ==
    /\ run # None /\ Trouble /\ Return
    /\ UNCHANGED <<file, chainVars, ledgerVars, journal, receipts>>

Publish ==
    /\ Trouble /\ file' \in Edits \ {file}
    /\ UNCHANGED <<chainVars, ledgerVars, journal, run, receipts>>

LoseTrustline ==
    /\ Trouble /\ \E account \in lines : lines' = lines \ {account}
    /\ UNCHANGED <<file, chainVars, balance, ledger, now, pool, journal, run, receipts>>

\* Another decision of the same executor is paid.
PayAnother ==
    /\ Trouble /\ now < MaxTime /\ now' = now + 1
    /\ \E spent \in 1..2 : spent <= balance /\ balance' = balance - spent
    /\ ledger' = Append(ledger, [env |-> None, at |-> now + 1, successful |-> TRUE])
    /\ UNCHANGED <<file, chainVars, lines, pool, journal, run, receipts>>

Next ==
    \/ \E fresh, dryRun \in BOOLEAN : Start(fresh, dryRun)
    \/ Running \/ CloseLedger
    \/ \E verdict \in {"Approved", "Rejected"} : Answer(verdict)
    \/ Stop \/ Publish \/ LoseTrustline \/ PayAnother

Spec == Init /\ [][Next]_vars

-----------------------------------------------------------------------------
(* The verifier on a receipt.                                               *)

\* Its reading of the document.
ReadBack(doc) ==
    [tx |-> doc.settlement.tx_hash.is, memo |-> doc.settlement.memo_hash.is,
     preimage |-> doc.settlement.memo_preimage.is, id |-> doc.chain.decision_id.is,
     hash |-> doc.chain.intent_hash.is, version |-> doc.chain.policy_version.is,
     agent |-> doc.chain.agent.is, service |-> doc.chain.service_id.is, asset |-> doc.chain.asset.is,
     amount |-> doc.chain.amount.is, contract |-> doc.network.contract_id.is,
     network |-> doc.network.passphrase.is]

\* The registry as it loads it, with a payee for each service a decision may name.
RegistryRead ==
    LET r == R!LoadVerifier(file)
    IN  IF r = Refused THEN NotFound
        ELSE [pin |-> r.contractId, executor |-> r.account,
              services |-> [s \in {decision.service} |->
                  IF s \in DOMAIN r.destinations THEN r.destinations[s] ELSE None]]

SeenFrom(doc) ==
    LET tx == doc.settlement.tx_hash.is
        places == OnLedger(tx)
        place == CHOOSE i \in places : TRUE
    IN  [receipt |-> ReadBack(doc),
         tx |-> IF places = {} THEN NotFound
                ELSE [successful |-> ledger[place].successful, memo |-> tx.memo, source |-> tx.from,
                      count |-> 1, ledger |-> ledger[place].at],
         ops |-> IF places = {} THEN Unread
                 ELSE <<[type |-> "payment", to |-> tx.to, amount |-> tx.amount, asset |-> tx.code]>>,
         decision |-> Told(decision, settled # 0),
         view |-> MemoHash(decision), entry |-> settled, registry |-> RegistryRead,
         scan |-> IF places = {} THEN Unread
                  ELSE [exhaustive |-> TRUE,
                        hashes |-> {ledger[i].env : i \in {j \in DOMAIN ledger :
                            /\ ledger[j].env # None /\ ledger[j].successful
                            /\ ledger[j].env.memo = tx.memo}}]]

V(doc, s) == INSTANCE Verifier WITH
    Starts <- {}, Modes <- {}, PAGE <- 1, MAX_PAGES <- 1, Down <- Missing,
    TxArg <- doc.settlement.tx_hash.is,
    pc <- "report", world <- [override |-> None], start <- None, trouble <- 0, strict <- s,
    seen <- SeenFrom(doc), scan <- None, exit <- None, verdict <- None

VerdictOn(doc, s) == V(doc, s)!VerdictFor(V(doc, s)!ExitCodeFor(V(doc, s)!Checks))

-----------------------------------------------------------------------------
(* The console's settlement card: nobody tells it which transaction paid;   *)
(* it searches the accounts it is configured with for the contract's memo,  *)
(* newest transactions first.                                               *)

\* The successful transactions of an account, and those of them the search reads.
History(account) ==
    {i \in DOMAIN ledger : /\ ledger[i].successful
                           /\ \/ account = Config.account
                              \/ ledger[i].env # None /\ account = ledger[i].env.to}
Newest(txs) == {i \in txs : Cardinality({j \in txs : j > i}) < SearchLimit}

\* The payment of a transaction, None if its operations cannot be read.
PaymentOf(env, lost) ==
    IF lost = "operations" THEN None
    ELSE [from |-> env.from, to |-> env.to, amount |-> env.amount, code |-> env.code]

\* Mutant: the page cap ends the walk as if the history had ended.
FindSettlementMutant(memo, accounts, lost) ==
    LET read == UNION {Newest(History(a)) : a \in accounts}
        found == {ledger[i].env : i \in {j \in read : ledger[j].env # None /\ ledger[j].env.memo = memo}}
    IN  CASE accounts = {} -> [status |-> "unconfigured"]
          [] accounts # {} /\ lost = "search" -> [status |-> "unavailable"]
          [] OTHER ->
                IF found # {} THEN [status |-> "found", matches |->
                                      {[hash |-> e, payment |-> PaymentOf(e, lost)] : e \in found}]
                ELSE [status |-> "not-found", exhaustive |-> TRUE]

\* A history is read to its end if it is shorter than the pages the walk may read.
FindSettlement(memo, accounts, lost) ==
    LET read == UNION {Newest(History(a)) : a \in accounts}
        found == {ledger[i].env : i \in {j \in read : ledger[j].env # None /\ ledger[j].env.memo = memo}}
    IN  CASE accounts = {} -> [status |-> "unconfigured"]
          [] accounts # {} /\ lost = "search" -> [status |-> "unavailable"]
          [] OTHER ->
                IF found # {} THEN [status |-> "found", matches |->
                                      {[hash |-> e, payment |-> PaymentOf(e, lost)] : e \in found}]
                ELSE [status |-> "not-found",
                      exhaustive |-> \A a \in accounts : Cardinality(History(a)) < SearchLimit]

\* What the card says; each is a different claim, and some claim nothing.
SettlementSearch(scan, isSettled) ==
    CASE scan.status = "not-found" ->
            [says |-> IF isSettled THEN "settled, no transaction found" ELSE "none, as not settled",
             provesAbsence |-> scan.exhaustive]
      [] scan.status = "found" -> [says |-> "found", matches |-> scan.matches]
      [] OTHER -> [says |-> "nothing"]

-----------------------------------------------------------------------------
(* What the parts promise together.                                         *)

Ids(f) == [i \in DOMAIN f.services |-> f.services[i].service_id]
ListsEachOnce(f) == \A i, j \in DOMAIN f.services : Ids(f)[i] = Ids(f)[j] => i = j
EntriesFor(f, s) == {f.services[i] : i \in {j \in DOMAIN f.services : Ids(f)[j] = s}}

\* The file names the payee, payer and contract of an envelope, once, and each service by one
\* name: of the two spellings the verifier prefers the one the executor does not read.
Publishes(f, env) ==
    LET r == R!LoadExecutor(f)
    IN  /\ Agrees(r) /\ ListsEachOnce(f)
        /\ \A i \in DOMAIN f.services : f.services[i].id \in {Missing, f.services[i].service_id}
        /\ decision.service \in DOMAIN r.destinations /\ r.destinations[decision.service] = env.to

Paid(env) == \E i \in OnLedger(env) : ledger[i].successful

\* A receipt the executor hands out, of a dry run too, is VERIFIED in either mode exactly when
\* its transaction has paid, as long as the file publishes whom it pays: what settle.ts
\* builds, receipt.ts writes and services.json says is what the verifier demands, no more.
ReceiptVerifiesIffPaid ==
    \A doc \in receipts, s \in BOOLEAN :
        Publishes(file, doc.settlement.tx_hash.is) =>
            VerdictOn(doc, s) = (IF Paid(doc.settlement.tx_hash.is) THEN "VERIFIED" ELSE "FAILED")

\* mark_settled is irreversible: once it has applied, by whichever run, the journal holds an
\* envelope that carries the decision's amount, asset and memo, within what the rail can carry.
SettledIsPayable ==
    settled # 0 =>
        /\ journal # None /\ journal.env.amount = decision.amount /\ decision.amount \in 1..MAX_INT64
        /\ DeriveSac(journal.env.code, Config.passphrase) = decision.asset
        /\ journal.env.memo = MemoHash(decision)

\* A payment that was made never ends in a receipt the shared validator refuses.
ReceiptIsAccepted == At("result") => F!SafeParseReceipt(Receipt)

\* Whom a run is about to mark for payment is whom a gateway shows as the service's active
\* destination, whichever edition of the file each has loaded, as long as the gateway's lists
\* each service once and both say the same of this one.  A gateway that was started before the
\* service's own entry was edited shows the old payee until it is started again.
ShownIsPaid ==
    At("mark") =>
        \A f \in Files \cup Edits :
            LET shown == R!LoadGateway(f, Config.contractId)
            IN  /\ shown # Refused /\ ListsEachOnce(f)
                /\ EntriesFor(f, decision.service) = EntriesFor(run.file, decision.service)
                => shown[decision.service] = [destination |-> Payee, active |-> TRUE]

\* What the console says of the payment is true, whichever accounts it searches and whatever it
\* cannot read: it calls the absence consistent with the flag only when nobody was paid for this
\* decision, a miss is proof only for accounts the payment has not touched, and what it finds is
\* one payment, the journal's, of the decision's amount, after the contract settled it.
CardIsTrue ==
    decision # NotFound =>
        LET paid == {e \in pool : Paid(e) /\ e.memo = MemoHash(decision)}
        IN  \A accounts \in SearchedSets, lost \in {"nothing", "operations", "search"} :
                LET scan == FindSettlement(MemoHash(decision), accounts, lost)
                    card == SettlementSearch(scan, settled # 0)
                IN  CASE card.says = "found" ->
                            /\ settled # 0 /\ Cardinality(card.matches) = 1
                            /\ \A m \in card.matches :
                                  /\ m.hash = journal.env /\ m.hash \in paid
                                  /\ m.payment # None => m.payment.amount = decision.amount
                      [] card.says = "none, as not settled" -> paid = {}
                      [] card.says = "settled, no transaction found" ->
                            card.provesAbsence => \A e \in paid : {e.from, e.to} \cap accounts = {}
                      [] OTHER -> TRUE
=============================================================================
