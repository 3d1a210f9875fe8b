------------------------------- MODULE Verifier -------------------------------
(***************************************************************************)
(* The standalone settlement verifier (tools/verifier): one transaction    *)
(* hash, one receipt, and three public sources - Horizon, the contract     *)
(* through Soroban RPC, and the published registry - read one after the    *)
(* other while the world moves on, the histories of the accounts page by   *)
(* page.  Each source may be unreachable.  Then every check is judged on   *)
(* what was read, and the exit code follows.                               *)
(*                                                                         *)
(* A world is what the files and the sources hold.  The sources are those  *)
(* nominated to the tool, by an option or else by the receipt itself: what *)
(* is true of a world is true as these sources tell it.  Hashes are        *)
(* injective constructors (sha256 has no collisions here).                 *)
(***************************************************************************)
EXTENDS Integers, Sequences, FiniteSets

CONSTANTS Starts,     \* [world, trouble]: what the sources may hold when the tool starts, and
                      \* a bound on the outages and changes of the world while it reads
          Modes,      \* subset of BOOLEAN: is --strict given
          PAGE,       \* records on a page of a history
          MAX_PAGES,  \* pages the scan reads per account
          TxArg,      \* the --tx argument
          NotFound,   \* the source says: no such thing
          Down,       \* the source cannot be reached or answers nonsense
          Unread,     \* the source was not asked
          None        \* an optional value that is absent

ASSUME ScanAssumption == PAGE \in Nat \ {0} /\ MAX_PAGES \in Nat \ {0}

\* The ways to have no answer differ, a copy is another transaction, and no verdict is none.
ASSUME MarkerAssumption ==
    /\ NotFound # Down /\ NotFound # Unread /\ Down # Unread
    /\ TxArg # "copy" /\ None \notin {"VERIFIED", "FAILED"}
    /\ \A found \in SUBSET {TxArg, "copy"}, whole \in BOOLEAN :
          [hashes |-> found, exhaustive |-> whole] \notin {NotFound, Down, Unread}

Exit == [VERIFIED |-> 0, FAILED |-> 1, USAGE |-> 2, UNAVAILABLE |-> 3, RUNNING |-> 4]

Sources == {"receipt", "tx", "ops", "abi", "decision", "view", "entry", "registry", "scan"}

VARIABLES pc,        \* the source asked next, or "args", "report", "done"
          world,     \* what the sources hold now
          start,     \* what they held when this run started
          trouble,   \* outages and changes that may still come
          strict,
          seen,      \* source -> what it answered
          scan,      \* the memo scan: accounts left, pages read and cursor in the one walked,
                     \* hashes found, and whether every end was reached
          exit,      \* the exit code, Exit.RUNNING before
          verdict    \* the verdict printed, None before or without a report

vars == <<pc, world, start, trouble, strict, seen, scan, exit, verdict>>

\* sha256(intent_hash || policy_version || decision_id), and the two derivations.
Sha256(preimage) == <<"sha256", preimage>>
Preimage(d) == <<d.hash, d.version, d.id>>
DecisionId(hash, version) == <<"decision", hash, version>>
Sac(network, asset) == <<"sac", network, asset>>

\* What the tool looks a decision up by: the contract it goes to, and the receipt's id.
Key(w) == <<IF w.override # None THEN w.override ELSE w.receipt.contract, w.receipt.id>>

\* A transaction of a history: the one verified, a copy of it, or another.
Transactions == STRING \cup {TxArg, "copy"}

\* The answers of a source have the shape its reader demands and are no marker; the accounts
\* they name have a history each.
IsWorld(w) ==
    LET known == DOMAIN w.before
    IN  /\ {"args", "file", "ingested", "override", "now", "receipt", "tx", "ops", "held", "registry",
            "before", "after"} \subseteq DOMAIN w
        /\ w.tx \notin {Down, Unread} /\ (w.tx # NotFound => w.tx.source \in known)
        /\ w.ops \notin {NotFound, Down, Unread} /\ DOMAIN w.ops = 1..Len(w.ops)
        /\ \A i \in DOMAIN w.ops : w.ops[i].to \in known
        /\ w.registry \notin {Down, Unread}
        /\ w.registry # NotFound => w.registry.executor \in known \cup {None}
        /\ Key(w) \in DOMAIN w.held
        /\ \A k \in DOMAIN w.held : LET d == w.held[k] IN d # NotFound =>
              /\ {"id", "hash", "version", "service", "settled", "written"} \subseteq DOMAIN d
              /\ d \notin {Down, Unread} /\ d.written \notin {NotFound, Down, Unread}
              /\ Sha256(Preimage(d)) \notin {NotFound, Down, Unread, None}
              /\ w.registry # NotFound => w.registry.services[d.service] \in known \cup {None}
        /\ None \notin known /\ DOMAIN w.after = known
        /\ \A a \in known : w.before[a] \in Seq(Transactions) /\ w.after[a] \in Seq(Transactions)

ASSUME StartsAssumption == \A s \in Starts : IsWorld(s.world)

Init ==
    /\ \E s \in Starts : world = s.world /\ trouble = s.trouble
    /\ pc = "args" /\ start = world /\ strict \in Modes
    /\ seen = [s \in Sources |-> Unread]
    /\ scan = [todo |-> {}, page |-> 0, cursor |-> 0, hashes |-> {}, exhaustive |-> TRUE]
    /\ exit = Exit.RUNNING /\ verdict = None

Found(s) == seen[s] \notin {Unread, Down, NotFound}

-----------------------------------------------------------------------------
(* Reading.                                                                 *)

Ask(s, answer, next) ==
    /\ pc = s /\ pc' = next
    /\ seen' = [seen EXCEPT ![s] = answer]
    /\ UNCHANGED <<world, start, strict, scan, exit, verdict>>

Trouble == trouble > 0 /\ trouble' = trouble - 1

Fetch(s, answer, next, whenDown) ==
    \/ Ask(s, answer, next) /\ UNCHANGED trouble
    \/ Trouble /\ Ask(s, Down, whenDown)

Stop(code, words) ==
    /\ pc' = "done" /\ exit' = code /\ verdict' = words
    /\ UNCHANGED <<world, start, trouble, strict, seen, scan>>

\* --help and --version answer and exit 0 without a report; bad arguments exit 2.
Main ==
    /\ pc = "args"
    /\ \/ world.args \in {"help", "version"} /\ Stop(Exit.VERIFIED, None)
       \/ world.args = "usage" /\ Stop(Exit.USAGE, None)
       \/ /\ world.args = "run" /\ pc' = "receipt"
          /\ UNCHANGED <<world, start, trouble, strict, seen, scan, exit, verdict>>

\* No file: a bad invocation.  Not a receipt: one failed check is the whole report.
ReadReceipt ==
    \/ pc = "receipt" /\ world.file = "unreadable" /\ Stop(Exit.USAGE, None)
    \/ pc = "receipt" /\ world.file = "malformed" /\ Stop(Exit.FAILED, "FAILED")
    \/ world.file = "receipt" /\ Ask("receipt", world.receipt, "tx") /\ UNCHANGED trouble

FetchTransaction ==
    LET answer == IF world.ingested THEN world.tx ELSE NotFound
    IN  Fetch("tx", answer, IF answer = NotFound THEN "abi" ELSE "ops", "abi")

FetchOperations == Fetch("ops", IF world.ingested THEN world.ops ELSE <<>>, "abi", "abi")

ContractId == IF world.override # None THEN world.override ELSE seen["receipt"].contract

Connect == Fetch("abi", ContractId, "decision", "registry")

Held == world.held[<<ContractId, seen["receipt"].id>>]

GetDecision == Fetch("decision", Held, "view", "registry")

MemoHashView ==
    LET next == IF strict THEN "entry" ELSE "registry"
    IN  Fetch("view", IF Held = NotFound THEN NotFound ELSE Sha256(Preimage(Held)), next, next)

EntryLedger ==
    Fetch("entry", IF Held = NotFound THEN NotFound ELSE Held.written, "registry", "registry")

\* NotFound: no services.json where the tool looks, or one it cannot read.
ReadRegistry == Ask("registry", world.registry, "accounts") /\ UNCHANGED trouble

Payment == seen["ops"][1]
IsPayment ==
    Found("tx") /\ Found("ops") /\ seen["tx"].count = 1 /\ Len(seen["ops"]) = 1 /\ Payment.type = "payment"
HasMemo == Found("tx") /\ seen["tx"].memo # None

\* The accounts the settlement touched, by Horizon and by the registry.
Accounts ==
    {seen["tx"].source}
      \cup (IF IsPayment THEN {Payment.to} ELSE {})
      \cup (IF Found("registry") /\ Found("decision")
              THEN {seen["registry"].services[seen["decision"].service], seen["registry"].executor} \ {None}
              ELSE {})

\* An account's successful transactions, oldest first; the verified one is among
\* them when the account pays or is paid by it.
History(w, a) ==
    LET listed == /\ w.ingested /\ w.tx # NotFound /\ w.tx.successful
                  /\ a = w.tx.source \/ \E i \in DOMAIN w.ops : w.ops[i].to = a
    IN  w.before[a] \o (IF listed THEN <<TxArg>> ELSE <<>>) \o w.after[a]

\* The transactions of a stretch of a history that carry the memo: the one verified, and copies.
WithMemo(txs) == {TxArg, "copy"} \cap {txs[i] : i \in DOMAIN txs}

ReplayCheck ==
    /\ pc = "accounts"
    /\ pc' = (IF HasMemo THEN "scan" ELSE "report")
    /\ scan' = [scan EXCEPT !.todo = IF HasMemo THEN Accounts ELSE {}]
    /\ UNCHANGED <<world, start, trouble, strict, seen, exit, verdict>>

\* The walk of an account is over, with a verdict on whether it reached the end.
Walked(a, found, reachedEnd) ==
    scan' = [todo |-> scan.todo \ {a}, page |-> 0, cursor |-> 0, hashes |-> scan.hashes \cup found,
             exhaustive |-> scan.exhaustive /\ reachedEnd]

\* One walk at a time: the account whose pages are being read.
Walking(a) == pc = "scan" /\ a = CHOOSE b \in scan.todo : TRUE

\* Mutant: the cap ends the account's walk as if its end had been seen.
CapReachedMutantEnd(a) == Walking(a) /\ scan.page >= MAX_PAGES /\ Walked(a, {}, TRUE)

\* Mutant: off by one at the cap, which no page number reaches.
CapReachedMutantOff(a) == Walking(a) /\ scan.page > MAX_PAGES /\ Walked(a, {}, FALSE)

CapReached(a) == Walking(a) /\ scan.page >= MAX_PAGES /\ Walked(a, {}, FALSE)

\* An account Horizon does not know has no transactions: a short first page.
ReadPage(a) ==
    /\ Walking(a) /\ scan.page < MAX_PAGES
    /\ LET h == History(world, a)
           end == IF scan.cursor + PAGE < Len(h) THEN scan.cursor + PAGE ELSE Len(h)
           found == WithMemo(SubSeq(h, scan.cursor + 1, end))
       IN  IF end - scan.cursor < PAGE THEN Walked(a, found, TRUE)
           ELSE scan' = [scan EXCEPT !.page = @ + 1, !.cursor = end, !.hashes = @ \cup found]

ScanForMemo ==
    \/ /\ \E a \in scan.todo : CapReached(a) \/ ReadPage(a)
       /\ UNCHANGED <<pc, world, start, trouble, strict, seen, exit, verdict>>
    \/ /\ pc = "scan" /\ scan.todo # {} /\ Trouble
       /\ Ask("scan", Down, "report")
    \/ /\ scan.todo = {} /\ UNCHANGED trouble
       /\ Ask("scan", [hashes |-> scan.hashes, exhaustive |-> scan.exhaustive], "report")

-----------------------------------------------------------------------------
(* Judging.                                                                 *)

Judge(known, holds) == IF known THEN IF holds THEN "pass" ELSE "fail" ELSE "unavailable"

CheckTxMatchesReceipt == Judge(TRUE, seen["receipt"].tx = TxArg)

CheckRegistryContract ==
    Judge(Found("registry") /\ seen["registry"].pin # None, seen["registry"].pin = ContractId)

\* Mutant: an unreachable Horizon is taken for a transaction that does not exist.
TransactionSuccessfulMutant ==
    IF seen["tx"] \in {NotFound, Down} THEN "fail" ELSE Judge(Found("tx"), seen["tx"].successful)

\* Horizon's "no such transaction" is an answer, and it fails the check.
TransactionSuccessful ==
    IF seen["tx"] = NotFound THEN "fail" ELSE Judge(Found("tx"), seen["tx"].successful)
SinglePayment == Judge(Found("tx") /\ Found("ops"), IsPayment)
MemoIsHash == Judge(Found("tx"), HasMemo)

LedgerChecks == {TransactionSuccessful, SinglePayment, MemoIsHash}

DecisionFound == IF seen["decision"] = NotFound THEN "fail" ELSE Judge(Found("decision"), TRUE)
VerdictApproved == Judge(Found("decision"), seen["decision"].verdict = "Approved")
Settled == Judge(Found("decision"), seen["decision"].settled)
ReceiptMatchesDecision ==
    Judge(Found("decision"),
          \A f \in {"id", "hash", "version", "agent", "service", "asset", "amount"} :
              seen["receipt"][f] = seen["decision"][f])

ChainChecks == {DecisionFound, VerdictApproved, Settled, ReceiptMatchesDecision}

MemoCommitment == Judge(HasMemo, Sha256(Preimage(seen["receipt"])) = seen["tx"].memo)
ContractMemoHash == Judge(HasMemo /\ Found("view"), seen["view"] = seen["tx"].memo)
ReceiptPreimage ==
    Judge(HasMemo, /\ seen["receipt"].preimage = Preimage(seen["receipt"])
                   /\ Sha256(seen["receipt"].preimage) = seen["tx"].memo)
ReceiptMemoHash == Judge(HasMemo, seen["receipt"].memo = seen["tx"].memo)

CommitmentChecks == {ReceiptMemoHash, MemoCommitment, ReceiptPreimage, ContractMemoHash}

\* The ledger against the contract, never against the receipt.
PaymentAmount == Judge(IsPayment /\ Found("decision"), Payment.amount = seen["decision"].amount)
PaymentAsset ==
    Judge(IsPayment /\ Found("decision"),
          Sac(seen["receipt"].network, Payment.asset) = seen["decision"].asset)

\* Mutant: a service without a published payee has nothing to compare.
DestinationMutant ==
    Judge(Found("registry") /\ IsPayment /\ Found("decision"),
          seen["registry"].services[seen["decision"].service] \in {None, Payment.to})

Destination ==
    Judge(Found("registry") /\ IsPayment /\ Found("decision"),
          /\ seen["registry"].services[seen["decision"].service] # None
          /\ seen["registry"].services[seen["decision"].service] = Payment.to)
Source ==
    Judge(Found("registry") /\ Found("tx") /\ seen["registry"].executor # None,
          seen["tx"].source = seen["registry"].executor)

RegistryChecks == {Destination, Source}

DecisionIdDerivation ==
    Judge(Found("decision"),
          DecisionId(seen["decision"].hash, seen["decision"].version) = seen["decision"].id)
\* Mutant: the settlement must be strictly older than the payment.
SettlementOrderMutant == Judge(Found("entry") /\ Found("tx"), seen["entry"] < seen["tx"].ledger)

SettlementOrder == Judge(Found("entry") /\ Found("tx"), seen["entry"] <= seen["tx"].ledger)

StrictChecks == IF strict THEN {DecisionIdDerivation, SettlementOrder} ELSE {}

CheckReplay ==
    Judge(Found("scan") /\ seen["scan"].exhaustive, seen["scan"].hashes = {TxArg})

Checks ==
    {CheckTxMatchesReceipt, CheckRegistryContract, PaymentAmount, PaymentAsset, CheckReplay}
      \cup LedgerChecks \cup ChainChecks \cup CommitmentChecks \cup RegistryChecks \cup StrictChecks

\* A detected mismatch outranks an unfinished check.
ExitCodeFor(statuses) ==
    IF "fail" \in statuses THEN Exit.FAILED
    ELSE IF "unavailable" \in statuses THEN Exit.UNAVAILABLE ELSE Exit.VERIFIED

VerdictFor(code) ==
    IF code = Exit.VERIFIED THEN "VERIFIED" ELSE IF code = Exit.FAILED THEN "FAILED" ELSE "UNAVAILABLE"

Report == pc = "report" /\ Stop(ExitCodeFor(Checks), VerdictFor(ExitCodeFor(Checks)))

-----------------------------------------------------------------------------
(* The world moves on.                                                      *)

Become(w) ==
    /\ Trouble /\ pc # "done" /\ world' = w
    /\ UNCHANGED <<pc, start, strict, seen, scan, exit, verdict>>

\* Horizon ingests the ledger the payment is in.
Ingest == ~world.ingested /\ Become([world EXCEPT !.ingested = TRUE])

\* The executor marks the decision settled, a ledger after the payment's.
MarkSettled ==
    \E k \in DOMAIN world.held :
        LET d == world.held[k]
        IN  /\ d # NotFound /\ d.verdict = "Approved" /\ ~d.settled
            /\ Become([world EXCEPT !.held[k] = [d EXCEPT !.settled = TRUE, !.written = world.now + 1]])

\* The same memo is paid a second time, from the executor to the payee.
PayAgain ==
    \E payer, payee \in DOMAIN world.after :
        /\ payer # payee /\ world.after[payer] = <<>> /\ world.after[payee] = <<>>
        /\ Become([world EXCEPT !.after[payer] = <<"copy">>, !.after[payee] = <<"copy">>])

Reads == \/ ReadReceipt \/ FetchTransaction \/ FetchOperations \/ Connect \/ GetDecision
         \/ MemoHashView \/ EntryLedger \/ ReadRegistry \/ ReplayCheck \/ ScanForMemo

Next == Main \/ Reads \/ Report \/ Ingest \/ MarkSettled \/ PayAgain

Spec == Init /\ [][Next]_vars

\* Every request is answered or times out.
FairSpec == Spec /\ WF_vars(Main \/ Reads \/ Report)

-----------------------------------------------------------------------------
(* What the verdicts must mean, said of the world and not of the checks.    *)

\* The payment on the ledger is the one the published contract authorized: an approved,
\* settled decision, its amount, its asset, the published payee and payer, and a memo that
\* commits to that very decision.
Authorized(w) ==
    LET d == w.held[<<w.registry.pin, w.receipt.id>>]
        p == w.ops[1]
    IN  /\ w.registry # NotFound /\ w.registry.pin # None /\ w.tx # NotFound /\ d # NotFound
        /\ w.tx.successful /\ w.tx.count = 1 /\ Len(w.ops) = 1 /\ p.type = "payment"
        /\ d.verdict = "Approved" /\ d.settled
        /\ w.tx.memo = Sha256(Preimage(d))
        /\ p.amount = d.amount /\ Sac(w.receipt.network, p.asset) = d.asset
        /\ p.to = w.registry.services[d.service] /\ w.tx.source = w.registry.executor

\* The receipt tells the same story.
Described(w) ==
    LET d == w.held[<<w.registry.pin, w.receipt.id>>]
    IN  /\ w.receipt.tx = TxArg
        /\ \A f \in {"id", "hash", "version", "agent", "service", "asset", "amount"} : w.receipt[f] = d[f]
        /\ w.receipt.preimage = Preimage(d) /\ w.receipt.memo = w.tx.memo

\* Nothing to object to, in either mode, and every source holds it.
Impeccable(w) ==
    LET d == w.held[<<w.registry.pin, w.receipt.id>>]
    IN  /\ w.file = "receipt" /\ w.ingested
        /\ Authorized(w) /\ Described(w)
        /\ w.registry.pin = (IF w.override # None THEN w.override ELSE w.receipt.contract)
        /\ d.id = DecisionId(d.hash, d.version) /\ d.written <= w.tx.ledger
        /\ \A a \in DOMAIN w.before : "copy" \notin {History(w, a)[i] : i \in DOMAIN History(w, a)}

\* A verdict VERIFIED is a statement about the world: whatever subset of lies the sources and
\* the receipt tell together, the payment is authorized and the receipt describes it.
VerifiedIsAuthorized == verdict = "VERIFIED" => Authorized(world) /\ Described(world)

\* A verdict FAILED is never raised against a settlement that is in order from the first
\* read to the last, whichever sources could not be reached on the way.
FailedIsReal == verdict = "FAILED" => ~(Impeccable(start) /\ Impeccable(world))

\* No copy of the payment in the history of its payer or payee when the tool started goes
\* unnoticed by a VERIFIED, however long the histories are.
ReplayIsCaught ==
    verdict = "VERIFIED" =>
        \A a \in {world.tx.source, world.ops[1].to} :
            "copy" \notin {History(start, a)[i] : i \in DOMAIN History(start, a)}

\* A settlement in order, with every source up and histories shorter than the scan reads, is
\* VERIFIED: the checks together are no stricter than what the world must be.
HonestIsVerified ==
    /\ pc = "done" /\ world.args = "run" /\ Impeccable(start) /\ Impeccable(world)
    /\ \A s \in Sources : seen[s] # Down
    /\ \A a \in DOMAIN world.before : Len(History(world, a)) < PAGE * MAX_PAGES
    => verdict = "VERIFIED"

\* However the sources fail and the histories grow, a run comes to its report and its exit code.
EveryRunReports == <>(pc = "done")

=============================================================================
