# AEGIS Phase 1: a TLA+ model

AEGIS puts a contract between an autonomous agent and the money it may spend:
an agent's *intent* is judged on chain against its owner's policy, the
*decision* is stored on chain, and an executor pays only what the chain
approved, once. This directory models the parts where that promise is kept or
lost, checks small instances with TLC, and proves what it can for every value
of the constants with TLAPS. Paths below are relative to the repository.

## The system

| Component | State it keeps | Operations | Talks to |
|---|---|---|---|
| **Authorization contract** `contracts/authorization/src` | owner, operator; per agent a policy and a tumbling window; per decision id a decision; an index intent hash -> decision id | `init`, `set_operator`, `register_agent`, `set_policy`, `revoke_agent`, `authorize`, `resolve`, `mark_settled`, views | called by the owner, the gateway (operator) and the executor (operator) |
| **Settlement executor** `apps/executor/src` | a journal row per decision (`node:sqlite`); an in-process lock per decision | `settle`, `recover`, `pending`, `status`; each `aegis-settle` call is a process | reads the decision from the contract, calls `mark_settled`, reads and POSTs to Horizon |
| **Gateway** `apps/gateway/src` | intents, decisions, approval queue (Postgres, or memory when degraded); a keyed mutex | `POST /v1/intents`, resolve, a decision by id, an intent by hash, approvals, failures | co-signs `authorize`/`resolve`, caches the chain |
| **Verifier** `tools/verifier/src` | none | `verify`: an ordered list of checks and an exit code | reads receipt, contract, Horizon, registry |
| **Receipt package** `packages/receipt` | none | parse and validate a receipt | executor writes, verifier reads |
| **Canonical encoding** `packages/canonical`, `crates/canonical` | none | canonical intent, hashes, amounts, in TypeScript and Rust | everyone |
| **Bindings** `packages/bindings` | none | generated contract client | gateway, executor, verifier, console |
| **Console** `apps/console` | none | reads chain, Horizon and gateway; derives a status per decision | read only |
| **Scripts, evidence** | recorded files | one-off runs | - |

External: the Stellar ledger, Soroban RPC and Horizon.

### What is hard, and what makes each part correct

* **Contract.** Calls arrive in any order from three signers; policies change
  between an escalation and its answer, and between an approval and its
  settlement; a tumbling window is judged in one function and charged in
  another; integers have a width. Correct means: an intent is judged once,
  answered once, settled once; a stored decision never loses its history; the
  window total is exactly the sum of the approvals since it began; revocation
  holds at once; a request gets an answer instead of a trap, unless the policy leaves
  the integers no room.
* **Executor.** A crash may come between any two awaits; `mark_settled` and
  the payment are two transactions on two rails and neither answer is
  reliable; Horizon lags; the lock is per decision and per process while the
  account sequence number is shared. Correct means: paid at most once, only
  after the contract settled it, with bytes that were on disk before; the
  journal only says what is true; an attempt comes to an end.
* **Gateway.** The chain is the authority and the database a cache: partial
  failures between the two, replays racing resolutions, a degraded store.
  Correct means: the cache never contradicts a later chain state for ever,
  a snapshot of an escalation is written once, no decision is invented.
* **Verifier.** Correct means: exit code 0 only if every check ran and passed;
  an unreachable source is never a pass.
* **Canonical encoding.** Two implementations agree, and amounts round-trip.

## The modules

| Module | Models | State and actions |
|---|---|---|
| `DecisionLifecycle` | what the contract promises about one intent, and all the executor relies on | `stage` per intent: None -> Pending / Approved / Rejected, Pending -> Approved / Rejected, Approved -> Settled |
| `Authorization` | the contract | one variable per `DataKey` plus the ledger clock; one action per entry point, whole invocation in one step, because the host rolls back a refused one |
| `AuthorizationAudit` | an auditor who writes down when each approval happened | adds `grantedAt`; the history the contract deliberately does not keep (DECISIONS.md #3) |
| `Console` | the evidence console's look-up (`chain.ts`) and conclusions (`derive.ts`) | no state; operators over the contract's state and an RPC endpoint that may be down or report an expired entry |
| `PaymentOnce` | what the executor promises the owner of the money | `settled`, `paid` |
| `Executor` | settle, recover, the journal, Horizon and the payment ledger: the control | the journal per database file, `run` per process and decision with a program counter, marks in flight, accepted and included payments; one action per stretch of code between two awaits |
| `Registries` | `services.json` and its three hand-written readers | no state; one loader per reader |
| `ReceiptFormat` | the receipt as a document: the writer and the shared validator | no state; a JSON value is its kind and the form the validator's patterns tell apart |
| `Settlement` | one settlement from the registry to the verifier's verdict: the data `Executor` leaves out | the registry file, the decision, trustlines and balance, the ledger, the journal row, the run, the receipts handed out; uses `Registries`, `ReceiptFormat` and the checks of `Verifier`; the console's search for the payment (`horizon.ts`) and the card that reports it as operators |
| `Gateway` | every handler under `/v1` but the health check, the write gate before them, both stores, faults and crashes | `req` per request with a program counter, the mutex `lane` per signing account, the transactions in flight, the tables, the list in progress; one action per stretch between two awaits |
| `Turnstile` | what the gateway relies on when it serializes work per account: first come, first served | `key` and `state` per call |
| `KeyedMutex` | `mutex.ts`: the chain of promises per key and its late clean-up | the map of tails, the predecessor of each call, who has been swept |
| `Verifier` | `aegis-verify`: every read, the page-by-page memo scan, every check, the exit code | `pc` over the reads, what each source answered (`seen`), the scan, the world, which moves on between the reads |
| `Canonical` | the byte layouts that are hashed, in TypeScript, Rust and the contract; the formatter and the parser of amounts | no state |
| `AuthorizationProofs`, `AuthorizationAuditProofs`, `ExecutorProofs`, `SettlementProofs`, `GatewayProofs`, `KeyedMutexProofs`, `VerifierProofs`, `CanonicalProofs` | the theorems | |
| `MCAuthorization`, `MCAuthorizationAudit`, `MCExecutor`, `MCGateway`, `MCSettlement`, `MCVerifier` | instances for TLC (`KeyedMutex` needs none) | |

How they compose. `Executor` composes with the contract through `DecisionLifecycle` (its
`Contract` instance): `Authorization` is shown to implement that interface
(`ImplementsLifecycle`), so the executor sees only what the contract can do.
In the other direction the whole executor is shown to implement `PaymentOnce`
under the mapping `settled` = the decisions in stage Settled, `paid` = the
number of successful payments on the ledger. `KeyedMutex` is shown to implement
`Turnstile`; `Gateway` takes a queue per signing account from it. `Console`
extends `Authorization`, so that its conclusions are compared with the very step
that judged the decision. `Settlement` runs the executor's data path against the
registry it loads and lets `Verifier`'s checks judge the receipt that comes out,
so that four components are held against each other.

Operators whose names contain `Mutant` stand directly before the definition
they vary. No specification uses them: each is a plausible bug in the code, and
the property it is listed with in `PROJECT.json` fails when it replaces the
original.

### How the model differs from the code

* `Authorization`: `sha256` is an injective tuple; events, TTL extension and
  archival and `Policy.owner` (which no entry point reads) are left out, as are
  the read-only views. A trap (overflow with `overflow-checks`, a failed
  `require_auth`) is a call that does not happen. Each ledger has a later
  timestamp than the one before, by any number of seconds up to the bound
  `MaxTime`, and several calls may share a ledger.
* `Console`: an RPC answer is its status, the error the text names and the
  value; an expired entry is reported in each of the three ways the code expects.
  Wording, formatting and the current-policy card of the page are left out.
* `Executor`: signing is deterministic, so an envelope is the record of its
  decision, sequence number and `max_time`, and equal records are the same
  transaction. One payment of the account per ledger. `Stop` ends a run at any
  point: a crash, an exception, `--dry-run`. The local clock is right or behind
  Horizon. Horizon is one server whose answers are as of the last ledger it
  ingested. Registry, amount and preflight refusals end a run without effect.
  `mark_settled` may be refused by the simulation at any time (revocation).
  Nobody but the executor calls `mark_settled`.
* `Settlement`: one decision and one process; Horizon shows what the ledger
  holds, the races being `Executor`'s. An envelope is its own hash. A receipt is
  judged by all of the verifier's reads at one instant, the races of those being
  `Verifier`'s; the console's search too. Pages are left out of that search: it
  reads the `SearchLimit` newest transactions of an account. An amount is compared in stroops on both sides.
* `Gateway`: a policy version stands for the threshold of that version; the
  contract is one step per call with the verdicts it may give, of which only the
  stage, the version and the escalation are kept. A body that does not parse
  reaches no step of the model. Each request is sent once; a retry is a second
  request with the same hash. `authorize` may be refused for an account or an agent
  the contract does not know, either way. The branch of `chain.ts:347`
  for a simulation that needs no signature (`isReadCall`) is left out: both calls
  require the authorization of somebody, so it is not reached.
* `KeyedMutex`: only the order of microtasks that can matter is kept, as a
  choice: when a call starts after its predecessor has settled, and when the
  clean-up of a tail runs.
* `Verifier`: hashes are injective constructors (`CanonicalProofs` says of the
  preimages that they deserve it). A world is what all files and sources hold;
  it changes by what AEGIS may do to it: Horizon ingests, the executor marks,
  the payment is repeated. There is one Horizon, one RPC and one network, whichever
  was nominated: unless `--horizon`, `--rpc` or `--network` say otherwise, the
  tool takes their addresses from the receipt it is to judge (`verify.ts:82-85`).
  So "the ledger carries" and "the contract authorized" in the properties and
  theorems about a verdict mean what the nominated sources hold. That these are
  the sources one trusts is for the person who runs the tool to see to.
* `Canonical`: SHA-256 is left out and `Nfc` is a parameter. A string is the
  sequence of bytes that UTF-8 makes of it; an amount as text is its sign, its
  whole part and its decimals, so the printing of a natural in base ten is taken
  for granted.

## The runs

| Run | Instance and bounds | What it shows |
|---|---|---|
| `authorization_rules` | owner, operator, stranger; one agent; 2 intents, 7 requests (one per rule, 0 and the largest i128 among them), 2 policies, u32 to 2 (so two ledgers), u64 to 3, time to 2, i128 to 6: one policy just has room for its sums, the other traps | types, index, trail, finality, revocation, answers, `DecisionLifecycle`; and the console, asked about each decision as it is judged, by either reference, over every endpoint, reports it truthfully |
| `authorization_budget` | 3 intents with amounts approved, escalated and over the cap, 2 policies of one window length, u32 to 3 (three ledgers), time to 5, the seconds between two ledgers free: windows that begin at 1, 3 and 5 | the running total is the history; the budget at each grant; at most twice the cap in any span of one window length; charge and judgement agree |
| `console_approved` (violation) | as `authorization_rules` | the rule shown for a spend the owner approved is false of the values beside it |
| `executor_safety` | 1 process, 2 decisions, ledgers to 4, timeout 1, 1 early end | write-before-mark, truthful terminal states, no way back, `PaymentOnce` |
| `executor_shared_journal` | 2 processes on one database file, 1 decision, 1 early end, with fairness | the primary key, the guarded replace and the stored bytes are enough against a second payment; an interrupted mark is caught up; a payment ends in a terminal record |
| `executor_stuck_submitted` (violation) | 1 process, 1 decision, 1 early end, with fairness | an attempt that expired before its POST stays SUBMITTED for ever |
| `executor_abandoned_paid` (violation) | 1 process, 1 decision | ABANDONED is journalled for a payment that was made |
| `settlement` | 8 decisions, 9 registries and 4 editions they may be edited to, int64 to 6, 8 stroops, timeout 2, ledgers to 4, 2 troubles (early end, edit, lost trustline, another payment); the console searches the payer and the payee, the payee, or nobody, 2 transactions deep | a receipt is VERIFIED exactly when its transaction paid; nothing is marked that the rail cannot carry; no payment ends in a receipt the validator refuses; the gateway, which may have loaded another edition, shows the payee that is paid if its edition says the same of the service; the console never reports a payment that was not made, nor as proven absent one that was |
| `gateway_safety` | 2 intents, 2 requests and a list (3 calls), both stores, 2 faults, degraded store of 1 row, list limit 1 or 2 | answers, cache, queue and list are the chain's, through crashes, lost answers and failing writes |
| `gateway_cache_back` (violation) | 1 intent, 2 requests, Postgres, no fault | a slow replay puts the cached decision back to pending |
| `mutex_queue` | 4 calls, 2 accounts, with fairness | the promise chain is a turnstile per account, nobody waits for ever, the map is emptied |
| `verifier` | every world with up to 3 facts falsified or 3 troubles (or a mix), pages of 2, 2 pages, both modes, with fairness | VERIFIED only for what was authorized and described and not repeated; FAILED never for a settlement in order; an honest one is VERIFIED; a report always |

Why the bounds are enough to matter. The contract keeps no state across agents
except the two administrators, so one agent shows what an agent can meet; two
intents are the least that compete for a window, three the least that exceed
two caps. The u32 bound of 2 puts `set_policy` one step before its overflow.
It also bounds the sequence of ledgers, and therefore a ledger may close any number
of seconds after the one before: three ledgers reach three windows of length two.
In `authorization_rules` the i128 and the u64 end exactly where one policy still has
room for `window total + amount` and `window_start + window_seconds` (`HasRoom`) and
the other does not, so that both traps of the code are among the behaviours, as is
the largest amount that is answered. For the executor, two decisions are the
least that compete for a sequence number, two processes the least that race;
with a timeout of one ledger, four ledgers let an envelope be prepared, expire,
be rebuilt and expire again with Horizon behind all the time; `MaxStops` is the
number of early ends, and every step may be the one a run ends at. In
`Settlement` a timeout of two leaves an expired envelope one ledger to be built
again in, one amount exceeds the rail while the balance could carry it, and a
history of two transactions already reaches the limit of the console's search. In
`Gateway` two requests are the least that race for one intent, the list is the
third call, two faults let a crash follow a lost answer, and a degraded store of
one row has to evict. In `KeyedMutex` four calls let a
clean-up meet an entry it does not own and one it does. In `Verifier` a history
of four or five entries is as long as the scan reads or longer, three falsified
facts let two of them hide a third; `HonestIsVerified` compares with a reference
definition (`Impeccable`), stated of the world and not of the checks.
`CHECK_DEADLOCK` is off because the systems may stop: all intents decided, all
requests answered or the model's clock at its end.

Fairness (`FairSpec`) is weak fairness of: ledgers closing, Horizon ingesting,
a sent `mark_settled` landing or failing, a started run taking its next step,
and the operator calling `recover()` again. None is assumed for `settle()`, for
a lost POST, or against early ends beyond `MaxStops`. The comment in
`settle.ts` ("run recover() to reach a terminal state") is what justifies the
last item, the event loop the one before it. In `KeyedMutex`, a settled promise
runs its continuations and a handler ends (its RPC calls time out). In
`Verifier`, a read is answered or times out; the world may move on at any time
and nothing is assumed of it. `Gateway` and `Settlement` have no liveness
properties and assume no fairness.

### What the failing runs say

1. *Stuck SUBMITTED.* `resume()` looks the hash up and, on a 404, POSTs again.
   After `max_time` Horizon rejects that POST, which throws before
   `awaitInclusion`, the only place with the non-inclusion proof. The comment
   in the rejected branch says `recover()` will reach it.
2. *ABANDONED but paid.* The proof reads the transaction, then the clock. If
   Horizon ingests in between, the clock is from after the payment and the 404
   from before. Reading the clock first would make the proof sound.
3. *Cache back to pending.* `recordDecision()` upserts what its handler
   observed and runs outside the mutex. A replayed `POST /v1/intents` that saw
   the decision pending may write after the resolve handler has written the
   answer. Readers ask the chain, so nobody is told the wrong stage, but the
   table says it.
4. *A rule that did not decide.* The console derives the predicate from the
   final reason code. `Ok` means "below the threshold" for an outright approval
   and the opposite for one the owner gave.

### Other disagreements met while modelling

Not kept as runs; each is what the source does, beside what a comment says.

* `settle --dry-run A`, `settle B`, `settle A` marks A settled on an envelope
  whose sequence number B has used: a PREPARED record is reused while
  `max_time` has not passed, whatever the account did (`settle.ts`).
* Two processes with a journal each can pay one decision twice:
  `AlreadySettled` refuses a second mark, not a second payment. This is why
  `PaidAtMostOnce` assumes `OneJournal`.
* `advance()` has no guard on the status it leaves (`sqlite.ts:165`); with two
  processes on one journal a record can go back. `JournalMovesRight` is checked
  of a process alone, and proved of processes with a journal each.
* The receipt's destination is the payee in the registry of the run that writes
  the receipt, not the envelope's (`settle.ts:320`); after an edit and a resumed
  run they differ, hence the premise `Publishes` of `ReceiptVerifiesIffPaid`.
* A crash after SETTLED is journalled loses the receipt: `recover()` passes
  terminal records over.
* The degraded store overwrites an approval row whose snapshot is written once
  (`store.ts:379`), although the list tells its reader that "set_policy cannot
  silently change what this entry means" (`server.ts:658`). The model has the
  overwriting step; `SnapshotIsKept` is stated of Postgres, and no property says
  that the degraded store keeps a snapshot, because it does not.
* The approvals list is cut at its limit, newest first, before the chain filters
  it (`store.ts:243`), so answered entries take up room. `ListIsComplete` says what
  is left out: only entries with `limit` later ones ahead of them, answered or not.
* The escalation snapshot may show the rule of a later policy version
  (`server.ts:733-747`), which the code logs and accepts; `QueueHoldsEscalations`
  says never of an earlier one, and a later one is no violation of it.
* A gateway loads `services.json` when it starts (`server.ts:822`) and an executor
  when it does: after an edit of a service's entry the gateway shows the old payee
  until it is started again. `ShownIsPaid` compares any two editions that say the
  same of the service.
* `GET /v1/intents/:hash` looks for its row before it asks the chain, so it can
  say that there is no stored intent beside a decision just made
  (`server.ts:493-495`).
* The verifier answers FAILED, not UNAVAILABLE, while Horizon has not ingested
  the payment (`checks.ts:79`); a second payment found before the page cap is
  reported as unavailable (`checks.ts:519`); the receipt's own source,
  destination and asset are never compared (`checks.ts:213`); and it takes the
  last entry of a service, a retired one too (`registry.ts:90`), where the
  executor takes the active one.
* `register_agent` may register a version again with other values, and the
  console then says of today's policy that it is the one applied
  (`derive.ts:245-252`); the caveat "re-judged" is shown for a rejection too,
  which judges nothing.

## The proofs

`AuthorizationProofs` proves, for every set of accounts, agents, services,
policies, requests and hashes and every integer width, with only the named
assumptions of `Authorization` (the widths are naturals that contain 1, the
arguments have the types of the signatures, `None` is no stored value):

* `TypeCorrect`, `AgentsRemainRegistered`, `IndexCorrect`, `TrailCorrect`: the
  state invariants. `TypeOK` is not inductive alone: that the window written
  belongs to a registered agent needs `AgentsStayRegistered`; that a resolved
  or settled record keeps a typed id needs `DecisionIndexed`; `DecisionTrail`
  needs the index to know that a fresh decision overwrites nothing. Their
  conjunction `IInv` is inductive (`IInvInductive`, one lemma per kind of
  step), and all four are checked by TLC as well.
* `ChargesNeverVeto`: follows from typing alone. Judging and charging read one
  window through two functions (`ChargeAgrees`).
* `DecisionsFinal`, `RevocationImmediate`, `ContractImplementsLifecycle`: from
  `NextIsDecisionStep`, which reduces the nine kinds of step to the three that
  touch a decision (a new one, an answer, a settlement) or none.
* `EvidenceTells`: the console's `EvidenceIsTrue`, for every endpoint, with two
  more assumptions, of `Console`: no intent hash is a decision id
  (`ReferenceAssumption`; one kind of reference must be a miss for the other) and
  `None` is no error name. A step that judges a decision is a first or a second
  judgement (`JudgementKinds`); the look-up after it rests on `DecisionIndexed`
  of the next state, the predicate shown on `ChargeAgrees`: because the veto is
  unreachable, the reason stored is the reason `evaluate()` gave.

`AuthorizationAuditProofs` proves what the contract's one running total is worth,
for every number of agents, intents and policies, under `SteadyWindows`: the
policies an agent is ever given have one positive `window_seconds`. This cannot be
dropped: with another length the end of the stored window moves, and a charge may
reset a total whose approvals lie in the window that the properties speak of. It
assumes besides that `None` is no time (`TimeAssumption`).

* `AuditHolds`: the inductive invariant `AuditInv`. Over `IInv` it says that a
  policy in force has the caps and the length of one that was given (`PolicyInv`);
  that exactly the approvals have a time, finitely many, none after the end of its
  agent's window (`HistoryInv`); that the stored total is the worth of that window
  (`AccountsInv`); and that the windows an agent has had began at least a length
  apart, cover all its approvals, and none was overspent (`WindowsInv`). The last
  one needs the set of those beginnings, which no variable holds: it is quantified,
  and a grant that resets adds to it.
* `TotalIsTheHistory`, `BudgetHolds`, `SpansAreBounded`: the properties of the run.
  A span of one length meets at most two windows (`TwoMeet`), so it holds no more
  than two caps. A cap may be negative in the code's types and then admits nothing,
  which is why the bound takes the largest of the caps and 0.
* `RequestsAreAnswered`: under a policy that has room (`HasRoom`: its per-intent cap
  on top of any window cap of the agent fits in an i128, and a window that begins at
  the last time ends within the u64) no amount makes the evaluation trap. Without
  room the additions of the window rule do overflow, which the run reaches; so the
  premise is part of the property, which says where a trap may come from: the policy,
  never the request. The theorem needs neither `SteadyWindows` nor anything else of
  the arguments.
* Sums over finite sets come first. The library's induction theorems take an
  operator, which the provers cannot instantiate; each induction is written as the
  choice of a smallest counterexample (`MinimalSubset`, from the well-foundedness
  of the strict subsets of a finite set), and that the sum does not depend on the
  order in which elements are taken is `TotalSplit`.

`ExecutorProofs` proves, for any sets of processes and decisions, any assignment
of journals to processes and every bound (assumptions: the bounds are naturals,
`None` is no record and no envelope):

* `TypeCorrect`, `WriteBeforeMark`, `SentBytesStored`: the conjunction `IInv` is
  inductive (its typing is proved only, no run repeats it). None of the three is inductive alone: they need to know what a run
  may rely on at each program counter although other processes, late marks and
  crashes move under it (`RunInv`). At "mark" the row is there; from
  "journal_marked" on the chain has settled the decision; from the first
  `advance()` on the row is past PREPARED; and from "post" on the run's copy of
  the envelope is the row's. Each run step writes at most its own row, and only
  as `RowStep` allows (a row is never deleted, one past PREPARED keeps its
  envelope), which is all that the knowledge of the other runs depends on
  (`RunInvStable`). The lock is not used anywhere: the argument rests on the
  primary key, on `WHERE status = 'PREPARED'` and on `advance()` keeping the
  envelope columns.
* `SettledRowsArePaid`, `AbandonedRowsAreClosed`: a second invariant over the
  first (`OutcomesInv`): Horizon is never ahead of the ledger, and a terminal row
  tells the truth when it is written (`RunWrites`) and stays true because the
  sequence number and the time only grow (`LedgerGrows`).
* `PaidAtMostOnce`, `ExecutorImplementsPaymentOnce`: under `OneJournal`, all
  processes open one journal. Then one envelope per decision can have been sent
  (`OneEnvelope`), a sequence number is good for one transaction (`SequenceInv`),
  and so the payment of a new ledger is of a decision that was never paid. A
  process with a journal of its own can build an envelope for a decision that
  another one has paid, so `OneJournal` cannot be dropped.
* `RecordsMoveRight`: under `OwnJournals`, no two processes open one journal, no
  record goes back, leaves a terminal status or is deleted. `advance()` has no
  guard of its own, so the argument is what a run knows of its row
  (`StatusesKnown`): the gate has seen the settlement of a row that is past
  PREPARED, so a run never looks up a row that is already terminal, and nobody
  else moves it meanwhile. With a shared journal somebody does.

`SettlementProofs` proves all five properties of the run `settlement`, for every
registry file and edit of it, decision, configuration and bound. The assumptions
are those of `Settlement` and of the verifier's checks it uses: bounds are naturals,
account and contract addresses are distinct, records and files have the forms the
parsers tell apart, and no value is one of the markers for its absence.

* `CoreHolds`: a row is of an approved and payable decision and its envelope says
  what the decision says; past PREPARED the contract has settled it (`JournalInv`).
  Nothing is settled without a row or sent that is not the row's (`PaymentInv`).
  What a run has checked at each await still holds there, although the owner, the
  file and the ledger have moved (`RunInv`).
* `SettledPays`, `ReceiptsPass`, `PayeeIsShown`: from `CoreHolds`; the latter two
  compare the executor's reader of the registry with the validator and with the
  gateway's reader, which follows other rules and may read another edition.
* `CardTells` and `ReceiptsVerify` need to know of the ledger that a payment stands
  at its own sequence number and not before the settlement, and of a receipt that
  it describes the row's bytes (`TruthInv`). `ReceiptVerifiesIffPaid` has the
  premise `Publishes`: besides the payee, it says that the file knows the service
  by one name, because the verifier prefers a spelling of the id that the executor
  does not read.

`GatewayProofs` proves all six properties of the run `gateway_safety`, for any
numbers of requests, hashes, faults, versions and rows (`GatewayAssumption`: the
limits are positive and the hashes finitely many, at least one):

* `TypeCorrect`, `CacheIsHonest`, `AnswersAreHonest`, `QueueIsHonest`: the invariant
  `CoreInv` says what a handler may rely on at each await while chain, store and
  other handlers move on (`HandlerInv`): what it holds was once on the chain, and
  the chain only moves forward (`ChainMoves`), so what it writes or says late was
  true. `AnswersAreTheChains` needs besides that without faults a decided intent
  has its row (`StoredInv`, `DecidedIsStored`).
* `SnapshotStays`: no step rewrites a snapshot in Postgres.
* `ListIsHonest`: a hash closed when the list began is never shown, since what is
  over stays so (`ListInv`).
* `ListIsWhole`: when nothing fails and the rows fit, every escalation told of is in
  the queue (`KeptInv`, by counting rows against escalations) and each one due is
  shown, still to be read or cut off by the limit (`WholeInv`, `CutAtTheLimit`).

`VerifierProofs` proves all four invariants of the run `verifier`, for every page
size and cap, every world and every change of it while the tool reads
(`ScanAssumption`, `MarkerAssumption`, and that the starts are worlds):

* `CoreHolds`: what the world may have become since the start (`WorldInv`), what
  has been asked at each place (`PlaceInv`), what each answer still says of a world
  that has moved on (`AnswersInv`) and which copies of the memo the pages read so
  far account for (`ScanInv`). The two interesting parts are the answers, which
  must allow the decision to have been read before `mark_settled`, and the
  scan, whose cursor stands in a history that grows at its other end.
* `VerifiedIsTrue`, `FailedIsTrue`, `CopiesAreCaught`: from `CoreHolds` at the
  verdict. `HonestIsTrue` also needs that in a settlement in order, with all
  sources up, every answer is the true one and the walk ends before its cap
  (`AnsweredInv`, `OrderlyInv`).

`KeyedMutexProofs` proves, for every number of calls and every set of accounts:

* `TypeCorrect`; `SequenceNumbersAreSafe`: two calls of one account never run
  together; `ChainsAreAQueue`: `KeyedMutex` implements `Turnstile`. The
  invariant says that a map entry is the last call of its key (`TailIsLast`),
  that a call's predecessor is the one just before it among those of its key
  unless all of those have ended (`PreviousIsLast`), and that a call is past
  waiting only when everything before it has ended (`ServedInOrder`). The middle
  one is what the late clean-up could break and does not: it removes an entry
  only when it is the sweeper's own (`SweepKeeps`).
* `SweepsEmptyTheMap`: when the calls that came have been swept, no entry is left.
  It is the safety half of `MapIsEmptied`; that the sweeps come is fairness.

`CanonicalProofs` proves, for all strings, amounts, hashes and versions in the
range the encoders accept:

* `IntentIsUnambiguous`, `MemoIsUnambiguous`, `DecisionIsUnambiguous`: equal
  bytes come from equal fields, although the memo has neither a domain nor
  lengths. Each field is prefixed by a length of fixed width or is of fixed width
  itself, so two equal concatenations can be split at the same place (`Split`),
  and the integers are unique in base 256 (`U16Unique` to `I128Unique`).
* `PreimagesAreApart`: no bytes are a decision's preimage and an intent's or a
  memo's.
* `ImplementationsAgree`: TypeScript, Rust and the contract make the same bytes
  and accept the same intents, if the strings are normalized (Rust leaves that to
  its caller) and the amount is within the i128.
* `AmountsSurviveText`: `parseAmount` reads what `formatAmount` wrote, for every
  amount without a sign. A negative one is written but not read, by design.

These take SHA-256 for injective and `Nfc` as any function of texts; there is no
run of `Canonical`, whose theorems speak of all inputs at once.

Every safety property that a passing run checks is stated by a theorem; the type
invariants of the modules whose runs check none are part of theirs. Only model-checked
are the liveness properties (`InterruptedMarkIsCaughtUp`, `PaymentIsJournalled`,
`EveryCallIsServed`, `MapIsEmptied`, `EveryRunReports`): fairness and ENABLED are out
of the prover's reach, and what a theorem can say of them is an invariant like
`SweepsEmptyTheMap`. The failing runs are refutations, which only TLC gives. A theorem
assumes what the model does: the abstractions listed above hold of the proofs too.

## Not modelled

* **Bindings**: generated from the contract.
* **Scripts, evidence, deployment**: one-off programs and their recorded output.
* **Contract**: events, TTL extension and archival (the console's view of an
  expired entry is modelled), `Policy.owner`, the read-only views other than
  `get_window`, `memo_hash` and the two look-ups.
* **Executor**: argument parsing and printing of the CLI, HTTP details of the
  Horizon client.
* **Gateway**: body parsing, CORS, the failure
  table (written, never read), `/health`, serving the console.
* **Verifier**: argument syntax and the wording of the report.
* **Console**: pages, routing, wallet, explorer links.
* **Canonical**: SHA-256, hexadecimal and Unicode normalization.

## Plan

Done: every component with state of its own, with runs; every safety property of the
runs and the refinements of the contract, the executor and the mutex, with proofs. Left:

1. **What liveness rests on.** Invariants that say a step is possible, in the way
   `SweepsEmptyTheMap` stands behind `MapIsEmptied`: for each started run of
   the executor, each read of the verifier and each waiting call of the mutex.
2. **`SteadyWindows` relaxed** to lengths that never shrink, or a precise account
   of what a change of length may drop.
3. **The refinement of the data path**: `Settlement` under a mapping to the
   control of `Executor`.
