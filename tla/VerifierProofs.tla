---------------------------- MODULE VerifierProofs ----------------------------
(***************************************************************************)
(* What the verifier's verdicts mean, proved for every page size, every    *)
(* page cap, every world the sources may hold and every change of it while *)
(* the tool reads: the four invariants the run Verifier checks on a small  *)
(* instance.                                                               *)
(*                                                                         *)
(* The inductive invariant has four parts.  WorldInv: what the world may   *)
(* have become since the start.  PlaceInv: what has been asked where the   *)
(* run is.  AnswersInv: what each answer still says of a world that has    *)
(* moved on since it was given.  ScanInv: which copies of the memo the     *)
(* pages walked so far account for.                                        *)
(***************************************************************************)
EXTENDS Verifier, TLAPS

-----------------------------------------------------------------------------
(* The inductive invariant.                                                 *)

\* A decision the contract holds as settled, under the key the tool asks for.
Standing(w) == w.held[Key(w)] # NotFound /\ w.held[Key(w)].settled

\* An entry that mark_settled may have changed since the start: the service is the same.
Marked(k) ==
    /\ start.held[k] # NotFound /\ ~start.held[k].settled
    /\ {"service", "settled", "written"} \subseteq DOMAIN world.held[k]
    /\ world.held[k].service = start.held[k].service

FixedFields == {"args", "file", "override", "now", "receipt", "tx", "ops", "registry", "before"}

WorldInv ==
    /\ IsWorld(start)
    /\ FixedFields \cup {"ingested", "held", "after"} \subseteq DOMAIN world
    /\ \A f \in FixedFields : world[f] = start[f]
    /\ start.ingested => world.ingested
    /\ DOMAIN world.held = DOMAIN start.held
    /\ \A k \in DOMAIN start.held : world.held[k] = start.held[k] \/ Marked(k)
    /\ DOMAIN world.after = DOMAIN start.before
    /\ \A a \in DOMAIN start.before :
          world.after[a] \in Seq(Transactions) /\ start.after[a] \in {<<>>, world.after[a]}

Places == {"args", "receipt", "tx", "ops", "abi", "decision", "view", "entry", "registry",
           "accounts", "scan", "report", "done"}

PlaceInv ==
    /\ pc \in Places /\ DOMAIN seen = Sources
    /\ pc # "done" => verdict = None
    /\ pc \notin {"args", "receipt", "done"} => seen["receipt"] = world.receipt
    /\ pc \in {"args", "receipt", "tx", "ops", "abi", "decision", "view", "entry", "registry",
               "accounts", "scan"} => seen["scan"] = Unread
    /\ DOMAIN scan = {"todo", "page", "cursor", "hashes", "exhaustive"}
    /\ pc \notin {"scan", "report", "done"} =>
          scan.page = 0 /\ scan.cursor = 0 /\ scan.hashes = {} /\ scan.exhaustive

\* The decision as it was read: still what the contract holds, or not settled then.
DecisionRead ==
    \/ seen["decision"] \in {Unread, Down, world.held[Key(start)]}
    \/ /\ ~Standing(start) /\ ~seen["decision"].settled
       /\ start.held[Key(start)] # NotFound
       /\ seen["decision"].service = start.held[Key(start)].service

AnswersInv ==
    /\ seen["tx"] \in {Unread, Down, NotFound, world.tx}
    /\ Found("tx") => world.ingested
    /\ start.ingested => seen["tx"] \in {Unread, Down, world.tx}
    /\ seen["ops"] \in {Unread, Down, <<>>, world.ops}
    /\ start.ingested => seen["ops"] \in {Unread, Down, world.ops}
    /\ DecisionRead
    /\ Standing(start) => LET d == start.held[Key(start)] IN
          /\ seen["view"] \in {Unread, Down, Sha256(Preimage(d))}
          /\ seen["entry"] \in {Unread, Down, d.written}
    /\ seen["registry"] \in {Unread, world.registry}

\* The next account's walk: the cursor stands where the pages read so far end, and the memo
\* in those pages has been found.
WalkInv(a) ==
    /\ scan.cursor <= Len(History(world, a))
    /\ WithMemo(SubSeq(History(world, a), 1, scan.cursor)) \subseteq scan.hashes

ScanFacts ==
    /\ HasMemo /\ scan.todo \subseteq Accounts
    /\ scan.page \in Nat /\ scan.cursor = scan.page * PAGE
    /\ \A a \in Accounts \ scan.todo : scan.exhaustive => WithMemo(History(start, a)) \subseteq scan.hashes
    /\ \A a \in scan.todo : (a = CHOOSE b \in scan.todo : TRUE) => WalkInv(a)
    /\ scan.hashes \subseteq {TxArg, "copy"}
    /\ "copy" \in scan.hashes => \E a \in DOMAIN start.before : "copy" \in WithMemo(History(world, a))
    /\ scan.exhaustive \/ \E a \in DOMAIN start.before : Len(History(world, a)) >= PAGE * MAX_PAGES

ScanInv ==
    /\ pc = "scan" => ScanFacts
    /\ \/ seen["scan"] \in {Unread, Down}
       \/ /\ seen["scan"] = [hashes |-> scan.hashes, exhaustive |-> scan.exhaustive]
          /\ scan.todo = {} /\ ScanFacts

CoreInv == WorldInv /\ PlaceInv /\ AnswersInv /\ ScanInv

-----------------------------------------------------------------------------
(* The start, and how the world moves on.                                   *)

\* A start of the specification is a world, whatever it holds: nothing has been asked.
LEMMA CoreInit == Init => CoreInv
<1> SUFFICES ASSUME Init PROVE CoreInv
    OBVIOUS
<1>1. PICK s \in Starts : world = s.world /\ start = s.world
    BY DEF Init
<1>2. IsWorld(start)
    BY <1>1, StartsAssumption
<1>3. WorldInv
    <2>1. FixedFields \cup {"ingested", "held", "after"} \subseteq DOMAIN world
        BY <1>1, <1>2 DEF IsWorld, FixedFields
    <2>2. \A a \in DOMAIN start.before : world.after[a] \in Seq(Transactions)
        BY <1>1, <1>2 DEF IsWorld
    <2> QED
        BY <1>1, <1>2, <2>1, <2>2 DEF IsWorld, WorldInv
<1>4. PlaceInv
    BY DEF Init, PlaceInv, Places, Sources
<1>5. AnswersInv
    BY DEF Init, AnswersInv, DecisionRead, Found, Sources
<1>6. ScanInv
    BY DEF Init, ScanInv, Sources
<1> QED
    BY <1>3, <1>4, <1>5, <1>6 DEF CoreInv

\* A field that a change of the world leaves alone.
Untouched(f) == world'[f] = world[f]

\* How the contract's entry and an account's history may change in one step.
HeldMoves(k) ==
    \/ world'.held[k] = world.held[k]
    \/ /\ world.held[k] # NotFound /\ ~world.held[k].settled
       /\ {"service", "settled", "written"} \subseteq DOMAIN world'.held[k]
       /\ world'.held[k].service = world.held[k].service

AfterMoves(a) ==
    world'.after[a] = world.after[a] \/ (world.after[a] = <<>> /\ world'.after[a] = <<"copy">>)

WorldMoves ==
    /\ DOMAIN world' = DOMAIN world /\ \A f \in FixedFields : Untouched(f)
    /\ world.ingested => world'.ingested
    /\ DOMAIN world'.held = DOMAIN world.held /\ \A k \in DOMAIN world.held : HeldMoves(k)
    /\ DOMAIN world'.after = DOMAIN world.after /\ \A a \in DOMAIN world.after : AfterMoves(a)

Elsewhere == UNCHANGED <<pc, start, strict, seen, scan, exit, verdict>>

\* Horizon's ingestion changes one field.
LEMMA IngestMoves ==
    ASSUME WorldInv, Ingest PROVE WorldMoves /\ Elsewhere /\ pc # "done"
<1>1. world' = [world EXCEPT !.ingested = TRUE] /\ Elsewhere /\ pc # "done"
    BY DEF Ingest, Become, Elsewhere
<1>2. FixedFields \cup {"ingested", "held", "after"} \subseteq DOMAIN world
    BY DEF WorldInv
<1>3. world'.ingested = TRUE /\ world'.held = world.held /\ world'.after = world.after
    BY <1>1, <1>2
<1>4. DOMAIN world' = DOMAIN world /\ \A f \in FixedFields : Untouched(f)
    BY <1>1, <1>2 DEF FixedFields, Untouched
<1> QED
    BY <1>1, <1>3, <1>4 DEF WorldMoves, HeldMoves, AfterMoves

\* mark_settled changes one entry the contract holds, and not its service.
LEMMA MarkMoves ==
    ASSUME WorldInv, MarkSettled PROVE WorldMoves /\ Elsewhere /\ pc # "done"
<1>1. PICK k \in DOMAIN world.held :
          LET d == world.held[k]
          IN  /\ d # NotFound /\ d.verdict = "Approved" /\ ~d.settled
              /\ Become([world EXCEPT !.held[k] = [d EXCEPT !.settled = TRUE, !.written = world.now + 1]])
    BY DEF MarkSettled
<1> DEFINE d == world.held[k]
           e == [d EXCEPT !.settled = TRUE, !.written = world.now + 1]
<1>2. d # NotFound /\ ~d.settled
    BY <1>1
<1>3. world' = [world EXCEPT !.held[k] = e] /\ Elsewhere /\ pc # "done"
    BY <1>1 DEF Become, Elsewhere
<1>4. {"service", "settled", "written"} \subseteq DOMAIN d
    <2>1. k \in DOMAIN start.held /\ IsWorld(start)
        BY DEF WorldInv
    <2>2. CASE d = start.held[k]
        BY <1>2, <2>1, <2>2 DEF IsWorld
    <2>3. CASE Marked(k)
        BY <2>3 DEF Marked
    <2> QED
        BY <2>1, <2>2, <2>3 DEF WorldInv
<1>5. DOMAIN e = DOMAIN d /\ e.service = d.service
    BY <1>4
<1>6. FixedFields \cup {"ingested", "held", "after"} \subseteq DOMAIN world
    BY DEF WorldInv
<1> HIDE DEF d, e
<1>7. /\ DOMAIN world' = DOMAIN world /\ world'.held = [world.held EXCEPT ![k] = e]
      /\ world'.ingested = world.ingested /\ world'.after = world.after
    BY <1>3, <1>6
<1>8. \A f \in FixedFields : Untouched(f)
    BY <1>3, <1>6 DEF FixedFields, Untouched
<1>9. DOMAIN world'.held = DOMAIN world.held /\ world'.held[k] = e
    BY <1>7
<1>10. \A j \in DOMAIN world.held : j # k => world'.held[j] = world.held[j]
    BY <1>7
<1>11. \A j \in DOMAIN world.held : HeldMoves(j)
    <2> TAKE j \in DOMAIN world.held
    <2>1. CASE j = k
        BY <1>2, <1>4, <1>5, <1>9, <2>1 DEF HeldMoves, d
    <2>2. CASE j # k
        BY <1>10, <2>2 DEF HeldMoves
    <2> QED
        BY <2>1, <2>2
<1> QED
    BY <1>3, <1>7, <1>8, <1>9, <1>11 DEF WorldMoves, AfterMoves

\* A second payment changes the histories of two accounts that had no later one.
LEMMA PayMoves ==
    ASSUME WorldInv, PayAgain PROVE WorldMoves /\ Elsewhere /\ pc # "done"
<1>1. PICK payer, payee \in DOMAIN world.after :
          /\ payer # payee /\ world.after[payer] = <<>> /\ world.after[payee] = <<>>
          /\ Become([world EXCEPT !.after[payer] = <<"copy">>, !.after[payee] = <<"copy">>])
    BY DEF PayAgain
<1>2. Elsewhere /\ pc # "done"
    BY <1>1 DEF Become, Elsewhere
<1>3. FixedFields \cup {"ingested", "held", "after"} \subseteq DOMAIN world
    BY DEF WorldInv
<1> DEFINE first == [world EXCEPT !.after[payer] = <<"copy">>]
<1>4. /\ DOMAIN first = DOMAIN world /\ first.after = [world.after EXCEPT ![payer] = <<"copy">>]
      /\ \A f \in DOMAIN world : f # "after" => first[f] = world[f]
    BY <1>3
<1>5. world' = [first EXCEPT !.after[payee] = <<"copy">>]
    BY <1>1 DEF Become
<1> HIDE DEF first
<1>6. /\ DOMAIN world' = DOMAIN world /\ world'.after = [first.after EXCEPT ![payee] = <<"copy">>]
      /\ \A f \in DOMAIN world : f # "after" => world'[f] = world[f]
    BY <1>3, <1>4, <1>5
<1>7. DOMAIN world'.after = DOMAIN world.after /\ \A a \in DOMAIN world.after : AfterMoves(a)
    BY <1>1, <1>4, <1>6 DEF AfterMoves
<1>8. \A f \in FixedFields : Untouched(f)
    BY <1>3, <1>6 DEF FixedFields, Untouched
<1>9. world'.held = world.held /\ world'.ingested = world.ingested
    BY <1>3, <1>6
<1> QED
    BY <1>2, <1>6, <1>7, <1>8, <1>9 DEF WorldMoves, HeldMoves

\* What the world has become is still what it may have become when it moves on once more.
LEMMA WorldStays ==
    ASSUME WorldInv, WorldMoves, start' = start PROVE WorldInv'
<1>1. IsWorld(start) /\ IsWorld(start)'
    BY DEF WorldInv, IsWorld, Key, Sha256, Preimage
<1>2. (FixedFields \cup {"ingested", "held", "after"} \subseteq DOMAIN world)'
    BY DEF WorldInv, WorldMoves
<1>3. (\A f \in FixedFields : world[f] = start[f])'
    BY DEF WorldInv, WorldMoves, Untouched
<1>4. (start.ingested => world.ingested)' /\ (DOMAIN world.held = DOMAIN start.held)'
    BY DEF WorldInv, WorldMoves
<1>5. \A k \in DOMAIN start.held : world'.held[k] = start.held[k] \/ Marked(k)'
    <2> TAKE k \in DOMAIN start.held
    <2>0. HeldMoves(k) /\ (world.held[k] = start.held[k] \/ Marked(k))
        BY DEF WorldInv, WorldMoves
    <2>1. CASE world'.held[k] = world.held[k]
        BY <2>0, <2>1 DEF Marked
    <2>2. CASE world'.held[k] # world.held[k]
        BY <2>0, <2>2 DEF HeldMoves, Marked
    <2> QED
        BY <2>1, <2>2
<1>6. (DOMAIN world.after = DOMAIN start.before)'
    BY DEF WorldInv, WorldMoves
<1>7. \A a \in DOMAIN start.before :
          world'.after[a] \in Seq(Transactions) /\ start.after[a] \in {<<>>, world'.after[a]}
    <2> TAKE a \in DOMAIN start.before
    <2>1. AfterMoves(a) /\ world.after[a] \in Seq(Transactions) /\ start.after[a] \in {<<>>, world.after[a]}
        BY DEF WorldInv, WorldMoves
    <2>2. <<"copy">> \in Seq(Transactions)
        BY DEF Transactions
    <2> QED
        BY <2>1, <2>2 DEF AfterMoves
<1> QED
    BY <1>1, <1>2, <1>3, <1>4, <1>5, <1>6, <1>7 DEF WorldInv

-----------------------------------------------------------------------------
(* Histories, and the transactions in them that carry the memo.             *)

\* The verified transaction's own place in a history.
Own(w, a) ==
    IF /\ w.ingested /\ w.tx # NotFound /\ w.tx.successful
       /\ a = w.tx.source \/ \E i \in DOMAIN w.ops : w.ops[i].to = a
    THEN <<TxArg>> ELSE <<>>

\* A history is three sequences of transactions, one after the other.
LEMMA HistoryParts ==
    ASSUME NEW w, NEW a, w.before[a] \in Seq(Transactions), w.after[a] \in Seq(Transactions)
    PROVE  /\ History(w, a) = w.before[a] \o Own(w, a) \o w.after[a]
           /\ Own(w, a) \in Seq(Transactions) /\ History(w, a) \in Seq(Transactions)
<1>1. Own(w, a) \in Seq(Transactions)
    <2>1. TxArg \in Transactions
        BY DEF Transactions
    <2>2. <<TxArg>> \in Seq(Transactions) /\ <<>> \in Seq(Transactions)
        BY <2>1
    <2>3. Own(w, a) = <<TxArg>> \/ Own(w, a) = <<>>
        BY Zenon DEF Own
    <2> QED
        BY <2>2, <2>3, Zenon
<1>2. History(w, a) = w.before[a] \o Own(w, a) \o w.after[a]
    BY Zenon DEF History, Own
<1>3. \A s, t \in Seq(Transactions) : s \o t \in Seq(Transactions)
    OBVIOUS
<1>4. w.before[a] \o Own(w, a) \in Seq(Transactions)
    BY <1>1, <1>3
<1> QED
    BY <1>1, <1>2, <1>3, <1>4, Zenon

\* The memo is found in a sequence exactly when it is found in one of its two parts.
LEMMA MemoOfConcat ==
    ASSUME NEW s \in Seq(Transactions), NEW t \in Seq(Transactions)
    PROVE  WithMemo(s \o t) = WithMemo(s) \cup WithMemo(t)
<1>1. ASSUME NEW m \in WithMemo(s \o t) PROVE m \in WithMemo(s) \cup WithMemo(t)
    <2>1. PICK i \in 1..Len(s) + Len(t) : (s \o t)[i] = m
        BY <1>1 DEF WithMemo
    <2>2. CASE i <= Len(s)
        BY <1>1, <2>1, <2>2 DEF WithMemo
    <2>3. CASE i > Len(s)
        <3>1. i - Len(s) \in DOMAIN t /\ t[i - Len(s)] = m
            BY <2>1, <2>3
        <3> QED
            BY <1>1, <3>1 DEF WithMemo
    <2> QED
        BY <2>1, <2>2, <2>3
<1>2. ASSUME NEW m \in WithMemo(s) PROVE m \in WithMemo(s \o t)
    <2>1. PICK i \in DOMAIN s : s[i] = m
        BY <1>2 DEF WithMemo
    <2>2. i \in DOMAIN (s \o t) /\ (s \o t)[i] = m
        BY <2>1
    <2> QED
        BY <1>2, <2>2 DEF WithMemo
<1>3. ASSUME NEW m \in WithMemo(t) PROVE m \in WithMemo(s \o t)
    <2>1. PICK i \in DOMAIN t : t[i] = m
        BY <1>3 DEF WithMemo
    <2>2. i + Len(s) \in DOMAIN (s \o t) /\ (s \o t)[i + Len(s)] = m
        BY <2>1
    <2> QED
        BY <1>3, <2>2 DEF WithMemo
<1> QED
    BY <1>1, <1>2, <1>3

\* Once the payment is ingested, a history only grows at its end.
LEMMA HistoryGrows ==
    ASSUME NEW w, NEW v, NEW a, w.before[a] \in Seq(Transactions), w.after[a] \in Seq(Transactions),
           v.before = w.before, v.tx = w.tx, v.ops = w.ops, w.ingested, v.ingested,
           v.after[a] = w.after[a] \/ (w.after[a] = <<>> /\ v.after[a] = <<"copy">>)
    PROVE  History(v, a) = History(w, a) \/ History(v, a) = Append(History(w, a), "copy")
<1>1. <<"copy">> \in Seq(Transactions)
    BY DEF Transactions
<1>2. v.after[a] \in Seq(Transactions)
    BY <1>1
<1>3. Own(v, a) = Own(w, a)
    BY DEF Own
<1>4. /\ History(w, a) = w.before[a] \o Own(w, a) \o w.after[a]
      /\ History(v, a) = w.before[a] \o Own(w, a) \o v.after[a]
      /\ Own(w, a) \in Seq(Transactions)
    BY <1>2, <1>3, HistoryParts
<1>5. CASE v.after[a] = w.after[a]
    BY <1>4, <1>5
<1>6. CASE w.after[a] = <<>> /\ v.after[a] = <<"copy">>
    BY <1>4, <1>6
<1> QED
    BY <1>5, <1>6

\* What has been found in a history, and in the pages read of it, stays there as it grows.
LEMMA MemoStays ==
    ASSUME NEW h \in Seq(Transactions), NEW g, g = h \/ g = Append(h, "copy")
    PROVE  /\ WithMemo(h) \subseteq WithMemo(g) /\ Len(h) <= Len(g)
           /\ \A c \in Nat : c <= Len(h) => SubSeq(g, 1, c) = SubSeq(h, 1, c)
<1>1. CASE g = h
    BY <1>1
<1>2. CASE g = Append(h, "copy")
    <2>1. /\ g \in Seq(Transactions) /\ Len(g) = Len(h) + 1 /\ \A i \in 1..Len(h) : g[i] = h[i]
        BY <1>2 DEF Transactions
    <2>2. WithMemo(h) \subseteq WithMemo(g)
        BY <2>1 DEF WithMemo
    <2>3. ASSUME NEW c \in Nat, c <= Len(h) PROVE SubSeq(g, 1, c) = SubSeq(h, 1, c)
        BY <2>1, <2>3
    <2> QED
        BY <2>1, <2>2, <2>3
<1> QED
    BY <1>1, <1>2

\* The memos of a history are those of its parts.
LEMMA MemoOfThree ==
    ASSUME NEW s \in Seq(Transactions), NEW t \in Seq(Transactions), NEW u \in Seq(Transactions)
    PROVE  WithMemo(s \o t \o u) = WithMemo(s) \cup WithMemo(t) \cup WithMemo(u)
<1>1. s \o t \in Seq(Transactions)
    OBVIOUS
<1>2. WithMemo((s \o t) \o u) = WithMemo(s \o t) \cup WithMemo(u)
    BY <1>1, MemoOfConcat, Zenon
<1>3. WithMemo(s \o t) = WithMemo(s) \cup WithMemo(t)
    BY MemoOfConcat, Zenon
<1> QED
    BY <1>2, <1>3, Zenon

\* What the histories held when the tool started, they hold now.
LEMMA StartIsKept ==
    ASSUME WorldInv, world.ingested, NEW a \in DOMAIN start.before
    PROVE  WithMemo(History(start, a)) \subseteq WithMemo(History(world, a))
<1>1. /\ start.before[a] \in Seq(Transactions) /\ start.after[a] \in Seq(Transactions)
      /\ world.after[a] \in Seq(Transactions) /\ start.after[a] \in {<<>>, world.after[a]}
      /\ world.before = start.before /\ world.tx = start.tx /\ world.ops = start.ops
    BY DEF WorldInv, IsWorld, FixedFields
<1>2. Own(start, a) \in {<<>>, Own(world, a)}
    BY <1>1 DEF Own
<1>3. /\ History(start, a) = start.before[a] \o Own(start, a) \o start.after[a]
      /\ History(world, a) = start.before[a] \o Own(world, a) \o world.after[a]
      /\ Own(start, a) \in Seq(Transactions) /\ Own(world, a) \in Seq(Transactions)
    BY <1>1, HistoryParts
<1>4. /\ WithMemo(History(start, a)) =
            WithMemo(start.before[a]) \cup WithMemo(Own(start, a)) \cup WithMemo(start.after[a])
      /\ WithMemo(History(world, a)) =
            WithMemo(start.before[a]) \cup WithMemo(Own(world, a)) \cup WithMemo(world.after[a])
    <2>1. WithMemo(History(start, a)) =
            WithMemo(start.before[a]) \cup WithMemo(Own(start, a)) \cup WithMemo(start.after[a])
        <3>1. WithMemo(start.before[a] \o Own(start, a) \o start.after[a]) =
                WithMemo(start.before[a]) \cup WithMemo(Own(start, a)) \cup WithMemo(start.after[a])
            BY <1>1, <1>3, MemoOfThree
        <3> QED
            BY <1>3, <3>1
    <2>2. WithMemo(History(world, a)) =
            WithMemo(start.before[a]) \cup WithMemo(Own(world, a)) \cup WithMemo(world.after[a])
        <3>1. WithMemo(start.before[a] \o Own(world, a) \o world.after[a]) =
                WithMemo(start.before[a]) \cup WithMemo(Own(world, a)) \cup WithMemo(world.after[a])
            BY <1>1, <1>3, MemoOfThree
        <3> QED
            BY <1>3, <3>1
    <2> QED
        BY <2>1, <2>2
<1>5. WithMemo(<<>>) = {}
    BY DEF WithMemo
<1> QED
    BY <1>1, <1>2, <1>4, <1>5

-----------------------------------------------------------------------------
(* The parts of the invariant while the world moves on.                     *)

\* The decision that was read, if any, names the service of the entry held at the start.
LEMMA ServiceRead ==
    ASSUME WorldInv, AnswersInv, Found("decision")
    PROVE  /\ start.held[Key(start)] # NotFound
           /\ seen["decision"].service = start.held[Key(start)].service
<1>1. Key(start) \in DOMAIN start.held
    BY DEF WorldInv, IsWorld
<1>2. CASE seen["decision"] = world.held[Key(start)]
    <2>1. world.held[Key(start)] = start.held[Key(start)] \/ Marked(Key(start))
        BY <1>1 DEF WorldInv
    <2> QED
        BY <1>2, <2>1 DEF Marked, Found
<1>3. CASE seen["decision"] # world.held[Key(start)]
    BY <1>3 DEF AnswersInv, DecisionRead, Found
<1> QED
    BY <1>2, <1>3

\* The transaction and the payment that were read are the world's.
LEMMA PaymentRead ==
    ASSUME WorldInv, AnswersInv, Found("tx")
    PROVE  /\ seen["tx"] = start.tx /\ start.tx # NotFound /\ world.ingested
           /\ IsPayment => seen["ops"] = start.ops /\ 1 \in DOMAIN start.ops
<1>1. seen["tx"] = start.tx /\ start.tx # NotFound /\ world.ingested /\ world.ops = start.ops
    BY DEF WorldInv, FixedFields, AnswersInv, Found
<1>2. ASSUME IsPayment PROVE seen["ops"] = start.ops /\ 1 \in DOMAIN start.ops
    <2>1. Found("ops") /\ Len(seen["ops"]) = 1
        BY <1>2 DEF IsPayment
    <2>2. seen["ops"] \in {<<>>, world.ops}
        BY <2>1 DEF AnswersInv, Found
    <2>3. seen["ops"] = world.ops
        BY <2>1, <2>2
    <2>4. DOMAIN start.ops = 1..Len(start.ops)
        BY DEF WorldInv, IsWorld
    <2>5. seen["ops"] = start.ops
        BY <1>1, <2>3
    <2>6. Len(start.ops) = 1
        BY <2>1, <2>5
    <2>7. 1 \in 1..Len(start.ops)
        BY <2>6
    <2> QED
        BY <2>4, <2>5, <2>7
<1> QED
    BY <1>1, <1>2

\* The accounts of the scan have a history each.
LEMMA AccountsAreKnown ==
    ASSUME WorldInv, AnswersInv, Found("tx")
    PROVE  Accounts \subseteq DOMAIN start.before
<1>1. seen["tx"].source \in DOMAIN start.before
    BY PaymentRead DEF WorldInv, IsWorld
<1>2. IsPayment => Payment.to \in DOMAIN start.before
    BY PaymentRead DEF WorldInv, IsWorld, Payment
<1>3. ASSUME Found("registry"), Found("decision")
      PROVE  {seen["registry"].services[seen["decision"].service], seen["registry"].executor} \ {None}
                \subseteq DOMAIN start.before
    <2>1. seen["registry"] = start.registry /\ start.registry # NotFound
        BY <1>3 DEF WorldInv, FixedFields, AnswersInv, Found
    <2>2. Key(start) \in DOMAIN start.held
        BY DEF WorldInv, IsWorld
    <2>3. start.registry.services[start.held[Key(start)].service] \in DOMAIN start.before \cup {None}
        BY <1>3, <2>1, <2>2, ServiceRead DEF WorldInv, IsWorld
    <2>4. start.registry.executor \in DOMAIN start.before \cup {None}
        BY <2>1 DEF WorldInv, IsWorld
    <2> QED
        BY <1>3, <2>1, <2>3, <2>4, ServiceRead
<1> QED
    BY <1>1, <1>2, <1>3 DEF Accounts

\* Where the run is does not depend on the world.
LEMMA MovesKeepPlace ==
    ASSUME WorldInv, PlaceInv, WorldMoves, Elsewhere PROVE PlaceInv'
BY DEF PlaceInv, WorldInv, WorldMoves, Elsewhere, Untouched, FixedFields

\* An answer that was given stays true of the start, and of the world as far as it was settled.
LEMMA MovesKeepAnswers ==
    ASSUME WorldInv, AnswersInv, WorldMoves, Elsewhere PROVE AnswersInv'
<1>1. /\ seen' = seen /\ start' = start /\ world'.tx = world.tx /\ world'.ops = world.ops
      /\ world'.registry = world.registry /\ (world.ingested => world'.ingested)
    BY DEF WorldMoves, Elsewhere, Untouched, FixedFields
<1>2. DecisionRead'
    <2> DEFINE k == Key(start)
    <2>1. Key(start)' = Key(start) /\ (Standing(start) <=> Standing(start)')
        BY <1>1 DEF Standing, Key
    <2>2. k \in DOMAIN start.held /\ (world.held[k] = start.held[k] \/ Marked(k)) /\ HeldMoves(k)
        BY DEF WorldInv, IsWorld, WorldMoves
    <2>3. CASE seen["decision"] = world.held[k] /\ world'.held[k] # world.held[k]
        <3>1. world.held[k] # NotFound /\ ~world.held[k].settled
            BY <2>2, <2>3 DEF HeldMoves
        <3>2. /\ start.held[k] # NotFound /\ ~start.held[k].settled
              /\ world.held[k].service = start.held[k].service
            BY <2>2, <3>1 DEF Marked
        <3> QED
            BY <1>1, <2>1, <2>3, <3>1, <3>2 DEF DecisionRead, Standing
    <2>4. CASE seen["decision"] = world.held[k] /\ world'.held[k] = world.held[k]
        BY <1>1, <2>1, <2>4 DEF DecisionRead
    <2>5. CASE seen["decision"] # world.held[k]
        BY <1>1, <2>1, <2>5 DEF AnswersInv, DecisionRead
    <2> QED
        BY <2>3, <2>4, <2>5
<1>3. (Standing(start) => LET d == start.held[Key(start)] IN
          /\ seen["view"] \in {Unread, Down, Sha256(Preimage(d))}
          /\ seen["entry"] \in {Unread, Down, d.written})'
    BY <1>1 DEF AnswersInv, Standing, Key, Sha256, Preimage
<1> QED
    BY <1>1, <1>2, <1>3 DEF AnswersInv, Found

\* One history while the world moves on, once the payment is ingested.
LEMMA HistoryMoves ==
    ASSUME WorldInv, world.ingested, WorldMoves, start' = start, NEW a \in DOMAIN start.before
    PROVE  /\ History(world, a) \in Seq(Transactions)
           /\ WithMemo(History(world, a)) \subseteq WithMemo(History(world', a))
           /\ Len(History(world, a)) <= Len(History(world', a))
           /\ \A c \in Nat : c <= Len(History(world, a)) =>
                 SubSeq(History(world', a), 1, c) = SubSeq(History(world, a), 1, c)
<1>1. /\ world'.before = world.before /\ world'.tx = world.tx /\ world'.ops = world.ops
      /\ world'.ingested /\ AfterMoves(a)
    BY DEF WorldMoves, WorldInv, Untouched, FixedFields
<1>2. world.before[a] \in Seq(Transactions) /\ world.after[a] \in Seq(Transactions)
    BY DEF WorldInv, IsWorld, FixedFields
<1>3. History(world, a) \in Seq(Transactions)
    BY <1>2, HistoryParts
<1>4. History(world', a) = History(world, a) \/ History(world', a) = Append(History(world, a), "copy")
    BY <1>1, <1>2, HistoryGrows DEF AfterMoves
<1> QED
    BY <1>3, <1>4, MemoStays

\* What the scan has found stays found, and the pages it has walked stay the same pages.
LEMMA MovesKeepScan ==
    ASSUME WorldInv, AnswersInv, ScanFacts, WorldMoves, Elsewhere PROVE ScanFacts'
<1>1. start' = start /\ seen' = seen /\ scan' = scan
    BY DEF Elsewhere
<1>2. Found("tx") /\ world.ingested /\ Accounts \subseteq DOMAIN start.before
    BY AccountsAreKnown DEF ScanFacts, HasMemo, AnswersInv
<1>3. HasMemo' /\ Accounts' = Accounts
    BY <1>1 DEF ScanFacts, HasMemo, Found, Accounts, IsPayment, Payment
<1>4. \A a \in Accounts : WithMemo(History(start, a))' = WithMemo(History(start, a))
    BY <1>1 DEF WithMemo, History
<1>5. ASSUME NEW a \in DOMAIN start.before
      PROVE  /\ WithMemo(History(world, a)) \subseteq WithMemo(History(world, a))'
             /\ Len(History(world, a)) <= Len(History(world, a))'
             /\ Len(History(world, a)) \in Nat /\ Len(History(world, a))' \in Nat
    <2>1. History(world', a) = History(world, a)'
        OBVIOUS
    <2>2. WorldInv'
        BY <1>1, WorldStays
    <2>3. History(world, a)' \in Seq(Transactions)
        <3>1. world'.before[a] \in Seq(Transactions) /\ world'.after[a] \in Seq(Transactions)
            BY <1>1, <2>2 DEF WorldInv, IsWorld, FixedFields
        <3> QED
            BY <2>1, <3>1, HistoryParts
    <2> QED
        BY <1>1, <1>2, <2>1, <2>3, HistoryMoves DEF WithMemo
<1>6. ASSUME NEW a \in scan.todo, a = CHOOSE b \in scan.todo : TRUE PROVE WalkInv(a)'
    <2>1. WalkInv(a) /\ a \in DOMAIN start.before /\ scan.cursor \in Nat
        BY <1>2, <1>6, ScanAssumption DEF ScanFacts
    <2>2. SubSeq(History(world', a), 1, scan.cursor) = SubSeq(History(world, a), 1, scan.cursor)
        BY <1>1, <1>2, <2>1, HistoryMoves DEF WalkInv
    <2>3. (scan.cursor <= Len(History(world, a)))'
        BY <1>1, <1>5, <2>1 DEF WalkInv
    <2> QED
        BY <1>1, <2>1, <2>2, <2>3 DEF WalkInv, WithMemo
<1>7. ("copy" \in scan.hashes => \E a \in DOMAIN start.before : "copy" \in WithMemo(History(world, a)))'
    BY <1>1, <1>5 DEF ScanFacts
<1>8. (scan.exhaustive \/ \E a \in DOMAIN start.before : Len(History(world, a)) >= PAGE * MAX_PAGES)'
    <2>1. CASE scan.exhaustive
        BY <1>1, <2>1
    <2>2. CASE ~scan.exhaustive
        <3>1. PICK a \in DOMAIN start.before : Len(History(world, a)) >= PAGE * MAX_PAGES
            BY <2>2 DEF ScanFacts
        <3>2. PAGE * MAX_PAGES \in Nat
            BY ScanAssumption
        <3> QED
            BY <1>1, <1>5, <3>1, <3>2
    <2> QED
        BY <2>1, <2>2
<1>9. (scan.page \in Nat /\ scan.cursor = scan.page * PAGE /\ scan.hashes \subseteq {TxArg, "copy"})'
    BY <1>1 DEF ScanFacts
<1> QED
    BY <1>1, <1>3, <1>4, <1>6, <1>7, <1>8, <1>9 DEF ScanFacts

-----------------------------------------------------------------------------
(* The parts of the invariant while the tool reads.                         *)

\* The world stands still while the tool takes a step.
LEMMA WorldRests ==
    ASSUME WorldInv, world' = world, start' = start PROVE WorldInv'
BY DEF WorldInv, IsWorld, Key, Sha256, Preimage, Marked

\* One source is asked: only what it answered is new.
Asked(s, next) ==
    /\ pc = s /\ pc' = next /\ DOMAIN seen' = DOMAIN seen
    /\ \A t \in Sources \ {s} : seen'[t] = seen[t]
    /\ UNCHANGED <<world, start, strict, scan, exit, verdict>>

\* The form every question has.
LEMMA AskIsAsked ==
    ASSUME NEW s \in Sources, NEW answer, NEW next, PlaceInv, Ask(s, answer, next)
    PROVE  Asked(s, next) /\ seen'[s] = answer
BY DEF Ask, Asked, PlaceInv

\* A question before the scan leaves the place in order and the scan to come.
LEMMA AskedKeeps ==
    ASSUME CoreInv, NEW s \in Sources \ {"scan"}, NEW next \in Places, Asked(s, next),
           next \notin {"args", "receipt", "scan", "report", "done"},
           s = "receipt" => seen'[s] = world.receipt
    PROVE  WorldInv' /\ PlaceInv' /\ ScanInv'
<1>1. WorldInv'
    BY WorldRests DEF CoreInv, Asked
<1>2. seen["scan"] = Unread /\ seen'["scan"] = Unread
    BY DEF CoreInv, PlaceInv, Asked, Sources
<1>3. ScanInv'
    BY <1>2 DEF Asked, ScanInv
<1>4. seen'["receipt"] = world.receipt
    BY DEF CoreInv, PlaceInv, Asked, Sources
<1>5. (pc \in Places /\ DOMAIN seen = Sources)' /\ (pc # "done" => verdict = None)'
    BY DEF CoreInv, PlaceInv, Asked, Sources
<1>6. /\ scan' = scan /\ DOMAIN scan = {"todo", "page", "cursor", "hashes", "exhaustive"}
      /\ scan.page = 0 /\ scan.cursor = 0 /\ scan.hashes = {} /\ scan.exhaustive
    BY DEF CoreInv, PlaceInv, Asked, Sources
<1> QED
    BY <1>1, <1>2, <1>3, <1>4, <1>5, <1>6 DEF PlaceInv, Asked

\* The answers to the questions that were not asked now are what they were.
LEMMA OthersStay ==
    ASSUME CoreInv, NEW s \in Sources, NEW next, Asked(s, next)
    PROVE  /\ s # "tx" => (/\ seen["tx"] \in {Unread, Down, NotFound, world.tx}
                           /\ Found("tx") => world.ingested
                           /\ start.ingested => seen["tx"] \in {Unread, Down, world.tx})'
           /\ s # "ops" => (/\ seen["ops"] \in {Unread, Down, <<>>, world.ops}
                            /\ start.ingested => seen["ops"] \in {Unread, Down, world.ops})'
           /\ s # "decision" => DecisionRead'
           /\ s # "view" => (Standing(start) =>
                 seen["view"] \in {Unread, Down, Sha256(Preimage(start.held[Key(start)]))})'
           /\ s # "entry" => (Standing(start) =>
                 seen["entry"] \in {Unread, Down, start.held[Key(start)].written})'
           /\ s # "registry" => (seen["registry"] \in {Unread, world.registry})'
<1>1. world' = world /\ start' = start /\ \A t \in Sources \ {s} : seen'[t] = seen[t]
    BY DEF Asked
<1>2. s # "tx" => (/\ seen["tx"] \in {Unread, Down, NotFound, world.tx}
                   /\ Found("tx") => world.ingested
                   /\ start.ingested => seen["tx"] \in {Unread, Down, world.tx})'
    BY <1>1 DEF CoreInv, AnswersInv, Found, Sources
<1>3. s # "ops" => (/\ seen["ops"] \in {Unread, Down, <<>>, world.ops}
                    /\ start.ingested => seen["ops"] \in {Unread, Down, world.ops})'
    BY <1>1 DEF CoreInv, AnswersInv, Sources
<1>4. (Standing(start) <=> Standing(start)') /\ Key(start)' = Key(start)
    BY <1>1 DEF Standing, Key
<1>5. s # "decision" => DecisionRead'
    BY <1>1, <1>4 DEF CoreInv, AnswersInv, DecisionRead, Sources
<1>6. s # "view" => (Standing(start) =>
          seen["view"] \in {Unread, Down, Sha256(Preimage(start.held[Key(start)]))})'
    BY <1>1, <1>4 DEF CoreInv, AnswersInv, Sources, Sha256, Preimage
<1>7. s # "entry" => (Standing(start) =>
          seen["entry"] \in {Unread, Down, start.held[Key(start)].written})'
    BY <1>1, <1>4 DEF CoreInv, AnswersInv, Sources
<1>8. s # "registry" => (seen["registry"] \in {Unread, world.registry})'
    BY <1>1 DEF CoreInv, AnswersInv, Sources
<1> QED
    BY <1>2, <1>3, <1>5, <1>6, <1>7, <1>8

LEMMA ReadReceiptKeeps ==
    ASSUME CoreInv, Ask("receipt", world.receipt, "tx") PROVE CoreInv'
<1>1. Asked("receipt", "tx") /\ seen'["receipt"] = world.receipt
    BY DEF CoreInv, PlaceInv, Ask, Asked, Sources
<1>2. WorldInv' /\ PlaceInv' /\ ScanInv'
    BY <1>1, AskedKeeps DEF Sources, Places
<1>3. AnswersInv'
    BY <1>1, OthersStay DEF Sources, AnswersInv
<1> QED
    BY <1>2, <1>3 DEF CoreInv

LEMMA FetchTransactionKeeps ==
    ASSUME CoreInv, FetchTransaction PROVE CoreInv'
<1>1. PICK next \in {"abi", "ops"} :
          /\ Asked("tx", next)
          /\ \/ seen'["tx"] = Down
             \/ world.ingested /\ seen'["tx"] = world.tx
             \/ ~world.ingested /\ seen'["tx"] = NotFound
    BY DEF FetchTransaction, Fetch, CoreInv, PlaceInv, Ask, Asked, Sources
<1>2. WorldInv' /\ PlaceInv' /\ ScanInv'
    BY <1>1, AskedKeeps DEF Sources, Places
<1>3. (/\ seen["tx"] \in {Unread, Down, NotFound, world.tx}
       /\ Found("tx") => world.ingested
       /\ start.ingested => seen["tx"] \in {Unread, Down, world.tx})'
    BY <1>1 DEF Asked, Found, CoreInv, WorldInv
<1> QED
    BY <1>1, <1>2, <1>3, OthersStay DEF CoreInv, AnswersInv, Sources

LEMMA FetchOperationsKeeps ==
    ASSUME CoreInv, FetchOperations PROVE CoreInv'
<1>1. /\ Asked("ops", "abi")
      /\ \/ seen'["ops"] = Down
         \/ world.ingested /\ seen'["ops"] = world.ops
         \/ ~world.ingested /\ seen'["ops"] = <<>>
    BY DEF FetchOperations, Fetch, CoreInv, PlaceInv, Ask, Asked, Sources
<1>2. WorldInv' /\ PlaceInv' /\ ScanInv'
    BY <1>1, AskedKeeps DEF Sources, Places
<1>3. (/\ seen["ops"] \in {Unread, Down, <<>>, world.ops}
       /\ start.ingested => seen["ops"] \in {Unread, Down, world.ops})'
    BY <1>1 DEF Asked, CoreInv, WorldInv
<1> QED
    BY <1>1, <1>2, <1>3, OthersStay DEF CoreInv, AnswersInv, Sources

LEMMA ConnectKeeps ==
    ASSUME CoreInv, Connect PROVE CoreInv'
<1>1. PICK next \in {"decision", "registry"} : Asked("abi", next)
    BY DEF Connect, Fetch, CoreInv, PlaceInv, Ask, Asked, Sources
<1>2. WorldInv' /\ PlaceInv' /\ ScanInv'
    BY <1>1, AskedKeeps DEF Sources, Places
<1> QED
    BY <1>1, <1>2, OthersStay DEF CoreInv, AnswersInv, Sources

\* What the contract is asked for is the entry under the receipt's id.
LEMMA HeldIsKey ==
    ASSUME CoreInv, pc \notin {"args", "receipt", "done"}
    PROVE  /\ Held = world.held[Key(start)] /\ ContractId = Key(start)[1]
           /\ seen["receipt"] = start.receipt
           /\ Standing(start) => Held = start.held[Key(start)]
<1>1. seen["receipt"] = start.receipt /\ world.override = start.override
    BY DEF CoreInv, PlaceInv, WorldInv, FixedFields
<1>2. Held = world.held[Key(start)] /\ ContractId = Key(start)[1]
    BY <1>1 DEF Held, ContractId, Key
<1>3. Standing(start) => world.held[Key(start)] = start.held[Key(start)]
    BY DEF CoreInv, WorldInv, IsWorld, Standing, Marked
<1> QED
    BY <1>1, <1>2, <1>3

LEMMA GetDecisionKeeps ==
    ASSUME CoreInv, GetDecision PROVE CoreInv'
<1>1. PICK next \in {"view", "registry"} :
          Asked("decision", next) /\ seen'["decision"] \in {Down, Held}
    BY DEF GetDecision, Fetch, CoreInv, PlaceInv, Ask, Asked, Sources
<1>2. WorldInv' /\ PlaceInv' /\ ScanInv'
    BY <1>1, AskedKeeps DEF Sources, Places
<1>3. DecisionRead'
    <2>1. Held = world.held[Key(start)] /\ Key(start)' = Key(start) /\ world' = world
        BY <1>1, HeldIsKey DEF Asked, Key
    <2> QED
        BY <1>1, <2>1 DEF DecisionRead
<1> QED
    BY <1>1, <1>2, <1>3, OthersStay DEF CoreInv, AnswersInv, Sources

LEMMA MemoHashViewKeeps ==
    ASSUME CoreInv, MemoHashView PROVE CoreInv'
<1>1. PICK next \in {"entry", "registry"} :
          /\ Asked("view", next)
          /\ seen'["view"] \in {Down, IF Held = NotFound THEN NotFound ELSE Sha256(Preimage(Held))}
    BY DEF MemoHashView, Fetch, CoreInv, PlaceInv, Ask, Asked, Sources
<1>2. WorldInv' /\ PlaceInv' /\ ScanInv'
    BY <1>1, AskedKeeps DEF Sources, Places
<1>3. (Standing(start) =>
          seen["view"] \in {Unread, Down, Sha256(Preimage(start.held[Key(start)]))})'
    <2>1. Standing(start) => Held = start.held[Key(start)] /\ Held # NotFound
        BY <1>1, HeldIsKey DEF Asked, Standing
    <2>2. (Standing(start) <=> Standing(start)') /\ Key(start)' = Key(start) /\ start' = start
        BY <1>1 DEF Standing, Key, Asked
    <2> QED
        BY <1>1, <2>1, <2>2 DEF Sha256, Preimage
<1> QED
    BY <1>1, <1>2, <1>3, OthersStay DEF CoreInv, AnswersInv, Sources

LEMMA EntryLedgerKeeps ==
    ASSUME CoreInv, EntryLedger PROVE CoreInv'
<1>1. /\ Asked("entry", "registry")
      /\ seen'["entry"] \in {Down, IF Held = NotFound THEN NotFound ELSE Held.written}
    BY DEF EntryLedger, Fetch, CoreInv, PlaceInv, Ask, Asked, Sources
<1>2. WorldInv' /\ PlaceInv' /\ ScanInv'
    BY <1>1, AskedKeeps DEF Sources, Places
<1>3. (Standing(start) =>
          seen["entry"] \in {Unread, Down, start.held[Key(start)].written})'
    <2>1. Standing(start) => Held = start.held[Key(start)] /\ Held # NotFound
        BY <1>1, HeldIsKey DEF Asked, Standing
    <2>2. (Standing(start) <=> Standing(start)') /\ Key(start)' = Key(start) /\ start' = start
        BY <1>1 DEF Standing, Key, Asked
    <2> QED
        BY <1>1, <2>1, <2>2
<1> QED
    BY <1>1, <1>2, <1>3, OthersStay DEF CoreInv, AnswersInv, Sources

LEMMA ReadRegistryKeeps ==
    ASSUME CoreInv, ReadRegistry PROVE CoreInv'
<1>1. Asked("registry", "accounts") /\ seen'["registry"] = world.registry
    BY DEF ReadRegistry, CoreInv, PlaceInv, Ask, Asked, Sources
<1>2. WorldInv' /\ PlaceInv' /\ ScanInv'
    BY <1>1, AskedKeeps DEF Sources, Places
<1>3. (seen["registry"] \in {Unread, world.registry})'
    BY <1>1 DEF Asked
<1> QED
    BY <1>1, <1>2, <1>3, OthersStay DEF CoreInv, AnswersInv, Sources

-----------------------------------------------------------------------------
(* The parts of the invariant while the tool walks the histories.           *)

\* A place past the cursor, counted from the cursor.
LEMMA PastCursor ==
    ASSUME NEW i \in Nat, NEW c \in Nat, NEW e \in Nat, c < i, i <= e
    PROVE  i - c \in 1..(e - c) /\ c + (i - c) = i
OBVIOUS

\* The pages up to the next cursor hold what the pages up to this one and the next page hold.
LEMMA MemoOfPages ==
    ASSUME NEW h \in Seq(Transactions), NEW c \in Nat, NEW e \in Nat, c <= e, e <= Len(h)
    PROVE  /\ WithMemo(SubSeq(h, 1, e)) \subseteq WithMemo(SubSeq(h, 1, c)) \cup WithMemo(SubSeq(h, c + 1, e))
           /\ WithMemo(SubSeq(h, c + 1, e)) \subseteq WithMemo(h)
           /\ SubSeq(h, 1, Len(h)) = h /\ WithMemo(SubSeq(h, 1, 0)) = {}
<1>1. /\ DOMAIN SubSeq(h, 1, e) = 1..e /\ \A i \in 1..e : SubSeq(h, 1, e)[i] = h[i]
      /\ DOMAIN SubSeq(h, 1, c) = 1..c /\ \A i \in 1..c : SubSeq(h, 1, c)[i] = h[i]
    OBVIOUS
<1>2. /\ DOMAIN SubSeq(h, c + 1, e) = 1..(e - c)
      /\ \A i \in 1..(e - c) : SubSeq(h, c + 1, e)[i] = h[c + i]
    OBVIOUS
<1>3. ASSUME NEW m \in WithMemo(SubSeq(h, 1, e)), m \notin WithMemo(SubSeq(h, 1, c))
      PROVE  m \in WithMemo(SubSeq(h, c + 1, e))
    <2>1. PICK i \in 1..e : h[i] = m
        BY <1>1, <1>3 DEF WithMemo
    <2>2. i > c
        <3>1. m \in {TxArg, "copy"}
            BY <1>3 DEF WithMemo
        <3>2. ~(i \in 1..c)
            <4>1. ASSUME i \in 1..c PROVE m \in WithMemo(SubSeq(h, 1, c))
                <5>1. i \in DOMAIN SubSeq(h, 1, c) /\ SubSeq(h, 1, c)[i] = m
                    BY <1>1, <2>1, <4>1
                <5> QED
                    BY <3>1, <5>1 DEF WithMemo
            <4> QED
                BY <1>3, <4>1
        <3> QED
            BY <3>2
    <2>3. i - c \in 1..(e - c) /\ c + (i - c) = i
        BY <2>2, PastCursor
    <2>4. SubSeq(h, c + 1, e)[i - c] = m
        BY <1>2, <2>1, <2>3
    <2> QED
        BY <1>2, <1>3, <2>3, <2>4 DEF WithMemo
<1>4. ASSUME NEW m \in WithMemo(SubSeq(h, c + 1, e)) PROVE m \in WithMemo(h)
    <2>1. PICK i \in 1..(e - c) : h[c + i] = m
        BY <1>2, <1>4 DEF WithMemo
    <2>2. c + i \in DOMAIN h
        BY <2>1
    <2> QED
        BY <1>4, <2>1, <2>2 DEF WithMemo
<1>5. SubSeq(h, 1, Len(h)) = h
    OBVIOUS
<1>6. WithMemo(SubSeq(h, 1, 0)) = {}
    <2>1. DOMAIN SubSeq(h, 1, 0) = {}
        OBVIOUS
    <2> QED
        BY <2>1 DEF WithMemo
<1> QED
    BY <1>3, <1>4, <1>5, <1>6

\* The history that is being walked is a sequence, and the account is known.
LEMMA WalkedHistory ==
    ASSUME CoreInv, ScanFacts, NEW a \in Accounts
    PROVE  /\ a \in DOMAIN start.before /\ History(world, a) \in Seq(Transactions)
           /\ WithMemo(History(start, a)) \subseteq WithMemo(History(world, a))
<1>1. Found("tx") /\ world.ingested
    BY DEF CoreInv, AnswersInv, ScanFacts, HasMemo
<1>2. a \in DOMAIN start.before
    BY <1>1, AccountsAreKnown DEF CoreInv
<1>3. world.before[a] \in Seq(Transactions) /\ world.after[a] \in Seq(Transactions)
    BY <1>2 DEF CoreInv, WorldInv, IsWorld, FixedFields
<1> QED
    BY <1>1, <1>2, <1>3, HistoryParts, StartIsKept DEF CoreInv

\* Nothing but the scan itself moves while a page is read.
ScanOnly == UNCHANGED <<pc, world, start, trouble, strict, seen, exit, verdict>>

\* What does not depend on the pages.
LEMMA ScanFrame ==
    ASSUME CoreInv, ScanFacts, ScanOnly
    PROVE  /\ HasMemo' /\ Accounts' = Accounts
           /\ \A a \in Accounts : /\ WithMemo(History(start, a))' = WithMemo(History(start, a))
                                  /\ History(world, a)' = History(world, a)
           /\ \A a \in DOMAIN start.before : /\ WithMemo(History(world, a))' = WithMemo(History(world, a))
                                             /\ History(world, a)' = History(world, a)
           /\ start' = start
<1>1. HasMemo' /\ Accounts' = Accounts
    BY DEF ScanFacts, ScanOnly, HasMemo, Found, Accounts, IsPayment, Payment
<1> QED
    BY <1>1 DEF ScanOnly, WithMemo, History

\* An account's walk is over: at the end of its history, or at the cap of a long one.
LEMMA WalkedKeeps ==
    ASSUME CoreInv, ScanFacts, NEW a \in scan.todo, NEW found, NEW reached \in BOOLEAN,
           found \subseteq WithMemo(History(world, a)), Walked(a, found, reached), ScanOnly,
           reached => WithMemo(History(world, a)) \subseteq scan.hashes \cup found,
           ~reached => Len(History(world, a)) >= PAGE * MAX_PAGES
    PROVE  ScanFacts'
<1>1. /\ scan'.todo = scan.todo \ {a} /\ scan'.page = 0 /\ scan'.cursor = 0
      /\ scan'.hashes = scan.hashes \cup found /\ scan'.exhaustive = (scan.exhaustive /\ reached)
    BY DEF Walked
<1>2. a \in Accounts /\ a \in DOMAIN start.before
    BY WalkedHistory DEF ScanFacts
<1>3. ASSUME NEW b \in Accounts \ scan'.todo, scan'.exhaustive
      PROVE  WithMemo(History(start, b)) \subseteq scan'.hashes
    <2>1. CASE b = a
        BY <1>1, <1>3, <2>1, WalkedHistory
    <2>2. CASE b # a
        BY <1>1, <1>3, <2>2 DEF ScanFacts
    <2> QED
        BY <2>1, <2>2
<1>4. ASSUME NEW b \in scan'.todo PROVE WalkInv(b)'
    <2>1. b \in Accounts /\ b \in DOMAIN start.before
        BY <1>1, <1>4, WalkedHistory DEF ScanFacts
    <2>2. History(world, b)' = History(world, b) /\ History(world, b) \in Seq(Transactions)
        BY <2>1, ScanFrame, WalkedHistory
    <2>3. (scan.cursor <= Len(History(world, b)))'
        BY <1>1, <2>2
    <2>4. WithMemo(SubSeq(History(world, b), 1, 0)) = {}
        BY <2>2, MemoOfPages
    <2>5. (WithMemo(SubSeq(History(world, b), 1, scan.cursor)) \subseteq scan.hashes)'
        BY <1>1, <2>2, <2>4 DEF WithMemo
    <2> QED
        BY <2>3, <2>5 DEF WalkInv
<1>5. scan'.hashes \subseteq {TxArg, "copy"}
    BY <1>1 DEF ScanFacts, WithMemo
<1>6. "copy" \in scan'.hashes =>
          \E b \in DOMAIN start.before : "copy" \in WithMemo(History(world, b))
    BY <1>1, <1>2 DEF ScanFacts
<1>7. scan'.exhaustive \/ \E b \in DOMAIN start.before : Len(History(world, b)) >= PAGE * MAX_PAGES
    BY <1>1, <1>2 DEF ScanFacts
<1>8. scan'.page \in Nat /\ scan'.cursor = scan'.page * PAGE /\ scan'.todo \subseteq Accounts
    BY <1>1, ScanAssumption DEF ScanFacts
<1> QED
    BY <1>3, <1>4, <1>5, <1>6, <1>7, <1>8, ScanFrame DEF ScanFacts

\* The cap is reached only in a history that has as many transactions.
LEMMA CapReachedKeeps ==
    ASSUME CoreInv, ScanFacts, NEW a \in scan.todo, CapReached(a), ScanOnly PROVE ScanFacts'
<1>1. WalkInv(a) /\ scan.page >= MAX_PAGES /\ Walked(a, {}, FALSE)
    BY DEF CapReached, Walking, ScanFacts
<1>2. History(world, a) \in Seq(Transactions)
    BY WalkedHistory DEF ScanFacts
<1>3. Len(History(world, a)) >= PAGE * MAX_PAGES
    <2>1. scan.page * PAGE <= Len(History(world, a)) /\ scan.page \in Nat
        BY <1>1 DEF WalkInv, ScanFacts
    <2>2. PICK k \in Nat : scan.page = MAX_PAGES + k
        <3>1. scan.page - MAX_PAGES \in Nat /\ scan.page = MAX_PAGES + (scan.page - MAX_PAGES)
            BY <1>1, <2>1, ScanAssumption
        <3> QED
            BY <3>1
    <2>3. scan.page * PAGE = PAGE * MAX_PAGES + k * PAGE /\ k * PAGE \in Nat
        BY <2>2, ScanAssumption
    <2>4. PAGE * MAX_PAGES \in Nat /\ Len(History(world, a)) \in Nat
        BY <1>2, ScanAssumption
    <2>5. \A x, y, z \in Nat : x + y <= z => z >= x
        OBVIOUS
    <2>6. PAGE * MAX_PAGES + k * PAGE <= Len(History(world, a))
        BY <2>1, <2>3
    <2> QED
        BY <2>3, <2>4, <2>5, <2>6
<1> QED
    BY <1>1, <1>3, WalkedKeeps

\* A page is read: the last one, shorter than a page, ends the walk.
LEMMA ReadPageKeeps ==
    ASSUME CoreInv, ScanFacts, DOMAIN scan = {"todo", "page", "cursor", "hashes", "exhaustive"},
           NEW a \in scan.todo, ReadPage(a), ScanOnly
    PROVE  ScanFacts'
<1> DEFINE h == History(world, a)
           end == IF scan.cursor + PAGE < Len(h) THEN scan.cursor + PAGE ELSE Len(h)
           found == WithMemo(SubSeq(h, scan.cursor + 1, end))
<1>1. h \in Seq(Transactions) /\ a \in Accounts /\ a \in DOMAIN start.before
    BY WalkedHistory DEF ScanFacts
<1>2. /\ scan.cursor \in Nat /\ scan.cursor <= Len(h) /\ Len(h) \in Nat
      /\ WithMemo(SubSeq(h, 1, scan.cursor)) \subseteq scan.hashes
      /\ a = CHOOSE b \in scan.todo : TRUE
    BY <1>1, ScanAssumption DEF ReadPage, Walking, ScanFacts, WalkInv
<1>3. end \in Nat /\ scan.cursor <= end /\ end <= Len(h) /\ end <= scan.cursor + PAGE
    BY <1>2, ScanAssumption
<1>4. /\ WithMemo(SubSeq(h, 1, end)) \subseteq scan.hashes \cup found
      /\ found \subseteq WithMemo(h) /\ SubSeq(h, 1, Len(h)) = h
    <2> HIDE DEF h, end
    <2> QED
        BY <1>1, <1>2, <1>3, MemoOfPages
<1>5. CASE end - scan.cursor < PAGE
    <2>1. Walked(a, found, TRUE)
        BY <1>5 DEF ReadPage
    <2>2. end = Len(h)
        BY <1>2, <1>5, ScanAssumption
    <2>3. WithMemo(h) \subseteq scan.hashes \cup found
        <3> HIDE DEF h, end, found
        <3> QED
            BY <1>4, <2>2
    <2> HIDE DEF end, found
    <2> QED
        BY <1>4, <2>1, <2>3, WalkedKeeps
<1>6. CASE ~(end - scan.cursor < PAGE)
    <2>1. end = scan.cursor + PAGE
        BY <1>2, <1>3, <1>6, ScanAssumption
    <2>2. scan' = [scan EXCEPT !.page = @ + 1, !.cursor = end, !.hashes = @ \cup found]
        BY <1>6 DEF ReadPage
    <2> HIDE DEF end, found
    <2>3. /\ scan'.todo = scan.todo /\ scan'.page = scan.page + 1 /\ scan'.cursor = end
          /\ scan'.hashes = scan.hashes \cup found /\ scan'.exhaustive = scan.exhaustive
        BY <2>2
    <2>4. ASSUME NEW b \in scan'.todo, b = CHOOSE d \in scan'.todo : TRUE PROVE WalkInv(b)'
        <3>1. b = a
            BY <1>2, <2>3, <2>4
        <3>2. h' = h
            BY <1>1, ScanFrame
        <3>3. (scan.cursor <= Len(History(world, a)))'
            BY <1>3, <2>3, <3>2
        <3>4. (WithMemo(SubSeq(History(world, a), 1, scan.cursor)) \subseteq scan.hashes)'
            BY <1>4, <2>3, <3>2 DEF WithMemo
        <3> QED
            BY <3>1, <3>3, <3>4 DEF WalkInv
    <2>5. scan'.hashes \subseteq {TxArg, "copy"}
        BY <1>4, <2>3 DEF ScanFacts, WithMemo
    <2>6. "copy" \in scan'.hashes =>
              \E b \in DOMAIN start.before : "copy" \in WithMemo(History(world, b))
        BY <1>1, <1>4, <2>3 DEF ScanFacts
    <2>7. scan'.page \in Nat /\ scan'.cursor = scan'.page * PAGE
        BY <2>1, <2>3, ScanAssumption DEF ScanFacts
    <2>8. \A b \in Accounts \ scan'.todo :
              scan'.exhaustive => WithMemo(History(start, b)) \subseteq scan'.hashes
        BY <2>3 DEF ScanFacts
    <2>9. scan'.exhaustive \/ \E b \in DOMAIN start.before : Len(History(world, b)) >= PAGE * MAX_PAGES
        BY <2>3 DEF ScanFacts
    <2> QED
        BY <2>3, <2>4, <2>5, <2>6, <2>7, <2>8, <2>9, ScanFrame DEF ScanFacts
<1> QED
    BY <1>5, <1>6

\* The answers when nothing was asked: neither the world nor what was seen has changed.
LEMMA AnswersRest ==
    ASSUME AnswersInv, world' = world, start' = start, seen' = seen PROVE AnswersInv'
BY DEF AnswersInv, DecisionRead, Standing, Key, Found, Sha256, Preimage

\* What the scan has found when nothing it depends on has changed.
LEMMA ScanRests ==
    ASSUME ScanFacts, world' = world, start' = start, seen' = seen, scan' = scan PROVE ScanFacts'
<1>1. HasMemo' /\ Accounts' = Accounts
    BY DEF ScanFacts, HasMemo, Found, Accounts, IsPayment, Payment
<1>2. ASSUME NEW a
      PROVE  /\ WithMemo(History(start, a))' = WithMemo(History(start, a))
             /\ WithMemo(History(world, a))' = WithMemo(History(world, a))
             /\ History(world, a)' = History(world, a) /\ (WalkInv(a)' <=> WalkInv(a))
    BY DEF WithMemo, History, WalkInv
<1> QED
    BY <1>1, <1>2 DEF ScanFacts

\* The scan begins with every account to walk, and with no page read.
LEMMA ReplayCheckKeeps ==
    ASSUME CoreInv, ReplayCheck PROVE CoreInv'
<1>1. /\ world' = world /\ start' = start /\ seen' = seen /\ verdict' = verdict
      /\ pc = "accounts" /\ pc' = (IF HasMemo THEN "scan" ELSE "report")
      /\ scan' = [scan EXCEPT !.todo = IF HasMemo THEN Accounts ELSE {}]
    BY DEF ReplayCheck
<1>2. /\ DOMAIN scan = {"todo", "page", "cursor", "hashes", "exhaustive"} /\ seen["scan"] = Unread
      /\ scan.page = 0 /\ scan.cursor = 0 /\ scan.hashes = {} /\ scan.exhaustive
    BY <1>1 DEF CoreInv, PlaceInv
<1>3. /\ DOMAIN scan' = DOMAIN scan /\ scan'.page = 0 /\ scan'.cursor = 0
      /\ scan'.hashes = {} /\ scan'.exhaustive /\ (HasMemo => scan'.todo = Accounts)
    BY <1>1, <1>2
<1>4. WorldInv' /\ AnswersInv'
    BY <1>1, WorldRests, AnswersRest DEF CoreInv
<1>5. PlaceInv'
    BY <1>1, <1>2, <1>3 DEF CoreInv, PlaceInv, Places
<1>6. ASSUME HasMemo PROVE ScanFacts'
    <2>1. HasMemo' /\ Accounts' = Accounts
        BY <1>1, <1>6 DEF HasMemo, Found, Accounts, IsPayment, Payment
    <2>2. ASSUME NEW a \in scan'.todo PROVE WalkInv(a)'
        <3>1. world.ingested /\ a \in DOMAIN start.before
            BY <1>3, <1>6, <2>2, AccountsAreKnown DEF CoreInv, AnswersInv, HasMemo
        <3>2. world.before[a] \in Seq(Transactions) /\ world.after[a] \in Seq(Transactions)
            BY <3>1 DEF CoreInv, WorldInv, IsWorld, FixedFields
        <3>3. History(world, a) \in Seq(Transactions) /\ History(world, a)' = History(world, a)
            BY <1>1, <3>2, HistoryParts DEF History
        <3>4. WithMemo(SubSeq(History(world, a), 1, 0)) = {}
            BY <3>3, MemoOfPages
        <3>5. (scan.cursor <= Len(History(world, a)))'
            BY <1>3, <3>3
        <3>6. (WithMemo(SubSeq(History(world, a), 1, scan.cursor)) \subseteq scan.hashes)'
            BY <1>3, <3>3, <3>4 DEF WithMemo
        <3> QED
            BY <3>5, <3>6 DEF WalkInv
    <2>3. scan'.page \in Nat /\ scan'.cursor = scan'.page * PAGE
        BY <1>3, ScanAssumption
    <2> QED
        BY <1>3, <1>6, <2>1, <2>2, <2>3 DEF ScanFacts
<1>7. ScanInv'
    BY <1>1, <1>2, <1>6 DEF ScanInv
<1> QED
    BY <1>4, <1>5, <1>7 DEF CoreInv

\* The scan ends with what it has found, or with a source that could not be reached.
LEMMA ScanEndsKeeps ==
    ASSUME CoreInv, NEW answer, Ask("scan", answer, "report"),
           \/ answer = Down
           \/ scan.todo = {} /\ answer = [hashes |-> scan.hashes, exhaustive |-> scan.exhaustive]
    PROVE  CoreInv'
<1>1. Asked("scan", "report") /\ seen'["scan"] = answer /\ scan' = scan
    BY AskIsAsked DEF CoreInv, Sources, Asked
<1>2. /\ world' = world /\ start' = start /\ pc = "scan" /\ pc' = "report" /\ verdict' = verdict
      /\ \A s \in Sources : s # "scan" => seen'[s] = seen[s]
    BY <1>1 DEF Asked
<1>3. WorldInv'
    BY <1>2, WorldRests DEF CoreInv
<1>4. AnswersInv'
    BY <1>1, OthersStay DEF AnswersInv, Sources
<1>5. PlaceInv'
    BY <1>1, <1>2 DEF CoreInv, PlaceInv, Places, Sources, Asked
<1>6. ScanFacts'
    <2>1. ScanFacts
        BY <1>2 DEF CoreInv, ScanInv
    <2>2. /\ seen'["tx"] = seen["tx"] /\ seen'["ops"] = seen["ops"]
          /\ seen'["decision"] = seen["decision"] /\ seen'["registry"] = seen["registry"]
        BY <1>2 DEF Sources
    <2>3. HasMemo' /\ Accounts' = Accounts
        BY <2>1, <2>2 DEF ScanFacts, HasMemo, Found, Accounts, IsPayment, Payment
    <2>4. /\ \A a \in Accounts : /\ WithMemo(History(start, a))' = WithMemo(History(start, a))
                                 /\ WalkInv(a)' <=> WalkInv(a)
          /\ \A a \in DOMAIN start.before : /\ WithMemo(History(world, a))' = WithMemo(History(world, a))
                                            /\ History(world, a)' = History(world, a)
        BY <1>1, <1>2 DEF WithMemo, History, WalkInv
    <2> QED
        BY <1>1, <1>2, <2>1, <2>3, <2>4 DEF ScanFacts
<1>7. ScanInv'
    BY <1>1, <1>2, <1>6 DEF ScanInv
<1> QED
    BY <1>3, <1>4, <1>5, <1>7 DEF CoreInv

\* A page, the end of a walk, the end of the scan.
LEMMA ScanForMemoKeeps ==
    ASSUME CoreInv, ScanForMemo PROVE CoreInv'
<1>1. CASE /\ \E a \in scan.todo : CapReached(a) \/ ReadPage(a)
           /\ UNCHANGED <<pc, world, start, trouble, strict, seen, exit, verdict>>
    <2>1. PICK a \in scan.todo : CapReached(a) \/ ReadPage(a)
        BY <1>1
    <2>2. ScanOnly /\ pc = "scan" /\ pc' = "scan"
        BY <1>1, <2>1 DEF ScanOnly, CapReached, ReadPage, Walking
    <2>3. ScanFacts /\ DOMAIN scan = {"todo", "page", "cursor", "hashes", "exhaustive"}
        BY <2>2 DEF CoreInv, ScanInv, PlaceInv
    <2>4. ScanFacts'
        BY <2>1, <2>2, <2>3, CapReachedKeeps, ReadPageKeeps
    <2>5. DOMAIN scan' = {"todo", "page", "cursor", "hashes", "exhaustive"}
        BY <2>1, <2>3 DEF CapReached, ReadPage, Walked
    <2>6. WorldInv' /\ AnswersInv'
        BY <2>2, WorldRests, AnswersRest DEF CoreInv, ScanOnly
    <2>7. PlaceInv'
        BY <2>2, <2>5 DEF CoreInv, PlaceInv, ScanOnly
    <2>8. ScanInv'
        BY <2>2, <2>4 DEF CoreInv, ScanInv, PlaceInv, ScanOnly
    <2> QED
        BY <2>6, <2>7, <2>8 DEF CoreInv
<1>2. CASE pc = "scan" /\ scan.todo # {} /\ Trouble /\ Ask("scan", Down, "report")
    BY <1>2, ScanEndsKeeps
<1>3. CASE /\ scan.todo = {} /\ UNCHANGED trouble
           /\ Ask("scan", [hashes |-> scan.hashes, exhaustive |-> scan.exhaustive], "report")
    <2>1. PICK answer : answer = [hashes |-> scan.hashes, exhaustive |-> scan.exhaustive]
        OBVIOUS
    <2> QED
        BY <1>3, <2>1, ScanEndsKeeps
<1> QED
    BY <1>1, <1>2, <1>3 DEF ScanForMemo

\* The end of the run: the report, or a file or arguments there is nothing to report on.
LEMMA StopKeeps ==
    ASSUME CoreInv, NEW code, NEW words, Stop(code, words) PROVE CoreInv'
<1>1. /\ pc' = "done" /\ world' = world /\ start' = start /\ seen' = seen /\ scan' = scan
    BY DEF Stop
<1>2. WorldInv' /\ AnswersInv'
    BY <1>1, WorldRests, AnswersRest DEF CoreInv
<1>3. PlaceInv'
    BY <1>1 DEF CoreInv, PlaceInv, Places
<1>4. ScanInv'
    BY <1>1, ScanRests DEF CoreInv, ScanInv
<1> QED
    BY <1>2, <1>3, <1>4 DEF CoreInv

\* The arguments are read.
LEMMA MainKeeps ==
    ASSUME CoreInv, Main PROVE CoreInv'
<1>1. CASE Stop(Exit.VERIFIED, None)
    BY <1>1, StopKeeps
<1>2. CASE Stop(Exit.USAGE, None)
    BY <1>2, StopKeeps
<1>3. CASE /\ pc = "args" /\ pc' = "receipt"
           /\ UNCHANGED <<world, start, trouble, strict, seen, scan, exit, verdict>>
    <2>1. WorldInv' /\ AnswersInv'
        BY <1>3, WorldRests, AnswersRest DEF CoreInv
    <2>2. PlaceInv' /\ ScanInv'
        BY <1>3 DEF CoreInv, PlaceInv, ScanInv, Places
    <2> QED
        BY <2>1, <2>2 DEF CoreInv
<1> QED
    BY <1>1, <1>2, <1>3 DEF Main

\* The world moves on.
LEMMA MovesKeep ==
    ASSUME CoreInv, WorldMoves, Elsewhere PROVE CoreInv'
<1>1. WorldInv' /\ PlaceInv' /\ AnswersInv'
    BY WorldStays, MovesKeepPlace, MovesKeepAnswers DEF CoreInv, Elsewhere
<1>2. ScanInv'
    BY MovesKeepScan DEF CoreInv, ScanInv, Elsewhere
<1> QED
    BY <1>1, <1>2 DEF CoreInv

\* Every step keeps the invariant.
LEMMA CoreStep == CoreInv /\ [Next]_vars => CoreInv'
<1> SUFFICES ASSUME CoreInv, [Next]_vars PROVE CoreInv'
    OBVIOUS
<1>1. CASE Main
    BY <1>1, MainKeeps
<1>2. CASE Reads
    <2>1. CASE ReadReceipt
        BY <2>1, StopKeeps, ReadReceiptKeeps DEF ReadReceipt
    <2>2. CASE FetchTransaction
        BY <2>2, FetchTransactionKeeps
    <2>3. CASE FetchOperations
        BY <2>3, FetchOperationsKeeps
    <2>4. CASE Connect
        BY <2>4, ConnectKeeps
    <2>5. CASE GetDecision
        BY <2>5, GetDecisionKeeps
    <2>6. CASE MemoHashView
        BY <2>6, MemoHashViewKeeps
    <2>7. CASE EntryLedger
        BY <2>7, EntryLedgerKeeps
    <2>8. CASE ReadRegistry
        BY <2>8, ReadRegistryKeeps
    <2>9. CASE ReplayCheck
        BY <2>9, ReplayCheckKeeps
    <2>10. CASE ScanForMemo
        BY <2>10, ScanForMemoKeeps
    <2> QED
        BY <1>2, <2>1, <2>2, <2>3, <2>4, <2>5, <2>6, <2>7, <2>8, <2>9, <2>10 DEF Reads
<1>3. CASE Report
    BY <1>3, StopKeeps DEF Report
<1>4. CASE Ingest \/ MarkSettled \/ PayAgain
    BY <1>4, IngestMoves, MarkMoves, PayMoves, MovesKeep DEF CoreInv
<1>5. CASE UNCHANGED vars
    <2>1. world' = world /\ start' = start /\ seen' = seen /\ scan' = scan /\ pc' = pc /\ verdict' = verdict
        BY <1>5 DEF vars
    <2>2. WorldInv' /\ AnswersInv'
        BY <2>1, WorldRests, AnswersRest DEF CoreInv
    <2>3. PlaceInv' /\ ScanInv'
        BY <2>1, ScanRests DEF CoreInv, PlaceInv, ScanInv
    <2> QED
        BY <2>2, <2>3 DEF CoreInv
<1> QED
    BY <1>1, <1>2, <1>3, <1>4, <1>5 DEF Next

\* The four parts of the invariant hold in every run of the verifier.
THEOREM CoreHolds == Spec => []CoreInv
BY CoreInit, CoreStep, PTL DEF Spec

-----------------------------------------------------------------------------
(* The report.                                                              *)

\* The verdict is FAILED when a check failed, VERIFIED when every check passed.
LEMMA VerdictMeans ==
    ASSUME NEW statuses
    PROVE  /\ VerdictFor(ExitCodeFor(statuses)) = "VERIFIED" <=>
                 "fail" \notin statuses /\ "unavailable" \notin statuses
           /\ VerdictFor(ExitCodeFor(statuses)) = "FAILED" <=> "fail" \in statuses
BY DEF VerdictFor, ExitCodeFor, Exit

\* What the tool saw when it says VERIFIED: every check of the report, read as a fact.
LEMMA VerifiedSaw ==
    ASSUME "fail" \notin Checks, "unavailable" \notin Checks
    PROVE  /\ seen["receipt"].tx = TxArg
           /\ Found("registry") /\ seen["registry"].pin # None /\ seen["registry"].pin = ContractId
           /\ Found("tx") /\ seen["tx"].successful /\ Found("ops") /\ IsPayment /\ HasMemo
           /\ Found("decision") /\ seen["decision"].verdict = "Approved" /\ seen["decision"].settled
           /\ \A f \in {"id", "hash", "version", "agent", "service", "asset", "amount"} :
                 seen["receipt"][f] = seen["decision"][f]
           /\ Sha256(Preimage(seen["receipt"])) = seen["tx"].memo
           /\ seen["receipt"].preimage = Preimage(seen["receipt"])
           /\ seen["receipt"].memo = seen["tx"].memo
           /\ Payment.amount = seen["decision"].amount
           /\ Sac(seen["receipt"].network, Payment.asset) = seen["decision"].asset
           /\ seen["registry"].services[seen["decision"].service] = Payment.to
           /\ seen["tx"].source = seen["registry"].executor
           /\ Found("scan") /\ seen["scan"].exhaustive /\ seen["scan"].hashes = {TxArg}
<1>1. \A c \in Checks : c # "fail" /\ c # "unavailable"
    OBVIOUS
<1>2. /\ CheckTxMatchesReceipt \in Checks /\ CheckRegistryContract \in Checks
      /\ PaymentAmount \in Checks /\ PaymentAsset \in Checks /\ CheckReplay \in Checks
    BY DEF Checks
<1>3. TransactionSuccessful \in Checks /\ SinglePayment \in Checks /\ MemoIsHash \in Checks
    BY DEF Checks, LedgerChecks
<1>4. VerdictApproved \in Checks /\ Settled \in Checks /\ ReceiptMatchesDecision \in Checks
    BY DEF Checks, ChainChecks
<1>5. ReceiptMemoHash \in Checks /\ MemoCommitment \in Checks /\ ReceiptPreimage \in Checks
    BY DEF Checks, CommitmentChecks
<1>6. Destination \in Checks /\ Source \in Checks
    BY DEF Checks, RegistryChecks
<1>7. seen["receipt"].tx = TxArg
    BY <1>1, <1>2 DEF CheckTxMatchesReceipt, Judge
<1>8. Found("registry") /\ seen["registry"].pin # None /\ seen["registry"].pin = ContractId
    BY <1>1, <1>2 DEF CheckRegistryContract, Judge
<1>9. Found("tx") /\ seen["tx"].successful /\ Found("ops") /\ IsPayment /\ HasMemo
    BY <1>1, <1>3 DEF TransactionSuccessful, SinglePayment, MemoIsHash, Judge
<1>10. Found("decision") /\ seen["decision"].verdict = "Approved" /\ seen["decision"].settled
    BY <1>1, <1>4 DEF VerdictApproved, Settled, Judge
<1>11. \A f \in {"id", "hash", "version", "agent", "service", "asset", "amount"} :
           seen["receipt"][f] = seen["decision"][f]
    BY <1>1, <1>4 DEF ReceiptMatchesDecision, Judge
<1>12. /\ Sha256(Preimage(seen["receipt"])) = seen["tx"].memo
       /\ seen["receipt"].preimage = Preimage(seen["receipt"])
       /\ seen["receipt"].memo = seen["tx"].memo
    BY <1>1, <1>5 DEF ReceiptMemoHash, MemoCommitment, ReceiptPreimage, Judge
<1>13. /\ Payment.amount = seen["decision"].amount
       /\ Sac(seen["receipt"].network, Payment.asset) = seen["decision"].asset
    BY <1>1, <1>2 DEF PaymentAmount, PaymentAsset, Judge
<1>14. /\ seen["registry"].services[seen["decision"].service] = Payment.to
       /\ seen["tx"].source = seen["registry"].executor
    BY <1>1, <1>6 DEF Destination, Source, Judge
<1>15. Found("scan") /\ seen["scan"].exhaustive /\ seen["scan"].hashes = {TxArg}
    BY <1>1, <1>2 DEF CheckReplay, Judge
<1> QED
    BY <1>7, <1>8, <1>9, <1>10, <1>11, <1>12, <1>13, <1>14, <1>15

\* What was seen at the report, when it was found, is what the world still holds.
LEMMA ReportSaw ==
    ASSUME CoreInv, pc = "report"
    PROVE  /\ seen["receipt"] = world.receipt
           /\ ContractId = (IF world.override # None THEN world.override ELSE world.receipt.contract)
           /\ Key(start) = <<ContractId, world.receipt.id>>
           /\ Found("tx") => seen["tx"] = world.tx /\ world.tx # NotFound
           /\ IsPayment => seen["ops"] = world.ops
           /\ Found("registry") => seen["registry"] = world.registry /\ world.registry # NotFound
           /\ Found("decision") /\ seen["decision"].settled =>
                 seen["decision"] = world.held[Key(start)] /\ world.held[Key(start)] # NotFound
<1>1. seen["receipt"] = world.receipt
    BY DEF CoreInv, PlaceInv
<1>2. world.override = start.override /\ world.receipt = start.receipt /\ world.tx = start.tx
    BY DEF CoreInv, WorldInv, FixedFields
<1>3. /\ ContractId = (IF world.override # None THEN world.override ELSE world.receipt.contract)
      /\ Key(start) = <<ContractId, world.receipt.id>>
    BY <1>1, <1>2 DEF ContractId, Key
<1>4. Found("tx") => seen["tx"] = world.tx /\ world.tx # NotFound
    BY DEF CoreInv, AnswersInv, Found
<1>5. IsPayment => seen["ops"] = world.ops
    <2>1. world.ops = start.ops
        BY DEF CoreInv, WorldInv, FixedFields
    <2> QED
        BY <2>1, PaymentRead DEF CoreInv, IsPayment
<1>6. Found("registry") => seen["registry"] = world.registry /\ world.registry # NotFound
    BY DEF CoreInv, AnswersInv, Found
<1>7. Found("decision") /\ seen["decision"].settled =>
          seen["decision"] = world.held[Key(start)] /\ world.held[Key(start)] # NotFound
    BY DEF CoreInv, AnswersInv, DecisionRead, Found
<1> QED
    BY <1>1, <1>3, <1>4, <1>5, <1>6, <1>7

\* A report without a failed or an unfinished check is made only of an authorized payment
\* that the receipt describes.
LEMMA ReportIsAuthorized ==
    ASSUME CoreInv, pc = "report", "fail" \notin Checks, "unavailable" \notin Checks
    PROVE  Authorized(world) /\ Described(world)
<1> DEFINE d == world.held[<<world.registry.pin, world.receipt.id>>]
           p == world.ops[1]
<1>1. /\ seen["receipt"] = world.receipt /\ seen["tx"] = world.tx /\ world.tx # NotFound
      /\ seen["ops"] = world.ops /\ seen["registry"] = world.registry /\ world.registry # NotFound
      /\ Payment = p
    BY VerifiedSaw, ReportSaw DEF Payment
<1>2. /\ Key(start) = <<world.registry.pin, world.receipt.id>>
      /\ seen["decision"] = world.held[Key(start)] /\ world.held[Key(start)] # NotFound
    BY <1>1, VerifiedSaw, ReportSaw
<1>3. seen["decision"] = d /\ d # NotFound
    BY <1>2
<1>4. world.tx.count = 1 /\ Len(world.ops) = 1 /\ p.type = "payment"
    BY <1>1, VerifiedSaw DEF IsPayment, Payment
<1> HIDE DEF d, p
<1>5. \A f \in {"id", "hash", "version", "agent", "service", "asset", "amount"} : world.receipt[f] = d[f]
    BY <1>1, <1>3, VerifiedSaw
<1>6. Preimage(world.receipt) = Preimage(d)
    BY <1>5 DEF Preimage
<1>7. world.tx.memo = Sha256(Preimage(d))
    BY <1>1, <1>6, VerifiedSaw
<1>8. /\ world.receipt.tx = TxArg /\ world.receipt.memo = world.tx.memo
      /\ world.receipt.preimage = Preimage(d)
    BY <1>1, <1>6, VerifiedSaw
<1>9. /\ world.tx.successful /\ d.verdict = "Approved" /\ d.settled /\ p.amount = d.amount
      /\ Sac(world.receipt.network, p.asset) = d.asset /\ p.to = world.registry.services[d.service]
      /\ world.tx.source = world.registry.executor /\ world.registry.pin # None
    BY <1>1, <1>3, VerifiedSaw
<1>10. Authorized(world)
    BY <1>1, <1>3, <1>4, <1>7, <1>9 DEF Authorized, d, p
<1>11. Described(world)
    BY <1>5, <1>8 DEF Described, d
<1> QED
    BY <1>10, <1>11

\* Nor of one that was copied before the tool started.
LEMMA ReportCaught ==
    ASSUME CoreInv, pc = "report", "fail" \notin Checks, "unavailable" \notin Checks,
           NEW a \in {world.tx.source, world.ops[1].to}
    PROVE  "copy" \notin {History(start, a)[i] : i \in DOMAIN History(start, a)}
<1>1. /\ seen["tx"] = world.tx /\ seen["ops"] = world.ops /\ IsPayment /\ Found("scan")
      /\ seen["scan"].exhaustive /\ seen["scan"].hashes = {TxArg}
    BY VerifiedSaw, ReportSaw
<1>2. a \in Accounts
    BY <1>1 DEF Accounts, Payment
<1>3. /\ seen["scan"] = [hashes |-> scan.hashes, exhaustive |-> scan.exhaustive]
      /\ scan.todo = {} /\ ScanFacts
    BY <1>1 DEF CoreInv, ScanInv, Found
<1>4. WithMemo(History(start, a)) \subseteq {TxArg}
    BY <1>1, <1>2, <1>3 DEF ScanFacts
<1> QED
    BY <1>4, MarkerAssumption DEF WithMemo

\* A settlement in order, with the decision found where the tool looks for it.
LEMMA InOrder ==
    ASSUME NEW w, Impeccable(w)
    PROVE  LET d == w.held[Key(w)]
               p == w.ops[1]
           IN  /\ w.file = "receipt" /\ w.ingested /\ Key(w) = <<w.registry.pin, w.receipt.id>>
               /\ w.registry.pin = (IF w.override # None THEN w.override ELSE w.receipt.contract)
               /\ w.registry # NotFound /\ w.registry.pin # None /\ w.tx # NotFound /\ d # NotFound
               /\ w.tx.successful /\ w.tx.count = 1 /\ Len(w.ops) = 1 /\ p.type = "payment"
               /\ d.verdict = "Approved" /\ d.settled /\ Standing(w)
               /\ w.tx.memo = Sha256(Preimage(d)) /\ Sha256(Preimage(w.receipt)) = w.tx.memo
               /\ p.amount = d.amount /\ Sac(w.receipt.network, p.asset) = d.asset
               /\ p.to = w.registry.services[d.service] /\ w.tx.source = w.registry.executor
               /\ w.receipt.tx = TxArg
               /\ \A f \in {"id", "hash", "version", "agent", "service", "asset", "amount"} :
                     w.receipt[f] = d[f]
               /\ w.receipt.preimage = Preimage(w.receipt) /\ w.receipt.memo = w.tx.memo
               /\ d.id = DecisionId(d.hash, d.version) /\ d.written <= w.tx.ledger
               /\ \A a \in DOMAIN w.before : "copy" \notin WithMemo(History(w, a))
<1> DEFINE d == w.held[<<w.registry.pin, w.receipt.id>>]
           p == w.ops[1]
<1>1. Key(w) = <<w.registry.pin, w.receipt.id>> /\ w.held[Key(w)] = d
    BY DEF Impeccable, Key
<1>2. /\ w.registry # NotFound /\ w.registry.pin # None /\ w.tx # NotFound /\ d # NotFound
      /\ w.tx.successful /\ w.tx.count = 1 /\ Len(w.ops) = 1 /\ p.type = "payment"
      /\ d.verdict = "Approved" /\ d.settled /\ w.tx.memo = Sha256(Preimage(d))
      /\ p.amount = d.amount /\ Sac(w.receipt.network, p.asset) = d.asset
      /\ p.to = w.registry.services[d.service] /\ w.tx.source = w.registry.executor
    BY DEF Impeccable, Authorized
<1>3. /\ w.receipt.tx = TxArg
      /\ \A f \in {"id", "hash", "version", "agent", "service", "asset", "amount"} : w.receipt[f] = d[f]
      /\ w.receipt.preimage = Preimage(d) /\ w.receipt.memo = w.tx.memo
    BY DEF Impeccable, Described
<1>4. /\ w.file = "receipt" /\ w.ingested
      /\ w.registry.pin = (IF w.override # None THEN w.override ELSE w.receipt.contract)
      /\ d.id = DecisionId(d.hash, d.version) /\ d.written <= w.tx.ledger
    BY DEF Impeccable
<1>5. \A a \in DOMAIN w.before : "copy" \notin WithMemo(History(w, a))
    BY DEF Impeccable, WithMemo
<1> HIDE DEF d, p
<1>6. Preimage(w.receipt) = Preimage(d)
    BY <1>3 DEF Preimage
<1>7. Standing(w)
    BY <1>1, <1>2 DEF Standing
<1> QED
    BY <1>1, <1>2, <1>3, <1>4, <1>5, <1>6, <1>7 DEF p

\* What the tool saw of a settlement that was in order when it started.
LEMMA SawInOrder ==
    ASSUME CoreInv, pc = "report", Impeccable(start), Impeccable(world)
    PROVE  /\ Key(world) = Key(start) /\ world.held[Key(start)] = start.held[Key(start)]
           /\ ContractId = world.registry.pin /\ seen["receipt"] = world.receipt
           /\ seen["tx"] \in {Unread, Down, world.tx} /\ seen["tx"] # NotFound
           /\ seen["ops"] \in {Unread, Down, world.ops}
           /\ seen["decision"] \in {Unread, Down, world.held[Key(start)]} /\ seen["decision"] # NotFound
           /\ seen["view"] \in {Unread, Down, Sha256(Preimage(world.held[Key(start)]))}
           /\ seen["entry"] \in {Unread, Down, world.held[Key(start)].written}
           /\ seen["registry"] \in {Unread, world.registry}
<1>1. /\ Standing(start) /\ start.ingested /\ start.held[Key(start)] # NotFound
      /\ world.tx # NotFound
      /\ world.registry.pin = (IF world.override # None THEN world.override ELSE world.receipt.contract)
    BY InOrder
<1>2. Key(world) = Key(start)
    BY DEF CoreInv, WorldInv, FixedFields, Key
<1>3. world.held[Key(start)] = start.held[Key(start)]
    BY <1>1 DEF CoreInv, WorldInv, IsWorld, Standing, Marked
<1>4. ContractId = world.registry.pin /\ seen["receipt"] = world.receipt
    BY <1>1, ReportSaw
<1>5. /\ seen["tx"] \in {Unread, Down, world.tx} /\ seen["ops"] \in {Unread, Down, world.ops}
      /\ seen["registry"] \in {Unread, world.registry}
    BY <1>1 DEF CoreInv, AnswersInv
<1>6. /\ seen["view"] \in {Unread, Down, Sha256(Preimage(world.held[Key(start)]))}
      /\ seen["entry"] \in {Unread, Down, world.held[Key(start)].written}
    BY <1>1, <1>3 DEF CoreInv, AnswersInv
<1>7. seen["decision"] \in {Unread, Down, world.held[Key(start)]}
    BY <1>1 DEF CoreInv, AnswersInv, DecisionRead
<1>8. seen["tx"] # NotFound /\ seen["decision"] # NotFound
    BY <1>1, <1>3, <1>5, <1>7, MarkerAssumption
<1> QED
    BY <1>2, <1>3, <1>4, <1>5, <1>6, <1>7, <1>8

\* A scan that reached the ends found the payment, once, and no copy.
LEMMA ScanInOrder ==
    ASSUME CoreInv, pc = "report", Impeccable(start), Impeccable(world),
           Found("scan"), seen["scan"].exhaustive
    PROVE  seen["scan"].hashes = {TxArg}
<1>1. /\ seen["scan"] = [hashes |-> scan.hashes, exhaustive |-> scan.exhaustive]
      /\ scan.todo = {} /\ ScanFacts /\ seen["scan"].hashes = scan.hashes /\ scan.exhaustive
    BY DEF CoreInv, ScanInv, Found
<1>2. "copy" \notin scan.hashes
    <2>1. DOMAIN world.before = DOMAIN start.before
        BY DEF CoreInv, WorldInv, FixedFields
    <2> QED
        BY <1>1, <2>1, InOrder DEF ScanFacts
<1>3. PICK a : a = world.tx.source
    OBVIOUS
<1>4. a \in Accounts /\ start.tx = world.tx /\ a = start.tx.source
    BY <1>1, <1>3, ReportSaw DEF ScanFacts, HasMemo, Accounts, CoreInv, WorldInv, FixedFields
<1>5. a \in DOMAIN start.before
    BY <1>1, <1>4, WalkedHistory
<1>6. start.before[a] \in Seq(Transactions) /\ start.after[a] \in Seq(Transactions)
    BY <1>5 DEF CoreInv, WorldInv, IsWorld
<1>7. Own(start, a) = <<TxArg>>
    BY <1>4, InOrder DEF Own
<1>8. /\ History(start, a) = start.before[a] \o Own(start, a) \o start.after[a]
      /\ Own(start, a) \in Seq(Transactions)
    BY <1>6, HistoryParts
<1>9. start.before[a] \o Own(start, a) \in Seq(Transactions)
    BY <1>6, <1>8
<1>10. WithMemo(Own(start, a)) \subseteq WithMemo(start.before[a] \o Own(start, a))
    BY <1>6, <1>8, MemoOfConcat, Zenon
<1>11. WithMemo(start.before[a] \o Own(start, a)) \subseteq WithMemo(History(start, a))
    BY <1>6, <1>8, <1>9, MemoOfConcat, Zenon
<1>12. TxArg \in WithMemo(Own(start, a))
    BY <1>7 DEF WithMemo
<1>13. TxArg \in scan.hashes
    BY <1>1, <1>4, <1>10, <1>11, <1>12 DEF ScanFacts
<1> QED
    BY <1>1, <1>2, <1>13 DEF ScanFacts

\* No check fails on a settlement in order.
LEMMA ReportOfOrder ==
    ASSUME CoreInv, pc = "report", Impeccable(start), Impeccable(world)
    PROVE  "fail" \notin Checks
<1> DEFINE d == world.held[Key(start)]
           p == world.ops[1]
<1>1. /\ ContractId = world.registry.pin /\ seen["receipt"] = world.receipt
      /\ seen["tx"] \in {Unread, Down, world.tx} /\ seen["tx"] # NotFound
      /\ seen["ops"] \in {Unread, Down, world.ops}
      /\ seen["decision"] \in {Unread, Down, d} /\ seen["decision"] # NotFound
      /\ seen["view"] \in {Unread, Down, Sha256(Preimage(d))}
      /\ seen["entry"] \in {Unread, Down, d.written}
      /\ seen["registry"] \in {Unread, world.registry}
    BY SawInOrder
<1>2. Key(world) = Key(start) /\ start.held[Key(start)] = d
    BY SawInOrder
<1>3. /\ world.registry # NotFound /\ world.registry.pin # None /\ world.tx # NotFound /\ d # NotFound
      /\ world.tx.successful /\ world.tx.count = 1 /\ Len(world.ops) = 1 /\ p.type = "payment"
      /\ d.verdict = "Approved" /\ d.settled
      /\ world.tx.memo = Sha256(Preimage(d)) /\ Sha256(Preimage(world.receipt)) = world.tx.memo
      /\ p.amount = d.amount /\ Sac(world.receipt.network, p.asset) = d.asset
      /\ p.to = world.registry.services[d.service] /\ world.tx.source = world.registry.executor
      /\ world.receipt.tx = TxArg
      /\ \A f \in {"id", "hash", "version", "agent", "service", "asset", "amount"} :
            world.receipt[f] = d[f]
      /\ world.receipt.preimage = Preimage(world.receipt) /\ world.receipt.memo = world.tx.memo
      /\ d.id = DecisionId(d.hash, d.version) /\ d.written <= world.tx.ledger
    BY <1>2, InOrder
<1>4. world.tx.memo # None
    <2>1. Key(start) \in DOMAIN start.held
        BY DEF CoreInv, WorldInv, IsWorld
    <2> QED
        BY <1>2, <1>3, <2>1 DEF CoreInv, WorldInv, IsWorld
<1>5. p.to # None
    <2>1. 1 \in DOMAIN start.ops /\ start.ops = world.ops
        <3>1. DOMAIN start.ops = 1..Len(start.ops) /\ start.ops = world.ops
            BY DEF CoreInv, WorldInv, IsWorld, FixedFields
        <3>2. 1 \in 1..Len(start.ops)
            BY <1>3, <3>1
        <3> QED
            BY <3>1, <3>2
    <2>2. \A i \in DOMAIN start.ops : start.ops[i].to \in DOMAIN start.before
        BY DEF CoreInv, WorldInv, IsWorld
    <2>3. None \notin DOMAIN start.before
        BY DEF CoreInv, WorldInv, IsWorld
    <2> QED
        BY <2>1, <2>2, <2>3
<1> HIDE DEF d
<1>6. Found("tx") => seen["tx"] = world.tx
    BY <1>1 DEF Found
<1>7. Found("decision") => seen["decision"] = d
    BY <1>1 DEF Found
<1>8. Found("registry") => seen["registry"] = world.registry
    BY <1>1 DEF Found
<1>9. Found("ops") => seen["ops"] = world.ops
    BY <1>1 DEF Found
<1>10. /\ CheckTxMatchesReceipt # "fail" /\ CheckRegistryContract # "fail"
    BY <1>1, <1>3, <1>8 DEF CheckTxMatchesReceipt, CheckRegistryContract, Judge
<1>11. "fail" \notin LedgerChecks
    <2>1. TransactionSuccessful # "fail"
        BY <1>1, <1>3, <1>6 DEF TransactionSuccessful, Judge
    <2>2. SinglePayment # "fail"
        <3>1. Found("tx") /\ Found("ops") => IsPayment
            BY <1>3, <1>6, <1>9 DEF IsPayment, Payment
        <3> QED
            BY <3>1 DEF SinglePayment, Judge
    <2>3. MemoIsHash # "fail"
        BY <1>4, <1>6 DEF MemoIsHash, HasMemo, Judge
    <2> QED
        BY <2>1, <2>2, <2>3 DEF LedgerChecks
<1>12. "fail" \notin ChainChecks
    <2>1. DecisionFound # "fail"
        BY <1>1 DEF DecisionFound, Judge
    <2>2. VerdictApproved # "fail" /\ Settled # "fail"
        BY <1>3, <1>7 DEF VerdictApproved, Settled, Judge
    <2>3. ReceiptMatchesDecision # "fail"
        BY <1>1, <1>3, <1>7 DEF ReceiptMatchesDecision, Judge
    <2> QED
        BY <2>1, <2>2, <2>3 DEF ChainChecks
<1>13. "fail" \notin CommitmentChecks
    <2>1. HasMemo => seen["tx"] = world.tx
        BY <1>6 DEF HasMemo
    <2>2. MemoCommitment # "fail" /\ ReceiptPreimage # "fail" /\ ReceiptMemoHash # "fail"
        BY <1>1, <1>3, <2>1 DEF MemoCommitment, ReceiptPreimage, ReceiptMemoHash, Judge
    <2>3. ContractMemoHash # "fail"
        BY <1>1, <1>3, <2>1 DEF ContractMemoHash, Found, Judge
    <2> QED
        BY <2>2, <2>3 DEF CommitmentChecks
<1>14. IsPayment => Payment = p /\ seen["tx"] = world.tx
    BY <1>6, <1>9 DEF IsPayment, Payment
<1> HIDE DEF p
<1>15. PaymentAmount # "fail" /\ PaymentAsset # "fail"
    BY <1>1, <1>3, <1>7, <1>14 DEF PaymentAmount, PaymentAsset, Judge
<1>16. "fail" \notin RegistryChecks
    <2>1. Destination # "fail"
        BY <1>3, <1>5, <1>7, <1>8, <1>14 DEF Destination, Judge
    <2>2. Source # "fail"
        BY <1>3, <1>6, <1>8 DEF Source, Judge
    <2> QED
        BY <2>1, <2>2 DEF RegistryChecks
<1>17. "fail" \notin StrictChecks
    <2>1. DecisionIdDerivation # "fail"
        BY <1>3, <1>7 DEF DecisionIdDerivation, Judge
    <2>2. SettlementOrder # "fail"
        BY <1>1, <1>3, <1>6 DEF SettlementOrder, Found, Judge
    <2> QED
        BY <2>1, <2>2 DEF StrictChecks
<1>18. CheckReplay # "fail"
    BY ScanInOrder DEF CheckReplay, Judge
<1> QED
    BY <1>10, <1>11, <1>12, <1>13, <1>15, <1>16, <1>17, <1>18 DEF Checks

-----------------------------------------------------------------------------
(* What the verdicts mean.                                                  *)

\* A run that is over changes nothing any more, and neither does the world it is judged by.
LEMMA DoneIsFinal == pc = "done" /\ [Next]_vars => UNCHANGED vars
<1> SUFFICES ASSUME pc = "done", [Next]_vars PROVE UNCHANGED vars
    OBVIOUS
<1>1. ~Main /\ ~Report
    BY DEF Main, Report
<1>2. ~ReadReceipt /\ ~FetchTransaction /\ ~FetchOperations /\ ~Connect /\ ~GetDecision
    BY DEF ReadReceipt, FetchTransaction, FetchOperations, Connect, GetDecision, Fetch, Ask
<1>3. ~MemoHashView /\ ~EntryLedger /\ ~ReadRegistry /\ ~ReplayCheck
    BY DEF MemoHashView, EntryLedger, ReadRegistry, ReplayCheck, Fetch, Ask
<1>4. ~ScanForMemo
    BY DEF ScanForMemo, CapReached, ReadPage, Walking, Ask
<1>5. ~Ingest /\ ~MarkSettled /\ ~PayAgain
    BY DEF Ingest, MarkSettled, PayAgain, Become
<1> QED
    BY <1>1, <1>2, <1>3, <1>4, <1>5 DEF Next, Reads

\* How a run comes to its end.
LEMMA HowItEnds ==
    ASSUME pc # "done", pc' = "done", [Next]_vars
    PROVE  /\ world' = world /\ start' = start /\ seen' = seen /\ scan' = scan
           /\ \/ Report
              \/ verdict' = None /\ (world.args # "run" \/ world.file # "receipt")
              \/ verdict' = "FAILED" /\ world.file # "receipt"
<1>1. CASE Main
    BY <1>1 DEF Main, Stop
<1>2. CASE Report
    BY <1>2 DEF Report, Stop
<1>3. CASE ReadReceipt
    BY <1>3 DEF ReadReceipt, Stop, Ask
<1>4. ~FetchTransaction /\ ~FetchOperations /\ ~Connect /\ ~GetDecision
    BY DEF FetchTransaction, FetchOperations, Connect, GetDecision, Fetch, Ask
<1>5. ~MemoHashView /\ ~EntryLedger /\ ~ReadRegistry /\ ~ReplayCheck
    BY DEF MemoHashView, EntryLedger, ReadRegistry, ReplayCheck, Fetch, Ask
<1>6. ~ScanForMemo
    BY DEF ScanForMemo, Ask
<1>7. ~Ingest /\ ~MarkSettled /\ ~PayAgain /\ ~UNCHANGED vars
    BY DEF Ingest, MarkSettled, PayAgain, Become, vars
<1> QED
    BY <1>1, <1>2, <1>3, <1>4, <1>5, <1>6, <1>7 DEF Next, Reads

VerdictInv == VerifiedIsAuthorized /\ FailedIsReal /\ ReplayIsCaught

\* The three promises, over the world as it is at the verdict.
LEMMA VerdictStep == CoreInv /\ VerdictInv /\ [Next]_vars => VerdictInv'
<1> SUFFICES ASSUME CoreInv, VerdictInv, [Next]_vars PROVE VerdictInv'
    OBVIOUS
<1>0. PlaceInv /\ PlaceInv'
    BY CoreStep DEF CoreInv
<1>1. CASE pc = "done"
    <2>1. world' = world /\ start' = start /\ verdict' = verdict
        BY <1>1, DoneIsFinal DEF vars
    <2>2. VerifiedIsAuthorized'
        BY <2>1 DEF VerdictInv, VerifiedIsAuthorized, Authorized, Described, Sha256, Preimage, Sac
    <2>3. FailedIsReal'
        <3>1. (Impeccable(start)' <=> Impeccable(start)) /\ (Impeccable(world)' <=> Impeccable(world))
            BY <2>1 DEF Impeccable, Authorized, Described, Sha256, Preimage, Sac, DecisionId, History
        <3> QED
            BY <2>1, <3>1 DEF VerdictInv, FailedIsReal
    <2>4. ReplayIsCaught'
        <3>1. \A a : History(start, a)' = History(start, a)
            BY <2>1 DEF History
        <3> QED
            BY <2>1, <3>1 DEF VerdictInv, ReplayIsCaught
    <2> QED
        BY <2>2, <2>3, <2>4 DEF VerdictInv
<1>2. CASE pc' # "done"
    BY <1>0, <1>2, MarkerAssumption
       DEF PlaceInv, VerdictInv, VerifiedIsAuthorized, FailedIsReal, ReplayIsCaught
<1>3. CASE pc # "done" /\ pc' = "done"
    <2>1. world' = world /\ start' = start
        BY <1>3, HowItEnds
    <2>2. CASE verdict' = None
        BY <2>2, MarkerAssumption DEF VerdictInv, VerifiedIsAuthorized, FailedIsReal, ReplayIsCaught
    <2>3. CASE verdict' = "FAILED" /\ world.file # "receipt"
        BY <2>1, <2>3
           DEF VerdictInv, VerifiedIsAuthorized, FailedIsReal, ReplayIsCaught, Impeccable
    <2>4. CASE Report
        <3>1. pc = "report" /\ verdict' = VerdictFor(ExitCodeFor(Checks))
            BY <2>4 DEF Report, Stop
        <3>2. /\ verdict' = "VERIFIED" => "fail" \notin Checks /\ "unavailable" \notin Checks
              /\ verdict' = "FAILED" => "fail" \in Checks
            BY <3>1, VerdictMeans
        <3>3. VerifiedIsAuthorized'
            <4>1. verdict' = "VERIFIED" => Authorized(world) /\ Described(world)
                BY <3>1, <3>2, ReportIsAuthorized
            <4> QED
                BY <2>1, <4>1 DEF VerifiedIsAuthorized, Authorized, Described, Sha256, Preimage, Sac
        <3>4. FailedIsReal'
            <4>1. verdict' = "FAILED" => ~(Impeccable(start) /\ Impeccable(world))
                BY <3>1, <3>2, ReportOfOrder
            <4>2. (Impeccable(start)' <=> Impeccable(start)) /\ (Impeccable(world)' <=> Impeccable(world))
                BY <2>1 DEF Impeccable, Authorized, Described, Sha256, Preimage, Sac, DecisionId, History
            <4> QED
                BY <4>1, <4>2 DEF FailedIsReal
        <3>5. ReplayIsCaught'
            <4>1. verdict' = "VERIFIED" =>
                      \A a \in {world.tx.source, world.ops[1].to} :
                          "copy" \notin {History(start, a)[i] : i \in DOMAIN History(start, a)}
                BY <3>1, <3>2, ReportCaught
            <4>2. \A a : History(start, a)' = History(start, a)
                BY <2>1 DEF History
            <4> QED
                BY <2>1, <4>1, <4>2 DEF ReplayIsCaught
        <3> QED
            BY <3>3, <3>4, <3>5 DEF VerdictInv
    <2> QED
        BY <1>3, <2>2, <2>3, <2>4, HowItEnds
<1> QED
    BY <1>1, <1>2, <1>3

\* They hold before any verdict.
LEMMA VerdictInit == Init => VerdictInv
BY MarkerAssumption DEF Init, VerdictInv, VerifiedIsAuthorized, FailedIsReal, ReplayIsCaught

\* A verdict VERIFIED is a statement about the world, whatever the receipt and the sources
\* tell and however they move while they are read (main, exitCodeFor and every check of
\* tools/verifier).
THEOREM VerifiedIsTrue == Spec => []VerifiedIsAuthorized
<1>1. VerdictInv => VerifiedIsAuthorized
    BY DEF VerdictInv
<1> QED
    BY <1>1, VerdictInit, VerdictStep, CoreHolds, PTL DEF Spec

\* A verdict FAILED is never raised against a settlement that is in order from the first read
\* to the last, whichever sources could not be reached on the way.
THEOREM FailedIsTrue == Spec => []FailedIsReal
<1>1. VerdictInv => FailedIsReal
    BY DEF VerdictInv
<1> QED
    BY <1>1, VerdictInit, VerdictStep, CoreHolds, PTL DEF Spec

\* A copy of the payment that was there when the tool started does not get past a VERIFIED,
\* for every page size, every page cap and every length of the histories.
THEOREM CopiesAreCaught == Spec => []ReplayIsCaught
<1>1. VerdictInv => ReplayIsCaught
    BY DEF VerdictInv
<1> QED
    BY <1>1, VerdictInit, VerdictStep, CoreHolds, PTL DEF Spec

-----------------------------------------------------------------------------
(* An honest settlement is verified.                                        *)

\* Of an orderly start every question has an answer.
SoundStart ==
    /\ start.ingested /\ Standing(start) /\ start.tx # NotFound /\ start.tx.memo # None

PastTx == pc \in {"ops", "abi", "decision", "view", "entry", "registry", "accounts", "scan", "report"}
PastOps == pc \in {"abi", "decision", "view", "entry", "registry", "accounts", "scan", "report"}
PastDecision == pc \in {"view", "entry", "registry", "accounts", "scan", "report"}
PastView == pc \in {"entry", "registry", "accounts", "scan", "report"}
PastEntry == pc \in {"registry", "accounts", "scan", "report"}
PastRegistry == pc \in {"accounts", "scan", "report"}

\* The contract could not be reached, or did not tell the decision.
NoDecision == Down \in {seen["abi"], seen["decision"]}

\* What the run is past has answered, or it, or what is asked before it, could not be reached.
AnsweredInv ==
    LET d == start.held[Key(start)]
    IN  /\ PastTx => seen["tx"] \in {Down, start.tx}
        /\ PastOps => seen["tx"] = Down \/ seen["ops"] \in {Down, start.ops}
        /\ PastDecision => NoDecision \/ seen["decision"] = d
        /\ PastView => NoDecision \/ seen["view"] \in {Down, Sha256(Preimage(d))}
        /\ PastEntry /\ strict => NoDecision \/ seen["entry"] \in {Down, d.written}
        /\ PastRegistry => seen["registry"] = start.registry
        /\ pc = "report" =>
              \/ Down \in {seen["tx"], seen["scan"]}
              \/ seen["scan"] = [hashes |-> scan.hashes, exhaustive |-> scan.exhaustive]

OrderlyInv ==
    /\ scan.exhaustive \in BOOLEAN /\ scan.hashes \subseteq {TxArg, "copy"}
    /\ SoundStart => AnsweredInv

\* Nothing has been asked at the start.
LEMMA OrderlyInit == Init => OrderlyInv
BY DEF Init, OrderlyInv, AnsweredInv, PastTx, PastOps, PastDecision, PastView, PastEntry, PastRegistry

\* The world may move on: what counts is the start, and that nothing is asked meanwhile.
LEMMA OrderlyRests ==
    ASSUME OrderlyInv, start' = start, seen' = seen, scan' = scan, strict' = strict, pc' = pc
    PROVE  OrderlyInv'
<1>1. /\ (SoundStart <=> SoundStart') /\ Key(start)' = Key(start)
    BY DEF SoundStart, Standing, Key
<1> QED
    BY <1>1 DEF OrderlyInv, AnsweredInv, NoDecision, PastTx, PastOps, PastDecision, PastView,
                PastEntry, PastRegistry, Sha256, Preimage

\* A question is asked and answered: the answer is what the start holds, or none.
LEMMA OrderlyAsked ==
    ASSUME CoreInv, OrderlyInv, NEW s \in Sources, NEW next, Asked(s, next),
           NEW d, d = start.held[Key(start)],
           SoundStart => seen'[s] = Down \/
               CASE s = "receipt" -> TRUE
                 [] s = "tx" -> seen'[s] = start.tx
                 [] s = "ops" -> seen'[s] = start.ops
                 [] s = "abi" -> TRUE
                 [] s = "decision" -> seen'[s] = d
                 [] s = "view" -> seen'[s] = Sha256(Preimage(d))
                 [] s = "entry" -> seen'[s] = d.written
                 [] s = "registry" -> seen'[s] = start.registry
                 [] s = "scan" -> seen'[s] = [hashes |-> scan.hashes, exhaustive |-> scan.exhaustive],
           SoundStart =>
               CASE s = "receipt" -> next = "tx"
                 [] s = "tx" -> next = "ops" \/ (next = "abi" /\ seen'[s] = Down)
                 [] s = "ops" -> next = "abi"
                 [] s = "abi" -> next = "decision" \/ (next = "registry" /\ seen'[s] = Down)
                 [] s = "decision" -> next = "view" \/ (next = "registry" /\ seen'[s] = Down)
                 [] s = "view" -> next = "entry" \/ (next = "registry" /\ ~strict)
                 [] s = "entry" -> next = "registry"
                 [] s = "registry" -> next = "accounts" /\ seen'[s] = start.registry
                 [] s = "scan" -> next = "report"
    PROVE  OrderlyInv'
<1>1. /\ start' = start /\ scan' = scan /\ strict' = strict /\ pc = s /\ pc' = next
      /\ \A t \in Sources \ {s} : seen'[t] = seen[t]
    BY DEF Asked
<1>2. (SoundStart <=> SoundStart') /\ Key(start)' = Key(start)
    BY <1>1 DEF SoundStart, Standing, Key
<1>3. ASSUME SoundStart PROVE AnsweredInv'
    <2>0. AnsweredInv /\ start'.held[Key(start)'] = d
        BY <1>1, <1>2, <1>3 DEF OrderlyInv
    <2>1. (PastTx => seen["tx"] \in {Down, start.tx})'
        BY <1>1, <1>3, <2>0 DEF AnsweredInv, PastTx, Sources
    <2>2. (PastOps => seen["tx"] = Down \/ seen["ops"] \in {Down, start.ops})'
        BY <1>1, <1>3, <2>0 DEF AnsweredInv, PastTx, PastOps, Sources
    <2>3. (PastDecision => NoDecision)' \/ (PastDecision' => seen'["decision"] = d)
        BY <1>1, <1>3, <2>0 DEF AnsweredInv, PastDecision, NoDecision, Sources
    <2>4. (PastView => NoDecision)' \/ (PastView' => seen'["view"] \in {Down, Sha256(Preimage(d))})
        BY <1>1, <1>3, <2>0 DEF AnsweredInv, PastDecision, PastView, NoDecision, Sources
    <2>5. (PastEntry /\ strict => NoDecision)' \/ (PastEntry' /\ strict => seen'["entry"] \in {Down, d.written})
        BY <1>1, <1>3, <2>0 DEF AnsweredInv, PastView, PastEntry, NoDecision, Sources
    <2>6. (PastRegistry => seen["registry"] = start.registry)'
        BY <1>1, <1>3, <2>0 DEF AnsweredInv, PastRegistry, Sources
    <2>7. (pc = "report" =>
              \/ Down \in {seen["tx"], seen["scan"]}
              \/ seen["scan"] = [hashes |-> scan.hashes, exhaustive |-> scan.exhaustive])'
        BY <1>1, <1>3, <2>0 DEF AnsweredInv, Sources
    <2>8. (Sha256(Preimage(d)) = Sha256(Preimage(start.held[Key(start)])))'
        BY <2>0
    <2> QED
        BY <1>1, <2>0, <2>1, <2>2, <2>3, <2>4, <2>5, <2>6, <2>7, <2>8
           DEF AnsweredInv, Sha256, Preimage
<1> QED
    BY <1>1, <1>2, <1>3 DEF OrderlyInv

\* Each question in turn.
LEMMA OrderlyReads ==
    ASSUME CoreInv, OrderlyInv, Reads, pc' # "done" PROVE OrderlyInv'
<1>1. PICK d : d = start.held[Key(start)]
    OBVIOUS
<1>2. SoundStart => world.ingested /\ world.tx = start.tx /\ world.ops = start.ops
    BY DEF CoreInv, WorldInv, FixedFields, SoundStart
<1>3. world.registry = start.registry
    BY DEF CoreInv, WorldInv, FixedFields
<1>4. pc \notin {"args", "receipt", "done"} => (SoundStart => Held = d /\ d # NotFound)
    BY <1>1, HeldIsKey DEF SoundStart, Standing
<1>5. CASE ReadReceipt
    <2>1. Asked("receipt", "tx")
        BY <1>5 DEF ReadReceipt, Stop, Ask, Asked, CoreInv, PlaceInv, Sources
    <2> QED
        BY <1>1, <2>1, OrderlyAsked DEF Sources
<1>6. CASE FetchTransaction
    <2>1. PICK next :
              /\ Asked("tx", next)
              /\ SoundStart => \/ seen'["tx"] = Down /\ next = "abi"
                               \/ seen'["tx"] = start.tx /\ next = "ops"
        BY <1>2, <1>6 DEF FetchTransaction, Fetch, Ask, Asked, CoreInv, PlaceInv, Sources, SoundStart
    <2> QED
        BY <1>1, <2>1, OrderlyAsked DEF Sources
<1>7. CASE FetchOperations
    <2>1. Asked("ops", "abi") /\ (SoundStart => seen'["ops"] \in {Down, start.ops})
        BY <1>2, <1>7 DEF FetchOperations, Fetch, Ask, Asked, CoreInv, PlaceInv, Sources
    <2> QED
        BY <1>1, <2>1, OrderlyAsked DEF Sources
<1>8. CASE Connect
    <2>1. CASE Ask("abi", ContractId, "decision")
        <3>1. Asked("abi", "decision")
            BY <2>1 DEF Ask, Asked, CoreInv, PlaceInv, Sources
        <3>2. CASE seen'["abi"] = Down
            BY <1>1, <3>1, <3>2, OrderlyAsked DEF Sources
        <3>3. CASE seen'["abi"] # Down
            BY <1>1, <3>1, <3>3, OrderlyAsked DEF Sources
        <3> QED
            BY <3>2, <3>3
    <2>2. CASE Ask("abi", Down, "registry")
        <3>1. Asked("abi", "registry") /\ seen'["abi"] = Down
            BY <2>2 DEF Ask, Asked, CoreInv, PlaceInv, Sources
        <3> QED
            BY <1>1, <3>1, OrderlyAsked DEF Sources
    <2> QED
        BY <1>8, <2>1, <2>2 DEF Connect, Fetch
<1>9. CASE GetDecision
    <2>1. PICK next :
              /\ Asked("decision", next)
              /\ SoundStart => \/ seen'["decision"] = Down /\ next = "registry"
                               \/ seen'["decision"] = d /\ next = "view"
        BY <1>4, <1>9 DEF GetDecision, Fetch, Ask, Asked, CoreInv, PlaceInv, Sources
    <2> QED
        BY <1>1, <2>1, OrderlyAsked DEF Sources
<1>10. CASE MemoHashView
    <2>1. PICK next :
              /\ Asked("view", next) /\ (SoundStart => seen'["view"] \in {Down, Sha256(Preimage(d))})
              /\ next = "entry" \/ (next = "registry" /\ ~strict)
        BY <1>4, <1>10 DEF MemoHashView, Fetch, Ask, Asked, CoreInv, PlaceInv, Sources
    <2> QED
        BY <1>1, <2>1, OrderlyAsked DEF Sources
<1>11. CASE EntryLedger
    <2>1. Asked("entry", "registry") /\ (SoundStart => seen'["entry"] \in {Down, d.written})
        BY <1>4, <1>11 DEF EntryLedger, Fetch, Ask, Asked, CoreInv, PlaceInv, Sources
    <2> QED
        BY <1>1, <2>1, OrderlyAsked DEF Sources
<1>12. CASE ReadRegistry
    <2>1. Asked("registry", "accounts") /\ seen'["registry"] = start.registry
        BY <1>3, <1>12 DEF ReadRegistry, Ask, Asked, CoreInv, PlaceInv, Sources
    <2> QED
        BY <1>1, <2>1, OrderlyAsked DEF Sources
<1>13. CASE ReplayCheck
    <2>1. /\ start' = start /\ seen' = seen /\ strict' = strict /\ pc = "accounts"
          /\ pc' = (IF HasMemo THEN "scan" ELSE "report")
          /\ scan' = [scan EXCEPT !.todo = IF HasMemo THEN Accounts ELSE {}]
        BY <1>13 DEF ReplayCheck
    <2>2. scan'.exhaustive = scan.exhaustive /\ scan'.hashes = scan.hashes
        BY <2>1 DEF CoreInv, PlaceInv
    <2>3. (SoundStart <=> SoundStart') /\ Key(start)' = Key(start)
        BY <2>1 DEF SoundStart, Standing, Key
    <2>4. ASSUME SoundStart PROVE AnsweredInv'
        <3>1. AnsweredInv /\ seen["tx"] \in {Down, start.tx}
            BY <2>1, <2>4 DEF OrderlyInv, AnsweredInv, PastTx
        <3>2. seen["tx"] = start.tx => HasMemo
            BY <2>4 DEF SoundStart, HasMemo, Found, CoreInv, WorldInv, IsWorld
        <3>3. (pc = "report" =>
                  \/ Down \in {seen["tx"], seen["scan"]}
                  \/ seen["scan"] = [hashes |-> scan.hashes, exhaustive |-> scan.exhaustive])'
            BY <2>1, <3>1, <3>2
        <3> QED
            BY <2>1, <2>3, <3>1, <3>3
               DEF AnsweredInv, NoDecision, PastTx, PastOps, PastDecision, PastView, PastEntry,
                   PastRegistry, Sha256, Preimage
    <2> QED
        BY <2>2, <2>3, <2>4 DEF OrderlyInv
<1>14. CASE ScanForMemo
    <2>1. CASE /\ \E a \in scan.todo : CapReached(a) \/ ReadPage(a)
               /\ UNCHANGED <<pc, world, start, trouble, strict, seen, exit, verdict>>
        <3>1. /\ pc = "scan" /\ pc' = pc /\ start' = start /\ seen' = seen /\ strict' = strict
            BY <2>1 DEF CapReached, ReadPage, Walking
        <3>2. scan'.exhaustive \in BOOLEAN /\ scan'.hashes \subseteq {TxArg, "copy"}
            <4>1. PICK a \in scan.todo : CapReached(a) \/ ReadPage(a)
                BY <2>1
            <4>2. ASSUME NEW found, NEW reached \in BOOLEAN, found \subseteq {TxArg, "copy"},
                         Walked(a, found, reached)
                  PROVE  scan'.exhaustive \in BOOLEAN /\ scan'.hashes \subseteq {TxArg, "copy"}
                BY <4>2 DEF Walked, OrderlyInv
            <4>3. ASSUME NEW e, NEW found, found \subseteq {TxArg, "copy"},
                         scan' = [scan EXCEPT !.page = @ + 1, !.cursor = e, !.hashes = @ \cup found]
                  PROVE  scan'.exhaustive \in BOOLEAN /\ scan'.hashes \subseteq {TxArg, "copy"}
                BY <4>3 DEF CoreInv, PlaceInv, OrderlyInv
            <4>4. \A txs : WithMemo(txs) \subseteq {TxArg, "copy"}
                BY DEF WithMemo
            <4>5. CASE CapReached(a)
                BY <4>2, <4>5 DEF CapReached
            <4>6. CASE ReadPage(a)
                <5>1. PICK e, found :
                          /\ found \subseteq {TxArg, "copy"}
                          /\ \/ Walked(a, found, TRUE)
                             \/ scan' = [scan EXCEPT !.page = @ + 1, !.cursor = e, !.hashes = @ \cup found]
                    BY <4>4, <4>6, Zenon DEF ReadPage
                <5> QED
                    BY <4>2, <4>3, <5>1
            <4> QED
                BY <4>1, <4>5, <4>6
        <3>3. (SoundStart <=> SoundStart') /\ Key(start)' = Key(start)
            BY <3>1 DEF SoundStart, Standing, Key
        <3> QED
            BY <3>1, <3>2, <3>3
               DEF OrderlyInv, AnsweredInv, NoDecision, PastTx, PastOps, PastDecision, PastView,
                   PastEntry, PastRegistry, Sha256, Preimage
    <2>2. CASE Ask("scan", Down, "report")
        <3>1. Asked("scan", "report") /\ seen'["scan"] = Down
            BY <2>2 DEF Ask, Asked, CoreInv, PlaceInv, Sources
        <3> QED
            BY <1>1, <3>1, OrderlyAsked DEF Sources
    <2>3. CASE Ask("scan", [hashes |-> scan.hashes, exhaustive |-> scan.exhaustive], "report")
        <3>1. /\ Asked("scan", "report")
              /\ seen'["scan"] = [hashes |-> scan.hashes, exhaustive |-> scan.exhaustive]
            BY <2>3 DEF Ask, Asked, CoreInv, PlaceInv, Sources
        <3> QED
            BY <1>1, <3>1, OrderlyAsked DEF Sources
    <2> QED
        BY <1>14, <2>1, <2>2, <2>3 DEF ScanForMemo
<1> QED
    BY <1>5, <1>6, <1>7, <1>8, <1>9, <1>10, <1>11, <1>12, <1>13, <1>14 DEF Reads

\* Every step keeps the answers of an orderly start.
LEMMA OrderlyStep == CoreInv /\ OrderlyInv /\ [Next]_vars => OrderlyInv'
<1> SUFFICES ASSUME CoreInv, OrderlyInv, [Next]_vars PROVE OrderlyInv'
    OBVIOUS
<1>1. CASE pc' = "done"
    <2>1. scan' = scan /\ start' = start
        <3>1. CASE pc = "done"
            BY <3>1, DoneIsFinal DEF vars
        <3>2. CASE pc # "done"
            BY <1>1, <3>2, HowItEnds
        <3> QED
            BY <3>1, <3>2
    <2> QED
        BY <1>1, <2>1
           DEF OrderlyInv, AnsweredInv, PastTx, PastOps, PastDecision, PastView, PastEntry, PastRegistry
<1>2. CASE Reads /\ pc' # "done"
    BY <1>2, OrderlyReads
<1>3. CASE Main /\ pc' # "done"
    <2>1. scan' = scan /\ start' = start /\ pc' = "receipt"
        BY <1>3 DEF Main, Stop
    <2> QED
        BY <2>1
           DEF OrderlyInv, AnsweredInv, PastTx, PastOps, PastDecision, PastView, PastEntry, PastRegistry
<1>4. CASE Ingest \/ MarkSettled \/ PayAgain
    BY <1>4, OrderlyRests DEF Ingest, MarkSettled, PayAgain, Become
<1>5. CASE UNCHANGED vars
    BY <1>5, OrderlyRests DEF vars
<1> QED
    BY <1>1, <1>2, <1>3, <1>4, <1>5 DEF Next, Report, Stop

\* With every source up, each check of a settlement in order is judged on an answer.
LEMMA ReportVerifies ==
    ASSUME CoreInv, OrderlyInv, pc = "report", Impeccable(start), Impeccable(world),
           \A s \in Sources : seen[s] # Down,
           \A a \in DOMAIN world.before : Len(History(world, a)) < PAGE * MAX_PAGES
    PROVE  "unavailable" \notin Checks
<1> DEFINE d == world.held[Key(start)]
<1>1. /\ start.tx = world.tx /\ start.ops = world.ops /\ start.registry = world.registry
      /\ start.before = world.before /\ IsWorld(start)
      /\ start.held[Key(start)] = d /\ Key(world) = Key(start) /\ ContractId = world.registry.pin
    BY SawInOrder DEF CoreInv, WorldInv, FixedFields
<1>2. /\ d # NotFound /\ world.tx # NotFound /\ world.registry # NotFound /\ world.registry.pin # None
      /\ world.tx.count = 1 /\ Len(world.ops) = 1 /\ world.ops[1].type = "payment"
      /\ world.tx.memo = Sha256(Preimage(d)) /\ world.tx.source = world.registry.executor
      /\ start.ingested /\ Standing(start)
    BY <1>1, InOrder
<1>3. /\ d \notin {Down, Unread} /\ d.written \notin {NotFound, Down, Unread}
      /\ Sha256(Preimage(d)) \notin {NotFound, Down, Unread, None}
      /\ world.tx \notin {Down, Unread} /\ world.ops \notin {NotFound, Down, Unread}
      /\ world.registry \notin {Down, Unread} /\ world.registry.executor # None
    BY <1>1, <1>2 DEF IsWorld
<1> HIDE DEF d
<1>4. SoundStart
    BY <1>1, <1>2, <1>3 DEF SoundStart
<1>5. AnsweredInv
    BY <1>4 DEF OrderlyInv
<1>6. /\ seen["tx"] # Down /\ seen["ops"] # Down /\ seen["abi"] # Down /\ seen["decision"] # Down
      /\ seen["view"] # Down /\ seen["entry"] # Down /\ seen["scan"] # Down
    BY DEF Sources
<1>7. /\ seen["tx"] = world.tx /\ seen["ops"] = world.ops /\ seen["decision"] = d
      /\ seen["view"] = Sha256(Preimage(d)) /\ (strict => seen["entry"] = d.written)
      /\ seen["registry"] = world.registry
      /\ seen["scan"] = [hashes |-> scan.hashes, exhaustive |-> scan.exhaustive]
    BY <1>1, <1>5, <1>6
       DEF AnsweredInv, NoDecision, PastTx, PastOps, PastDecision, PastView, PastEntry, PastRegistry
<1>8. /\ Found("tx") /\ Found("ops") /\ Found("decision") /\ Found("view") /\ (strict => Found("entry"))
      /\ Found("registry") /\ IsPayment /\ HasMemo
    BY <1>2, <1>3, <1>7 DEF Found, IsPayment, Payment, HasMemo
<1>9. Found("scan") /\ seen["scan"].exhaustive
    <2>1. seen["scan"] # Unread
        BY <1>7, MarkerAssumption DEF OrderlyInv
    <2>2. ScanFacts
        BY <1>6, <2>1 DEF CoreInv, ScanInv
    <2>3. Found("scan")
        BY <1>7, <2>2, MarkerAssumption DEF Found, ScanFacts, OrderlyInv
    <2>4. scan.exhaustive
        <3>1. SUFFICES ASSUME ~scan.exhaustive PROVE FALSE
            OBVIOUS
        <3>2. PICK a \in DOMAIN start.before : Len(History(world, a)) >= PAGE * MAX_PAGES
            BY <2>2, <3>1 DEF ScanFacts
        <3>3. world.before[a] \in Seq(Transactions) /\ world.after[a] \in Seq(Transactions)
            BY <1>1, <3>2 DEF CoreInv, WorldInv, IsWorld
        <3>4. Len(History(world, a)) \in Nat /\ PAGE * MAX_PAGES \in Nat
            BY <3>3, HistoryParts, ScanAssumption
        <3>5. Len(History(world, a)) < PAGE * MAX_PAGES
            BY <1>1, <3>2
        <3>6. \A x, y \in Nat : ~(x >= y /\ x < y)
            OBVIOUS
        <3> QED
            BY <3>2, <3>4, <3>5, <3>6
    <2> QED
        BY <1>7, <2>3, <2>4
<1>10. /\ CheckTxMatchesReceipt # "unavailable" /\ CheckRegistryContract # "unavailable"
       /\ CheckReplay # "unavailable"
    BY <1>2, <1>7, <1>8, <1>9 DEF CheckTxMatchesReceipt, CheckRegistryContract, CheckReplay, Judge
<1>11. PaymentAmount # "unavailable" /\ PaymentAsset # "unavailable"
    BY <1>8 DEF PaymentAmount, PaymentAsset, Judge
<1>12. "unavailable" \notin LedgerChecks
    BY <1>8 DEF LedgerChecks, TransactionSuccessful, SinglePayment, MemoIsHash, Judge
<1>13. "unavailable" \notin ChainChecks
    BY <1>8 DEF ChainChecks, DecisionFound, VerdictApproved, Settled, ReceiptMatchesDecision, Judge
<1>14. "unavailable" \notin CommitmentChecks
    BY <1>8 DEF CommitmentChecks, ReceiptMemoHash, MemoCommitment, ReceiptPreimage, ContractMemoHash, Judge
<1>15. "unavailable" \notin RegistryChecks
    BY <1>3, <1>7, <1>8 DEF RegistryChecks, Destination, Source, Judge
<1>16. "unavailable" \notin StrictChecks
    BY <1>8 DEF StrictChecks, DecisionIdDerivation, SettlementOrder, Judge
<1> QED
    BY <1>10, <1>11, <1>12, <1>13, <1>14, <1>15, <1>16 DEF Checks

\* An orderly run ends VERIFIED, and stays so.
LEMMA HonestStep == CoreInv /\ OrderlyInv /\ HonestIsVerified /\ [Next]_vars => HonestIsVerified'
<1> SUFFICES ASSUME CoreInv, OrderlyInv, HonestIsVerified, [Next]_vars PROVE HonestIsVerified'
    OBVIOUS
<1> SUFFICES ASSUME /\ pc' = "done" /\ world'.args = "run" /\ Impeccable(start') /\ Impeccable(world')
                    /\ \A s \in Sources : seen'[s] # Down
                    /\ \A a \in DOMAIN world'.before : Len(History(world', a)) < PAGE * MAX_PAGES
             PROVE  verdict' = "VERIFIED"
    <2>1. (Impeccable(start)' <=> Impeccable(start')) /\ (Impeccable(world)' <=> Impeccable(world'))
        BY DEF Impeccable, Authorized, Described, Sha256, Preimage, Sac, DecisionId, History
    <2>2. \A a : History(world, a)' = History(world', a)
        BY DEF History
    <2> QED
        BY <2>1, <2>2 DEF HonestIsVerified
<1>1. CASE pc = "done"
    <2>1. world' = world /\ start' = start /\ seen' = seen /\ verdict' = verdict
        BY <1>1, DoneIsFinal DEF vars
    <2>2. Impeccable(start) /\ Impeccable(world)
        BY <2>1
    <2>3. \A a \in DOMAIN world.before : Len(History(world, a)) < PAGE * MAX_PAGES
        BY <2>1
    <2> QED
        BY <1>1, <2>1, <2>2, <2>3 DEF HonestIsVerified
<1>2. CASE pc # "done"
    <2>1. /\ world' = world /\ start' = start /\ seen' = seen
          /\ Report \/ world.args # "run" \/ world.file # "receipt"
        BY <1>2, HowItEnds
    <2>2. Impeccable(start) /\ Impeccable(world)
        BY <2>1
    <2>3. Report
        BY <2>1, <2>2, InOrder
    <2>4. pc = "report" /\ verdict' = VerdictFor(ExitCodeFor(Checks))
        BY <2>3 DEF Report, Stop
    <2>5. \A a \in DOMAIN world.before : Len(History(world, a)) < PAGE * MAX_PAGES
        BY <2>1
    <2>6. "fail" \notin Checks
        BY <2>2, <2>4, ReportOfOrder
    <2>7. "unavailable" \notin Checks
        BY <2>1, <2>2, <2>4, <2>5, ReportVerifies
    <2> QED
        BY <2>4, <2>6, <2>7, VerdictMeans
<1> QED
    BY <1>1, <1>2

\* A settlement in order is VERIFIED when every source answers and the histories are shorter
\* than the scan reads: the checks together are no stricter than what the world must be, for
\* every page size and page cap.
THEOREM HonestIsTrue == Spec => []HonestIsVerified
<1>1. Init => HonestIsVerified
    BY DEF Init, HonestIsVerified
<1> QED
    BY <1>1, OrderlyInit, OrderlyStep, HonestStep, CoreHolds, PTL DEF Spec

===============================================================================
