------------------------------ MODULE MCVerifier ------------------------------
(* Worlds for TLC: one settlement in order, and every way to falsify at most  *)
(* MaxLies of the facts the files and the sources hold about it, with what    *)
(* trouble there may be on the way.                                           *)
EXTENDS Verifier

CONSTANT MaxLies

net == "testnet"
id1 == DecisionId("h1", 1)
id2 == DecisionId("h2", 1)

\* Every fact with its honest value first, then the false ones.
Facts == [
    args |-> <<"run", "usage">>,
    file |-> <<"receipt", "malformed", "unreadable">>,
    ingested |-> <<TRUE, FALSE>>,
    override |-> <<None, "C1">>,
    rTx |-> <<TxArg, "other">>,
    rMemo |-> <<Sha256(<<"h1", 1, id1>>), Sha256(<<"h2", 1, id2>>)>>,
    rPre |-> <<<<"h1", 1, id1>>, <<"h2", 1, id2>>>>,
    rId |-> <<id1, id2>>,
    rHash |-> <<"h1", "h2">>,
    rVersion |-> <<1, 2>>,
    rAgent |-> <<"agent", "someone">>,
    rService |-> <<"api", "ads">>,
    rAsset |-> <<Sac(net, "USDC"), Sac(net, "XLM")>>,
    rAmount |-> <<5, 6>>,
    rContract |-> <<"C1", "C2">>,
    rNetwork |-> <<net, "mainnet">>,
    rSource |-> <<"executor", "else">>,
    rDestination |-> <<"payee", "else">>,
    rSettled |-> <<"USDC", "XLM">>,
    tFound |-> <<TRUE, FALSE>>,
    tSuccessful |-> <<TRUE, FALSE>>,
    tExtra |-> <<FALSE, TRUE>>,
    tType |-> <<"payment", "create_account">>,
    tMemo |-> <<Sha256(<<"h1", 1, id1>>), Sha256(<<"h2", 1, id2>>), None>>,
    tSource |-> <<"executor", "else">>,
    tTo |-> <<"payee", "else">>,
    tAmount |-> <<5, 6>>,
    tAsset |-> <<"USDC", "XLM">>,
    dHeld |-> <<TRUE, FALSE>>,
    dVerdict |-> <<"Approved", "Rejected">>,
    dSettled |-> <<TRUE, FALSE>>,
    dService |-> <<"api", "ads">>,
    dAmount |-> <<5, 6>>,
    dHash |-> <<"h1", "h2">>,
    dWritten |-> <<9, 10, 11>>,
    gFile |-> <<TRUE, FALSE>>,
    gPin |-> <<"C1", None>>,
    gExecutor |-> <<"executor", None>>,
    gPayee |-> <<"payee", "else", None>>,
    payerBefore |-> <<<<>>, <<"copy">>, <<"noise", "noise", "noise", "noise">>,
                     <<"noise", "noise", "noise", "noise", "copy">>>>,
    payeeBefore |-> <<<<"noise">>, <<"copy">>, <<"copy", "copy", "noise">>>> ]

\* A function from facts to the value each has.
WorldOf(f) ==
    LET decision == [id |-> id1, hash |-> f.dHash, version |-> 1, agent |-> "agent",
                     service |-> f.dService, asset |-> Sac(net, "USDC"), amount |-> f.dAmount,
                     verdict |-> f.dVerdict, settled |-> f.dSettled, written |-> f.dWritten]
        op == [type |-> f.tType, to |-> f.tTo, amount |-> f.tAmount, asset |-> f.tAsset]
        around == [a \in {"executor", "payee", "else"} |-> <<>>]
    IN  [args |-> f.args, file |-> f.file, ingested |-> f.ingested, override |-> f.override, now |-> 10,
         receipt |-> [tx |-> f.rTx, memo |-> f.rMemo, preimage |-> f.rPre, id |-> f.rId, hash |-> f.rHash,
                      version |-> f.rVersion, agent |-> f.rAgent, service |-> f.rService,
                      asset |-> f.rAsset, amount |-> f.rAmount, contract |-> f.rContract,
                      network |-> f.rNetwork, source |-> f.rSource,
                      destination |-> f.rDestination, settled |-> f.rSettled],
         tx |-> IF f.tFound THEN [successful |-> f.tSuccessful, memo |-> f.tMemo, source |-> f.tSource,
                                  count |-> IF f.tExtra THEN 2 ELSE 1, ledger |-> 10]
                ELSE NotFound,
         ops |-> IF ~f.tFound THEN <<>> ELSE IF f.tExtra THEN <<op, op>> ELSE <<op>>,
         \* C2 is a contract of someone else's: it holds whatever the receipt claims.
         held |-> [k \in {"C1", "C2"} \X {id1, id2} |->
                      IF k = <<"C1", id1>> /\ f.dHeld THEN decision
                      ELSE IF k # <<"C2", f.rId>> THEN NotFound
                      ELSE [id |-> f.rId, hash |-> f.rHash, version |-> f.rVersion, agent |-> f.rAgent,
                            service |-> f.rService, asset |-> f.rAsset, amount |-> f.rAmount,
                            verdict |-> "Approved", settled |-> TRUE, written |-> 9]],
         registry |-> IF f.gFile THEN [pin |-> f.gPin, executor |-> f.gExecutor,
                                       services |-> [api |-> f.gPayee, ads |-> "else"]]
                      ELSE NotFound,
         before |-> [around EXCEPT !["executor"] = f.payerBefore, !["payee"] = f.payeeBefore],
         after |-> around]

Lies == UNION {{<<f, i>> : i \in 2..Len(Facts[f])} : f \in DOMAIN Facts}
Told(lies) == [f \in DOMAIN Facts |->
    Facts[f][IF \E l \in lies : l[1] = f THEN (CHOOSE l \in lies : l[1] = f)[2] ELSE 1]]

\* Built as triples of lies, which may repeat: sets of at most MaxLies of them.
AtMost(n) ==
    {WorldOf(Told(lies)) : lies \in
        IF n = 3 THEN {{l[1], l[2], l[3]} : l \in Lies \X Lies \X Lies}
        ELSE IF n = 2 THEN {{l[1], l[2]} : l \in Lies \X Lies}
        ELSE {{l} : l \in Lies}}
      \cup {WorldOf(Told({}))}

\* The more is falsified at the start, the less goes wrong on the way.
TheStarts == UNION {[world : AtMost(n), trouble : {MaxLies - n}] : n \in 1..MaxLies}
=============================================================================
