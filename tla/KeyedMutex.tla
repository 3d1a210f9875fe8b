------------------------------ MODULE KeyedMutex ------------------------------
(***************************************************************************)
(* KeyedMutex.run of the gateway: a chain of promises per key.  A call     *)
(* takes the last promise of its key as its predecessor and leaves its own *)
(* tail in the map; when its tail settles, a later microtask removes the   *)
(* entry if no other call has replaced it.  Calls are numbered in the      *)
(* order they reach run(), 0 stands for Promise.resolve() and for "no      *)
(* entry"; only the order of microtasks that can matter is kept, as a      *)
(* choice.                                                                 *)
(***************************************************************************)
EXTENDS Naturals

CONSTANTS MaxCall,      \* bound on the number of calls
          Keys          \* signing accounts

ASSUME MutexAssumption == MaxCall \in Nat /\ "None" \notin Keys

Calls == 1..MaxCall

VARIABLES arrived,      \* number of calls so far
          key,          \* call -> its key
          previous,     \* call -> the call whose tail it waits for, or 0
          state,        \* call -> "absent", "waiting", "running" or "done"
          swept,        \* the calls whose clean-up has run
          tails         \* key -> the call whose tail the map holds, or 0

vars == <<arrived, key, previous, state, swept, tails>>

Init ==
    /\ arrived = 0
    /\ key = [c \in Calls |-> "None"]
    /\ previous = [c \in Calls |-> 0]
    /\ state = [c \in Calls |-> "absent"]
    /\ swept = {}
    /\ tails = [k \in Keys |-> 0]

\* Mutant: the map is written before it is read.
RunMutant(k) ==
    LET c == arrived + 1
    IN  /\ arrived < MaxCall
        /\ arrived' = c
        /\ key' = [key EXCEPT ![c] = k]
        /\ previous' = [previous EXCEPT ![c] = c]
        /\ state' = [state EXCEPT ![c] = "waiting"]
        /\ tails' = [tails EXCEPT ![k] = c]
        /\ UNCHANGED swept

Run(k) ==
    LET c == arrived + 1
    IN  /\ arrived < MaxCall
        /\ arrived' = c
        /\ key' = [key EXCEPT ![c] = k]
        /\ previous' = [previous EXCEPT ![c] = tails[k]]
        /\ state' = [state EXCEPT ![c] = "waiting"]
        /\ tails' = [tails EXCEPT ![k] = c]
        /\ UNCHANGED swept

\* Mutant: a call goes ahead once its predecessor has started.
SettledMutant(p) == p # 0 => state[p] # "waiting"

\* previous.then(fn, fn): the outcome of the predecessor does not matter.
Settled(p) == p # 0 => state[p] = "done"

Start(c) ==
    /\ state[c] = "waiting" /\ Settled(previous[c])
    /\ state' = [state EXCEPT ![c] = "running"]
    /\ UNCHANGED <<arrived, key, previous, swept, tails>>

\* fn resolved or rejected: both settle the tail.
Finish(c) ==
    /\ state[c] = "running"
    /\ state' = [state EXCEPT ![c] = "done"]
    /\ UNCHANGED <<arrived, key, previous, swept, tails>>

\* Mutant: only a call that came after the first sweeps its entry.
SweepMutantFirst(c) ==
    /\ state[c] = "done" /\ c \notin swept
    /\ swept' = swept \cup {c}
    /\ tails' = IF tails[key[c]] = c /\ previous[c] # 0 THEN [tails EXCEPT ![key[c]] = 0] ELSE tails
    /\ UNCHANGED <<arrived, key, previous, state>>

Sweep(c) ==
    /\ state[c] = "done" /\ c \notin swept
    /\ swept' = swept \cup {c}
    /\ tails' = IF tails[key[c]] = c THEN [tails EXCEPT ![key[c]] = 0] ELSE tails
    /\ UNCHANGED <<arrived, key, previous, state>>

Next == (\E k \in Keys : Run(k)) \/ (\E c \in Calls : Start(c) \/ Finish(c) \/ Sweep(c))

Spec == Init /\ [][Next]_vars

\* The event loop drains its microtasks, and an RPC call ends within its timeout.
FairSpec == Spec /\ \A c \in Calls : WF_vars(Start(c)) /\ WF_vars(Finish(c)) /\ WF_vars(Sweep(c))

-----------------------------------------------------------------------------
TypeOK ==
    /\ arrived \in 0..MaxCall
    /\ key \in [Calls -> Keys \cup {"None"}]
    /\ previous \in [Calls -> 0..MaxCall]
    /\ state \in [Calls -> {"absent", "waiting", "running", "done"}]
    /\ swept \subseteq Calls
    /\ tails \in [Keys -> 0..MaxCall]

\* Two calls of one key never build and submit at the same time, so no two envelopes are
\* built from the same sequence number.
OneAtATime ==
    \A b, c \in Calls : state[b] = "running" /\ state[c] = "running" /\ key[b] = key[c] => b = c

\* The promise chains serve each key first come, first served, sweeping or not.
Order == INSTANCE Turnstile
ServesInOrder == Order!Spec

\* No call waits for ever, whatever became of the ones before it.
EveryCallIsServed == \A c \in Calls : state[c] = "waiting" ~> state[c] = "done"

\* The map shrinks back: it ends empty when the calls have ended.
MapIsEmptied == <>[](\A c \in Calls : state[c] \in {"absent", "done"}) => <>[](\A k \in Keys : tails[k] = 0)

-----------------------------------------------------------------------------
(* The inductive invariant behind both: the map's entry and each            *)
(* predecessor is the call just before, or everything before has ended.     *)

Before(c, k) == {b \in Calls : b < c /\ key[b] = k}

TailIsLast ==
    \A k \in Keys : \A b \in Calls : key[b] = k => b <= tails[k] \/ (tails[k] = 0 /\ state[b] = "done")

PreviousIsLast ==
    \A c \in Calls : \A b \in Before(c, key[c]) :
        state[c] # "absent" => b <= previous[c] \/ (previous[c] = 0 /\ state[b] = "done")

ServedInOrder ==
    \A c \in Calls : \A b \in Before(c, key[c]) :
        state[c] \in {"running", "done"} => state[b] = "done"

\* The map and the chains together hold the whole queue of each key, in order of arrival: a
\* clean-up that runs late never unhooks a call that has not ended.
QueueIsUnbroken == TailIsLast /\ PreviousIsLast /\ ServedInOrder
=============================================================================
