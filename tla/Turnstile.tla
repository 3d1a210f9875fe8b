------------------------------- MODULE Turnstile -------------------------------
(***************************************************************************)
(* What the gateway relies on when it serializes work per signing account: *)
(* calls with one key are served one at a time, in the order they came.    *)
(***************************************************************************)
CONSTANTS Calls,    \* the calls, numbered in the order they come
          Keys

VARIABLES key,      \* call -> the account it signs with, None before it comes
          state     \* call -> "absent", "waiting", "running" or "done"

LOCAL INSTANCE Naturals

vars == <<key, state>>

Init == key = [c \in Calls |-> "None"] /\ state = [c \in Calls |-> "absent"]

Ahead(c) == {b \in Calls : b < c /\ key[b] = key[c]}

Arrive(c, k) ==
    /\ state[c] = "absent" /\ \A b \in Calls : b < c => state[b] # "absent"
    /\ key' = [key EXCEPT ![c] = k]
    /\ state' = [state EXCEPT ![c] = "waiting"]

Enter(c) ==
    /\ state[c] = "waiting" /\ \A b \in Ahead(c) : state[b] = "done"
    /\ state' = [state EXCEPT ![c] = "running"]
    /\ UNCHANGED key

Leave(c) ==
    /\ state[c] = "running"
    /\ state' = [state EXCEPT ![c] = "done"]
    /\ UNCHANGED key

Next == \E c \in Calls : (\E k \in Keys : Arrive(c, k)) \/ Enter(c) \/ Leave(c)

Spec == Init /\ [][Next]_vars
=============================================================================
