---------------------------- MODULE MCAuthorization ----------------------------
(***************************************************************************)
(* Small instances of the contract for TLC.                                *)
(***************************************************************************)
EXTENDS Console, TLC

CONSTANTS own, oper, a1, str, s1, s2, usdc, eurc, h1, h2, h3

MCAccounts == {own, oper, a1, str}
MCSymmetry == Permutations({h1, h2, h3})

\* The owner and the operator each sign with the agent, as the gateway has it, and a
\* stranger signs for itself.  A subset of these adds no step: no guard asks for a
\* signature to be absent.
MCSignerSets == {{own, a1}, {oper, a1}, {str, a1}}

\* One set_policy away from the end of the u32, where the version traps.
BasePolicy ==
    [version |-> MaxU32 - 1, agent |-> a1, allowed_services |-> {s1}, allowed_asset |-> usdc,
     per_intent_cap |-> 3, cumulative_window_cap |-> 4, window_seconds |-> 2,
     approval_threshold |-> 1, status |-> "Active"]

\* A second policy with a lower per-intent cap and no escalation.
TightPolicy == [BasePolicy EXCEPT !.per_intent_cap = 2, !.cumulative_window_cap = 3,
                                  !.approval_threshold = 2]

\* A change of policy may also move the end of the running window.
MCPolicyArgs == {BasePolicy, [TightPolicy EXCEPT !.window_seconds = 1]}

\* Two policies of one window length at the last version, so that register_agent is the way to change.
BudgetPolicyArgs == {[p EXCEPT !.version = MaxU32] : p \in {BasePolicy, TightPolicy}}

Ask(h, amount) ==
    [intent_hash |-> h, agent |-> a1, service_id |-> s1, asset |-> usdc, amount |-> amount]

\* Amounts that are approved, escalated and over the cap.
BudgetRequests == {Ask(h, n) : h \in {h1, h2, h3}, n \in {1, 3}}

\* One request per rule, with the largest amount an i128 holds among them.  With MaxI128 = 6,
\* MaxU64 = 3 and MaxTime = 2 the tight policy just has room, and the base policy has none in
\* either type: 4 spent and 3 more, or a window that begins at 2, make its evaluation trap.
RuleRequests ==
    {Ask(h1, n) : n \in {0, 3, MaxI128}} \cup {Ask(h2, n) : n \in {1, 2}}
        \cup {[Ask(h1, 1) EXCEPT !.service_id = s2], [Ask(h1, 1) EXCEPT !.asset = eurc]}
=============================================================================
