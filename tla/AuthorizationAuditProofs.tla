----------------------- MODULE AuthorizationAuditProofs -----------------------
(***************************************************************************)
(* Proofs about the budget: the contract's one running total against the   *)
(* history of approvals, for every number of agents, intents and policies. *)
(*                                                                         *)
(* The first part is about sums over finite sets.  The library's induction *)
(* theorems take an operator; here each induction is the choice of a       *)
(* smallest set that would be an exception (MinimalSubset).                *)
(***************************************************************************)
EXTENDS AuthorizationAudit, AuthorizationProofs, FiniteSetTheorems, WellFoundedInduction

-----------------------------------------------------------------------------
(* Sums over finite sets.                                                   *)

Pick(s) == CHOOSE x \in s : TRUE

\* g sums f over every subset of S, taking one element after another.
Sums(f, S, g) ==
    g = [s \in SUBSET S |-> IF s = {} THEN 0 ELSE f[Pick(s)] + g[s \ {Pick(s)}]]

Total(f, S) == (CHOOSE g : Sums(f, S, g))[S]

\* Among subsets of a finite set one contains no other.
LEMMA MinimalSubset ==
    ASSUME NEW S, IsFiniteSet(S), NEW T, T \subseteq SUBSET S, T # {}
    PROVE  \E s \in T : \A t \in T : ~(t \subseteq s /\ t # s)
<1>1. IsWellFoundedOn(StrictSubsetOrdering(S), SUBSET S)
  BY FS_StrictSubsetOrderingWellFounded, FS_FiniteSubsetsOfFinite
<1>2. \E s \in T : \A t \in T : <<t, s>> \notin StrictSubsetOrdering(S)
  BY <1>1, WFMin
<1>3. QED
  BY <1>2 DEF StrictSubsetOrdering

\* What g says of a set, by the element taken first.
LEMMA SumsAt ==
    ASSUME NEW f, NEW S, NEW g, Sums(f, S, g), NEW s \in SUBSET S, s # {}
    PROVE  g[s] = f[Pick(s)] + g[s \ {Pick(s)}]
  BY DEF Sums

\* Two such functions agree where both are defined.
LEMMA SumsAgree ==
    ASSUME NEW f, NEW S, IsFiniteSet(S), NEW R \in SUBSET S,
           NEW g, Sums(f, S, g), NEW h, Sums(f, R, h)
    PROVE  \A s \in SUBSET R : g[s] = h[s]
<1> DEFINE T == {s \in SUBSET R : g[s] # h[s]}
<1>1. SUFFICES ASSUME T # {} PROVE FALSE
  OBVIOUS
<1>2. IsFiniteSet(R)
  BY FS_Subset
<1>3. PICK s \in T : \A t \in T : ~(t \subseteq s /\ t # s)
  <2>1. T \subseteq SUBSET R
    OBVIOUS
  <2> HIDE DEF T
  <2>2. QED
    BY <1>1, <1>2, <2>1, MinimalSubset
<1>4. s \in SUBSET R /\ s \in SUBSET S /\ g[s] # h[s]
  OBVIOUS
<1>5. s # {}
  BY <1>4 DEF Sums
<1>6. PICK x : x = Pick(s)
  OBVIOUS
<1>7. x \in s
  BY <1>5, <1>6 DEF Pick
<1>8. g[s] = f[x] + g[s \ {x}] /\ h[s] = f[x] + h[s \ {x}]
  <2>1. g[s] = f[x] + g[s \ {x}]
    BY <1>4, <1>5, <1>6, SumsAt
  <2>2. h[s] = f[x] + h[s \ {x}]
    BY <1>4, <1>5, <1>6, SumsAt
  <2>3. QED
    BY <2>1, <2>2
<1>9. g[s \ {x}] = h[s \ {x}]
  BY <1>3, <1>4, <1>7
<1>10. QED
  BY <1>4, <1>8, <1>9

\* There is such a function.
Summable(f, S) == \E g : Sums(f, S, g)

\* What it says of a subset is the subset's own total.
LEMMA SumsTotal ==
    ASSUME NEW f, NEW S, IsFiniteSet(S), NEW R \in SUBSET S, Summable(f, R),
           NEW g, Sums(f, S, g)
    PROVE  g[R] = Total(f, R)
<1>1. Sums(f, R, CHOOSE h : Sums(f, R, h))
  BY DEF Summable
<1>2. QED
  BY <1>1, SumsAgree DEF Total

\* The empty set is worth nothing.
LEMMA TotalOfNone == ASSUME NEW f PROVE Summable(f, {}) /\ Total(f, {}) = 0
<1>1. Sums(f, {}, [s \in {{}} |-> 0])
  BY DEF Sums
<1>2. Sums(f, {}, CHOOSE h : Sums(f, {}, h))
  BY <1>1
<1>3. QED
  BY <1>1, <1>2 DEF Summable, Total, Sums

\* Every finite set can be summed over, although no function is defined by recursion here.
LEMMA AllSummable ==
    ASSUME NEW f, NEW S, IsFiniteSet(S)
    PROVE  Summable(f, S)
<1> DEFINE T == {s \in SUBSET S : ~Summable(f, s)}
<1>1. SUFFICES ASSUME T # {} PROVE FALSE
  OBVIOUS
<1>2. PICK s \in T : \A t \in T : ~(t \subseteq s /\ t # s)
  <2>1. T \subseteq SUBSET S
    OBVIOUS
  <2> HIDE DEF T
  <2>2. QED
    BY <1>1, <2>1, MinimalSubset
<1>3. s \in SUBSET S /\ ~Summable(f, s) /\ \A t \in SUBSET s : t # s => Summable(f, t)
  BY <1>2
<1> DEFINE g == [t \in SUBSET s |-> IF t = {} THEN 0 ELSE f[Pick(t)] + Total(f, t \ {Pick(t)})]
<1>4. \A t \in SUBSET S : IsFiniteSet(t)
  BY FS_Subset
<1>5. ASSUME NEW t \in SUBSET s, t # {}
      PROVE  Total(f, t \ {Pick(t)}) = g[t \ {Pick(t)}]
  <2> DEFINE u == t \ {Pick(t)}
  <2>1. Pick(t) \in t
    BY <1>5 DEF Pick
  <2>2. u \in SUBSET s /\ u # s /\ u \in SUBSET S
    BY <2>1, <1>3
  <2> HIDE DEF u
  <2>3. CASE u = {}
    <3>1. g[u] = 0
      BY <2>2, <2>3
    <3>2. Total(f, {}) = 0
      BY TotalOfNone
    <3> HIDE DEF g
    <3>3. QED
      BY <2>3, <3>1, <3>2 DEF u
  <2>4. CASE u # {}
    <3> DEFINE v == u \ {Pick(u)}
    <3>1. Pick(u) \in u
      BY <2>4 DEF Pick
    <3>2. v \in SUBSET s /\ v # s /\ v \in SUBSET u
      BY <2>2, <3>1
    <3>3. PICK G : Sums(f, u, G)
      BY <2>2, <1>3 DEF Summable
    <3>4. G[u] = f[Pick(u)] + G[v]
      BY <3>3, <2>4 DEF Sums
    <3>5. Summable(f, u) /\ Summable(f, v) /\ IsFiniteSet(u)
      BY <2>2, <3>2, <1>3, <1>4
    <3>6. G[u] = Total(f, u)
      BY <3>3, <3>5, SumsTotal
    <3>7. G[v] = Total(f, v)
      BY <3>2, <3>3, <3>5, SumsTotal
    <3>8. g[u] = f[Pick(u)] + Total(f, v)
      BY <2>2, <2>4
    <3>9. QED
      BY <3>4, <3>6, <3>7, <3>8 DEF u
  <2>5. QED
    BY <2>3, <2>4 DEF u
<1>6. Sums(f, s, g)
  <2>1. ASSUME NEW t \in SUBSET s
        PROVE  g[t] = IF t = {} THEN 0 ELSE f[Pick(t)] + g[t \ {Pick(t)}]
    <3>1. CASE t = {}
      BY <3>1
    <3>2. CASE t # {}
      <4>1. g[t] = f[Pick(t)] + Total(f, t \ {Pick(t)})
        BY <3>2
      <4> HIDE DEF g
      <4>2. QED
        BY <1>5, <3>2, <4>1
    <3>3. QED
      BY <3>1, <3>2
  <2>2. g = [t \in SUBSET s |-> g[t]]
    OBVIOUS
  <2> HIDE DEF g
  <2>3. QED
    BY <2>1, <2>2 DEF Sums
<1>7. QED
  BY <1>3, <1>6 DEF Summable

\* The defining equation of a total.
LEMMA TotalStep ==
    ASSUME NEW f, NEW S, IsFiniteSet(S), S # {}
    PROVE  Total(f, S) = f[Pick(S)] + Total(f, S \ {Pick(S)})
<1> DEFINE x == Pick(S)
<1>1. PICK g : Sums(f, S, g)
  BY AllSummable DEF Summable
<1>2. g[S] = f[x] + g[S \ {x}]
  BY <1>1 DEF Sums
<1>3. IsFiniteSet(S \ {x}) /\ S \ {x} \in SUBSET S
  BY FS_Subset
<1>4. g[S] = Total(f, S) /\ g[S \ {x}] = Total(f, S \ {x})
  BY <1>1, <1>3, AllSummable, SumsTotal
<1>5. QED
  BY <1>2, <1>4

\* Naturals add up to a natural.
LEMMA TotalNat ==
    ASSUME NEW f, NEW S, IsFiniteSet(S), \A x \in S : f[x] \in Nat
    PROVE  Total(f, S) \in Nat
<1> DEFINE T == {s \in SUBSET S : Total(f, s) \notin Nat}
<1>1. SUFFICES ASSUME T # {} PROVE FALSE
  OBVIOUS
<1>2. PICK s \in T : \A t \in T : ~(t \subseteq s /\ t # s)
  <2>1. T \subseteq SUBSET S
    OBVIOUS
  <2> HIDE DEF T
  <2>2. QED
    BY <1>1, <2>1, MinimalSubset
<1>3. s # {} /\ IsFiniteSet(s) /\ s \in SUBSET S /\ Total(f, s) \notin Nat
  <2>1. Total(f, {}) \in Nat
    BY TotalOfNone
  <2>2. s \in SUBSET S /\ Total(f, s) \notin Nat
    OBVIOUS
  <2>3. QED
    BY <2>1, <2>2, FS_Subset
<1>4. PICK x \in s : Total(f, s) = f[x] + Total(f, s \ {x})
  BY <1>3, TotalStep DEF Pick
<1>5. Total(f, s \ {x}) \in Nat
  BY <1>2, <1>3
<1>6. QED
  BY <1>3, <1>4, <1>5

\* The order in which elements are taken does not matter.
LEMMA TotalSplit ==
    ASSUME NEW f, NEW S, IsFiniteSet(S), \A x \in S : f[x] \in Nat, NEW x \in S
    PROVE  Total(f, S) = f[x] + Total(f, S \ {x})
<1> DEFINE T == {s \in SUBSET S : \E y \in s : Total(f, s) # f[y] + Total(f, s \ {y})}
<1>1. SUFFICES ASSUME T # {} PROVE FALSE
  OBVIOUS
<1>2. PICK s \in T : \A t \in T : ~(t \subseteq s /\ t # s)
  <2>1. T \subseteq SUBSET S
    OBVIOUS
  <2> HIDE DEF T
  <2>2. QED
    BY <1>1, <2>1, MinimalSubset
<1>3. s \in SUBSET S /\ \A t \in SUBSET S : t \subseteq s /\ t # s =>
          \A y \in t : Total(f, t) = f[y] + Total(f, t \ {y})
  BY <1>2
<1>4. PICK y \in s : Total(f, s) # f[y] + Total(f, s \ {y})
  BY <1>2
<1>5. IsFiniteSet(s)
  BY <1>3, FS_Subset
<1>6. PICK c \in s : Total(f, s) = f[c] + Total(f, s \ {c})
  BY <1>4, <1>5, TotalStep DEF Pick
<1>7. c # y
  BY <1>4, <1>6
<1>8. Total(f, s \ {c}) = f[y] + Total(f, (s \ {c}) \ {y})
  BY <1>3, <1>4, <1>6, <1>7
<1>9. (s \ {y}) \ {c} = (s \ {c}) \ {y}
  OBVIOUS
<1>10. Total(f, s \ {y}) = f[c] + Total(f, (s \ {c}) \ {y})
  <2>1. Total(f, s \ {y}) = f[c] + Total(f, (s \ {y}) \ {c})
    BY <1>3, <1>4, <1>6, <1>7
  <2>2. QED
    BY <1>9, <2>1
<1>11. Total(f, (s \ {c}) \ {y}) \in Nat
  <2>1. IsFiniteSet((s \ {c}) \ {y}) /\ \A z \in (s \ {c}) \ {y} : f[z] \in Nat
    BY <1>3, <1>5, FS_Subset
  <2>2. QED
    BY <2>1, TotalNat
<1>12. f[c] \in Nat /\ f[y] \in Nat
  BY <1>3
<1>13. PICK rest \in Nat : rest = Total(f, (s \ {c}) \ {y})
  BY <1>11
<1>14. Total(f, s) = f[c] + (f[y] + rest) /\ Total(f, s \ {y}) = f[c] + rest
  BY <1>6, <1>8, <1>10, <1>13
<1>15. Total(f, s) = f[y] + Total(f, s \ {y})
  BY <1>12, <1>14
<1>16. QED
  BY <1>4, <1>15

\* A total depends on the values over the set alone.
LEMMA TotalSame ==
    ASSUME NEW f, NEW g, NEW S, IsFiniteSet(S), \A x \in S : f[x] = g[x]
    PROVE  Total(f, S) = Total(g, S)
<1> DEFINE T == {s \in SUBSET S : Total(f, s) # Total(g, s)}
<1>1. SUFFICES ASSUME T # {} PROVE FALSE
  OBVIOUS
<1>2. PICK s \in T : \A t \in T : ~(t \subseteq s /\ t # s)
  <2>1. T \subseteq SUBSET S
    OBVIOUS
  <2> HIDE DEF T
  <2>2. QED
    BY <1>1, <2>1, MinimalSubset
<1>3. s # {} /\ IsFiniteSet(s) /\ s \in SUBSET S /\ Total(f, s) # Total(g, s)
  <2>1. Total(f, {}) = Total(g, {})
    BY TotalOfNone
  <2>2. s \in SUBSET S /\ Total(f, s) # Total(g, s)
    OBVIOUS
  <2>3. QED
    BY <2>1, <2>2, FS_Subset
<1>4. PICK x \in s : Total(f, s) = f[x] + Total(f, s \ {x}) /\ Total(g, s) = g[x] + Total(g, s \ {x})
  <2>1. PICK x : x = Pick(s)
    OBVIOUS
  <2>2. Total(f, s) = f[x] + Total(f, s \ {x})
    BY <1>3, <2>1, TotalStep
  <2>3. Total(g, s) = g[x] + Total(g, s \ {x})
    BY <1>3, <2>1, TotalStep
  <2>4. QED
    BY <1>3, <2>1, <2>2, <2>3 DEF Pick
<1>5. Total(f, s \ {x}) = Total(g, s \ {x})
  BY <1>2, <1>3
<1>6. QED
  BY <1>3, <1>4, <1>5

\* More elements, a greater total.
LEMMA TotalOfSubset ==
    ASSUME NEW f, NEW S, IsFiniteSet(S), \A x \in S : f[x] \in Nat, NEW R \in SUBSET S
    PROVE  Total(f, R) <= Total(f, S)
<1> DEFINE T == {s \in SUBSET S : R \subseteq s /\ ~(Total(f, R) <= Total(f, s))}
<1>1. SUFFICES ASSUME T # {} PROVE FALSE
  OBVIOUS
<1>2. PICK s \in T : \A t \in T : ~(t \subseteq s /\ t # s)
  <2>1. T \subseteq SUBSET S
    OBVIOUS
  <2> HIDE DEF T
  <2>2. QED
    BY <1>1, <2>1, MinimalSubset
<1>3. s \in SUBSET S /\ R \subseteq s /\ ~(Total(f, R) <= Total(f, s)) /\ IsFiniteSet(s) /\ IsFiniteSet(R)
  BY FS_Subset
<1>4. Total(f, R) \in Nat
  BY <1>3, TotalNat
<1>5. PICK x \in s : x \notin R
  BY <1>3, <1>4
<1>6. s \ {x} \in SUBSET S /\ R \subseteq s \ {x} /\ IsFiniteSet(s \ {x})
  BY <1>3, <1>5, FS_Subset
<1>7. Total(f, R) <= Total(f, s \ {x})
  BY <1>2, <1>5, <1>6
<1>8. Total(f, s) = f[x] + Total(f, s \ {x}) /\ Total(f, s \ {x}) \in Nat /\ f[x] \in Nat
  BY <1>3, <1>6, TotalSplit, TotalNat
<1>9. QED
  BY <1>3, <1>4, <1>7, <1>8

\* A union has at most the sum of the totals.
LEMMA TotalOfUnion ==
    ASSUME NEW f, NEW R, IsFiniteSet(R), NEW S, IsFiniteSet(S), \A x \in R \cup S : f[x] \in Nat
    PROVE  Total(f, R \cup S) <= Total(f, R) + Total(f, S)
<1> DEFINE T == {s \in SUBSET S : ~(Total(f, R \cup s) <= Total(f, R) + Total(f, s))}
<1>1. SUFFICES ASSUME T # {} PROVE FALSE
  OBVIOUS
<1>2. PICK s \in T : \A t \in T : ~(t \subseteq s /\ t # s)
  <2>1. T \subseteq SUBSET S
    OBVIOUS
  <2> HIDE DEF T
  <2>2. QED
    BY <1>1, <2>1, MinimalSubset
<1>3. s \in SUBSET S /\ ~(Total(f, R \cup s) <= Total(f, R) + Total(f, s)) /\ IsFiniteSet(s)
  BY FS_Subset
<1>4. Total(f, R) \in Nat
  BY TotalNat
<1>5. s # {}
  <2>1. R \cup {} = R
    OBVIOUS
  <2>2. QED
    BY <1>3, <1>4, <2>1, TotalOfNone
<1>6. PICK x \in s : TRUE
  BY <1>5
<1>7. /\ s \ {x} \in SUBSET S /\ s \ {x} # s /\ IsFiniteSet(s \ {x})
      /\ IsFiniteSet(R \cup (s \ {x})) /\ IsFiniteSet(R \cup s)
      /\ \A y \in R \cup s : f[y] \in Nat
  <2>1. IsFiniteSet(s \ {x})
    BY <1>3, FS_Subset
  <2>2. QED
    BY <1>3, <1>6, <2>1, FS_Union
<1>8. Total(f, R \cup (s \ {x})) <= Total(f, R) + Total(f, s \ {x})
  BY <1>2, <1>7
<1>9. /\ Total(f, s) = f[x] + Total(f, s \ {x}) /\ Total(f, s \ {x}) \in Nat /\ f[x] \in Nat
      /\ Total(f, R \cup (s \ {x})) \in Nat
  BY <1>3, <1>6, <1>7, TotalSplit, TotalNat
<1>10. CASE x \in R
  <2>1. R \cup (s \ {x}) = R \cup s
    BY <1>10
  <2>2. Total(f, R \cup s) = Total(f, R \cup (s \ {x}))
    BY <2>1
  <2>3. QED
    BY <1>3, <1>4, <1>8, <1>9, <2>2
<1>11. CASE x \notin R
  <2>1. (R \cup s) \ {x} = R \cup (s \ {x})
    BY <1>11
  <2>2. Total(f, R \cup s) = f[x] + Total(f, R \cup (s \ {x}))
    BY <1>6, <1>7, <2>1, TotalSplit
  <2>3. QED
    BY <1>3, <1>4, <1>8, <1>9, <2>2
<1>12. QED
  BY <1>10, <1>11

-----------------------------------------------------------------------------
(* The audited contract.                                                    *)

\* All policies an agent is ever given have one positive window length.
SteadyWindows ==
    \A p, q \in PolicyArgs :
        p.agent = q.agent => p.window_seconds = q.window_seconds /\ p.window_seconds > 0

Length(a) == (CHOOSE p \in PolicyArgs : p.agent = a).window_seconds

\* The largest cap, and what TumblingBound compares with.
Caps == {0} \cup {q.cumulative_window_cap : q \in PolicyArgs}

Amounts == [id \in DecisionIds |-> decision[id].amount]

\* The agent's approvals from s on and before t, and what they are worth.
Between(a, s, t) ==
    {id \in DecisionIds : /\ grantedAt[id] # None /\ decision[id].agent = a
                          /\ s <= grantedAt[id] /\ grantedAt[id] < t}
Worth(a, s, t) == Total(Amounts, Between(a, s, t))

\* A policy in force is one that was given, but for its version and its status.
PolicyInv ==
    \A a \in Agents : policy[a] # None =>
        \E p \in PolicyArgs :
            /\ p.agent = a /\ p.window_seconds = policy[a].window_seconds
            /\ p.per_intent_cap = policy[a].per_intent_cap
            /\ p.cumulative_window_cap = policy[a].cumulative_window_cap

\* Exactly the approvals have a time, and none is after the end of the agent's window.
HistoryInv ==
    /\ grantedAt \in [DecisionIds -> U64 \cup {None}]
    /\ IsFiniteSet({id \in DecisionIds : grantedAt[id] # None})
    /\ \A id \in DecisionIds : grantedAt[id] # None <=> IsApproved(decision[id])
    /\ \A id \in DecisionIds : grantedAt[id] # None =>
          /\ grantedAt[id] <= timestamp
          /\ window[decision[id].agent] # None
          /\ grantedAt[id] < window[decision[id].agent].window_start + Length(decision[id].agent)
    /\ \A a \in Agents : window[a] # None => window[a].window_start <= timestamp

\* The stored total is that of the stored window, to its end.
AccountsInv ==
    \A a \in Agents : window[a] # None =>
        window[a].spent = Worth(a, window[a].window_start, window[a].window_start + Length(a))

\* These are the times at which the windows of agent a have begun: they are a length apart, each
\* approval fell into one of them, and none was overspent.
Begun(a, starts) ==
    /\ \A s, t \in starts : s < t => s + Length(a) <= t
    /\ \A id \in DecisionIds : grantedAt[id] # None /\ decision[id].agent = a =>
          \E s \in starts : s <= grantedAt[id] /\ grantedAt[id] < s + Length(a)
    /\ \A s \in starts : \E c \in Caps : Worth(a, s, s + Length(a)) <= c
    /\ window[a] = None => starts = {}
    /\ window[a] # None =>
          window[a].window_start \in starts /\ \A s \in starts : s <= window[a].window_start

WindowsInv == \A a \in Agents : \E starts \in SUBSET U64 : Begun(a, starts)

AuditInv == IInv /\ PolicyInv /\ HistoryInv /\ AccountsInv /\ WindowsInv

-----------------------------------------------------------------------------
(* What a step does to the budget.                                          *)

\* It approves decision id, which becomes e, and charges it to the agent's window.
Grants(id, e) ==
    /\ ~IsApproved(decision[id]) /\ e.verdict = "Approved"
    /\ decision' = [decision EXCEPT ![id] = e]
    /\ policy[e.agent] \in Policy /\ policy[e.agent].agent = e.agent
    /\ ChargeFits(policy[e.agent], e.amount)
    /\ window' = [window EXCEPT ![e.agent] = ChargedWindow(policy[e.agent], e.amount)]
    /\ timestamp' = timestamp

\* It leaves the approvals and the windows alone, and time may pass.
Quiet ==
    /\ \A id \in DecisionIds :
          /\ IsApproved(decision'[id]) <=> IsApproved(decision[id])
          /\ IsApproved(decision[id]) =>
                decision'[id].agent = decision[id].agent /\ decision'[id].amount = decision[id].amount
    /\ window' = window
    /\ timestamp' = timestamp \/ timestamp' \in (timestamp + 1) .. MaxTime

\* authorize() approves and charges, or leaves approvals and windows alone.
LEMMA AuthorizeKind ==
    ASSUME IInv, NEW r \in Requests, r.amount > 0, intentIndex[r.intent_hash] = None, AuthorizeNew(r)
    PROVE  Quiet \/ \E id \in DecisionIds, e \in Decision : Grants(id, e)
<1> DEFINE q == policy[r.agent]
<1>1. PICK p, reason, d : p = q /\ reason = JudgedReason(q, r) /\ d = NewDecision(r, q, JudgedReason(q, r))
  OBVIOUS
<1>2. r \in Request /\ r.agent \in Agents /\ r.intent_hash \in Hashes
  BY ArgsAssumption DEF Request
<1>3. p \in Policy /\ p.agent = r.agent
  BY <1>1, <1>2 DEF IInv, TypeOK, AgentsStayRegistered, AuthorizeNew
<1>4. /\ d \in Decision /\ d # None
      /\ d.decision_id = DeriveDecisionId(d.intent_hash, d.policy_version)
      /\ d.intent_hash = r.intent_hash /\ d.agent = r.agent
  BY <1>1, <1>2, <1>3, NewDecisionFacts DEF IInv
<1>5. d.decision_id \in DecisionIds /\ d.amount = r.amount /\ d.verdict = VerdictOf(reason)
  BY <1>1, <1>4 DEF Decision, NewDecision
<1>6. /\ decision' = [decision EXCEPT ![d.decision_id] = d]
      /\ ChargeIf(d.verdict = "Approved", p, r.amount)
      /\ timestamp' = timestamp
  BY <1>1 DEF AuthorizeNew, ledgerVars
<1>7. decision[d.decision_id] = None
  <2>1. SUFFICES ASSUME decision[d.decision_id] # None PROVE FALSE
    OBVIOUS
  <2>2. decision[d.decision_id].intent_hash = r.intent_hash
    BY <1>4, <1>5, <2>1 DEF IInv, DecisionIndexed, DeriveDecisionId
  <2>3. QED
    BY <1>5, <2>1, <2>2, NoneAssumption DEF IInv, DecisionIndexed
<1>8. CASE d.verdict = "Approved"
  <2>1. reason = "Ok" /\ ChargeFits(p, d.amount)
    <3>1. reason \in ReasonCodes /\ (reason = "Ok" => ChargeFits(p, r.amount))
      BY <1>1, <1>2, <1>3, JudgedFacts DEF IInv
    <3>2. QED
      BY <1>5, <1>8, <3>1, VerdictFacts
  <2>2. Grants(d.decision_id, d)
    BY <1>1, <1>3, <1>4, <1>5, <1>6, <1>7, <1>8, <2>1 DEF Grants, ChargeIf, IsApproved
  <2>3. QED
    BY <1>4, <1>5, <2>2
<1>9. CASE d.verdict # "Approved"
  BY <1>5, <1>6, <1>7, <1>9 DEF Quiet, ChargeIf, IsApproved, IInv, TypeOK
<1>10. QED
  BY <1>8, <1>9

\* So does resolve(): the charge that it makes is that of the policy in force now.
LEMMA ResolveKind ==
    ASSUME IInv, NEW signers, NEW id \in DecisionIds, NEW approve \in BOOLEAN, Resolve(signers, id, approve)
    PROVE  Quiet \/ \E e \in Decision : Grants(id, e)
<1>1. PICK d, p, reason : d = decision[id] /\ p = policy[d.agent] /\ reason = ResolvedReason(d, p, approve)
  OBVIOUS
<1>2. PICK e : e = [d EXCEPT !.resolved_policy_version = p.version, !.verdict = VerdictOf(reason),
                            !.reason_code = reason, !.resolved = TRUE]
  OBVIOUS
<1>3. d # None /\ d \in Decision /\ d.verdict = "RequiresApproval" /\ p # None
  BY <1>1 DEF Resolve, ResolveError, IInv, TypeOK
<1>4. p \in Policy /\ p.agent = d.agent /\ d.agent \in Agents
  BY <1>1, <1>3 DEF IInv, TypeOK, AgentsStayRegistered, Decision
<1>5. RequestOf(d) \in Request
  BY <1>3, WidthAssumption DEF RequestOf, Request, Decision, I128
<1>6. reason \in ReasonCodes /\ (reason = "Ok" => ChargeFits(p, d.amount))
  <2>1. Evaluate(p, RequestOf(d)) \in ReasonCodes
    BY <1>4, <1>5, EvaluateFacts
  <2>2. VerdictOf(Evaluate(p, RequestOf(d))) = "Rejected" => Evaluate(p, RequestOf(d)) # "Ok"
    BY DEF VerdictOf
  <2>3. QED
    BY <1>1, <2>1, <2>2 DEF ResolvedReason, ReasonCodes
<1>7. VerdictOf(reason) \in Verdicts /\ (VerdictOf(reason) = "Approved" <=> reason = "Ok")
  BY <1>6, VerdictFacts
<1>8. /\ e \in Decision /\ e.verdict = VerdictOf(reason)
      /\ e.agent = d.agent /\ e.amount = d.amount
  BY <1>2, <1>3, <1>4, <1>6, <1>7 DEF Decision, Policy
<1>9. /\ decision' = [decision EXCEPT ![id] = e] /\ ChargeIf(reason = "Ok", p, d.amount)
      /\ timestamp' = timestamp
  BY <1>1, <1>2 DEF Resolve, ledgerVars
<1>10. CASE reason = "Ok"
  <2>1. Grants(id, e)
    BY <1>1, <1>3, <1>4, <1>6, <1>7, <1>8, <1>9, <1>10 DEF Grants, ChargeIf, IsApproved
  <2>2. QED
    BY <1>8, <2>1
<1>11. CASE reason # "Ok"
  BY <1>1, <1>3, <1>7, <1>8, <1>9, <1>11 DEF Quiet, ChargeIf, IsApproved, IInv, TypeOK
<1>12. QED
  BY <1>10, <1>11

\* A settlement approves nothing.
LEMMA MarkKind ==
    ASSUME IInv, NEW signers, NEW caller, NEW id \in DecisionIds, MarkSettled(signers, caller, id)
    PROVE  Quiet
<1>1. PICK d, e : d = decision[id] /\ e = [decision[id] EXCEPT !.settled = TRUE]
  OBVIOUS
<1>2. d \in Decision /\ d # None /\ d.verdict = "Approved"
  BY <1>1 DEF MarkSettled, MarkSettledError, IInv, TypeOK
<1>3. e \in Decision /\ e.agent = d.agent /\ e.amount = d.amount /\ e.verdict = d.verdict
  BY <1>1, <1>2 DEF Decision
<1>4. decision' = [decision EXCEPT ![id] = e] /\ window' = window /\ timestamp' = timestamp
  BY <1>1 DEF MarkSettled, ledgerVars
<1>5. e # None
  BY <1>3, NoneAssumption
<1>6. QED
  BY <1>1, <1>2, <1>3, <1>4, <1>5 DEF Quiet, IsApproved, IInv, TypeOK

\* Every step of the contract is a grant or quiet.
LEMMA StepKinds ==
    ASSUME IInv, [Next]_vars
    PROVE  Quiet \/ \E id \in DecisionIds, e \in Decision : Grants(id, e)
<1> USE DEF Quiet
<1>1. CASE UNCHANGED vars
  BY <1>1 DEF vars
<1>2. CASE CloseLedger
  BY <1>2 DEF CloseLedger
<1>3. ASSUME NEW signers \in SignerSets, Call(signers)
      PROVE  Quiet \/ \E id \in DecisionIds, e \in Decision : Grants(id, e)
  <2>1. CASE ContractInit(signers)
    BY <2>1 DEF ContractInit, ledgerVars
  <2>2. CASE \E op \in OperatorArgs : SetOperator(signers, op)
    BY <2>2 DEF SetOperator, ledgerVars
  <2>3. CASE \E p \in PolicyArgs : RegisterAgent(signers, p) \/ SetPolicy(signers, p)
    BY <2>3 DEF RegisterAgent, SetPolicy, PutPolicy, ledgerVars
  <2>4. CASE \E a \in Agents : RevokeAgent(signers, a)
    BY <2>4 DEF RevokeAgent, PutPolicy, ledgerVars
  <2>5. CASE \E caller \in Accounts, r \in Requests : Authorize(signers, caller, r)
    <3>1. PICK caller \in Accounts, r \in Requests : Authorize(signers, caller, r)
      BY <2>5
    <3>2. CASE intentIndex[r.intent_hash] # None
      BY <3>1, <3>2 DEF Authorize, AuthorizeReplay, vars
    <3>3. CASE intentIndex[r.intent_hash] = None
      BY <3>1, <3>3, AuthorizeKind DEF Authorize
    <3>4. QED
      BY <3>2, <3>3
  <2>6. CASE \E id \in DecisionIds, approve \in BOOLEAN : Resolve(signers, id, approve)
    BY <2>6, ResolveKind
  <2>7. CASE \E caller \in Accounts, id \in DecisionIds : MarkSettled(signers, caller, id)
    BY <2>7, MarkKind
  <2>8. QED
    BY <1>3, <2>1, <2>2, <2>3, <2>4, <2>5, <2>6, <2>7 DEF Call
<1>4. QED
  BY <1>1, <1>2, <1>3 DEF Next

\* A policy comes from the arguments; revocation and set_policy() touch only its status and version.
LEMMA PolicyKeeps == ASSUME IInv, PolicyInv, [Next]_vars PROVE PolicyInv'
<1>1. CASE policy' = policy
  BY <1>1 DEF PolicyInv
<1>2. ASSUME NEW p \in PolicyArgs, NEW q \in Policy, policy' = [policy EXCEPT ![p.agent] = q],
             q.agent = p.agent, q.window_seconds = p.window_seconds,
             q.per_intent_cap = p.per_intent_cap, q.cumulative_window_cap = p.cumulative_window_cap
      PROVE  PolicyInv'
  BY <1>2 DEF PolicyInv, IInv, TypeOK
<1>3. CASE \E signers \in SignerSets, p \in PolicyArgs : RegisterAgent(signers, p)
  BY <1>2, <1>3, ArgsAssumption DEF RegisterAgent, PutPolicy
<1>4. CASE \E signers \in SignerSets, p \in PolicyArgs : SetPolicy(signers, p)
  <2>1. PICK signers \in SignerSets, p \in PolicyArgs : SetPolicy(signers, p)
    BY <1>4
  <2>2. PICK q : q = [p EXCEPT !.version = policy[p.agent].version + 1]
    OBVIOUS
  <2>3. /\ q \in Policy /\ q.agent = p.agent /\ q.window_seconds = p.window_seconds
        /\ q.per_intent_cap = p.per_intent_cap /\ q.cumulative_window_cap = p.cumulative_window_cap
    BY <2>1, <2>2, ArgsAssumption DEF SetPolicy, Policy
  <2>4. policy' = [policy EXCEPT ![p.agent] = q]
    BY <2>1, <2>2, <2>3 DEF SetPolicy, PutPolicy
  <2>5. QED
    BY <1>2, <2>3, <2>4
<1>5. CASE \E signers \in SignerSets, a \in Agents : RevokeAgent(signers, a)
  <2>1. PICK signers \in SignerSets, a \in Agents : RevokeAgent(signers, a)
    BY <1>5
  <2>2. PICK q : q = [policy[a] EXCEPT !.status = "Revoked"]
    OBVIOUS
  <2>3. policy[a] \in Policy /\ policy[a].agent = a
    BY <2>1 DEF RevokeAgent, IInv, TypeOK, AgentsStayRegistered
  <2>4. /\ q \in Policy /\ q.agent = a /\ q.window_seconds = policy[a].window_seconds
        /\ q.per_intent_cap = policy[a].per_intent_cap
        /\ q.cumulative_window_cap = policy[a].cumulative_window_cap
    BY <2>2, <2>3 DEF Policy, AgentStatus
  <2>5. policy' = [policy EXCEPT ![a] = q]
    BY <2>1, <2>2, <2>4 DEF RevokeAgent, PutPolicy
  <2>6. PICK p \in PolicyArgs :
          /\ p.agent = a /\ p.window_seconds = policy[a].window_seconds
          /\ p.per_intent_cap = policy[a].per_intent_cap
          /\ p.cumulative_window_cap = policy[a].cumulative_window_cap
    BY <2>1 DEF RevokeAgent, PolicyInv
  <2>7. QED
    BY <1>2, <2>4, <2>5, <2>6
<1>6. QED
  BY <1>1, <1>3, <1>4, <1>5
     DEF Next, vars, CloseLedger, Call, ContractInit, SetOperator, Authorize, AuthorizeReplay, AuthorizeNew,
         Resolve, MarkSettled, adminVars

\* What the auditor writes down beside such a step.
LEMMA AuditKinds ==
    ASSUME IInv, HistoryInv, [AuditNext]_auditVars
    PROVE  \/ Quiet /\ grantedAt' = grantedAt
           \/ \E id \in DecisionIds, e \in Decision :
                 Grants(id, e) /\ grantedAt' = [grantedAt EXCEPT ![id] = timestamp]
<1>1. CASE UNCHANGED auditVars
  BY <1>1 DEF auditVars, vars, Quiet
<1>2. CASE AuditNext
  <2>1. grantedAt' = [id \in DecisionIds |->
                        IF ~IsApproved(decision[id]) /\ IsApproved(decision'[id])
                        THEN timestamp ELSE grantedAt[id]]
    BY <1>2 DEF AuditNext
  <2>2. grantedAt = [id \in DecisionIds |-> grantedAt[id]]
    BY DEF HistoryInv
  <2>3. Quiet \/ \E id \in DecisionIds, e \in Decision : Grants(id, e)
    BY <1>2, StepKinds DEF AuditNext
  <2>4. CASE Quiet
    <3>1. \A id \in DecisionIds : IsApproved(decision'[id]) <=> IsApproved(decision[id])
      BY <2>4 DEF Quiet
    <3>2. grantedAt' = [id \in DecisionIds |-> grantedAt[id]]
      BY <2>1, <3>1
    <3>3. QED
      BY <2>2, <2>4, <3>2
  <2>5. ASSUME NEW id \in DecisionIds, NEW e \in Decision, Grants(id, e)
        PROVE  grantedAt' = [grantedAt EXCEPT ![id] = timestamp]
    <3>1. e # None /\ IsApproved(decision'[id]) /\ ~IsApproved(decision[id])
      BY <2>5, NoneAssumption DEF Grants, IsApproved, IInv, TypeOK
    <3>2. \A i \in DecisionIds : i # id => decision'[i] = decision[i]
      BY <2>5 DEF Grants, IInv, TypeOK
    <3>3. \A i \in DecisionIds : grantedAt'[i] = IF i = id THEN timestamp ELSE grantedAt[i]
      BY <2>1, <3>1, <3>2
    <3>4. QED
      BY <2>1, <2>2, <3>3
  <2>6. QED
    BY <2>3, <2>4, <2>5
<1>3. QED
  BY <1>1, <1>2

-----------------------------------------------------------------------------
(* Totals of approvals.                                                     *)

\* The sums in the properties are totals of the amounts.
LEMMA SumIsTotal ==
    ASSUME NEW S \in SUBSET DecisionIds
    PROVE  MapThenSumSet(LAMBDA id : decision[id].amount, S) = Total(Amounts, S)
<1> DEFINE Folds(g) ==
      g = [s \in SUBSET S |->
              IF s = {} THEN 0
              ELSE decision[Pick(s)].amount + g[s \ {Pick(s)}]]
<1>1. MapThenSumSet(LAMBDA id : decision[id].amount, S) = (CHOOSE g : Folds(g))[S]
  BY DEF MapThenSumSet, MapThenFoldSet, Pick
<1>2. ASSUME NEW g
      PROVE  Folds(g) <=> Sums(Amounts, S, g)
  <2>1. \A s \in SUBSET S : s # {} =>
          Amounts[Pick(s)] = decision[Pick(s)].amount
    BY DEF Amounts, Pick
  <2>2. QED
    BY <2>1 DEF Sums
<1> HIDE DEF Folds
<1>3. (CHOOSE g : Folds(g)) = (CHOOSE g : Sums(Amounts, S, g))
  BY <1>2
<1>4. QED
  BY <1>1, <1>3 DEF Total

\* The same of the next state.
LEMMA SumIsTotalNext ==
    ASSUME NEW S \in SUBSET DecisionIds
    PROVE  MapThenSumSet(LAMBDA id : decision'[id].amount, S) = Total(Amounts', S)
<1> DEFINE Folds(g) ==
      g = [s \in SUBSET S |->
              IF s = {} THEN 0
              ELSE decision'[Pick(s)].amount + g[s \ {Pick(s)}]]
<1>1. MapThenSumSet(LAMBDA id : decision'[id].amount, S) = (CHOOSE g : Folds(g))[S]
  BY DEF MapThenSumSet, MapThenFoldSet, Pick
<1>2. ASSUME NEW g
      PROVE  Folds(g) <=> Sums(Amounts', S, g)
  <2>1. \A s \in SUBSET S : s # {} =>
          Amounts'[Pick(s)] = decision'[Pick(s)].amount
    BY DEF Amounts, Pick
  <2>2. QED
    BY <2>1 DEF Sums
<1> HIDE DEF Folds
<1>3. (CHOOSE g : Folds(g)) = (CHOOSE g : Sums(Amounts', S, g))
  BY <1>2
<1>4. QED
  BY <1>1, <1>3 DEF Total

\* Approvals are finitely many, and their amounts are naturals.
LEMMA AmountsOfApprovals ==
    ASSUME IInv, HistoryInv, NEW a, NEW s, NEW t
    PROVE  IsFiniteSet(Between(a, s, t)) /\ \A id \in Between(a, s, t) : Amounts[id] \in Nat
<1>1. Between(a, s, t) \subseteq {id \in DecisionIds : grantedAt[id] # None}
  BY DEF Between
<1>2. IsFiniteSet(Between(a, s, t))
  BY <1>1, FS_Subset DEF HistoryInv
<1>3. ASSUME NEW id \in Between(a, s, t)
      PROVE  Amounts[id] \in Nat
  <2>1. id \in DecisionIds /\ decision[id] \in Decision
    BY DEF Between, HistoryInv, IsApproved, IInv, TypeOK
  <2>2. decision[id].amount \in 1 .. MaxI128
    BY <2>1 DEF Decision
  <2>3. QED
    BY <2>1, <2>2, WidthAssumption DEF Amounts
<1>4. QED
  BY <1>2, <1>3

\* A quiet step, and a grant for what it does not fall into, leave a span worth what it was.
LEMMA SameSpan ==
    ASSUME IInv, HistoryInv, NEW a, NEW s, NEW t,
           Between(a, s, t)' = Between(a, s, t),
           \A id \in Between(a, s, t) : decision'[id].amount = decision[id].amount
    PROVE  Worth(a, s, t)' = Worth(a, s, t)
<1>1. \A id \in Between(a, s, t) : Amounts'[id] = Amounts[id]
  BY DEF Amounts, Between
<1>2. Total(Amounts', Between(a, s, t)) = Total(Amounts, Between(a, s, t))
  BY <1>1, AmountsOfApprovals, TotalSame
<1>3. QED
  BY <1>2 DEF Worth

\* The length of an agent's windows is that of every policy it is given.
LEMMA LengthOf ==
    ASSUME SteadyWindows, NEW p \in PolicyArgs
    PROVE  Length(p.agent) = p.window_seconds /\ Length(p.agent) \in Nat /\ Length(p.agent) > 0
<1>1. PICK q \in PolicyArgs : q = CHOOSE x \in PolicyArgs : x.agent = p.agent
  OBVIOUS
<1>2. q.agent = p.agent
  BY <1>1
<1>3. Length(p.agent) = q.window_seconds
  BY <1>1 DEF Length
<1>4. p.window_seconds \in Nat
  BY ArgsAssumption, WidthAssumption DEF Policy, U64
<1>5. QED
  BY <1>2, <1>3, <1>4 DEF SteadyWindows

\* A quiet step changes no account.
LEMMA QuietKeeps ==
    ASSUME IInv, HistoryInv, AccountsInv, WindowsInv, Quiet, grantedAt' = grantedAt
    PROVE  HistoryInv' /\ AccountsInv' /\ WindowsInv'
<1>1. /\ window' = window /\ timestamp' \in Int /\ timestamp' >= timestamp
      /\ \A id \in DecisionIds : grantedAt[id] # None =>
            decision'[id].agent = decision[id].agent /\ decision'[id].amount = decision[id].amount
  BY WidthAssumption DEF Quiet, HistoryInv, IInv, TypeOK, U64
<1>2. ASSUME NEW a, NEW s, NEW t
      PROVE  Worth(a, s, t)' = Worth(a, s, t)
  <2>1. Between(a, s, t)' = Between(a, s, t)
    BY <1>1 DEF Between
  <2>2. QED
    BY <1>1, <2>1, SameSpan DEF Between
<1>3. HistoryInv'
  <2>1. \A id \in DecisionIds : grantedAt'[id] # None <=> IsApproved(decision'[id])
    BY DEF HistoryInv, Quiet
  <2>2. ASSUME NEW id \in DecisionIds, grantedAt[id] # None
        PROVE  /\ grantedAt[id] <= timestamp'
               /\ window[decision'[id].agent] # None
               /\ grantedAt[id] < window[decision'[id].agent].window_start + Length(decision'[id].agent)
    <3>1. grantedAt[id] \in Int /\ timestamp \in Int /\ grantedAt[id] <= timestamp
      BY <2>2, WidthAssumption DEF HistoryInv, IInv, TypeOK, U64
    <3>2. QED
      BY <1>1, <2>2, <3>1 DEF HistoryInv
  <2>3. ASSUME NEW a \in Agents, window[a] # None
        PROVE  window[a].window_start <= timestamp'
    <3>1. window[a].window_start \in Int /\ timestamp \in Int /\ window[a].window_start <= timestamp
      BY <2>3, WidthAssumption DEF HistoryInv, IInv, TypeOK, U64, WindowState
    <3>2. QED
      BY <1>1, <3>1
  <2>4. QED
    BY <1>1, <2>1, <2>2, <2>3 DEF HistoryInv
<1>4. AccountsInv'
  BY <1>1, <1>2 DEF AccountsInv
<1>5. ASSUME NEW a \in Agents, NEW starts \in SUBSET U64, Begun(a, starts)
      PROVE  Begun(a, starts)'
  BY <1>1, <1>2, <1>5 DEF Begun
<1>6. WindowsInv'
  BY <1>5 DEF WindowsInv
<1>7. QED
  BY <1>3, <1>4, <1>6

\* A grant adds its amount to the spans of the agent that its time falls into, and to no other.
LEMMA GrantedSpan ==
    ASSUME IInv, HistoryInv, NEW id \in DecisionIds, NEW e \in Decision, Grants(id, e),
           grantedAt' = [grantedAt EXCEPT ![id] = timestamp],
           NEW a, NEW s \in Int, NEW t \in Int
    PROVE  Worth(a, s, t)' = IF a = e.agent /\ s <= timestamp /\ timestamp < t
                             THEN e.amount + Worth(a, s, t) ELSE Worth(a, s, t)
<1>1. /\ decision'[id] = e /\ grantedAt'[id] = timestamp /\ timestamp # None
      /\ \A i \in DecisionIds : i # id => decision'[i] = decision[i] /\ grantedAt'[i] = grantedAt[i]
      /\ grantedAt[id] = None
  BY TimeAssumption DEF Grants, HistoryInv, IInv, TypeOK
<1>2. id \notin Between(a, s, t)
  BY <1>1 DEF Between
<1>3. \A i \in Between(a, s, t) : decision'[i].amount = decision[i].amount
  BY <1>1 DEF Between
<1>4. CASE a = e.agent /\ s <= timestamp /\ timestamp < t
  <2>1. Between(a, s, t)' = Between(a, s, t) \cup {id}
    BY <1>1, <1>4 DEF Between
  <2>2. IsFiniteSet(Between(a, s, t)) /\ \A i \in Between(a, s, t) : Amounts[i] \in Nat
    BY AmountsOfApprovals
  <2>3. PICK S, f : S = Between(a, s, t) /\ f = Amounts'
    OBVIOUS
  <2>4. Amounts'[id] = e.amount /\ e.amount \in Nat
    BY <1>1, WidthAssumption DEF Amounts, Decision
  <2>5. \A i \in S : Amounts'[i] = Amounts[i]
    BY <1>3, <2>3 DEF Amounts, Between
  <2>6. IsFiniteSet(S \cup {id}) /\ \A i \in S \cup {id} : f[i] \in Nat
    BY <2>2, <2>3, <2>4, <2>5, FS_AddElement
  <2>7. Total(f, S \cup {id}) = f[id] + Total(f, (S \cup {id}) \ {id})
    BY <2>6, TotalSplit
  <2>8. (S \cup {id}) \ {id} = S
    BY <1>2, <2>3
  <2>9. Total(f, S) = Total(Amounts, S)
    BY <2>2, <2>3, <2>5, TotalSame
  <2>10. QED
    BY <1>4, <2>1, <2>3, <2>4, <2>7, <2>8, <2>9 DEF Worth
<1>5. CASE ~(a = e.agent /\ s <= timestamp /\ timestamp < t)
  <2>1. Between(a, s, t)' = Between(a, s, t)
    BY <1>1, <1>5 DEF Between
  <2>2. QED
    BY <1>3, <1>5, <2>1, SameSpan
<1>6. QED
  BY <1>4, <1>5

\* What the others spent is not touched.
LEMMA OtherAgents ==
    ASSUME IInv, HistoryInv, NEW id \in DecisionIds, NEW e \in Decision, Grants(id, e),
           grantedAt' = [grantedAt EXCEPT ![id] = timestamp], NEW b, b # e.agent, NEW s, NEW t
    PROVE  Worth(b, s, t)' = Worth(b, s, t)
<1>1. /\ decision'[id] = e /\ grantedAt[id] = None
      /\ \A i \in DecisionIds : i # id => decision'[i] = decision[i] /\ grantedAt'[i] = grantedAt[i]
  BY DEF Grants, HistoryInv, IInv, TypeOK
<1>2. Between(b, s, t)' = Between(b, s, t)
  BY <1>1 DEF Between
<1>3. \A i \in Between(b, s, t) : decision'[i].amount = decision[i].amount
  BY <1>1 DEF Between
<1>4. QED
  BY <1>2, <1>3, SameSpan

\* What a grant writes into the agent's window: the running one, or one that begins now, after
\* every approval so far.
LEMMA ChargeFacts ==
    ASSUME SteadyWindows, IInv, PolicyInv, HistoryInv, NEW id \in DecisionIds, NEW e \in Decision,
           Grants(id, e), NEW a, a = e.agent
    PROVE  /\ a \in Agents /\ Length(a) \in Nat /\ Length(a) > 0 /\ e.amount \in Nat
           /\ timestamp \in U64 /\ timestamp \in Nat
           /\ window'[a] \in WindowState /\ window'[a] # None
           /\ \A b \in Agents : b # a => window'[b] = window[b]
           /\ \E c \in Caps : c \in Int /\ window'[a].spent <= c
           /\ \/ /\ window[a] # None /\ window[a] \in WindowState
                 /\ window[a].window_start \in Nat /\ window[a].spent \in Int
                 /\ timestamp < window[a].window_start + Length(a)
                 /\ window[a].window_start <= timestamp
                 /\ window'[a].window_start = window[a].window_start
                 /\ window'[a].spent = window[a].spent + e.amount
              \/ /\ window[a] # None =>
                       /\ window[a].window_start \in Nat
                       /\ timestamp >= window[a].window_start + Length(a)
                 /\ window'[a].window_start = timestamp /\ window'[a].spent = e.amount
<1>1. PICK p : p = policy[a]
  OBVIOUS
<1>2. a \in Agents /\ p \in Policy /\ p.agent = a /\ ChargeFits(p, e.amount) /\ p # None
  BY <1>1, NoneAssumption DEF Grants, Decision
<1>3. PICK q \in PolicyArgs : /\ q.agent = a /\ q.window_seconds = p.window_seconds
                              /\ q.cumulative_window_cap = p.cumulative_window_cap
  BY <1>1, <1>2 DEF PolicyInv
<1>4. Length(a) = p.window_seconds /\ Length(a) \in Nat /\ Length(a) > 0
  BY <1>3, LengthOf
<1>5. e.amount \in 1 .. MaxI128 /\ e.amount \in Nat /\ timestamp \in U64 /\ timestamp \in Nat
  BY WidthAssumption DEF Decision, IInv, TypeOK, U64
<1>6. PICK w : w = ChargedWindow(p, e.amount)
  OBVIOUS
<1>7. w \in WindowState /\ w # None
  BY <1>2, <1>5, <1>6, ChargeTyped, NoneAssumption DEF IInv
<1>8. window'[a] = w /\ \A b \in Agents : b # a => window'[b] = window[b]
  BY <1>1, <1>2, <1>6 DEF Grants, IInv, TypeOK
<1>9. w.spent <= q.cumulative_window_cap /\ q.cumulative_window_cap \in Caps /\ q.cumulative_window_cap \in Int
  BY <1>2, <1>3, <1>6, ArgsAssumption DEF ChargeFits, Caps, Policy, I128
<1>10. window[a] # None =>
         /\ window[a] \in WindowState /\ window[a].window_start \in Nat /\ window[a].spent \in Int
         /\ window[a].window_start <= timestamp
  BY <1>2, WidthAssumption DEF IInv, TypeOK, HistoryInv, WindowState, U64, I128
<1>11. CASE IsLive(window[a], p)
  <2>1. window[a] # None /\ timestamp < window[a].window_start + Length(a)
    BY <1>4, <1>11 DEF IsLive, WindowEnd
  <2>2. w.window_start = window[a].window_start /\ w.spent = window[a].spent + e.amount
    BY <1>2, <1>6, <1>10, <1>11, <2>1 DEF ChargedWindow, WindowState
  <2>3. QED
    BY <1>2, <1>4, <1>5, <1>7, <1>8, <1>9, <1>10, <2>1, <2>2
<1>12. CASE ~IsLive(window[a], p)
  <2>1. window[a] # None => timestamp >= window[a].window_start + Length(a)
    BY <1>4, <1>5, <1>10, <1>12 DEF IsLive, WindowEnd
  <2>2. w.window_start = timestamp /\ w.spent = e.amount
    BY <1>2, <1>6, <1>12 DEF ChargedWindow
  <2>3. QED
    BY <1>2, <1>4, <1>5, <1>7, <1>8, <1>9, <1>10, <2>1, <2>2
<1>13. QED
  BY <1>11, <1>12

\* An approval falls before the end of the window it is charged to.
LEMMA GrantKeepsHistory ==
    ASSUME SteadyWindows, IInv, PolicyInv, HistoryInv, NEW id \in DecisionIds, NEW e \in Decision,
           Grants(id, e), grantedAt' = [grantedAt EXCEPT ![id] = timestamp]
    PROVE  HistoryInv'
<1>1. PICK a : a = e.agent
  OBVIOUS
<1>2. /\ a \in Agents /\ Length(a) \in Nat /\ Length(a) > 0 /\ timestamp \in U64 /\ timestamp \in Nat
      /\ window'[a] # None /\ window'[a].window_start \in Nat
      /\ \A b \in Agents : b # a => window'[b] = window[b]
      /\ window'[a].window_start <= timestamp /\ timestamp < window'[a].window_start + Length(a)
      /\ window[a] # None => window[a].window_start \in Nat /\ window[a].window_start <= window'[a].window_start
  BY <1>1, ChargeFacts
<1>3. /\ decision'[id] = e /\ grantedAt'[id] = timestamp /\ timestamp # None /\ e # None
      /\ \A i \in DecisionIds : i # id => decision'[i] = decision[i] /\ grantedAt'[i] = grantedAt[i]
      /\ timestamp' = timestamp
  BY TimeAssumption, NoneAssumption DEF Grants, HistoryInv, IInv, TypeOK
<1>4. grantedAt' \in [DecisionIds -> U64 \cup {None}]
  BY <1>2 DEF HistoryInv
<1>5. IsFiniteSet({i \in DecisionIds : grantedAt'[i] # None})
  <2>1. {i \in DecisionIds : grantedAt'[i] # None} = {i \in DecisionIds : grantedAt[i] # None} \cup {id}
    BY <1>3
  <2>2. IsFiniteSet({i \in DecisionIds : grantedAt[i] # None})
    BY DEF HistoryInv
  <2>3. QED
    BY <2>1, <2>2, FS_AddElement
<1>6. \A i \in DecisionIds : grantedAt'[i] # None <=> IsApproved(decision'[i])
  BY <1>3 DEF HistoryInv, Grants, IsApproved
<1>7. ASSUME NEW i \in DecisionIds, grantedAt'[i] # None
      PROVE  /\ grantedAt'[i] <= timestamp
             /\ window'[decision'[i].agent] # None
             /\ grantedAt'[i] < window'[decision'[i].agent].window_start + Length(decision'[i].agent)
  <2>1. CASE i = id
    BY <1>1, <1>2, <1>3, <2>1
  <2>2. CASE i # id
    <3>1. PICK b, g : b = decision[i].agent /\ g = grantedAt[i]
      OBVIOUS
    <3>2. decision[i] \in Decision /\ b \in Agents /\ g # None /\ g \in Nat
      BY <1>3, <1>7, <2>2, <3>1, WidthAssumption DEF HistoryInv, IsApproved, IInv, TypeOK, Decision, U64
    <3>3. g <= timestamp /\ window[b] # None /\ g < window[b].window_start + Length(b)
      BY <1>7, <1>3, <2>2, <3>1, <3>2 DEF HistoryInv
    <3>4. decision'[i].agent = b /\ grantedAt'[i] = g
      BY <1>3, <2>2, <3>1
    <3>5. QED
      BY <1>2, <3>2, <3>3, <3>4
  <2>3. QED
    BY <2>1, <2>2
<1>8. \A b \in Agents : window'[b] # None => window'[b].window_start <= timestamp
  BY <1>2 DEF HistoryInv
<1>9. QED
  BY <1>3, <1>4, <1>5, <1>6, <1>7, <1>8 DEF HistoryInv

\* Nothing was approved at or after the beginning of a window that begins now.
LEMMA NothingSince ==
    ASSUME HistoryInv, IInv, NEW a \in Agents, Length(a) \in Nat,
           window[a] # None => window[a].window_start \in Nat /\ timestamp >= window[a].window_start + Length(a),
           NEW t
    PROVE  Worth(a, timestamp, t) = 0
<1>1. ASSUME NEW i \in Between(a, timestamp, t)
      PROVE  FALSE
  <2>1. /\ i \in DecisionIds /\ grantedAt[i] # None /\ decision[i].agent = a /\ timestamp <= grantedAt[i]
        /\ grantedAt[i] \in Nat /\ timestamp \in Nat
    BY WidthAssumption DEF Between, HistoryInv, IInv, TypeOK, U64
  <2>2. window[a] # None /\ grantedAt[i] < window[a].window_start + Length(a)
    BY <2>1 DEF HistoryInv
  <2>3. QED
    BY <2>1, <2>2
<1>2. Between(a, timestamp, t) = {}
  BY <1>1
<1>3. QED
  BY <1>2, TotalOfNone DEF Worth

\* A charge in the window adds to the total, one after its end starts a new total.
LEMMA GrantKeepsAccounts ==
    ASSUME SteadyWindows, IInv, PolicyInv, HistoryInv, AccountsInv, NEW id \in DecisionIds, NEW e \in Decision,
           Grants(id, e), grantedAt' = [grantedAt EXCEPT ![id] = timestamp]
    PROVE  AccountsInv'
<1>1. PICK a : a = e.agent
  OBVIOUS
<1>2. /\ a \in Agents /\ Length(a) \in Nat /\ Length(a) > 0 /\ timestamp \in Nat /\ e.amount \in Nat
      /\ window'[a] \in WindowState /\ \A b \in Agents : b # a => window'[b] = window[b]
  BY <1>1, ChargeFacts
<1>3. ASSUME NEW s, NEW t, s = window'[a].window_start, t = s + Length(a)
      PROVE  window'[a].spent = Worth(a, s, t)'
  <2>1. CASE /\ window[a] # None
             /\ window[a].window_start \in Nat /\ window[a].spent \in Int
             /\ timestamp < window[a].window_start + Length(a)
             /\ window[a].window_start <= timestamp
             /\ s = window[a].window_start
             /\ window'[a].spent = window[a].spent + e.amount
    <3>1. s \in Int /\ t \in Int /\ s <= timestamp /\ timestamp < t
      BY <1>2, <1>3, <2>1
    <3>2. Worth(a, s, t)' = e.amount + Worth(a, s, t)
      BY <1>1, <3>1, GrantedSpan
    <3>3. window[a].spent = Worth(a, s, t)
      BY <1>2, <1>3, <2>1 DEF AccountsInv
    <3>4. QED
      BY <1>2, <2>1, <3>2, <3>3
  <2>2. CASE /\ window[a] # None =>
                   window[a].window_start \in Nat /\ timestamp >= window[a].window_start + Length(a)
             /\ s = timestamp /\ window'[a].spent = e.amount
    <3>1. s \in Int /\ t \in Int /\ s <= timestamp /\ timestamp < t
      BY <1>2, <1>3, <2>2
    <3>2. Worth(a, s, t)' = e.amount + Worth(a, s, t)
      BY <1>1, <3>1, GrantedSpan
    <3>3. Worth(a, s, t) = 0
      BY <1>2, <2>2, NothingSince
    <3>4. QED
      BY <1>2, <2>2, <3>2, <3>3
  <2>3. QED
    BY <1>1, <1>3, <2>1, <2>2, ChargeFacts
<1>4. ASSUME NEW b \in Agents, b # a, window[b] # None, NEW s, NEW t,
             s = window[b].window_start, t = s + Length(b)
      PROVE  window[b].spent = Worth(b, s, t)'
  <2>1. Worth(b, s, t)' = Worth(b, s, t)
    BY <1>1, <1>4, OtherAgents
  <2>2. QED
    BY <1>4, <2>1 DEF AccountsInv
<1>5. ASSUME NEW b \in Agents, window'[b] # None, NEW s, NEW t, s = window'[b].window_start, t = s + Length(b)
      PROVE  window'[b].spent = Worth(b, s, t)'
  BY <1>2, <1>3, <1>4, <1>5
<1>6. QED
  BY <1>5 DEF AccountsInv, Length

\* Which approvals there are after a grant.
LEMMA GrantFacts ==
    ASSUME IInv, HistoryInv, NEW id \in DecisionIds, NEW e \in Decision, Grants(id, e),
           grantedAt' = [grantedAt EXCEPT ![id] = timestamp]
    PROVE  /\ decision'[id] = e /\ grantedAt'[id] = timestamp /\ timestamp # None /\ timestamp' = timestamp
           /\ \A i \in DecisionIds : i # id => decision'[i] = decision[i] /\ grantedAt'[i] = grantedAt[i]
  BY TimeAssumption DEF Grants, HistoryInv, IInv, TypeOK

\* The windows of the other agents gain nothing.
LEMMA GrantKeepsOtherWindows ==
    ASSUME IInv, HistoryInv, NEW id \in DecisionIds, NEW e \in Decision, Grants(id, e),
           grantedAt' = [grantedAt EXCEPT ![id] = timestamp],
           NEW b \in Agents, b # e.agent, window'[b] = window[b], NEW starts, Begun(b, starts)
    PROVE  Begun(b, starts)'
<1>1. PICK t : t = [s \in starts |-> s + Length(b)]
  OBVIOUS
<1>2. \A s \in starts : Worth(b, s, t[s])' = Worth(b, s, t[s])
  BY OtherAgents
<1>3. \A s \in starts : \E c \in Caps : Worth(b, s, t[s])' <= c
  BY <1>1, <1>2 DEF Begun
<1>4. \A i \in DecisionIds : grantedAt'[i] # None /\ decision'[i].agent = b =>
          \E s \in starts : s <= grantedAt'[i] /\ grantedAt'[i] < s + Length(b)
  <2>1. ASSUME NEW i \in DecisionIds, grantedAt'[i] # None, decision'[i].agent = b
        PROVE  grantedAt'[i] = grantedAt[i] /\ decision[i].agent = b
    <3>1. i # id
      BY <2>1, GrantFacts
    <3>2. QED
      BY <2>1, <3>1, GrantFacts
  <2>2. QED
    BY <2>1 DEF Begun
<1>5. \A s \in starts : \E c \in Caps : Worth(b, s, s + Length(b))' <= c
  BY <1>1, <1>3 DEF Worth, Between, Length
<1>6. QED
  BY <1>4, <1>5 DEF Begun, Length, Caps

\* The window charged is within the cap of the policy in force, and a new one begins a length later.
LEMMA GrantKeepsWindows ==
    ASSUME SteadyWindows, IInv, PolicyInv, HistoryInv, AccountsInv, WindowsInv, AccountsInv',
           NEW id \in DecisionIds, NEW e \in Decision,
           Grants(id, e), grantedAt' = [grantedAt EXCEPT ![id] = timestamp]
    PROVE  WindowsInv'
<1>1. PICK a, L : a = e.agent /\ L = Length(e.agent)
  OBVIOUS
<1>2. /\ a \in Agents /\ L \in Nat /\ L > 0 /\ timestamp \in Nat /\ timestamp \in U64 /\ e.amount \in Nat
      /\ window'[a] \in WindowState /\ window'[a] # None
      /\ \A b \in Agents : b # a => window'[b] = window[b]
      /\ \E c \in Caps : window'[a].spent <= c
  BY <1>1, ChargeFacts
<1>3. PICK starts \in SUBSET U64 : Begun(a, starts)
  BY <1>2 DEF WindowsInv
<1>4. PICK now : now = window'[a].window_start
  OBVIOUS
<1>5. PICK after : after = starts \cup {now}
  OBVIOUS
<1>6. \/ /\ window[a] # None /\ now = window[a].window_start /\ now \in Nat
         /\ now <= timestamp /\ timestamp < now + L
      \/ /\ window[a] # None =>
               window[a].window_start \in Nat /\ timestamp >= window[a].window_start + L
         /\ now = timestamp
  BY <1>1, <1>4, ChargeFacts
<1>7. /\ now \in Nat /\ now <= timestamp /\ timestamp < now + L
      /\ after \in SUBSET U64
      /\ \A s \in starts : s \in Int
  <2>1. now \in U64
    BY <1>2, <1>4 DEF WindowState
  <2>2. now \in Nat /\ now <= timestamp /\ timestamp < now + L
    BY <1>2, <1>6
  <2>3. U64 \subseteq Int
    BY WidthAssumption DEF U64
  <2>4. QED
    BY <1>5, <2>1, <2>2, <2>3
<1>8. \A s \in starts : s # now => s + L <= now /\ s + L <= timestamp
  <2>1. SUFFICES ASSUME NEW s \in starts, s # now PROVE s + L <= now
    BY <1>2, <1>7
  <2>2. window[a] # None /\ s <= window[a].window_start /\ window[a].window_start \in starts
    BY <1>3 DEF Begun
  <2>3. s < window[a].window_start => s + L <= window[a].window_start
    BY <1>1, <1>3, <2>2 DEF Begun
  <2>4. QED
    BY <1>2, <1>6, <1>7, <2>1, <2>2, <2>3
<1>9. \A s, t \in after : s < t => s + L <= t
  <2>1. \A s, t \in starts : s < t => s + L <= t
    BY <1>1, <1>3 DEF Begun
  <2>2. ASSUME NEW s \in after, NEW t \in after, s < t
        PROVE  s + L <= t
    <3>1. s \in Int /\ t \in Int /\ now \in Int /\ L \in Int /\ L > 0
      <4>1. \A x \in after : x \in Int
        BY <1>5, <1>7
      <4>2. QED
        BY <1>2, <1>7, <4>1
    <3>2. CASE s = now
      <4>1. t \in starts /\ t # now
        BY <1>5, <2>2, <3>1, <3>2
      <4>2. t + L <= now
        BY <1>8, <4>1
      <4>3. QED
        BY <2>2, <3>1, <3>2, <4>2
    <3>3. CASE s # now /\ t = now
      <4>1. s \in starts
        BY <1>5, <3>3
      <4>2. QED
        BY <1>8, <3>3, <4>1
    <3>4. CASE s # now /\ t # now
      BY <1>5, <2>1, <2>2, <3>4
    <3>5. QED
      BY <3>2, <3>3, <3>4
  <2>3. QED
    BY <2>2
<1>10. ASSUME NEW i \in DecisionIds, grantedAt'[i] # None, decision'[i].agent = a
       PROVE  \E s \in after : s <= grantedAt'[i] /\ grantedAt'[i] < s + L
  <2>1. CASE i = id
    BY <1>5, <1>7, <2>1, GrantFacts
  <2>2. CASE i # id
    <3>1. grantedAt'[i] = grantedAt[i] /\ decision'[i] = decision[i]
      BY <2>2, GrantFacts
    <3>2. \E s \in starts : s <= grantedAt[i] /\ grantedAt[i] < s + L
      BY <1>1, <1>3, <1>10, <3>1 DEF Begun
    <3>3. QED
      BY <1>5, <3>1, <3>2
  <2>3. QED
    BY <2>1, <2>2
<1>11. ASSUME NEW s \in after, NEW t, t = s + L
       PROVE  \E c \in Caps : Worth(a, s, t)' <= c
  <2>1. CASE s = now
    <3>1. window'[a].spent = Worth(a, s, t)'
      BY <1>1, <1>2, <1>4, <1>11, <2>1 DEF AccountsInv, Length
    <3>2. QED
      BY <1>2, <3>1
  <2>2. CASE s # now
    <3>1. s \in starts /\ s \in Int /\ t \in Int /\ t <= timestamp
      <4>1. s \in starts
        BY <1>5, <2>2
      <4>2. s \in Int
        BY <1>7, <4>1
      <4>3. L \in Int
        BY <1>2
      <4>4. s + L <= timestamp
        BY <1>8, <2>2, <4>1
      <4>5. QED
        BY <1>11, <4>1, <4>2, <4>3, <4>4
    <3>2. Worth(a, s, t)' = Worth(a, s, t)
      <4>1. ~(timestamp < t)
        BY <1>2, <3>1
      <4>2. QED
        BY <3>1, <4>1, GrantedSpan
    <3>3. \E c \in Caps : Worth(a, s, t) <= c
      BY <1>1, <1>3, <1>11, <3>1 DEF Begun
    <3>4. QED
      BY <3>2, <3>3
  <2>3. QED
    BY <2>1, <2>2
<1>12. ASSUME NEW s \in after
       PROVE  s <= now
  <2>1. CASE s = now
    BY <1>7, <2>1
  <2>2. CASE s # now
    <3>1. s \in starts
      BY <1>5, <2>2
    <3>2. s \in Int /\ s + L <= now
      BY <1>7, <1>8, <2>2, <3>1
    <3>3. QED
      BY <1>2, <1>7, <3>2
  <2>3. QED
    BY <2>1, <2>2
<1>13. Begun(a, after)'
  <2>1. \A s \in after : \E c \in Caps : Worth(a, s, s + L)' <= c
    BY <1>11
  <2>2. window'[a].window_start \in after /\ window'[a] # None
    BY <1>2, <1>4, <1>5
  <2>3. \A s \in after : s <= window'[a].window_start
    BY <1>4, <1>12
  <2>4. \A i \in DecisionIds : grantedAt'[i] # None /\ decision'[i].agent = a =>
          \E s \in after : s <= grantedAt'[i] /\ grantedAt'[i] < s + L
    BY <1>10
  <2>5. L = Length(a)
    BY <1>1
  <2>6. QED
    BY <1>9, <2>1, <2>2, <2>3, <2>4, <2>5 DEF Begun, Length, Caps
<1>14. ASSUME NEW b \in Agents, b # a
       PROVE  \E others \in SUBSET U64 : Begun(b, others)'
  <2>1. PICK others \in SUBSET U64 : Begun(b, others)
    BY DEF WindowsInv
  <2>2. Begun(b, others)'
    BY <1>1, <1>2, <1>14, <2>1, GrantKeepsOtherWindows
  <2>3. QED
    BY <2>2
<1>15. \A b \in Agents : \E others \in SUBSET U64 : Begun(b, others)'
  BY <1>7, <1>13, <1>14
<1>16. QED
  BY <1>15 DEF WindowsInv

-----------------------------------------------------------------------------
(* The inductive invariant.                                                 *)

\* Nothing is approved at first.
LEMMA AuditStarts == AuditInit => AuditInv
<1>1. SUFFICES ASSUME AuditInit PROVE AuditInv
  OBVIOUS
<1>2. IInv /\ Init
  BY <1>1, IInvInductive DEF AuditInit
<1>3. PolicyInv /\ AccountsInv
  BY <1>2 DEF Init, PolicyInv, AccountsInv
<1>4. HistoryInv
  <2>1. {id \in DecisionIds : grantedAt[id] # None} = {}
    BY <1>1 DEF AuditInit
  <2>2. QED
    BY <1>1, <1>2, <2>1, FS_EmptySet DEF AuditInit, Init, HistoryInv, IsApproved
<1>5. WindowsInv
  <2>1. \A a \in Agents : Begun(a, {})
    BY <1>1, <1>2 DEF AuditInit, Init, Begun
  <2>2. QED
    BY <2>1 DEF WindowsInv
<1>6. QED
  BY <1>2, <1>3, <1>4, <1>5 DEF AuditInv

\* Every step, audited, keeps the invariant.
LEMMA AuditKeeps == ASSUME SteadyWindows PROVE AuditInv /\ [AuditNext]_auditVars => AuditInv'
<1>1. SUFFICES ASSUME AuditInv, [AuditNext]_auditVars PROVE AuditInv'
  OBVIOUS
<1>2. [Next]_vars
  BY <1>1 DEF AuditNext, auditVars
<1>3. IInv' /\ PolicyInv'
  BY <1>1, <1>2, IInvInductive, PolicyKeeps DEF AuditInv
<1>4. CASE Quiet /\ grantedAt' = grantedAt
  BY <1>1, <1>3, <1>4, QuietKeeps DEF AuditInv
<1>5. ASSUME NEW id \in DecisionIds, NEW e \in Decision, Grants(id, e),
             grantedAt' = [grantedAt EXCEPT ![id] = timestamp]
      PROVE  AuditInv'
  <2>1. HistoryInv'
    BY <1>1, <1>5, GrantKeepsHistory DEF AuditInv
  <2>2. AccountsInv'
    BY <1>1, <1>5, GrantKeepsAccounts DEF AuditInv
  <2>3. WindowsInv'
    BY <1>1, <1>5, <2>2, GrantKeepsWindows DEF AuditInv
  <2>4. QED
    BY <1>3, <2>1, <2>2, <2>3 DEF AuditInv
<1>6. QED
  BY <1>1, <1>4, <1>5, AuditKinds DEF AuditInv

\* The inductive invariant of the audited contract, for agents that keep one window length.
THEOREM AuditHolds == ASSUME SteadyWindows PROVE AuditSpec => []AuditInv
  BY AuditStarts, AuditKeeps, PTL DEF AuditSpec

\* What was granted since the window began is what it is worth.
LEMMA SumSince ==
    ASSUME IInv, HistoryInv, NEW a \in Agents, window[a] # None
    PROVE  GrantedSum(a, window[a].window_start)
             = Worth(a, window[a].window_start, window[a].window_start + Length(a))
<1>1. PICK s, t : s = window[a].window_start /\ t = window[a].window_start + Length(a)
  OBVIOUS
<1>2. GrantedSince(a, s) = Between(a, s, t)
  <2>1. \A id \in DecisionIds : grantedAt[id] # None /\ grantedAt[id] >= s /\ decision[id].agent = a =>
          s <= grantedAt[id] /\ grantedAt[id] < t
    BY <1>1, WidthAssumption DEF HistoryInv, IInv, TypeOK, WindowState, U64
  <2>2. \A id \in DecisionIds : grantedAt[id] # None /\ s <= grantedAt[id] => grantedAt[id] >= s
    BY <1>1, WidthAssumption DEF HistoryInv, IInv, TypeOK, WindowState, U64
  <2>3. QED
    BY <2>1, <2>2 DEF GrantedSince, Between
<1>3. GrantedSum(a, s) = Total(Amounts, Between(a, s, t))
  <2>1. Between(a, s, t) \in SUBSET DecisionIds
    BY DEF Between
  <2>2. GrantedSum(a, s) = MapThenSumSet(LAMBDA id : decision[id].amount, Between(a, s, t))
    BY <1>2 DEF GrantedSum
  <2>3. QED
    BY <2>1, <2>2, SumIsTotal
<1>4. QED
  BY <1>1, <1>3 DEF Worth

\* What the contract keeps of the history, one running total and the time its window began, is
\* what an auditor who saw every approval would have computed.
THEOREM TotalIsTheHistory == ASSUME SteadyWindows PROVE AuditSpec => []WindowAccounts
<1>1. AuditInv => WindowAccounts
  BY SumSince DEF AuditInv, AccountsInv, WindowAccounts
<1>2. QED
  BY <1>1, AuditHolds, PTL

\* At the step that approves, the approvals of the running window, this one among them, are
\* within the cap of the policy in force.
THEOREM BudgetHolds == ASSUME SteadyWindows PROVE AuditSpec => BudgetHoldsAtGrant
<1> DEFINE Act ==
      \A a \in Agents :
          (\E id \in DecisionIds : ~IsApproved(decision[id]) /\ IsApproved(decision[id])'
                                   /\ decision'[id].agent = a)
            => GrantedSum(a, window[a].window_start)' <= policy[a].cumulative_window_cap
<1>1. AuditInv /\ WindowAccounts' /\ [AuditNext]_auditVars => [Act]_auditVars
  <2> SUFFICES ASSUME AuditInv, WindowAccounts', [AuditNext]_auditVars, NEW a \in Agents, NEW id \in DecisionIds,
                      ~IsApproved(decision[id]), IsApproved(decision'[id]), decision'[id].agent = a
               PROVE  GrantedSum(a, window[a].window_start)' <= policy[a].cumulative_window_cap
    OBVIOUS
  <2>1. ~Quiet
    BY DEF Quiet
  <2>2. PICK i \in DecisionIds, e \in Decision :
          Grants(i, e) /\ grantedAt' = [grantedAt EXCEPT ![i] = timestamp]
    BY <2>1, AuditKinds DEF AuditInv
  <2>3. i = id /\ a = e.agent
    BY <2>2, GrantFacts DEF AuditInv
  <2>4. window'[a] # None
    BY <2>2, <2>3, ChargeFacts DEF AuditInv
  <2>5. window'[a] = ChargedWindow(policy[a], e.amount) /\ ChargeFits(policy[a], e.amount)
    BY <2>2, <2>3 DEF Grants, AuditInv, IInv, TypeOK
  <2>6. window'[a].spent <= policy[a].cumulative_window_cap
    BY <2>5 DEF ChargeFits
  <2>7. window'[a].spent = GrantedSum(a, window[a].window_start)'
    BY <2>4 DEF WindowAccounts
  <2>8. QED
    BY <2>6, <2>7
<1>2. AuditSpec => [][AuditNext]_auditVars
  BY PTL DEF AuditSpec
<1>3. QED
  BY <1>1, <1>2, AuditHolds, TotalIsTheHistory, PTL DEF BudgetHoldsAtGrant

-----------------------------------------------------------------------------
(* What tumbling costs.                                                     *)

\* The caps are finitely many, as the i128s are, so one is the largest.
LEMMA MaxOfCaps == /\ Max(Caps) \in Caps /\ Caps \subseteq Int
                   /\ \A c \in Caps : c <= Max(Caps)
<1> DEFINE Above(x) == {y \in Caps : y > x}
           T == {Above(x) : x \in Caps}
<1>1. Caps \subseteq I128 /\ Caps \subseteq Int /\ 0 \in Caps
  BY ArgsAssumption, WidthAssumption DEF Caps, Policy, I128
<1>2. IsFiniteSet(Caps)
  <2>1. IsFiniteSet(I128)
    BY FS_Interval, WidthAssumption DEF I128
  <2>2. QED
    BY <1>1, <2>1, FS_Subset
<1>3. PICK s \in T : \A t \in T : ~(t \subseteq s /\ t # s)
  <2>1. T \subseteq SUBSET Caps /\ T # {}
    BY <1>1
  <2> HIDE DEF T
  <2>2. QED
    BY <1>2, <2>1, MinimalSubset
<1>4. PICK x \in Caps : s = Above(x)
  OBVIOUS
<1>5. ASSUME NEW y \in Caps, y > x
      PROVE  FALSE
  <2>1. x \in Int /\ y \in Int /\ y > x /\ ~(y > y)
    BY <1>1, <1>5
  <2>2. Above(y) \in T
    OBVIOUS
  <2>3. y \in s /\ y \notin Above(y)
    BY <1>4, <2>1
  <2>4. Above(y) \subseteq s
    <3>1. \A z \in Caps : z > y => z > x
      BY <1>1, <2>1
    <3>2. QED
      BY <1>4, <3>1
  <2> HIDE DEF T, Above
  <2>5. QED
    BY <1>3, <2>2, <2>3, <2>4
<1>6. \A y \in Caps : x >= y
  BY <1>1, <1>5
<1>7. Max(Caps) \in Caps /\ \A y \in Caps : Max(Caps) >= y
  BY <1>6 DEF Max
<1>8. QED
  BY <1>1, <1>7

\* Of three windows one does not meet a span of their length.
LEMMA TwoMeet ==
    ASSUME NEW L \in Int, L > 0, NEW t \in Int, NEW x \in Int, NEW y \in Int, NEW z \in Int,
           x < t + L, y < t + L, z < t + L, t < x + L, t < y + L, t < z + L,
           x + L <= y \/ y + L <= x, x + L <= z \/ z + L <= x, y + L <= z \/ z + L <= y
    PROVE  FALSE
  OBVIOUS

\* A span of one length holds no more than two caps.
LEMMA SpanIsBounded ==
    ASSUME AuditInv, NEW a \in Agents, NEW L \in Nat, L = Length(a), L > 0, NEW t \in Nat
    PROVE  Worth(a, t, t + L) <= 2 * Max(Caps)
<1>1. PICK S, M : S = Between(a, t, t + L) /\ M = Max(Caps)
  OBVIOUS
<1>2. M \in Int /\ 0 <= M /\ \A c \in Caps : c \in Int /\ c <= M
  BY <1>1, MaxOfCaps DEF Caps
<1>3. PICK starts \in SUBSET U64 : Begun(a, starts)
  BY DEF AuditInv, WindowsInv
<1>4. /\ \A s \in starts : s \in Int
      /\ \A i \in S : i \in DecisionIds /\ grantedAt[i] # None /\ grantedAt[i] \in Int
      /\ \A i \in S : decision[i].agent = a /\ t <= grantedAt[i] /\ grantedAt[i] < t + L
  <2>1. U64 \subseteq Int
    BY WidthAssumption DEF U64
  <2>2. QED
    BY <1>1, <2>1 DEF Between, AuditInv, HistoryInv
<1>5. \A i \in S : \E s \in starts : i \in Between(a, s, s + L)
  BY <1>1, <1>3, <1>4 DEF Begun, Between
<1>6. \A i \in S : \A s \in starts : i \in Between(a, s, s + L) => s < t + L /\ t < s + L
  BY <1>4 DEF Between
<1>7. \A x, y \in starts : x # y => x + L <= y \/ y + L <= x
  BY <1>3, <1>4 DEF Begun
<1>8. ASSUME NEW s \in starts
      PROVE  /\ Worth(a, s, s + L) \in Nat /\ Worth(a, s, s + L) <= M /\ IsFiniteSet(Between(a, s, s + L))
             /\ \A i \in Between(a, s, s + L) : Amounts[i] \in Nat
  <2>1. IsFiniteSet(Between(a, s, s + L)) /\ \A i \in Between(a, s, s + L) : Amounts[i] \in Nat
    BY AmountsOfApprovals DEF AuditInv
  <2>2. Worth(a, s, s + L) \in Nat
    BY <2>1, TotalNat DEF Worth
  <2>3. PICK c \in Caps : Worth(a, s, s + L) <= c
    BY <1>3 DEF Begun
  <2>4. QED
    BY <1>2, <2>1, <2>2, <2>3
<1>9. IsFiniteSet(S) /\ \A i \in S : Amounts[i] \in Nat
  BY <1>1, AmountsOfApprovals DEF AuditInv
<1>10. CASE S = {}
  <2>1. Worth(a, t, t + L) = 0
    BY <1>1, <1>10, TotalOfNone DEF Worth
  <2>2. 0 <= 2 * M
    BY <1>2
  <2>3. QED
    BY <1>1, <2>1, <2>2
<1>11. CASE S # {}
  <2>1. PICK i \in S : TRUE
    BY <1>11
  <2>2. PICK x \in starts : i \in Between(a, x, x + L)
    BY <1>5
  <2>3. \E y \in starts : S \subseteq Between(a, x, x + L) \cup Between(a, y, y + L)
    <3>1. CASE S \subseteq Between(a, x, x + L)
      BY <3>1
    <3>2. CASE ~(S \subseteq Between(a, x, x + L))
      <4>1. PICK j \in S : j \notin Between(a, x, x + L)
        BY <3>2
      <4>2. PICK y \in starts : j \in Between(a, y, y + L)
        BY <1>5
      <4>3. ASSUME NEW k \in S, k \notin Between(a, x, x + L), k \notin Between(a, y, y + L)
            PROVE  FALSE
        <5>1. PICK z \in starts : k \in Between(a, z, z + L)
          BY <1>5
        <5>2. x # y /\ x # z /\ y # z
          BY <4>1, <4>2, <4>3, <5>1
        <5>3. /\ x < t + L /\ y < t + L /\ z < t + L
              /\ t < x + L /\ t < y + L /\ t < z + L
          BY <1>6, <2>1, <2>2, <4>1, <4>2, <4>3, <5>1
        <5>4. QED
          BY <1>4, <1>7, <5>2, <5>3, TwoMeet
      <4>4. QED
        BY <4>2, <4>3
    <3>3. QED
      BY <3>1, <3>2
  <2>4. PICK y \in starts : S \subseteq Between(a, x, x + L) \cup Between(a, y, y + L)
    BY <2>3
  <2>5. PICK X, Y : X = Between(a, x, x + L) /\ Y = Between(a, y, y + L)
    OBVIOUS
  <2>6. /\ IsFiniteSet(X) /\ IsFiniteSet(Y) /\ IsFiniteSet(X \cup Y)
        /\ \A k \in X \cup Y : Amounts[k] \in Nat
    BY <1>8, <2>5, FS_Union
  <2>7. Total(Amounts, S) <= Total(Amounts, X \cup Y)
    BY <2>4, <2>5, <2>6, TotalOfSubset
  <2>8. Total(Amounts, X \cup Y) <= Total(Amounts, X) + Total(Amounts, Y)
    BY <2>6, TotalOfUnion
  <2>9. /\ Total(Amounts, X) \in Nat /\ Total(Amounts, X) <= M
        /\ Total(Amounts, Y) \in Nat /\ Total(Amounts, Y) <= M
    BY <1>8, <2>5 DEF Worth
  <2>10. Total(Amounts, S) \in Nat /\ Total(Amounts, X \cup Y) \in Nat
    BY <1>9, <2>6, TotalNat
  <2>11. Total(Amounts, S) <= 2 * M
    BY <1>2, <2>7, <2>8, <2>9, <2>10
  <2>12. QED
    BY <1>1, <2>11 DEF Worth
<1>12. QED
  BY <1>10, <1>11

\* Any span of one window length, wherever it begins, holds approvals worth at most twice the
\* largest cap that was ever given.
THEOREM SpansAreBounded == ASSUME SteadyWindows PROVE AuditSpec => []TumblingBound
<1>1. ASSUME AuditInv, NEW p \in PolicyArgs, NEW t \in U64
      PROVE  MapThenSumSet(LAMBDA id : decision[id].amount,
                {id \in GrantedSince(p.agent, t) : grantedAt[id] < t + p.window_seconds}) <= 2 * Max(Caps)
  <2>1. PICK a, L : a = p.agent /\ L = p.window_seconds
    OBVIOUS
  <2>2. a \in Agents /\ L = Length(a) /\ L \in Nat /\ L > 0 /\ t \in Nat
    BY <2>1, LengthOf, ArgsAssumption, WidthAssumption DEF Policy, U64
  <2>3. {id \in GrantedSince(a, t) : grantedAt[id] < t + L} = Between(a, t, t + L)
    <3>1. \A id \in DecisionIds : grantedAt[id] # None => (grantedAt[id] >= t <=> t <= grantedAt[id])
      BY <2>2, WidthAssumption DEF AuditInv, HistoryInv, U64
    <3>2. QED
      BY <3>1 DEF GrantedSince, Between
  <2>4. Between(a, t, t + L) \in SUBSET DecisionIds
    BY DEF Between
  <2>5. MapThenSumSet(LAMBDA id : decision[id].amount, Between(a, t, t + L)) = Worth(a, t, t + L)
    BY <2>4, SumIsTotal DEF Worth
  <2>6. Worth(a, t, t + L) <= 2 * Max(Caps)
    BY <1>1, <2>2, SpanIsBounded
  <2>7. QED
    BY <2>1, <2>3, <2>5, <2>6
<1>2. AuditInv => TumblingBound
  BY <1>1 DEF TumblingBound, Caps
<1>3. QED
  BY <1>2, AuditHolds, PTL

-----------------------------------------------------------------------------
(* No request is left without an answer.                                    *)

\* No window begins in the future or was overspent under the policy that charged it.
ChargedInv ==
    /\ timestamp <= MaxTime
    /\ \A a \in Agents : window[a] # None =>
          /\ window[a].window_start <= timestamp
          /\ \E q \in PolicyArgs : q.agent = a /\ window[a].spent <= q.cumulative_window_cap

\* No ledger closes after the last one.
LEMMA ClockKeeps ==
    ASSUME IInv, timestamp <= MaxTime, [Next]_vars
    PROVE  timestamp' <= MaxTime
<1>1. timestamp \in Nat /\ MaxTime \in Nat
  BY WidthAssumption DEF IInv, TypeOK, U64
<1>2. timestamp' = timestamp \/ timestamp' \in (timestamp + 1) .. MaxTime
  BY StepKinds DEF Quiet, Grants
<1>3. QED
  BY <1>1, <1>2

\* A charge is bounded by the cap of a policy that was given.
LEMMA ChargedKeeps == ASSUME IInv, PolicyInv, ChargedInv, [Next]_vars PROVE ChargedInv'
<1>1. timestamp' <= MaxTime /\ timestamp \in Nat /\ MaxTime \in Nat
  BY ClockKeeps, WidthAssumption DEF ChargedInv, IInv, TypeOK, U64
<1>2. \A a \in Agents : window[a] # None => window[a].window_start \in Int
  BY WidthAssumption DEF IInv, TypeOK, WindowState, U64
<1>3. CASE Quiet
  BY <1>1, <1>2, <1>3 DEF Quiet, ChargedInv
<1>4. ASSUME NEW id \in DecisionIds, NEW e \in Decision, Grants(id, e)
      PROVE  ChargedInv'
  <2>1. PICK a, p : a = e.agent /\ p = policy[e.agent]
    OBVIOUS
  <2>2. /\ a \in Agents /\ p \in Policy /\ p.agent = a /\ p # None /\ ChargeFits(p, e.amount)
        /\ window' = [window EXCEPT ![a] = ChargedWindow(p, e.amount)] /\ timestamp' = timestamp
    BY <1>4, <2>1, NoneAssumption DEF Grants, Decision
  <2>3. PICK q \in PolicyArgs : q.agent = a /\ q.cumulative_window_cap = p.cumulative_window_cap
    BY <2>1, <2>2 DEF PolicyInv
  <2>4. PICK w : w = ChargedWindow(p, e.amount)
    OBVIOUS
  <2>5. w.spent <= q.cumulative_window_cap
    BY <2>2, <2>3, <2>4 DEF ChargeFits
  <2>6. w.window_start <= timestamp
    <3>1. CASE IsLive(window[a], p)
      <4>1. window[a] # None /\ window[a] \in WindowState
        BY <2>2, <3>1 DEF IsLive, IInv, TypeOK
      <4>2. w.window_start = window[a].window_start
        BY <2>2, <2>4, <3>1, <4>1 DEF ChargedWindow, WindowState
      <4>3. QED
        BY <2>2, <4>1, <4>2 DEF ChargedInv
    <3>2. CASE ~IsLive(window[a], p)
      BY <1>1, <2>2, <2>4, <3>2 DEF ChargedWindow
    <3>3. QED
      BY <3>1, <3>2
  <2>7. window'[a] = w /\ \A b \in Agents : b # a => window'[b] = window[b]
    BY <2>2, <2>4 DEF IInv, TypeOK
  <2>8. QED
    BY <1>1, <2>2, <2>3, <2>5, <2>6, <2>7 DEF ChargedInv
<1>5. QED
  BY <1>3, <1>4, StepKinds

\* Where there is room, neither addition of the window rule overflows.
LEMMA RoomAnswers ==
    ASSUME IInv, PolicyInv, ChargedInv, NEW r \in Requests, policy[r.agent] # None,
           HasRoom(policy[r.agent])
    PROVE  ~EvaluateTraps(policy[r.agent], r)
<1>1. PICK a, p : a = r.agent /\ p = policy[r.agent]
  OBVIOUS
<1>2. /\ a \in Agents /\ r.amount \in Int /\ r.amount <= MaxI128 /\ MaxI128 \in Nat /\ MaxU64 \in Nat
      /\ p \in Policy /\ p.agent = a
  BY <1>1, ArgsAssumption, WidthAssumption DEF Request, I128, IInv, TypeOK, AgentsStayRegistered
<1>3. PICK q \in PolicyArgs : /\ q.agent = a /\ q.window_seconds = p.window_seconds
                              /\ q.per_intent_cap = p.per_intent_cap
  BY <1>1 , <1>2 DEF PolicyInv
<1>4. p.window_seconds \in Nat /\ p.per_intent_cap \in Int
  BY <1>2, WidthAssumption DEF Policy, U64, I128
<1>5. ASSUME window[a] # None
      PROVE  WindowEnd(window[a], p) <= MaxU64 /\ window[a].spent \in Int
             /\ window[a].spent + p.per_intent_cap <= MaxI128
  <2>1. window[a].window_start \in Nat /\ window[a].spent \in Int /\ window[a].window_start <= timestamp
    BY <1>2, <1>5, WidthAssumption DEF IInv, TypeOK, WindowState, U64, I128, ChargedInv
  <2>2. timestamp \in Nat /\ timestamp <= MaxTime /\ MaxTime \in Nat
    BY WidthAssumption DEF ChargedInv, IInv, TypeOK, U64
  <2>3. MaxTime + p.window_seconds <= MaxU64
    BY <1>1 DEF HasRoom
  <2>4. PICK c \in PolicyArgs : c.agent = a /\ window[a].spent <= c.cumulative_window_cap
    BY <1>2, <1>5 DEF ChargedInv
  <2>5. c.cumulative_window_cap + p.per_intent_cap <= MaxI128 /\ c.cumulative_window_cap \in Int
    BY <1>1, <1>2, <2>4, ArgsAssumption DEF HasRoom, Policy, I128
  <2>6. WindowEnd(window[a], p) <= MaxU64
    BY <1>2, <1>4, <2>1, <2>2, <2>3 DEF WindowEnd
  <2>7. window[a].spent + p.per_intent_cap <= MaxI128
    BY <1>2, <1>4, <2>1, <2>4, <2>5
  <2>8. QED
    BY <2>1, <2>6, <2>7
<1>6. ASSUME FirstRefusal(p, r) = "Ok"
      PROVE  r.amount <= p.per_intent_cap
  BY <1>2, <1>4, <1>6 DEF FirstRefusal
<1>7. WindowEnd(window[a], p) \in Int \/ window[a] = None
  BY <1>2, <1>4, WidthAssumption DEF WindowEnd, IInv, TypeOK, WindowState, U64
<1>8. FirstRefusal(p, r) = "Ok" => WindowSpent(p) + r.amount <= MaxI128 /\ WindowSpent(p) + r.amount \in Int
  BY <1>2, <1>4, <1>5, <1>6 DEF WindowSpent, IsLive
<1>9. ~EvaluateTraps(p, r)
  BY <1>2, <1>5, <1>7, <1>8 DEF EvaluateTraps
<1>10. QED
  BY <1>1, <1>9

\* Whatever the amount, the largest i128 among them, authorize() and resolve() answer with a reason
\* and never with a trap while the policy in force has room, under whatever policies the window was
\* charged before.
THEOREM RequestsAreAnswered == Spec => []EveryRequestIsAnswered
<1>1. Init => IInv /\ PolicyInv /\ ChargedInv
  BY IInvInductive, WidthAssumption DEF Init, PolicyInv, ChargedInv
<1>2. IInv /\ PolicyInv /\ ChargedInv /\ [Next]_vars => (IInv /\ PolicyInv /\ ChargedInv)'
  BY IInvInductive, PolicyKeeps, ChargedKeeps
<1>3. IInv /\ PolicyInv /\ ChargedInv => EveryRequestIsAnswered
  BY RoomAnswers DEF EveryRequestIsAnswered
<1>4. QED
  BY <1>1, <1>2, <1>3, PTL DEF Spec
=============================================================================
