--------------------------- MODULE KeyedMutexProofs ---------------------------
(***************************************************************************)
(* For every number of calls and every set of signing accounts: the        *)
(* promise chains of KeyedMutex keep one call of a key running at a time   *)
(* and serve each key in order of arrival.                                 *)
(***************************************************************************)
EXTENDS KeyedMutex, TLAPS

Chained == \A c \in Calls :
    /\ previous[c] < c
    /\ state[c] # "absent" <=> c <= arrived
    /\ state[c] # "absent" => key[c] \in Keys
    /\ previous[c] # 0 => previous[c] \in Calls /\ key[previous[c]] = key[c]

TailsKnown == \A k \in Keys :
    tails[k] # 0 => tails[k] \in Calls /\ tails[k] <= arrived /\ key[tails[k]] = k

Unkeyed == \A c \in Calls : state[c] = "absent" => key[c] = "None" /\ previous[c] = 0

IInv == TypeOK /\ Chained /\ TailsKnown /\ Unkeyed /\ TailIsLast /\ PreviousIsLast /\ ServedInOrder

USE MutexAssumption DEF Calls

LEMMA InitIInv == Init => IInv
  BY DEF Init, IInv, TypeOK, Chained, TailsKnown, Unkeyed, TailIsLast, PreviousIsLast,
         ServedInOrder, Before

(* A new call waits behind the map's entry, and nothing it waits for is missed. *)
LEMMA RunKeeps == ASSUME IInv, NEW k \in Keys, Run(k) PROVE IInv'
<1>1. TypeOK'  BY DEF Run, IInv, TypeOK
<1>2. Chained'
  <2> SUFFICES ASSUME NEW c \in Calls
      PROVE  /\ previous'[c] < c
             /\ state'[c] # "absent" <=> c <= arrived'
             /\ state'[c] # "absent" => key'[c] \in Keys
             /\ previous'[c] # 0 => previous'[c] \in Calls /\ key'[previous'[c]] = key'[c]
    BY DEF Chained
  <2>1. CASE c = arrived + 1
    BY <2>1 DEF Run, IInv, TypeOK, Chained, TailsKnown
  <2>2. CASE c # arrived + 1
    BY <2>2 DEF Run, IInv, TypeOK, Chained, Unkeyed
  <2> QED  BY <2>1, <2>2
<1>3. TailsKnown'  BY DEF Run, IInv, TypeOK, TailsKnown, Chained
<1>4. Unkeyed'  BY DEF Run, IInv, TypeOK, Unkeyed
<1>5. TailIsLast'
  BY DEF Run, IInv, TypeOK, TailIsLast, Unkeyed, Chained
<1>6. PreviousIsLast'
  BY DEF Run, IInv, TypeOK, PreviousIsLast, TailIsLast, Unkeyed, Chained, Before
<1>7. ServedInOrder'
  BY DEF Run, IInv, TypeOK, ServedInOrder, Unkeyed, Chained, Before
<1> QED  BY <1>1, <1>2, <1>3, <1>4, <1>5, <1>6, <1>7 DEF IInv

(* Everything ahead of a call whose predecessor has settled has ended. *)
LEMMA NothingAhead ==
    ASSUME IInv, NEW c \in Calls, state[c] # "absent", Settled(previous[c]), NEW b \in Before(c, key[c])
    PROVE  state[b] = "done"
<1>1. b \in Calls /\ b < c /\ key[b] = key[c]  BY DEF Before
<1>2. b <= previous[c] \/ (previous[c] = 0 /\ state[b] = "done")
  BY DEF IInv, PreviousIsLast
<1>3. CASE previous[c] = 0  BY <1>1, <1>2, <1>3 DEF IInv, TypeOK
<1>4. CASE previous[c] # 0
  <2> DEFINE p == previous[c]
  <2>1. p \in Calls /\ key[p] = key[c] /\ state[p] = "done"
    BY <1>4 DEF IInv, Chained, Settled
  <2>2. CASE b = p  BY <2>1, <2>2
  <2>3. CASE b < p
    <3>1. b \in Before(p, key[p])  BY <1>1, <2>1, <2>3 DEF Before
    <3> QED  BY <2>1, <3>1 DEF IInv, ServedInOrder
  <2> QED  BY <1>1, <1>2, <1>4, <2>1, <2>2, <2>3 DEF IInv, TypeOK
<1> QED  BY <1>3, <1>4

LEMMA StartKeeps == ASSUME IInv, NEW c \in Calls, Start(c) PROVE IInv'
<1>1. \A b \in Before(c, key[c]) : state[b] = "done"
  BY NothingAhead DEF Start
<1>2. TypeOK' /\ Chained' /\ TailsKnown' /\ Unkeyed'
  BY DEF Start, IInv, TypeOK, Chained, TailsKnown, Unkeyed
<1>3. TailIsLast' /\ PreviousIsLast'
  BY DEF Start, IInv, TypeOK, TailIsLast, PreviousIsLast, Before
<1>4. ServedInOrder'
  BY <1>1 DEF Start, IInv, TypeOK, ServedInOrder, Before
<1> QED  BY <1>2, <1>3, <1>4 DEF IInv

LEMMA FinishKeeps == ASSUME IInv, NEW c \in Calls, Finish(c) PROVE IInv'
<1>1. TypeOK' /\ Chained' /\ TailsKnown' /\ Unkeyed'
  BY DEF Finish, IInv, TypeOK, Chained, TailsKnown, Unkeyed
<1>2. TailIsLast' /\ PreviousIsLast' /\ ServedInOrder'
  BY DEF Finish, IInv, TypeOK, TailIsLast, PreviousIsLast, ServedInOrder, Before
<1> QED  BY <1>1, <1>2 DEF IInv

(* The entry may go once its call has ended: then everything of that key has. *)
LEMMA SweepKeeps == ASSUME IInv, NEW c \in Calls, Sweep(c) PROVE IInv'
<1>1. key[c] \in Keys  BY DEF Sweep, IInv, Chained
<1>2. TypeOK' /\ Chained' /\ TailsKnown' /\ Unkeyed'
  BY <1>1 DEF Sweep, IInv, TypeOK, Chained, TailsKnown, Unkeyed
<1>3. PreviousIsLast' /\ ServedInOrder'
  BY DEF Sweep, IInv, TypeOK, PreviousIsLast, ServedInOrder, Before
<1>4. TailIsLast'
  <2> SUFFICES ASSUME NEW k \in Keys, NEW b \in Calls, key[b] = k
               PROVE  b <= tails'[k] \/ (tails'[k] = 0 /\ state[b] = "done")
    BY DEF TailIsLast, Sweep
  <2>1. CASE tails'[k] = tails[k]  BY <2>1 DEF IInv, TailIsLast
  <2>2. CASE tails'[k] # tails[k]
    <3>1. k = key[c] /\ tails[k] = c /\ tails'[k] = 0  BY <1>1, <2>2 DEF Sweep, IInv, TypeOK
    <3>2. b <= c  BY <3>1 DEF IInv, TailIsLast
    <3>3. CASE b = c  BY <3>1, <3>3 DEF Sweep
    <3>4. CASE b # c
      <4>1. b \in Before(c, key[c])  BY <3>1, <3>2, <3>4 DEF Before
      <4> QED  BY <3>1, <4>1 DEF Sweep, IInv, ServedInOrder
    <3> QED  BY <3>3, <3>4
  <2> QED  BY <2>1, <2>2
<1> QED  BY <1>2, <1>3, <1>4 DEF IInv

LEMMA StepKeeps == IInv /\ [Next]_vars => IInv'
<1> SUFFICES ASSUME IInv, [Next]_vars PROVE IInv'  OBVIOUS
<1>1. CASE UNCHANGED vars
  BY <1>1 DEF vars, IInv, TypeOK, Chained, TailsKnown, Unkeyed, TailIsLast, PreviousIsLast,
              ServedInOrder, Before
<1>2. ASSUME NEW k \in Keys, Run(k) PROVE IInv'  BY <1>2, RunKeeps
<1>3. ASSUME NEW c \in Calls, Start(c) PROVE IInv'  BY <1>3, StartKeeps
<1>4. ASSUME NEW c \in Calls, Finish(c) PROVE IInv'  BY <1>4, FinishKeeps
<1>5. ASSUME NEW c \in Calls, Sweep(c) PROVE IInv'  BY <1>5, SweepKeeps
<1> QED  BY <1>1, <1>2, <1>3, <1>4, <1>5 DEF Next

LEMMA Inductive == Spec => []IInv
<1> QED  BY InitIInv, StepKeeps, PTL DEF Spec

(* The variables stay in their ranges, for every number of calls. *)
THEOREM TypeCorrect == Spec => []TypeOK
<1>1. IInv => TypeOK  BY DEF IInv
<1> QED  BY <1>1, Inductive, PTL

(* Two calls signing for one account never build and submit together: the sequence *)
(* number read by the first is consumed before the second reads it (mutex.ts).      *)
THEOREM SequenceNumbersAreSafe == Spec => []OneAtATime
<1>1. IInv => OneAtATime
  <2> SUFFICES ASSUME IInv, NEW b \in Calls, NEW c \in Calls, state[b] = "running",
                      state[c] = "running", key[b] = key[c], b # c
               PROVE  FALSE
    BY DEF OneAtATime
  <2>1. CASE b < c  BY <2>1 DEF IInv, ServedInOrder, Before
  <2>2. CASE c < b  BY <2>2 DEF IInv, ServedInOrder, Before
  <2> QED  BY <2>1, <2>2
<1> QED  BY <1>1, Inductive, PTL

(* KeyedMutex implements the turnstile: every run step is an arrival at the end of the *)
(* key's queue, every start an entry of the first one waiting, every sweep a stutter.  *)
THEOREM ChainsAreAQueue == Spec => ServesInOrder
<1>1. Init => Order!Init  BY DEF Init, Order!Init
<1>2. ASSUME IInv, [Next]_vars PROVE [Order!Next]_(Order!vars)
  <2>1. CASE UNCHANGED vars  BY <2>1 DEF vars, Order!vars
  <2>2. ASSUME NEW k \in Keys, Run(k) PROVE Order!Next
    <3> DEFINE c == arrived + 1
    <3>1. c \in Calls /\ state[c] = "absent"  BY <1>2, <2>2 DEF Run, IInv, TypeOK, Chained
    <3>2. \A b \in Calls : b < c => state[b] # "absent"  BY <1>2 DEF IInv, TypeOK, Chained
    <3>3. Order!Arrive(c, k)  BY <2>2, <3>1, <3>2 DEF Run, Order!Arrive
    <3> QED  BY <3>1, <3>3 DEF Order!Next
  <2>3. ASSUME NEW c \in Calls, Start(c) PROVE Order!Next
    <3>1. \A b \in Before(c, key[c]) : state[b] = "done"
      BY <1>2, <2>3, NothingAhead DEF Start
    <3>2. Order!Enter(c)  BY <2>3, <3>1 DEF Start, Order!Enter, Order!Ahead, Before
    <3> QED  BY <3>2 DEF Order!Next
  <2>4. ASSUME NEW c \in Calls, Finish(c) PROVE Order!Next
    BY <2>4 DEF Finish, Order!Leave, Order!Next
  <2>5. ASSUME NEW c \in Calls, Sweep(c) PROVE UNCHANGED Order!vars
    BY <2>5 DEF Sweep, Order!vars
  <2> QED  BY <1>2, <2>1, <2>2, <2>3, <2>4, <2>5 DEF Next
<1> QED  BY <1>1, <1>2, Inductive, PTL DEF Spec, ServesInOrder, Order!Spec

(* What the clean-ups add up to: a call swept has ended, and is no longer an entry. *)
Swept ==
    /\ \A c \in swept : state[c] = "done"
    /\ \A k \in Keys : tails[k] # 0 => tails[k] \notin swept

LEMMA SweptKeeps == ASSUME IInv, Swept, [Next]_vars PROVE Swept'
<1>1. CASE UNCHANGED vars  BY <1>1 DEF vars, Swept
<1>2. ASSUME NEW k \in Keys, Run(k) PROVE Swept'
  <2>1. arrived + 1 \in Calls /\ state[arrived + 1] = "absent"
    BY <1>2 DEF Run, IInv, TypeOK, Chained
  <2> QED  BY <1>2, <2>1 DEF Run, Swept, IInv, TypeOK
<1>3. ASSUME NEW c \in Calls, Start(c) \/ Finish(c) PROVE Swept'
  BY <1>3 DEF Start, Finish, Swept, IInv, TypeOK
<1>4. ASSUME NEW c \in Calls, Sweep(c) PROVE Swept'
  <2>1. key[c] \in Keys  BY <1>4 DEF Sweep, IInv, Chained
  <2>2. \A k \in Keys : tails'[k] # 0 => tails'[k] \notin swept'
    <3> SUFFICES ASSUME NEW k \in Keys, tails'[k] # 0 PROVE tails'[k] \notin swept'
      OBVIOUS
    <3>1. tails'[k] = tails[k]  BY <1>4, <2>1 DEF Sweep, IInv, TypeOK
    <3>2. CASE tails[k] = c
      <4>1. key[c] = k  BY <3>1, <3>2 DEF IInv, TailsKnown
      <4> QED  BY <1>4, <3>2, <4>1 DEF Sweep, IInv, TypeOK
    <3>3. CASE tails[k] # c  BY <1>4, <3>1, <3>3 DEF Sweep, Swept
    <3> QED  BY <3>2, <3>3
  <2> QED  BY <1>4, <2>2 DEF Sweep, Swept
<1> QED  BY <1>1, <1>2, <1>3, <1>4 DEF Next

(* The safety half of MapIsEmptied: no entry stays behind its clean-up, so the map is *)
(* empty when the calls that came have all been swept (mutex.ts:26).                  *)
THEOREM SweepsEmptyTheMap ==
    Spec => []((\A c \in Calls : state[c] # "absent" => c \in swept) => \A k \in Keys : tails[k] = 0)
<1>1. Init => Swept  BY DEF Init, Swept
<1>2. IInv /\ Swept =>
        ((\A c \in Calls : state[c] # "absent" => c \in swept) => \A k \in Keys : tails[k] = 0)
  BY DEF IInv, TypeOK, Chained, TailsKnown, Swept
<1> QED  BY <1>1, <1>2, SweptKeeps, Inductive, PTL DEF Spec
=============================================================================
