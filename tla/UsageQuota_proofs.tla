-------------------------- MODULE UsageQuota_proofs --------------------------
(***************************************************************************)
(* Proofs about UsageQuota, for any number of callers, types and plans.    *)
(***************************************************************************)
EXTENDS UsageQuota, FiniteSetTheorems, TLAPS

USE DEF Unlimited

(***************************************************************************)
(* What a request holds between its steps.  Its current type is one it has *)
(* not charged, so no type is charged twice, and the limit it read is one  *)
(* that some plan sets.                                                    *)
(***************************************************************************)
Limited(t) == \A p \in Plans : Limit[p][t] # Unlimited

Held(k) ==
  /\ k.pc \in {"usage", "increment"} =>
       /\ k.type \in k.todo
       /\ Limited(k.type) => k.limit \in 0..Ceiling[k.type]
  /\ \A t \in k.todo, m \in Months : <<t, m>> \notin k.charged
  /\ k.pc = "idle" => k.charged = {}

HeldByAll == \A c \in Callers : Held(request[c])

IInv == TypeOK /\ HeldByAll

(***************************************************************************)
(* The records a step writes.                                              *)
(***************************************************************************)
\* What a step does to one caller's record.
LEMMA RequestUpdate ==
  ASSUME IInv, NEW c \in Callers, NEW k \in RequestState, Held(k),
         request' = [request EXCEPT ![c] = k]
  PROVE  /\ request' \in [Callers -> RequestState]
         /\ request'[c] = k
         /\ \A b \in Callers \ {c} : request'[b] = request[b]
         /\ HeldByAll'
<1>1. /\ request' \in [Callers -> RequestState]
      /\ request'[c] = k
      /\ \A b \in Callers \ {c} : request'[b] = request[b]
  BY DEF IInv, TypeOK
<1>2. \A b \in Callers : Held(request'[b])
  BY <1>1 DEF IInv, HeldByAll
<1> QED
  BY <1>1, <1>2 DEF HeldByAll, Held, Limited

\* A caller with no request in progress holds nothing.
LEMMA IdleHeld == Idle \in RequestState /\ Held(Idle)
BY QuotaAssumption DEF QuotaAssumption, Idle, RequestState, Months, Held

\* Entering the loop of create.
LEMMA BegunHeld ==
  ASSUME NEW types \in SUBSET Types
  PROVE  LET k == [Idle EXCEPT !.pc = "check", !.todo = types] IN
         k \in RequestState /\ Held(k) /\ k.pc = "check" /\ k.charged = {}
<1> DEFINE k == [Idle EXCEPT !.pc = "check", !.todo = types]
<1>1. Idle \in RequestState /\ Idle.charged = {}
  BY IdleHeld DEF Idle
<1>2. k \in RequestState /\ k.pc = "check" /\ k.charged = {}
  BY <1>1 DEF RequestState
<1> HIDE DEF k
<1>3. Held(k)
  BY <1>2 DEF Held
<1> QED
  BY <1>2, <1>3 DEF k

\* Having read the subscription and the clock.
LEMMA FoundHeld ==
  ASSUME NEW k \in RequestState, Held(k), k.pc = "check", NEW t \in k.todo,
         NEW m \in Months, NEW p \in Plans
  PROVE  LET n == [k EXCEPT !.pc = "usage", !.type = t, !.month = m,
                            !.limit = Limit[p][t]] IN
         n \in RequestState /\ Held(n) /\ n.pc = "usage" /\ n.charged = k.charged
<1> DEFINE n == [k EXCEPT !.pc = "usage", !.type = t, !.month = m,
                          !.limit = Limit[p][t]]
<1>1. t \in Types
  BY DEF RequestState
<1>2. Limit[p][t] \in Nat \cup {Unlimited} /\ Limit[p][t] <= Ceiling[t]
  BY <1>1, QuotaAssumption DEF QuotaAssumption
<1>3. /\ n.pc = "usage" /\ n.type = t /\ n.limit = Limit[p][t] /\ n.month = m
      /\ n.todo = k.todo /\ n.charged = k.charged /\ n \in RequestState
  BY <1>1, <1>2 DEF RequestState
<1>4. Limited(t) => Limit[p][t] \in 0..Ceiling[t]
  BY <1>1, <1>2, QuotaAssumption DEF Limited, QuotaAssumption
<1> HIDE DEF n
<1>5. Held(n)
  BY <1>3, <1>4 DEF Held
<1> QED
  BY <1>3, <1>5 DEF n

\* Having passed the check.
LEMMA PassedHeld ==
  ASSUME NEW k \in RequestState, Held(k), k.pc = "usage"
  PROVE  LET n == [k EXCEPT !.pc = "increment"] IN
         /\ n \in RequestState /\ Held(n)
         /\ n.pc = "increment" /\ n.type = k.type /\ n.month = k.month
         /\ n.charged = k.charged
BY DEF RequestState, Held

\* Having counted the report.
ChargedNow(k) ==
  [k EXCEPT !.pc = "check", !.todo = @ \ {k.type}, !.type = None,
            !.charged = @ \cup {<<k.type, k.month>>}]

\* Having counted the report.
LEMMA ChargedHeld ==
  ASSUME NEW k \in RequestState, Held(k), k.pc = "increment"
  PROVE  LET n == ChargedNow(k) IN
         /\ n \in RequestState /\ Held(n) /\ n.pc = "check"
         /\ n.charged = k.charged \cup {<<k.type, k.month>>}
<1> DEFINE n == ChargedNow(k)
<1>1. k.type \in Types /\ k.month \in Months
  BY DEF RequestState, Held
<1>2. <<k.type, k.month>> \in Types \X Months
  BY <1>1
<1>3. /\ n.pc = "check" /\ n.todo = k.todo \ {k.type} /\ n.type = None
      /\ n.charged = k.charged \cup {<<k.type, k.month>>}
      /\ n.limit = k.limit /\ n.month = k.month
  BY DEF RequestState, ChargedNow
<1>4. n \in RequestState
  BY <1>2 DEF RequestState, ChargedNow
<1>5. Held(n)
  BY <1>3 DEF Held
<1> QED
  BY <1>3, <1>4, <1>5

(***************************************************************************)
(* The steps.                                                              *)
(***************************************************************************)
\* Counting a set of charges gives counters again.
LEMMA PlusType ==
  ASSUME NEW f \in Counter, NEW S
  PROVE  Plus(f, S) \in Counter
BY DEF Plus, Counter

\* Increment, with its record named.
LEMMA IncrementRecord ==
  ASSUME IInv, NEW c \in Callers, Increment(c)
  PROVE  request' = [request EXCEPT ![c] = ChargedNow(request[c])]
BY DEF Increment, ChargedNow, IInv, TypeOK

\* Ending a request with an error keeps the invariant.
LEMMA RefuseIInv ==
  ASSUME IInv, NEW c \in Callers, Refuse(c)
  PROVE  IInv'
<1>1. request' \in [Callers -> RequestState] /\ HeldByAll'
  BY IdleHeld, RequestUpdate DEF Refuse
<1>2. forfeited' \in Counter
  BY PlusType DEF Refuse, IInv, TypeOK
<1> QED
  BY <1>1, <1>2 DEF Refuse, IInv, TypeOK

\* Every step keeps the invariant.
LEMMA StepIInv ==
  ASSUME IInv, [Next]_vars
  PROVE  IInv'
<1>0. /\ TypeOK
      /\ \A c \in Callers : request[c] \in RequestState /\ Held(request[c])
  BY DEF IInv, HeldByAll, TypeOK
<1>1. ASSUME NEW c \in Callers, NEW types \in SUBSET Types, BeginCreate(c, types)
      PROVE  IInv'
  <2>1. request' \in [Callers -> RequestState] /\ HeldByAll'
    BY <1>1, BegunHeld, RequestUpdate DEF BeginCreate
  <2> QED  BY <1>1, <2>1 DEF BeginCreate, IInv, TypeOK
<1>2. ASSUME NEW c \in Callers, NEW t \in Types, FindSubscription(c, t)
      PROVE  IInv'
  <2>1. PICK i \in FirstActive :
          request' = [request EXCEPT
            ![c].pc = "usage", ![c].type = t, ![c].month = month,
            ![c].limit = Limit[subs[i].plan][t]]
    BY <1>2 DEF FindSubscription
  <2>2. subs[i].plan \in Plans
    <3>1. subs \in Seq(Subs) /\ i \in DOMAIN subs
      BY <1>0 DEF FirstActive, TypeOK
    <3>2. subs[i] \in Subs
      BY <3>1
    <3> QED  BY <3>2 DEF Subs
  <2> DEFINE k == [request[c] EXCEPT !.pc = "usage", !.type = t, !.month = month,
                                     !.limit = Limit[subs[i].plan][t]]
  <2>3. k \in RequestState /\ Held(k)
    BY <1>0, <1>2, <2>2, FoundHeld DEF FindSubscription, TypeOK
  <2>4. request' = [request EXCEPT ![c] = k]
    BY <1>0, <2>1 DEF TypeOK
  <2> HIDE DEF k
  <2>5. request' \in [Callers -> RequestState] /\ HeldByAll'
    BY <2>3, <2>4, RequestUpdate
  <2> QED  BY <1>2, <2>5 DEF FindSubscription, IInv, TypeOK
<1>3. ASSUME NEW c \in Callers, NoSubscription(c) \/ RefuseLimit(c) \/ Die(c)
      PROVE  IInv'
  BY <1>3, RefuseIInv DEF NoSubscription, RefuseLimit, Die
<1>4. ASSUME NEW c \in Callers, ReadUsage(c)
      PROVE  IInv'
  <2> DEFINE k == [request[c] EXCEPT !.pc = "increment"]
  <2>1. k \in RequestState /\ Held(k)
    BY <1>0, <1>4, PassedHeld DEF ReadUsage
  <2>2. request' = [request EXCEPT ![c] = k]
    BY <1>0, <1>4 DEF ReadUsage, TypeOK
  <2> HIDE DEF k
  <2>3. request' \in [Callers -> RequestState] /\ HeldByAll'
    BY <2>1, <2>2, RequestUpdate
  <2> QED  BY <1>4, <2>3 DEF ReadUsage, IInv, TypeOK
<1>5. ASSUME NEW c \in Callers, Increment(c)
      PROVE  IInv'
  <2>1. ChargedNow(request[c]) \in RequestState /\ Held(ChargedNow(request[c]))
    BY <1>0, <1>5, ChargedHeld DEF Increment
  <2>2. request' \in [Callers -> RequestState] /\ HeldByAll'
    BY <1>5, <2>1, IncrementRecord, RequestUpdate
  <2>3. request[c].type \in Types /\ request[c].month \in Months
    BY <1>0, <1>5 DEF Increment, Held, RequestState
  <2>4. count' \in Counter
    BY <1>0, <1>5, <2>3 DEF Increment, TypeOK, Counter
  <2> QED  BY <1>5, <2>2, <2>4 DEF Increment, IInv, TypeOK
<1>6. ASSUME NEW c \in Callers, Grant(c)
      PROVE  IInv'
  <2>1. request' \in [Callers -> RequestState] /\ HeldByAll'
    BY <1>6, IdleHeld, RequestUpdate DEF Grant
  <2>2. granted' \in Counter
    BY <1>0, <1>6, PlusType DEF Grant, TypeOK
  <2> QED  BY <1>6, <2>1, <2>2 DEF Grant, IInv, TypeOK
<1>7. ASSUME NEW p \in Plans, Upgrade(p)
      PROVE  IInv'
  <2>1. [plan |-> p, status |-> "active"] \in Subs
    BY DEF Subs
  <2>2. subs' \in Seq(Subs)
    BY <1>0, <1>7, <2>1 DEF Upgrade, FirstActive, TypeOK
  <2> QED
    BY <1>7, <2>2 DEF Upgrade, IInv, TypeOK, HeldByAll, Held, Limited
<1>8. CASE Cancel
  <2>1. subs \in Seq(Subs) /\ 1 \in DOMAIN subs /\ subs[1] \in Subs
    BY <1>0, <1>8 DEF Cancel, TypeOK
  <2>2. [subs[1] EXCEPT !.status = "cancelled"] \in Subs
    BY <2>1 DEF Subs
  <2>3. subs' = [subs EXCEPT ![1] = [subs[1] EXCEPT !.status = "cancelled"]]
    BY <1>8 DEF Cancel
  <2>4. subs' \in Seq(Subs)
    BY <2>1, <2>2, <2>3
  <2> QED
    BY <1>8, <2>4 DEF Cancel, IInv, TypeOK, HeldByAll, Held, Limited
<1>9. CASE NextMonth
  BY <1>9, QuotaAssumption
  DEF NextMonth, IInv, TypeOK, HeldByAll, Held, Limited, Months, QuotaAssumption
<1>10. CASE UNCHANGED vars
  BY <1>10 DEF vars, IInv, TypeOK, HeldByAll, Held, Limited
<1> QED
  BY <1>1, <1>2, <1>3, <1>4, <1>5, <1>6, <1>7, <1>8, <1>9, <1>10
  DEF Next, CheckStep

\* The invariant holds in every reachable state.
LEMMA Invariance == Spec => []IInv
<1>1. ASSUME Init PROVE IInv
  <2>1. TypeOK
    <3>1. Zero \in Counter
      BY DEF Zero, Counter
    <3>2. <<[plan |-> FreePlan, status |-> "active"]>> \in Seq(Subs)
      BY QuotaAssumption DEF QuotaAssumption, Subs
    <3>3. 1 \in Months
      BY QuotaAssumption DEF QuotaAssumption, Months
    <3> QED
      BY <1>1, <3>1, <3>2, <3>3, IdleHeld DEF Init, TypeOK
  <2>2. HeldByAll
    BY <1>1, IdleHeld DEF Init, HeldByAll
  <2> QED  BY <2>1, <2>2 DEF IInv
<1> QED
  BY <1>1, StepIInv, PTL DEF Spec

\* The variables keep their types: the counters stay natural numbers and the
\* subscription documents keep their shape under every interleaving.
THEOREM Typed == Spec => []TypeOK
<1>1. IInv => TypeOK
  BY DEF IInv
<1> QED
  BY <1>1, Invariance, PTL

(***************************************************************************)
(* The overshoot.  A caller joins those that have passed the check only    *)
(* while the counter is below the ceiling, and the counter grows only when *)
(* one of them leaves.                                                     *)
(***************************************************************************)
Room(t, m) ==
  count[t][m] + Cardinality(Passed(t, m)) <= Ceiling[t] + Cardinality(Callers) - 1

AllRoom == \A t \in Types, m \in Months : Limited(t) => Room(t, m)

\* The callers that have passed are finitely many, at most all of them.
LEMMA PassedFinite ==
  ASSUME NEW t, NEW m
  PROVE  /\ IsFiniteSet(Passed(t, m))
         /\ Cardinality(Passed(t, m)) \in Nat
         /\ Cardinality(Callers) \in Nat
         /\ Cardinality(Passed(t, m)) <= Cardinality(Callers)
         /\ IsFiniteSet(Passed(t, m)')
         /\ Cardinality(Passed(t, m)') \in Nat
         /\ Cardinality(Passed(t, m)') <= Cardinality(Callers)
<1>1. IsFiniteSet(Callers)
  BY QuotaAssumption DEF QuotaAssumption
<1>2. Passed(t, m) \subseteq Callers /\ Passed(t, m)' \subseteq Callers
  BY DEF Passed
<1> QED
  BY <1>1, <1>2, FS_Subset, FS_CardinalityType

\* A step that adds nobody to the callers that have passed, and counts
\* nothing, leaves the room there is.
LEMMA RoomKept ==
  ASSUME IInv, AllRoom, count' = count,
         \A t \in Types, m \in Months : Passed(t, m)' \subseteq Passed(t, m)
  PROVE  AllRoom'
<1> SUFFICES ASSUME NEW t \in Types, NEW m \in Months, Limited(t)
             PROVE  Room(t, m)'
  BY DEF AllRoom, Limited, Months
<1>1. Cardinality(Passed(t, m)') <= Cardinality(Passed(t, m))
  BY PassedFinite, FS_Subset
<1>2. Room(t, m)
  BY DEF AllRoom
<1>3. count[t][m] \in Nat /\ Ceiling[t] \in Nat
  BY QuotaAssumption DEF IInv, TypeOK, Counter, QuotaAssumption
<1>4. Room(t, m)' <=> count[t][m] + Cardinality(Passed(t, m)')
                        <= Ceiling[t] + Cardinality(Callers) - 1
  BY DEF Room
<1> HIDE DEF Passed
<1> QED
  BY <1>1, <1>2, <1>3, <1>4, PassedFinite DEF Room

\* A request that changes to a record which has not passed adds nobody.
LEMMA PassedShrinks ==
  ASSUME IInv, NEW c \in Callers, NEW k \in RequestState, k.pc # "increment",
         request' = [request EXCEPT ![c] = k], NEW t, NEW m
  PROVE  Passed(t, m)' = Passed(t, m) \ {c}
<1>1. request'[c] = k /\ \A b \in Callers \ {c} : request'[b] = request[b]
  BY DEF IInv, TypeOK
<1> QED
  BY <1>1 DEF Passed

\* Every step leaves room.
LEMMA StepRoom ==
  ASSUME IInv, AllRoom, [Next]_vars
  PROVE  AllRoom'
<1>0. /\ TypeOK
      /\ \A c \in Callers : request[c] \in RequestState /\ Held(request[c])
  BY DEF IInv, HeldByAll, TypeOK
<1>1. ASSUME NEW c \in Callers, NEW types \in SUBSET Types, BeginCreate(c, types)
      PROVE  AllRoom'
  <2> DEFINE k == [Idle EXCEPT !.pc = "check", !.todo = types]
  <2>1. k \in RequestState /\ k.pc # "increment"
    BY BegunHeld
  <2>2. request' = [request EXCEPT ![c] = k] /\ count' = count
    BY <1>1 DEF BeginCreate
  <2> HIDE DEF k
  <2>3. \A t \in Types, m \in Months : Passed(t, m)' = Passed(t, m) \ {c}
    BY <2>1, <2>2, PassedShrinks
  <2> QED
    BY <2>2, <2>3, RoomKept
<1>2. ASSUME NEW c \in Callers, NEW t \in Types, FindSubscription(c, t)
      PROVE  AllRoom'
  <2>1. \A b \in Callers : request'[b].pc = "increment" => request'[b] = request[b]
    BY <1>0, <1>2 DEF FindSubscription, TypeOK, RequestState
  <2>2. \A u \in Types, m \in Months : Passed(u, m)' \subseteq Passed(u, m)
    BY <2>1 DEF Passed
  <2> QED
    BY <1>2, <2>2, RoomKept DEF FindSubscription
<1>3. ASSUME NEW c \in Callers,
             NoSubscription(c) \/ RefuseLimit(c) \/ Die(c) \/ Grant(c)
      PROVE  AllRoom'
  <2>1. request' = [request EXCEPT ![c] = Idle] /\ count' = count
    BY <1>3 DEF NoSubscription, RefuseLimit, Die, Grant, Refuse
  <2>2. Idle.pc # "increment"
    BY DEF Idle
  <2>3. \A t \in Types, m \in Months : Passed(t, m)' = Passed(t, m) \ {c}
    BY <2>1, <2>2, IdleHeld, PassedShrinks
  <2> QED
    BY <2>1, <2>3, RoomKept
<1>4. ASSUME NEW c \in Callers, ReadUsage(c)
      PROVE  AllRoom'
  <2> SUFFICES ASSUME NEW t \in Types, NEW m \in Months, Limited(t)
               PROVE  Room(t, m)'
    BY DEF AllRoom, Limited, Months
  <2>1. Room(t, m) /\ count' = count
    BY <1>4 DEF AllRoom, ReadUsage
  <2>2. count[t][m] \in Nat /\ Ceiling[t] \in Nat \ {0}
    BY <1>0, QuotaAssumption DEF TypeOK, Counter, QuotaAssumption
  <2>3. /\ request[c].pc = "usage"
        /\ request' = [request EXCEPT ![c].pc = "increment"]
    BY <1>4 DEF ReadUsage
  <2>4. CASE request[c].type = t /\ request[c].month = m
    <3>1. request[c].limit \in 0..Ceiling[t]
      BY <1>0, <2>3, <2>4 DEF Held
    <3>2. count[t][m] <= Ceiling[t] - 1
      BY <1>4, <2>2, <2>4, <3>1 DEF ReadUsage, LimitReached
    <3>3. count[t][m] + Cardinality(Passed(t, m)')
            <= Ceiling[t] + Cardinality(Callers) - 1
      BY <2>2, <3>2, PassedFinite
    <3> QED
      BY <2>1, <3>3 DEF Room
  <2>5. CASE ~(request[c].type = t /\ request[c].month = m)
    <3>1. /\ request'[c].type = request[c].type
          /\ request'[c].month = request[c].month
          /\ \A b \in Callers \ {c} : request'[b] = request[b]
      BY <1>0, <2>3 DEF TypeOK, RequestState
    <3>2. Passed(t, m)' = Passed(t, m)
      BY <2>3, <2>5, <3>1 DEF Passed
    <3> QED
      BY <2>1, <3>2 DEF Room
  <2> QED
    BY <2>4, <2>5
<1>5. ASSUME NEW c \in Callers, Increment(c)
      PROVE  AllRoom'
  <2> SUFFICES ASSUME NEW t \in Types, NEW m \in Months, Limited(t)
               PROVE  Room(t, m)'
    BY DEF AllRoom, Limited, Months
  <2>1. Room(t, m)
    BY DEF AllRoom
  <2>2. count \in Counter /\ count[t][m] \in Nat /\ Ceiling[t] \in Nat
    BY <1>0, QuotaAssumption DEF TypeOK, Counter, QuotaAssumption
  <2>3. ChargedNow(request[c]) \in RequestState /\ ChargedNow(request[c]).pc = "check"
    BY <1>0, <1>5, ChargedHeld DEF Increment
  <2>4. Passed(t, m)' = Passed(t, m) \ {c}
    BY <1>5, <2>3, IncrementRecord, PassedShrinks
  <2>5. request[c].pc = "increment"
    BY <1>5 DEF Increment
  <2>6. count' = [count EXCEPT ![request[c].type][request[c].month] = @ + 1]
    BY <1>5 DEF Increment
  <2>7. CASE request[c].type = t /\ request[c].month = m
    <3>1. c \in Passed(t, m)
      BY <2>5, <2>7 DEF Passed
    <3>2. Cardinality(Passed(t, m)') = Cardinality(Passed(t, m)) - 1
      BY <2>4, <3>1, PassedFinite, FS_RemoveElement
    <3>3. count'[t][m] = count[t][m] + 1
      BY <2>2, <2>6, <2>7 DEF Counter
    <3> QED
      BY <2>1, <2>2, <3>2, <3>3, PassedFinite DEF Room
  <2>8. CASE ~(request[c].type = t /\ request[c].month = m)
    <3>1. c \notin Passed(t, m)
      BY <2>8 DEF Passed
    <3>2. Passed(t, m)' = Passed(t, m)
      BY <2>4, <3>1
    <3>3. count'[t][m] = count[t][m]
      BY <2>2, <2>6, <2>8 DEF Counter
    <3> QED
      BY <2>1, <3>2, <3>3 DEF Room
  <2> QED
    BY <2>7, <2>8
<1>6. CASE \/ \E p \in Plans : Upgrade(p)
           \/ Cancel \/ NextMonth \/ UNCHANGED vars
  <2>1. request' = request /\ count' = count
    BY <1>6 DEF Upgrade, Cancel, NextMonth, vars
  <2>2. \A t \in Types, m \in Months : Passed(t, m)' = Passed(t, m)
    BY <2>1 DEF Passed
  <2> QED
    BY <2>1, <2>2, RoomKept
<1> QED
  BY <1>1, <1>2, <1>3, <1>4, <1>5, <1>6 DEF Next, CheckStep

\* However many requests race through checkAndIncrement and however plans
\* change, a type that every plan limits is counted at most once more than its
\* ceiling for each further request that can be in progress.
THEOREM OvershootIsBounded == Spec => []OvershootBounded
<1>1. ASSUME Init PROVE AllRoom
  <2> SUFFICES ASSUME NEW t \in Types, NEW m \in Months PROVE Room(t, m)
    BY DEF AllRoom
  <2>1. Passed(t, m) = {}
    BY <1>1 DEF Init, Passed, Idle
  <2>2. count[t][m] = 0
    BY <1>1 DEF Init, Zero
  <2>3. Ceiling[t] \in Nat \ {0}
    BY QuotaAssumption DEF QuotaAssumption
  <2> QED
    BY <2>1, <2>2, <2>3, PassedFinite, FS_EmptySet DEF Room
<1>2. ASSUME IInv, AllRoom PROVE OvershootBounded
  <2> SUFFICES ASSUME NEW t \in Types, NEW m \in Months, Limited(t)
               PROVE  count[t][m] <= Ceiling[t] + Cardinality(Callers) - 1
    BY DEF OvershootBounded, Limited
  <2>1. count[t][m] \in Nat /\ Ceiling[t] \in Nat
    BY <1>2, QuotaAssumption DEF IInv, TypeOK, Counter, QuotaAssumption
  <2> QED
    BY <1>2, <2>1, PassedFinite DEF AllRoom, Room
<1> QED
  BY <1>1, <1>2, StepRoom, Invariance, PTL DEF Spec

(***************************************************************************)
(* The balance of charges.                                                 *)
(***************************************************************************)
Balance(t, m) ==
  count[t][m] = granted[t][m] + forfeited[t][m] + Cardinality(Charging(t, m))

\* The callers that have charged a type are finitely many.
LEMMA ChargingFinite ==
  ASSUME NEW t, NEW m
  PROVE  /\ IsFiniteSet(Charging(t, m))
         /\ Cardinality(Charging(t, m)) \in Nat
<1>1. IsFiniteSet(Callers) /\ Charging(t, m) \subseteq Callers
  BY QuotaAssumption DEF QuotaAssumption, Charging
<1> QED
  BY <1>1, FS_Subset, FS_CardinalityType

\* A request whose record keeps its charges leaves the set of those who have
\* charged alone.
LEMMA ChargingKept ==
  ASSUME IInv, NEW c \in Callers, NEW k \in RequestState,
         k.charged = request[c].charged,
         request' = [request EXCEPT ![c] = k], NEW t, NEW m
  PROVE  Charging(t, m)' = Charging(t, m)
<1>1. request'[c] = k /\ \A b \in Callers \ {c} : request'[b] = request[b]
  BY DEF IInv, TypeOK
<1> QED
  BY <1>1 DEF Charging

\* A request that ends hands its charges over to one of the two histories.
LEMMA ChargesHandedOver ==
  ASSUME IInv, ChargesBalance, NEW c \in Callers,
         request' = [request EXCEPT ![c] = Idle], count' = count,
         \/ granted' = Plus(granted, request[c].charged) /\ forfeited' = forfeited
         \/ forfeited' = Plus(forfeited, request[c].charged) /\ granted' = granted
  PROVE  ChargesBalance'
<1> SUFFICES ASSUME NEW t \in Types, NEW m \in Months
             PROVE  Balance(t, m)'
  BY DEF ChargesBalance, Balance, Months
<1>1. /\ request'[c] = Idle
      /\ \A b \in Callers \ {c} : request'[b] = request[b]
  BY DEF IInv, TypeOK
<1>2. Charging(t, m)' = Charging(t, m) \ {c}
  BY <1>1 DEF Charging, Idle
<1>3. Balance(t, m)
  BY DEF ChargesBalance, Balance
<1>4. /\ count[t][m] \in Nat /\ granted[t][m] \in Nat /\ forfeited[t][m] \in Nat
  BY DEF IInv, TypeOK, Counter
<1>5. CASE <<t, m>> \in request[c].charged
  <2>1. Cardinality(Charging(t, m)') = Cardinality(Charging(t, m)) - 1
    <3>1. c \in Charging(t, m)
      BY <1>5 DEF Charging
    <3> QED
      BY <1>2, <3>1, ChargingFinite, FS_RemoveElement
  <2>2. granted'[t][m] + forfeited'[t][m] = granted[t][m] + forfeited[t][m] + 1
    BY <1>4, <1>5 DEF Plus
  <2> QED
    BY <1>3, <1>4, <2>1, <2>2, ChargingFinite DEF Balance
<1>6. CASE <<t, m>> \notin request[c].charged
  <2>1. Charging(t, m)' = Charging(t, m)
    BY <1>2, <1>6 DEF Charging
  <2>2. granted'[t][m] = granted[t][m] /\ forfeited'[t][m] = forfeited[t][m]
    BY <1>4, <1>6 DEF Plus
  <2> QED
    BY <1>3, <2>1, <2>2 DEF Balance
<1> QED
  BY <1>5, <1>6

\* A step that neither counts nor hands over keeps the balance.
LEMMA BalanceKept ==
  ASSUME ChargesBalance,
         count' = count, granted' = granted, forfeited' = forfeited,
         \A t \in Types, m \in Months : Charging(t, m)' = Charging(t, m)
  PROVE  ChargesBalance'
BY DEF ChargesBalance, Months

\* Every step keeps the balance.
LEMMA StepBalance ==
  ASSUME IInv, ChargesBalance, [Next]_vars
  PROVE  ChargesBalance'
<1>0. /\ TypeOK
      /\ \A c \in Callers : request[c] \in RequestState /\ Held(request[c])
  BY DEF IInv, HeldByAll, TypeOK
<1>1. ASSUME NEW c \in Callers, NEW types \in SUBSET Types, BeginCreate(c, types)
      PROVE  ChargesBalance'
  <2> DEFINE k == [Idle EXCEPT !.pc = "check", !.todo = types]
  <2>1. /\ request[c].pc = "idle"
        /\ request' = [request EXCEPT ![c] = k]
        /\ count' = count /\ granted' = granted /\ forfeited' = forfeited
    BY <1>1 DEF BeginCreate
  <2>2. k \in RequestState /\ k.charged = {}
    BY BegunHeld
  <2> HIDE DEF k
  <2>3. request[c].charged = {}
    BY <1>0, <2>1 DEF Held
  <2>4. \A t \in Types, m \in Months : Charging(t, m)' = Charging(t, m)
    BY <2>1, <2>2, <2>3, ChargingKept
  <2> QED
    BY <2>1, <2>4, BalanceKept
<1>2. ASSUME NEW c \in Callers,
             (\E t \in Types : FindSubscription(c, t)) \/ ReadUsage(c)
      PROVE  ChargesBalance'
  <2>1. count' = count /\ granted' = granted /\ forfeited' = forfeited
    BY <1>2 DEF FindSubscription, ReadUsage
  <2>2. \A b \in Callers : request'[b].charged = request[b].charged
    <3>1. CASE ReadUsage(c)
      BY <1>0, <3>1 DEF ReadUsage, TypeOK, RequestState
    <3>2. ASSUME NEW t \in Types, FindSubscription(c, t)
          PROVE  \A b \in Callers : request'[b].charged = request[b].charged
      <4>1. PICK i \in FirstActive :
              request' = [request EXCEPT
                ![c].pc = "usage", ![c].type = t, ![c].month = month,
                ![c].limit = Limit[subs[i].plan][t]]
        BY <3>2 DEF FindSubscription
      <4> QED
        BY <1>0, <4>1 DEF TypeOK, RequestState
    <3> QED
      BY <1>2, <3>1, <3>2
  <2>3. \A t \in Types, m \in Months : Charging(t, m)' = Charging(t, m)
    BY <2>2 DEF Charging
  <2> QED
    BY <2>1, <2>3, BalanceKept
<1>3. ASSUME NEW c \in Callers, NoSubscription(c) \/ RefuseLimit(c) \/ Die(c)
      PROVE  ChargesBalance'
  BY <1>3, ChargesHandedOver DEF NoSubscription, RefuseLimit, Die, Refuse
<1>4. ASSUME NEW c \in Callers, Grant(c)
      PROVE  ChargesBalance'
  BY <1>4, ChargesHandedOver DEF Grant
<1>5. ASSUME NEW c \in Callers, Increment(c)
      PROVE  ChargesBalance'
  <2> SUFFICES ASSUME NEW t \in Types, NEW m \in Months
               PROVE  Balance(t, m)'
    BY DEF ChargesBalance, Balance, Months
  <2> DEFINE k == ChargedNow(request[c])
  <2>1. /\ request[c].pc = "increment"
        /\ count' = [count EXCEPT ![request[c].type][request[c].month] = @ + 1]
        /\ granted' = granted /\ forfeited' = forfeited
    BY <1>5 DEF Increment
  <2>2. /\ k \in RequestState
        /\ k.charged = request[c].charged
                         \cup {<<request[c].type, request[c].month>>}
    BY <1>0, <2>1, ChargedHeld
  <2>3. request' = [request EXCEPT ![c] = k]
    BY <1>5, IncrementRecord
  <2> HIDE DEF k
  <2>4. request'[c] = k /\ \A b \in Callers \ {c} : request'[b] = request[b]
    BY <1>0, <2>2, <2>3 DEF TypeOK
  <2>5. Balance(t, m)
    BY DEF ChargesBalance, Balance
  <2>6. /\ count \in Counter /\ count[t][m] \in Nat
        /\ granted[t][m] \in Nat /\ forfeited[t][m] \in Nat
    BY <1>0 DEF TypeOK, Counter
  <2>7. CASE request[c].type = t /\ request[c].month = m
    <3>1. <<t, m>> \notin request[c].charged
      BY <1>0, <2>1, <2>7 DEF Held
    <3>2. c \notin Charging(t, m)
      BY <3>1 DEF Charging
    <3>3. Charging(t, m)' = Charging(t, m) \cup {c}
      BY <2>2, <2>4, <2>7 DEF Charging
    <3>4. Cardinality(Charging(t, m)') = Cardinality(Charging(t, m)) + 1
      BY <3>2, <3>3, ChargingFinite, FS_AddElement
    <3>5. count'[t][m] = count[t][m] + 1
      BY <2>1, <2>6, <2>7 DEF Counter
    <3> QED
      BY <2>1, <2>5, <2>6, <3>4, <3>5, ChargingFinite DEF Balance
  <2>8. CASE ~(request[c].type = t /\ request[c].month = m)
    <3>1. <<t, m>> \in k.charged <=> <<t, m>> \in request[c].charged
      BY <2>2, <2>8
    <3>2. Charging(t, m)' = Charging(t, m)
      BY <2>4, <3>1 DEF Charging
    <3>3. count'[t][m] = count[t][m]
      BY <2>1, <2>6, <2>8 DEF Counter
    <3> QED
      BY <2>1, <2>5, <3>2, <3>3 DEF Balance
  <2> QED
    BY <2>7, <2>8
<1>6. CASE \/ \E p \in Plans : Upgrade(p)
           \/ Cancel \/ NextMonth \/ UNCHANGED vars
  <2>1. /\ request' = request /\ count' = count
        /\ granted' = granted /\ forfeited' = forfeited
    BY <1>6 DEF Upgrade, Cancel, NextMonth, vars
  <2>2. \A t \in Types, m \in Months : Charging(t, m)' = Charging(t, m)
    BY <2>1 DEF Charging
  <2> QED
    BY <2>1, <2>2, BalanceKept
<1> QED
  BY <1>1, <1>2, <1>3, <1>4, <1>5, <1>6 DEF Next, CheckStep

\* At every moment each unit of a usage counter is accounted for, by one
\* report that was created, one request still in its loop, or one request that
\* was refused after it had charged.
THEOREM ChargesAreBalanced == Spec => []ChargesBalance
<1>1. ASSUME Init PROVE ChargesBalance
  <2> SUFFICES ASSUME NEW t \in Types, NEW m \in Months PROVE Balance(t, m)
    BY DEF ChargesBalance, Balance
  <2>1. Charging(t, m) = {}
    BY <1>1 DEF Init, Charging, Idle
  <2>2. count[t][m] = 0 /\ granted[t][m] = 0 /\ forfeited[t][m] = 0
    BY <1>1 DEF Init, Zero
  <2> QED
    BY <2>1, <2>2, FS_EmptySet DEF Balance
<1> QED
  BY <1>1, StepBalance, Invariance, PTL DEF Spec

===============================================================================
