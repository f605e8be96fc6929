-------------------------- MODULE FlowExecution_proofs --------------------------
(***************************************************************************)
(* Proofs about FlowExecution, for any flow with finitely many nodes and   *)
(* connections.                                                            *)
(***************************************************************************)
EXTENDS FlowExecution, SequenceTheorems, FiniteSetTheorems, TLAPS

\* The inputs of node m that come from nodes not yet in the order.
Missing(m) == {l \in Into(m) : l.source \notin ToSet(order)}

(***************************************************************************)
(* Kahn's algorithm: the counters are right, and the queue and the order   *)
(* hold, without repetition, exactly the nodes that miss no input.         *)
(***************************************************************************)
SortInv ==
  pc = "sort" =>
    /\ \A m \in Nodes : inDegree[m] = Cardinality(Missing(m))
    /\ IsInjective(ready)
    /\ ToSet(ready) \cap ToSet(order) = {}
    /\ \A m \in Nodes : Missing(m) = {} <=> m \in ToSet(ready) \cup ToSet(order)

\* Every input of the i-th node of the order comes from an earlier node.
FedBefore(i) == \A l \in Into(order[i]) : \E j \in 1..(i - 1) : order[j] = l.source

\* The order repeats no node, is complete once sorted and, without cycles,
\* puts every node after those that feed it.
OrderInv ==
  /\ IsInjective(order)
  /\ pc = "sort" \/ Acyclic => \A i \in DOMAIN order : FedBefore(i)
  /\ pc # "sort" => ToSet(order) = Nodes

\* One of the first i - 1 tries is of node n and has not completed.
FailedBefore(n, i) == \E j \in 1..(i - 1) : tries[j].node = n /\ tries[j].status # "completed"

(***************************************************************************)
(* The i-th try is that of the i-th node and has the status its required   *)
(* inputs had called for by then.                                          *)
(***************************************************************************)
TryInv(i) ==
  LET try == tries[i]
      held == \E l \in Into(try.node) : l.required /\ FailedBefore(l.source, i)
  IN /\ try.node = order[i]
     /\ try.status = "completed" \/ try.own => ~held
     /\ try.status # "completed" /\ ~try.own => held
     /\ try.own => try.status = "failed"
     /\ try.status = "skipped" => ~graph.required[try.node]
     /\ try.status # "completed" => try.node \in Affected

TriesInv ==
  /\ Len(tries) <= Len(order)
  /\ pc \in {"sort", "load"} => tries = <<>>
  /\ \A i \in DOMAIN tries : TryInv(i)
  /\ failures = {n \in Nodes : graph.required[n] /\ Dealt(n, {"failed"})}

\* What the last step of the run returns.
DoneInv ==
  pc = "done" =>
    /\ Len(tries) = Len(order)
    /\ \A n \in OfKind("terminal") : branches[n] = BranchOf(n)
    /\ failures # {} => data = {}

IInv == TypeOK /\ SortInv /\ OrderInv /\ TriesInv /\ DoneInv

(***************************************************************************)
(* Sequences without repetition and the sets of their elements.            *)
(***************************************************************************)
\* A listing of a finite set is an injective sequence of exactly its elements.
LEMMA Listed ==
  ASSUME NEW S, IsFiniteSet(S), NEW s \in SetToSeqs(S)
  PROVE  s \in Seq(S) /\ IsInjective(s) /\ ToSet(s) = S
<1> DEFINE D == 1..Cardinality(S)
<1>1. Cardinality(S) \in Nat /\ IsFiniteSet(D) /\ Cardinality(D) = Cardinality(S)
  BY FS_CardinalityType, FS_Interval
<1>2. s \in [D -> S] /\ \A i, j \in D : i # j => s[i] # s[j]
  BY DEF SetToSeqs
<1>3. s \in Seq(S) /\ DOMAIN s = D
  BY <1>1, <1>2, SeqDef
<1>4. IsInjective(s)
  BY <1>2, <1>3 DEF IsInjective
<1>5. s \in Injection(D, S)
  BY <1>2, <1>3 DEF Injection, IsInjective
<1>6. s \in Surjection(D, S)
  BY <1>1, <1>5, FS_Injection
<1>7. ToSet(s) = S
  BY <1>2, <1>3, <1>6 DEF Surjection, ToSet
<1> QED
  BY <1>3, <1>4, <1>7

\* Taking the head off a queue.
LEMMA Taken ==
  ASSUME NEW S, NEW s \in Seq(S), s # <<>>
  PROVE  /\ Head(s) \in S /\ Tail(s) \in Seq(S)
         /\ ToSet(s) = {Head(s)} \cup ToSet(Tail(s))
         /\ IsInjective(s) => IsInjective(Tail(s)) /\ Head(s) \notin ToSet(Tail(s))
<1>1. /\ Head(s) \in S /\ Tail(s) \in Seq(S) /\ Len(s) \in Nat \ {0}
      /\ DOMAIN s = 1..Len(s) /\ DOMAIN Tail(s) = 1..(Len(s) - 1)
      /\ \A i \in 1..(Len(s) - 1) : Tail(s)[i] = s[i + 1]
      /\ Head(s) = s[1]
  BY HeadTailProperties, LenProperties, EmptySeq
<1>2. ToSet(s) = {Head(s)} \cup ToSet(Tail(s))
  <2>1. ASSUME NEW x \in ToSet(s) PROVE x \in {Head(s)} \cup ToSet(Tail(s))
    <3>1. PICK i \in 1..Len(s) : x = s[i]
      BY <1>1 DEF ToSet
    <3>2. CASE i = 1
      BY <1>1, <3>1, <3>2
    <3>3. CASE i # 1
      <4>1. i - 1 \in 1..(Len(s) - 1) /\ Tail(s)[i - 1] = s[i]
        BY <1>1, <3>3
      <4> QED
        BY <1>1, <3>1, <4>1 DEF ToSet
    <3> QED
      BY <3>2, <3>3
  <2>2. \A i \in 1..(Len(s) - 1) : Tail(s)[i] \in ToSet(s)
    BY <1>1 DEF ToSet
  <2>3. Head(s) \in ToSet(s)
    BY <1>1 DEF ToSet
  <2> QED
    BY <1>1, <2>1, <2>2, <2>3 DEF ToSet
<1>3. ASSUME IsInjective(s)
      PROVE  IsInjective(Tail(s)) /\ Head(s) \notin ToSet(Tail(s))
  BY <1>1, <1>3 DEF IsInjective, ToSet
<1> QED
  BY <1>1, <1>2, <1>3

\* Joining two sequences that have no element in common.
LEMMA Joined ==
  ASSUME NEW S, NEW s \in Seq(S), NEW t \in Seq(S)
  PROVE  /\ s \o t \in Seq(S) /\ Len(s \o t) = Len(s) + Len(t)
         /\ ToSet(s \o t) = ToSet(s) \cup ToSet(t)
         /\ \A i \in DOMAIN s : i \in DOMAIN (s \o t) /\ (s \o t)[i] = s[i]
         /\ IsInjective(s) /\ IsInjective(t) /\ ToSet(s) \cap ToSet(t) = {}
              => IsInjective(s \o t)
<1> DEFINE m == Len(s)
           n == Len(t)
           u == s \o t
<1>1. /\ u \in Seq(S) /\ m \in Nat /\ n \in Nat /\ Len(u) = m + n
      /\ DOMAIN s = 1..m /\ DOMAIN t = 1..n /\ DOMAIN u = 1..(m + n)
      /\ \A i \in 1..(m + n) : u[i] = IF i <= m THEN s[i] ELSE t[i - m]
  BY ConcatProperties, LenProperties
<1> HIDE DEF m, n, u
<1>2. \A i \in 1..m : i \in 1..(m + n) /\ u[i] = s[i]
  BY <1>1
<1>3. \A i \in 1..n : m + i \in 1..(m + n) /\ u[m + i] = t[i]
  BY <1>1
<1>4. \A i \in 1..(m + n) : \/ i \in 1..m /\ u[i] = s[i]
                            \/ i - m \in 1..n /\ u[i] = t[i - m]
  BY <1>1
<1>5. ToSet(u) = ToSet(s) \cup ToSet(t)
  <2>1. \A i \in 1..(m + n) : u[i] \in ToSet(s) \cup ToSet(t)
    BY <1>1, <1>4 DEF ToSet
  <2>2. \A i \in 1..m : s[i] \in ToSet(u)
    BY <1>1, <1>2 DEF ToSet
  <2>3. \A i \in 1..n : t[i] \in ToSet(u)
    BY <1>1, <1>3 DEF ToSet
  <2>4. ToSet(u) \subseteq ToSet(s) \cup ToSet(t)
    BY <1>1, <2>1 DEF ToSet
  <2>5. ToSet(s) \subseteq ToSet(u) /\ ToSet(t) \subseteq ToSet(u)
    BY <1>1, <2>2, <2>3 DEF ToSet
  <2> QED
    BY <2>4, <2>5
<1>6. ASSUME IsInjective(s), IsInjective(t), ToSet(s) \cap ToSet(t) = {}
      PROVE  IsInjective(u)
  <2>1. \A i \in 1..m, j \in 1..n : s[i] # t[j]
    BY <1>1, <1>6 DEF ToSet
  <2> SUFFICES ASSUME NEW i \in 1..(m + n), NEW j \in 1..(m + n), u[i] = u[j]
               PROVE  i = j
    BY <1>1 DEF IsInjective
  <2>2. CASE i \in 1..m /\ j \in 1..m
    BY <1>1, <1>2, <1>6, <2>2 DEF IsInjective
  <2>3. CASE i - m \in 1..n /\ j - m \in 1..n
    <3>1. u[i] = t[i - m] /\ u[j] = t[j - m]
      BY <1>1, <2>3
    <3>2. i - m = j - m
      BY <1>1, <1>6, <2>3, <3>1 DEF IsInjective
    <3> QED
      BY <1>1, <3>2
  <2> QED
    BY <1>1, <1>4, <2>1, <2>2, <2>3
<1> QED
  BY <1>1, <1>2, <1>5, <1>6 DEF u, m, n

\* Appending an element.
LEMMA Appended ==
  ASSUME NEW S, NEW s \in Seq(S), NEW e \in S
  PROVE  /\ Append(s, e) \in Seq(S) /\ Len(Append(s, e)) = Len(s) + 1
         /\ DOMAIN Append(s, e) = (DOMAIN s) \cup {Len(s) + 1}
         /\ \A i \in DOMAIN s : i <= Len(s) /\ Append(s, e)[i] = s[i]
         /\ Append(s, e)[Len(s) + 1] = e
         /\ ToSet(Append(s, e)) = ToSet(s) \cup {e}
         /\ IsInjective(s) /\ e \notin ToSet(s) => IsInjective(Append(s, e))
<1> DEFINE m == Len(s)
           u == Append(s, e)
<1>1. /\ u \in Seq(S) /\ m \in Nat /\ Len(u) = m + 1
      /\ DOMAIN s = 1..m /\ DOMAIN u = 1..(m + 1)
      /\ \A i \in 1..m : u[i] = s[i]
      /\ u[m + 1] = e
  BY AppendProperties, LenProperties
<1> HIDE DEF m, u
<1>2. DOMAIN u = (1..m) \cup {m + 1}
  BY <1>1
<1>3. ToSet(u) = ToSet(s) \cup {e}
  BY <1>1, <1>2 DEF ToSet
<1>4. ASSUME IsInjective(s), e \notin ToSet(s) PROVE IsInjective(u)
  BY <1>1, <1>2, <1>4 DEF IsInjective, ToSet
<1> QED
  BY <1>1, <1>2, <1>3, <1>4 DEF u, m

\* A sequence that is in the order of the nodes array lists its set.
LEMMA ArrangedList ==
  ASSUME NEW S \in SUBSET Nodes, NEW s \in Arranged(S)
  PROVE  s \in Seq(S) /\ s \in Seq(Nodes) /\ IsInjective(s) /\ ToSet(s) = S
<1>1. s \in SetToSeqs(S) /\ IsFiniteSet(S)
  BY FlowAssumption, FS_Subset DEF Arranged
<1>2. s \in Seq(S) /\ IsInjective(s) /\ ToSet(s) = S
  BY <1>1, Listed
<1> QED
  BY <1>2, SeqMonotonic

\* The flow is a graph with finitely many connections, so every node has
\* finitely many inputs.
LEMMA FiniteInputs ==
  ASSUME TypeOK
  PROVE  /\ graph \in Graph /\ IsFiniteSet(graph.links) /\ graph.links \subseteq Link
         /\ \A l \in graph.links : l.source \in Nodes /\ l.target \in Nodes
         /\ \A n \in Nodes : graph.required[n] \in BOOLEAN /\ graph.branch[n] \in BOOLEAN
         /\ \A m \in Nodes : IsFiniteSet(Into(m)) /\ IsFiniteSet(Missing(m))
<1>1. graph \in Graph /\ IsFiniteSet(graph.links)
  BY FlowAssumption DEF TypeOK
<1>2. \A m \in Nodes : IsFiniteSet(Into(m)) /\ IsFiniteSet(Missing(m))
  <2> SUFFICES ASSUME NEW m \in Nodes PROVE IsFiniteSet(Into(m)) /\ IsFiniteSet(Missing(m))
    OBVIOUS
  <2>1. Into(m) \subseteq graph.links /\ Missing(m) \subseteq graph.links
    BY DEF Into, Missing
  <2> QED
    BY <1>1, <2>1, FS_Subset
<1> QED
  BY <1>1, <1>2 DEF Graph, Link

\* At the start no node is in the order, and those without inputs are queued.
LEMMA InitIInv == Init => IInv
<1> SUFFICES ASSUME Init PROVE IInv
  OBVIOUS
<1>1. graph \in Graph /\ IsFiniteSet(graph.links)
  BY FlowAssumption DEF Init
<1>2. \A m \in Nodes : IsFiniteSet(Into(m)) /\ Missing(m) = Into(m)
  <2> SUFFICES ASSUME NEW m \in Nodes PROVE IsFiniteSet(Into(m)) /\ Missing(m) = Into(m)
    OBVIOUS
  <2>1. Into(m) \subseteq graph.links
    BY DEF Into
  <2>2. ToSet(order) = {}
    BY DEF Init, ToSet
  <2> QED
    BY <1>1, <2>1, <2>2, FS_Subset DEF Missing
<1>3. /\ ready \in Seq(Nodes) /\ IsInjective(ready)
      /\ ToSet(ready) = {n \in Nodes : Into(n) = {}}
  BY ArrangedList DEF Init
<1>4. order = <<>> /\ tries = <<>> /\ ToSet(order) = {} /\ DOMAIN order = {}
      /\ DOMAIN tries = {} /\ order \in Seq(Nodes) /\ tries \in Seq(NodeTry)
      /\ Len(tries) = Len(order)
  BY DEF Init, ToSet
<1>5. TypeOK
  BY <1>2, <1>3, <1>4, FS_CardinalityType DEF TypeOK, Init, BranchStatus
<1>6. SortInv
  BY <1>2, <1>3, <1>4 DEF SortInv, Init
<1>7. OrderInv
  BY <1>4 DEF OrderInv, Init, IsInjective
<1>8. TriesInv
  BY <1>4 DEF TriesInv, Init, Dealt
<1> QED
  BY <1>5, <1>6, <1>7, <1>8 DEF IInv, DoneInv, Init

(***************************************************************************)
(* The three parts of the run: sorting, trying the nodes, concluding.      *)
(***************************************************************************)
\* While the order is being built nothing has been tried, so the invariants of
\* the tries and of the result hold as before.
LEMMA NothingTried ==
  ASSUME IInv, pc = "sort", order' \in Seq(Nodes), pc' \in {"sort", "load"},
         UNCHANGED <<graph, tries, failures, branches, data>>
  PROVE  TriesInv' /\ DoneInv'
<1>1. tries = <<>> /\ failures = {}
  BY DEF IInv, TriesInv, Dealt
<1>2. Len(order') \in Nat
  BY LenProperties
<1> QED
  BY <1>1, <1>2 DEF TriesInv, DoneInv, Dealt

\* Taking a node off the queue keeps the counters right (SortNode).
LEMMA SortNodeIInv == IInv /\ SortNode => IInv'
<1> SUFFICES ASSUME IInv, SortNode PROVE IInv'
  OBVIOUS
<1> DEFINE h == Head(ready)
           freed == {m \in Nodes : Between(h, m) # {} /\ inDegree'[m] = 0}
<1>1. /\ TypeOK /\ SortInv /\ OrderInv /\ pc = "sort" /\ pc' = "sort" /\ ready # <<>>
      /\ graph' = graph /\ order' = Append(order, h)
      /\ inDegree' = [m \in Nodes |-> inDegree[m] - Cardinality(Between(h, m))]
      /\ UNCHANGED <<tries, failures, branches, data>>
  BY DEF SortNode, IInv
<1>2. PICK s \in SetToSeqs(freed) : ready' = Tail(ready) \o s
  BY DEF SortNode
<1>3. /\ ready \in Seq(Nodes) /\ order \in Seq(Nodes)
      /\ IsInjective(ready) /\ IsInjective(order)
      /\ ToSet(ready) \cap ToSet(order) = {}
      /\ \A m \in Nodes : Missing(m) = {} <=> m \in ToSet(ready) \cup ToSet(order)
      /\ \A m \in Nodes : inDegree[m] = Cardinality(Missing(m))
  BY <1>1 DEF TypeOK, SortInv, OrderInv
<1>4. /\ h \in Nodes /\ Tail(ready) \in Seq(Nodes)
      /\ ToSet(ready) = {h} \cup ToSet(Tail(ready))
      /\ IsInjective(Tail(ready)) /\ h \notin ToSet(Tail(ready)) /\ h \notin ToSet(order)
  BY <1>1, <1>3, Taken
<1> HIDE DEF h
<1>5. /\ order' \in Seq(Nodes) /\ IsInjective(order')
      /\ ToSet(order') = ToSet(order) \cup {h}
  BY <1>1, <1>3, <1>4, Appended
<1>6. ASSUME NEW m \in Nodes
      PROVE  /\ Missing(m)' = Missing(m) \ Between(h, m)
             /\ Between(h, m) \subseteq Missing(m)
             /\ inDegree'[m] = Cardinality(Missing(m)')
             /\ inDegree'[m] \in Nat
             /\ inDegree'[m] = 0 <=> Missing(m)' = {}
  <2>1. Missing(m)' = Missing(m) \ Between(h, m) /\ Between(h, m) \subseteq Missing(m)
    BY <1>1, <1>4, <1>5 DEF Missing, Into, Between
  <2>2. IsFiniteSet(Missing(m))
    BY <1>1, FiniteInputs
  <2>3. Missing(m) \cap Between(h, m) = Between(h, m)
    BY <2>1
  <2>4. /\ IsFiniteSet(Missing(m)')
        /\ Cardinality(Missing(m)') = Cardinality(Missing(m)) - Cardinality(Between(h, m))
    BY <2>1, <2>2, <2>3, FS_Difference
  <2>5. inDegree'[m] = Cardinality(Missing(m)')
    BY <1>1, <1>3, <2>4
  <2> QED
    BY <2>1, <2>4, <2>5, FS_CardinalityType, FS_EmptySet
<1>7. IsFiniteSet(freed) /\ freed \subseteq Nodes
  BY FlowAssumption, FS_Subset
<1>8. s \in Seq(Nodes) /\ IsInjective(s) /\ ToSet(s) = freed
  BY <1>2, <1>7, Listed, SeqMonotonic
<1>9. \A m \in freed : m \notin ToSet(ready) \cup ToSet(order)
  BY <1>3, <1>6
<1>10. /\ ready' \in Seq(Nodes) /\ IsInjective(ready')
       /\ ToSet(ready') = ToSet(Tail(ready)) \cup freed
  <2> DEFINE t == Tail(ready)
  <2>1. t \in Seq(Nodes) /\ IsInjective(t) /\ ToSet(t) \cap ToSet(s) = {}
    BY <1>3, <1>4, <1>8, <1>9
  <2> HIDE DEF t
  <2>2. t \o s \in Seq(Nodes) /\ IsInjective(t \o s) /\ ToSet(t \o s) = ToSet(t) \cup ToSet(s)
    BY <1>8, <2>1, Joined
  <2> QED
    BY <1>2, <1>8, <2>2 DEF t
<1>11. ToSet(ready') \cap ToSet(order') = {}
  BY <1>3, <1>4, <1>5, <1>9, <1>10
<1>12. ASSUME NEW m \in Nodes
       PROVE  Missing(m)' = {} <=> m \in ToSet(ready') \cup ToSet(order')
  <2>1. Missing(m)' = {} <=> Missing(m) = {} \/ m \in freed
    BY <1>6
  <2>2. ToSet(ready') \cup ToSet(order') = ToSet(ready) \cup ToSet(order) \cup freed
    BY <1>4, <1>5, <1>10
  <2> QED
    BY <1>3, <2>1, <2>2
<1>13. SortInv'
  BY <1>6, <1>10, <1>11, <1>12 DEF SortInv
<1>14. \A i \in DOMAIN order' : FedBefore(i)'
  <2> SUFFICES ASSUME NEW i \in DOMAIN order', NEW l \in graph.links, l.target = order'[i]
               PROVE  \E j \in 1..(i - 1) : order'[j] = l.source
    BY <1>1 DEF FedBefore, Into
  <2>1. /\ Len(order) \in Nat /\ DOMAIN order = 1..Len(order)
        /\ DOMAIN order' = (DOMAIN order) \cup {Len(order) + 1}
        /\ \A j \in DOMAIN order : order'[j] = order[j]
        /\ order'[Len(order) + 1] = h
    BY <1>1, <1>3, <1>4, Appended, LenProperties
  <2>2. CASE i \in DOMAIN order
    <3>1. l \in Into(order[i]) /\ FedBefore(i)
      BY <1>1, <2>1, <2>2 DEF Into, OrderInv
    <3>2. PICK j \in 1..(i - 1) : order[j] = l.source
      BY <3>1 DEF FedBefore
    <3> QED
      BY <2>1, <2>2, <3>2
  <2>3. CASE i = Len(order) + 1
    <3>1. l \in Into(h) /\ Missing(h) = {}
      BY <1>1, <1>3, <1>4, <2>1, <2>3 DEF Into
    <3>2. PICK j \in DOMAIN order : order[j] = l.source
      BY <3>1 DEF Missing, ToSet
    <3> QED
      BY <2>1, <2>3, <3>2
  <2> QED
    BY <2>1, <2>2, <2>3
<1>15. OrderInv'
  BY <1>1, <1>5, <1>14 DEF OrderInv
<1>16. TypeOK'
  BY <1>1, <1>5, <1>6, <1>10 DEF TypeOK
<1> QED
  BY <1>1, <1>5, <1>13, <1>15, <1>16, NothingTried DEF IInv

\* Without cycles the queue runs empty only when every node is in the order.
LEMMA AllSorted ==
  ASSUME IInv, pc = "sort", ready = <<>>, Acyclic
  PROVE  ToSet(order) = Nodes
<1> DEFINE S == Nodes \ ToSet(order)
<1>1. order \in Seq(Nodes) /\ ToSet(order) \subseteq Nodes
  <2>1. order \in Seq(Nodes)
    BY DEF IInv, TypeOK
  <2> QED
    BY <2>1, LenProperties DEF ToSet
<1>2. ToSet(ready) = {}
  BY DEF ToSet
<1>3. \A m \in S : Missing(m) # {}
  BY <1>2 DEF IInv, SortInv
<1>4. \A l \in graph.links : l.source \in Nodes
  BY FiniteInputs DEF IInv
<1>5. ASSUME S # {} PROVE FALSE
  <2>1. PICK n \in S : \A l \in Into(n) : l.source \notin S
    BY <1>5 DEF Acyclic
  <2>2. PICK l \in Missing(n) : TRUE
    BY <1>3, <2>1
  <2> QED
    BY <1>4, <2>1, <2>2 DEF Missing, Into
<1> QED
  BY <1>1, <1>5

\* Appending the nodes left over makes the order complete (SortRest).
LEMMA SortRestIInv == IInv /\ SortRest => IInv'
<1> SUFFICES ASSUME IInv, SortRest PROVE IInv'
  OBVIOUS
<1> DEFINE rest == Nodes \ ToSet(order)
<1>1. /\ TypeOK /\ OrderInv /\ pc = "sort" /\ ready = <<>> /\ pc' = "load"
      /\ UNCHANGED <<graph, inDegree, ready, tries, failures, branches, data>>
  BY DEF IInv, SortRest
<1>2. PICK s \in Arranged(rest) : order' = order \o s
  BY DEF SortRest
<1>3. order \in Seq(Nodes) /\ ToSet(order) \subseteq Nodes /\ IsInjective(order)
  <2>1. order \in Seq(Nodes) /\ IsInjective(order)
    BY <1>1 DEF TypeOK, OrderInv
  <2> QED
    BY <2>1, LenProperties DEF ToSet
<1>4. s \in Seq(Nodes) /\ IsInjective(s) /\ ToSet(s) = rest
  BY ArrangedList
<1>5. /\ order' \in Seq(Nodes) /\ IsInjective(order') /\ ToSet(order') = Nodes
  <2>1. ToSet(order) \cap ToSet(s) = {} /\ ToSet(order) \cup ToSet(s) = Nodes
    BY <1>3, <1>4
  <2>2. /\ order \o s \in Seq(Nodes) /\ IsInjective(order \o s)
        /\ ToSet(order \o s) = ToSet(order) \cup ToSet(s)
    BY <1>3, <1>4, <2>1, Joined
  <2> QED
    BY <1>2, <2>1, <2>2
<1>6. ASSUME Acyclic PROVE order' = order
  <2>1. ToSet(s) = {}
    BY <1>1, <1>4, <1>6, AllSorted
  <2>2. s = <<>>
    BY <1>4, <2>1, EmptySeq, LenProperties DEF ToSet
  <2> QED
    BY <1>2, <1>3, <2>2, ConcatEmptySeq
<1>7. Acyclic' = Acyclic
  BY <1>1 DEF Acyclic, Into
<1>8. ASSUME Acyclic' PROVE \A i \in DOMAIN order' : FedBefore(i)'
  BY <1>1, <1>6, <1>7, <1>8 DEF OrderInv, FedBefore, Into
<1>9. OrderInv'
  BY <1>1, <1>5, <1>8 DEF OrderInv
<1>10. TypeOK'
  BY <1>1, <1>5 DEF TypeOK
<1> QED
  BY <1>1, <1>5, <1>9, <1>10, NothingTried DEF IInv, SortInv

\* Past the sort the order stays as it is and its invariant with it.
LEMMA Sorted ==
  ASSUME IInv, pc # "sort", pc' # "sort", UNCHANGED <<graph, order>>
  PROVE  SortInv' /\ OrderInv'
<1>1. Acyclic' = Acyclic /\ \A i \in DOMAIN order : FedBefore(i)' = FedBefore(i)
  BY DEF Acyclic, FedBefore, Into
<1> QED
  BY <1>1 DEF IInv, SortInv, OrderInv

\* A step that only moves the run on to its nodes, or out of it by an error.
LEMMA MovedOn ==
  ASSUME IInv, pc # "sort", pc' \in {"run", "threw"},
         UNCHANGED <<graph, inDegree, ready, order, tries, failures, branches, data>>
  PROVE  IInv'
<1>1. TypeOK'
  BY DEF IInv, TypeOK
<1>2. SortInv' /\ OrderInv'
  BY Sorted
<1>3. \A i \in DOMAIN tries : TryInv(i)' = TryInv(i)
  BY DEF TryInv, FailedBefore, Into, Affected, FailedItself, Dependents
<1>4. \A n \in Nodes : Dealt(n, {"failed"})' = Dealt(n, {"failed"})
  BY DEF Dealt
<1>5. TriesInv'
  BY <1>3, <1>4 DEF IInv, TriesInv
<1> QED
  BY <1>1, <1>2, <1>5 DEF IInv, DoneInv

LEMMA LoadConnectionsIInv == IInv /\ LoadConnections => IInv'
BY MovedOn DEF LoadConnections

LEMMA ClashThrowsIInv == \A n \in Nodes : IInv /\ ClashThrows(n) => IInv'
BY MovedOn DEF ClashThrows, At

\* A node is held up exactly if, before its turn, one it requires did not complete.
LEMMA HeldUp ==
  ASSUME IInv, NEW n \in Nodes
  PROVE  Blocked(n) <=> \E l \in Into(n) : l.required /\ FailedBefore(l.source, Len(tries) + 1)
<1>1. /\ tries \in Seq(NodeTry) /\ Len(tries) \in Nat /\ DOMAIN tries = 1..Len(tries)
      /\ \A j \in DOMAIN tries : tries[j].status \in Status
  <2>1. tries \in Seq(NodeTry)
    BY DEF IInv, TypeOK
  <2>2. tries \in [1..Len(tries) -> NodeTry] /\ Len(tries) \in Nat
    BY <2>1, LenProperties
  <2> QED
    BY <2>1, <2>2 DEF NodeTry
<1>2. 1..((Len(tries) + 1) - 1) = DOMAIN tries
  BY <1>1
<1> QED
  BY <1>1, <1>2 DEF Blocked, Dealt, FailedBefore, Status

(***************************************************************************)
(* The try of the current node, with a status that fits its inputs.        *)
(***************************************************************************)
LEMMA TriedIInv ==
  ASSUME IInv, NEW n \in Nodes, At(n), pc' = pc,
         NEW status \in Status, NEW own \in BOOLEAN, Record(n, status, own),
         status = "completed" \/ own => ~Blocked(n),
         status # "completed" /\ ~own => Blocked(n),
         own => status = "failed",
         status = "skipped" => ~graph.required[n]
  PROVE  IInv'
<1> DEFINE e == [node |-> n, status |-> status, own |-> own]
<1>0. PICK k : k = Len(tries) + 1
  OBVIOUS
<1>1. /\ TypeOK /\ TriesInv /\ pc = "run" /\ pc' = "run" /\ n = order[k]
      /\ Len(tries) < Len(order) /\ tries' = Append(tries, e)
      /\ UNCHANGED <<graph, inDegree, ready, order, branches, data>>
  BY <1>0 DEF IInv, At, Current, Record
<1>2. /\ e \in NodeTry /\ e.node = n /\ e.status = status /\ e.own = own
  BY DEF NodeTry
<1> HIDE DEF e
<1>3. /\ tries' \in Seq(NodeTry) /\ Len(tries) \in Nat /\ Len(tries') = k
      /\ DOMAIN tries = 1..(k - 1) /\ DOMAIN tries' = (DOMAIN tries) \cup {k}
      /\ \A i \in DOMAIN tries : tries'[i] = tries[i]
      /\ tries'[k] = e
  BY <1>0, <1>1, <1>2, Appended, LenProperties DEF TypeOK
<1>4. Len(order) \in Nat /\ k <= Len(order)
  <2>1. Len(order) \in Nat
    BY <1>1, LenProperties DEF TypeOK
  <2> QED
    BY <1>0, <1>1, <1>3, <2>1
<1>5. ASSUME NEW m, NEW i \in DOMAIN tries' PROVE FailedBefore(m, i)' = FailedBefore(m, i)
  <2>1. \A j \in 1..(i - 1) : j \in DOMAIN tries
    BY <1>0, <1>3, <1>5
  <2> QED
    BY <1>3, <2>1 DEF FailedBefore
<1>6. FailedItself \subseteq FailedItself' /\ (own => n \in FailedItself')
  <2>1. ASSUME NEW m \in FailedItself PROVE m \in FailedItself'
    BY <1>3, <2>1 DEF FailedItself
  <2>2. ASSUME own PROVE n \in FailedItself'
    BY <1>2, <1>3, <2>2 DEF FailedItself
  <2> QED
    BY <2>1, <2>2
<1>7. Affected \subseteq Affected'
  <2>1. \A S \in SUBSET Nodes : Dependents(S)' = Dependents(S)
    BY <1>1 DEF Dependents
  <2>2. \A S \in SUBSET Nodes : FailedItself' \subseteq S => FailedItself \subseteq S
    BY <1>6
  <2> QED
    BY <2>1, <2>2 DEF Affected
<1>8. ASSUME NEW i \in DOMAIN tries PROVE TryInv(i)'
  <2>1. /\ TryInv(i) /\ i \in DOMAIN tries' /\ tries'[i] = tries[i]
    BY <1>1, <1>3, <1>8 DEF TriesInv
  <2>2. \A m : FailedBefore(m, i)' = FailedBefore(m, i)
    BY <1>5, <2>1
  <2> QED
    BY <1>1, <1>7, <2>1, <2>2 DEF TryInv, Into
<1>9. TryInv(k)'
  <2>1. Blocked(n) <=> \E l \in Into(n) : l.required /\ FailedBefore(l.source, k)'
    BY <1>0, <1>3, <1>5, HeldUp
  <2>2. ASSUME status # "completed" PROVE n \in Affected'
    <3>1. CASE own
      BY <1>6, <3>1 DEF Affected
    <3>2. CASE ~own
      <4>1. PICK l \in Into(n) : l.required /\ FailedBefore(l.source, k)
        BY <1>0, <2>2, <3>2, HeldUp
      <4>2. PICK j \in DOMAIN tries : tries[j].node = l.source /\ tries[j].status # "completed"
        BY <1>3, <4>1 DEF FailedBefore
      <4>3. l.source \in Affected'
        BY <1>1, <1>7, <4>2 DEF TriesInv, TryInv
      <4>4. \A S \in SUBSET Nodes : l.source \in S => n \in Dependents(S)'
        BY <1>1, <4>1 DEF Dependents, Into
      <4> QED
        BY <4>3, <4>4 DEF Affected
    <3> QED
      BY <3>1, <3>2
  <2> QED
    BY <1>1, <1>2, <1>3, <2>1, <2>2 DEF TryInv, Into
<1>10. ASSUME NEW m \in Nodes
       PROVE  Dealt(m, {"failed"})' <=> Dealt(m, {"failed"}) \/ (m = n /\ status = "failed")
  BY <1>2, <1>3 DEF Dealt
<1>11. failures' = {m \in Nodes : graph'.required[m] /\ Dealt(m, {"failed"})'}
  BY <1>1, <1>10 DEF TriesInv, Record
<1>12. TriesInv'
  BY <1>1, <1>3, <1>4, <1>8, <1>9, <1>11 DEF TriesInv
<1>13. failures' \subseteq Nodes
  BY <1>11
<1>14. TypeOK'
  BY <1>1, <1>3, <1>13 DEF TypeOK
<1> QED
  BY <1>1, <1>12, <1>14, Sorted DEF IInv, DoneInv

LEMMA PropagateIInv == \A n \in Nodes : IInv /\ Propagate(n) => IInv'
<1> SUFFICES ASSUME NEW n \in Nodes, IInv, Propagate(n) PROVE IInv'
  OBVIOUS
<1>1. CASE graph.required[n]
  BY <1>1, TriedIInv DEF Propagate, Status
<1>2. CASE ~graph.required[n]
  BY <1>2, TriedIInv DEF Propagate, Status
<1> QED
  BY <1>1, <1>2

LEMMA ExecuteIInv == \A n \in Nodes : IInv /\ Execute(n) => IInv'
<1> SUFFICES ASSUME NEW n \in Nodes, IInv, Execute(n) PROVE IInv'
  OBVIOUS
<1>1. CASE Record(n, "completed", FALSE)
  BY <1>1, TriedIInv DEF Execute, Status
<1>2. CASE Record(n, "failed", TRUE)
  BY <1>2, TriedIInv DEF Execute, Status
<1> QED
  BY <1>1, <1>2 DEF Execute

\* The data are some of the flow's nodes.
LEMMA DataOfNodes == ASSUME NEW d \in Data PROVE d \subseteq Nodes
BY DEF Data, CompletedOf, OfKind, First

LEMMA ConcludeIInv == IInv /\ Conclude => IInv'
<1> SUFFICES ASSUME IInv, Conclude PROVE IInv'
  OBVIOUS
<1>1. /\ pc = "run" /\ pc' = "done" /\ Len(tries) = Len(order)
      /\ UNCHANGED <<graph, inDegree, ready, order, tries, failures>>
      /\ TypeOK /\ TriesInv
  BY DEF Conclude, IInv
<1>2. /\ branches' \in [Nodes -> BranchStatus]
      /\ \A n \in OfKind("terminal") : branches'[n] = BranchOf(n)
  BY DEF Conclude, BranchOf, BranchStatus, OfKind
<1>3. data' \subseteq Nodes /\ (failures # {} => data' = {})
  BY DataOfNodes DEF Conclude
<1>4. \A n \in Nodes : BranchOf(n)' = BranchOf(n)
  BY <1>1 DEF BranchOf, Dealt
<1>5. OfKind("terminal")' = OfKind("terminal") /\ OfKind("terminal") \subseteq Nodes
  BY <1>1 DEF OfKind
<1>6. DoneInv'
  BY <1>1, <1>2, <1>3, <1>4, <1>5 DEF DoneInv
<1>7. \A i \in DOMAIN tries : TryInv(i)' = TryInv(i)
  BY <1>1 DEF TryInv, FailedBefore, Into, Affected, FailedItself, Dependents
<1>8. \A n \in Nodes : Dealt(n, {"failed"})' = Dealt(n, {"failed"})
  BY <1>1 DEF Dealt
<1>9. TriesInv'
  BY <1>1, <1>7, <1>8 DEF TriesInv
<1>10. TypeOK'
  BY <1>1, <1>2, <1>3 DEF TypeOK
<1> QED
  BY <1>1, <1>6, <1>9, <1>10, Sorted DEF IInv

-------------------------------------------------------------------------------
\* The invariant holds throughout every run of every flow.
LEMMA Invariance == Spec => []IInv
<1>1. IInv /\ [Next]_vars => IInv'
  <2> SUFFICES ASSUME IInv, [Next]_vars PROVE IInv'
    OBVIOUS
  <2>1. CASE SortNode \/ SortRest
    BY <2>1, SortNodeIInv, SortRestIInv
  <2>2. CASE LoadConnections
    BY <2>2, LoadConnectionsIInv
  <2>3. ASSUME NEW n \in Nodes, ClashThrows(n) \/ Propagate(n) \/ Execute(n) PROVE IInv'
    BY <2>3, ClashThrowsIInv, PropagateIInv, ExecuteIInv
  <2>4. CASE Conclude
    BY <2>4, ConcludeIInv
  <2>5. CASE UNCHANGED vars
    <3>1. TypeOK'
      BY <2>5 DEF vars, IInv, TypeOK
    <3>2. SortInv' /\ OrderInv'
      BY <2>5 DEF vars, IInv, SortInv, OrderInv, Missing, FedBefore, Into, Acyclic
    <3>3. \A i \in DOMAIN tries : TryInv(i)' = TryInv(i)
      BY <2>5 DEF vars, TryInv, FailedBefore, Into, Affected, FailedItself, Dependents
    <3>4. TriesInv'
      BY <2>5, <3>3 DEF vars, IInv, TriesInv, Dealt
    <3>5. \A n \in Nodes : BranchOf(n)' = BranchOf(n)
      BY <2>5 DEF vars, BranchOf, Dealt
    <3>6. DoneInv'
      BY <2>5, <3>5 DEF vars, IInv, DoneInv, OfKind
    <3> QED
      BY <3>1, <3>2, <3>4, <3>6 DEF IInv
  <2> QED
    BY <2>1, <2>2, <2>3, <2>4, <2>5 DEF Next
<1> QED
  BY <1>1, InitIInv, PTL DEF Spec

\* Each part of the state keeps its type.
THEOREM Typed == Spec => []TypeOK
<1>1. IInv => TypeOK
  BY DEF IInv
<1> QED
  BY <1>1, Invariance, PTL

\* What the invariant says of the sequences the properties quantify over.
LEMMA TriesInOrder ==
  ASSUME IInv
  PROVE  /\ Len(tries) \in Nat /\ Len(order) \in Nat /\ Len(tries) <= Len(order)
         /\ DOMAIN tries = 1..Len(tries) /\ DOMAIN order = 1..Len(order)
         /\ IsInjective(order) /\ (pc # "sort" => ToSet(order) = Nodes)
         /\ \A i \in DOMAIN tries :
              /\ i \in DOMAIN order /\ tries[i].node = order[i] /\ tries[i].node \in Nodes
              /\ tries[i].status \in Status /\ tries[i].own \in BOOLEAN /\ TryInv(i)
<1>1. tries \in Seq(NodeTry) /\ order \in Seq(Nodes)
  BY DEF IInv, TypeOK
<1>2. /\ tries \in [1..Len(tries) -> NodeTry] /\ Len(tries) \in Nat
      /\ order \in [1..Len(order) -> Nodes] /\ Len(order) \in Nat
  BY <1>1, LenProperties
<1>3. \A i \in DOMAIN tries : TryInv(i) /\ tries[i].node = order[i]
  BY DEF IInv, TriesInv, TryInv
<1> QED
  BY <1>2, <1>3 DEF IInv, OrderInv, TriesInv, NodeTry

(***************************************************************************)
(* In a flow without cycles a node is dealt with after every node that     *)
(* feeds it and runs only if those it requires have completed, as the      *)
(* comment of topologicalOrder says.                                       *)
(***************************************************************************)
THEOREM InputsComeFirst == Spec => []InputsFirst
<1>1. IInv => InputsFirst
  <2> SUFFICES ASSUME IInv, Acyclic, NEW i \in DOMAIN tries, NEW l \in Into(tries[i].node)
               PROVE  \E j \in 1..(i - 1) :
                        /\ tries[j].node = l.source
                        /\ l.required /\ (tries[i].status = "completed" \/ tries[i].own)
                             => tries[j].status = "completed"
    BY DEF InputsFirst
  <2>1. PICK j \in 1..(i - 1) : order[j] = l.source
    BY TriesInOrder DEF IInv, OrderInv, FedBefore
  <2>2. j \in DOMAIN tries
    BY TriesInOrder, <2>1
  <2>3. tries[j].node = l.source /\ TryInv(i)
    BY TriesInOrder, <2>1, <2>2
  <2>4. ASSUME l.required, tries[j].status # "completed"
        PROVE  ~(tries[i].status = "completed" \/ tries[i].own)
    BY <2>1, <2>3, <2>4 DEF TryInv, FailedBefore
  <2> QED
    BY <2>3, <2>4
<1> QED
  BY <1>1, Invariance, PTL

\* A run that has ended well has dealt with every node, on a cycle or not, and
\* no node is ever dealt with twice.
THEOREM NodesOnce == Spec => []EachNodeOnce
<1>1. IInv => EachNodeOnce
  <2> SUFFICES ASSUME IInv PROVE EachNodeOnce
    OBVIOUS
  <2>1. ASSUME pc = "done" PROVE {tries[i].node : i \in DOMAIN tries} = Nodes
    <3>1. Len(tries) = Len(order) /\ ToSet(order) = Nodes
      BY <2>1, TriesInOrder DEF IInv, DoneInv
    <3>2. DOMAIN tries = DOMAIN order
      BY <3>1, TriesInOrder
    <3> QED
      BY <3>1, <3>2, TriesInOrder DEF ToSet
  <2> QED
    BY <2>1, TriesInOrder DEF EachNodeOnce, IsInjective
<1> QED
  BY <1>1, Invariance, PTL

\* When a run has ended, every node has been dealt with by one try alone.
LEMMA OneTryEach ==
  ASSUME IInv, pc = "done", NEW n \in Nodes
  PROVE  \E i \in DOMAIN tries :
           /\ tries[i].node = n
           /\ \A j \in DOMAIN tries : tries[j].node = n => j = i
           /\ \A S : Dealt(n, S) <=> tries[i].status \in S
<1>1. Len(tries) = Len(order) /\ ToSet(order) = Nodes
  BY TriesInOrder DEF IInv, DoneInv
<1>2. PICK i \in DOMAIN order : order[i] = n
  BY <1>1 DEF ToSet
<1>3. i \in DOMAIN tries /\ tries[i].node = n
  BY <1>1, <1>2, TriesInOrder
<1>4. \A j \in DOMAIN tries : tries[j].node = n => j = i
  BY <1>2, <1>3, TriesInOrder DEF IsInjective
<1> QED
  BY <1>3, <1>4 DEF Dealt

(***************************************************************************)
(* The failures of single nodes take down exactly the nodes that depend on *)
(* them: what has not completed lies in the least set closed under         *)
(* required connections, as TryInv says, and the nodes that have not       *)
(* completed are such a closed set themselves.                             *)
(***************************************************************************)
LEMMA CascadeInv == IInv => ExactCascade
<1> SUFFICES ASSUME IInv, Acyclic, pc = "done"
             PROVE  /\ \A n \in Nodes : Dealt(n, {"completed"}) <=> n \notin Affected
                    /\ failures = {n \in Affected : graph.required[n]}
  BY DEF ExactCascade
<1> DEFINE down == {n \in Nodes : ~Dealt(n, {"completed"})}
<1>1. down \subseteq Affected
  <2> SUFFICES ASSUME NEW n \in down PROVE n \in Affected
    OBVIOUS
  <2>1. PICK i \in DOMAIN tries : tries[i].node = n /\ tries[i].status # "completed"
    BY OneTryEach
  <2> QED
    BY <2>1, TriesInOrder DEF TryInv
<1>2. FailedItself \subseteq down
  <2> SUFFICES ASSUME NEW n \in FailedItself PROVE n \in down
    OBVIOUS
  <2>1. n \in Nodes /\ \E i \in DOMAIN tries : tries[i].node = n /\ tries[i].own
    BY DEF FailedItself
  <2>2. PICK i \in DOMAIN tries : tries[i].node = n /\ tries[i].own
    BY <2>1
  <2>3. tries[i].status = "failed"
    BY <2>2, TriesInOrder DEF TryInv
  <2>4. ~Dealt(n, {"completed"})
    BY <2>1, <2>2, <2>3, OneTryEach
  <2> QED
    BY <2>1, <2>4
<1>3. Dependents(down) \subseteq down
  <2> SUFFICES ASSUME NEW l \in graph.links, l.required, l.source \in down
               PROVE  l.target \in down
    BY DEF Dependents
  <2>1. l.target \in Nodes
    BY FiniteInputs DEF IInv
  <2>2. PICK i \in DOMAIN tries : /\ tries[i].node = l.target
                                  /\ \A S : Dealt(l.target, S) <=> tries[i].status \in S
    BY <2>1, OneTryEach
  <2>3. l \in Into(order[i]) /\ TryInv(i)
    BY <2>2, TriesInOrder DEF Into
  <2>4. PICK j \in 1..(i - 1) : order[j] = l.source
    BY <2>2, <2>3, TriesInOrder DEF IInv, OrderInv, FedBefore
  <2>5. j \in DOMAIN tries
    BY <2>4, TriesInOrder
  <2>6. tries[j].node = l.source /\ tries[j].status # "completed"
    BY <2>4, <2>5, TriesInOrder DEF Dealt
  <2>7. tries[i].status # "completed"
    BY <2>2, <2>3, <2>4, <2>6, TriesInOrder DEF TryInv, FailedBefore
  <2> QED
    BY <2>1, <2>2, <2>7
<1>4. Affected \subseteq down
  BY <1>2, <1>3 DEF Affected
<1>5. Affected = down
  BY <1>1, <1>4
<1>6. failures = {n \in down : graph.required[n]}
  <2>1. ASSUME NEW n \in Nodes, graph.required[n]
        PROVE  Dealt(n, {"failed"}) <=> ~Dealt(n, {"completed"})
    <3>1. PICK i \in DOMAIN tries : /\ tries[i].node = n
                                    /\ \A S : Dealt(n, S) <=> tries[i].status \in S
      BY OneTryEach
    <3>2. tries[i].status # "skipped" /\ tries[i].status \in Status
      BY <2>1, <3>1, TriesInOrder DEF TryInv
    <3> QED
      BY <3>1, <3>2 DEF Status
  <2> QED
    BY <2>1 DEF IInv, TriesInv
<1> QED
  BY <1>5, <1>6

\* A failure takes down exactly what depends on it, in every flow without cycles.
THEOREM CascadeIsExact == Spec => []ExactCascade
BY CascadeInv, Invariance, PTL

(***************************************************************************)
(* Data are returned only if every required node has completed, and a      *)
(* failed branch shows in requiredFailures.                                *)
(***************************************************************************)
LEMMA HonestInv == IInv => ResultHonest
<1> SUFFICES ASSUME IInv, pc = "done"
             PROVE  /\ data # {} => \A n \in Nodes : graph.required[n] => Dealt(n, {"completed"})
                    /\ \A n \in OfKind("terminal") :
                         branches[n] = "failed" /\ (graph.branch[n] => graph.required[n])
                           => failures # {}
  BY DEF ResultHonest
<1>1. /\ failures = {n \in Nodes : graph.required[n] /\ Dealt(n, {"failed"})}
      /\ \A n \in OfKind("terminal") : n \in Nodes /\ branches[n] = BranchOf(n)
      /\ failures # {} => data = {}
  BY DEF IInv, TriesInv, DoneInv, OfKind
<1>2. ASSUME NEW n \in Nodes
      PROVE  /\ Dealt(n, {"completed"}) \/ Dealt(n, {"failed"}) \/ Dealt(n, {"skipped"})
             /\ graph.required[n] => ~Dealt(n, {"skipped"})
  <2>1. PICK i \in DOMAIN tries : /\ tries[i].node = n
                                  /\ \A S : Dealt(n, S) <=> tries[i].status \in S
    BY OneTryEach
  <2>2. tries[i].status \in Status /\ TryInv(i)
    BY <2>1, TriesInOrder
  <2> QED
    BY <2>1, <2>2 DEF Status, TryInv
<1>3. ASSUME data # {}, NEW n \in Nodes, graph.required[n] PROVE Dealt(n, {"completed"})
  BY <1>1, <1>2, <1>3
<1>4. ASSUME NEW n \in OfKind("terminal"), branches[n] = "failed",
             graph.branch[n] => graph.required[n]
      PROVE  failures # {}
  <2>1. ~Dealt(n, {"completed"}) /\ ~Dealt(n, {"skipped"})
    BY <1>1, <1>4 DEF BranchOf
  <2>2. Dealt(n, {"failed"}) /\ graph.branch[n]
    BY <1>1, <1>2, <1>4, <2>1 DEF BranchOf
  <2> QED
    BY <1>1, <1>4, <2>2
<1> QED
  BY <1>3, <1>4

\* The result of a run never hides a failure.
THEOREM ResultsAreHonest == Spec => []ResultHonest
BY HonestInv, Invariance, PTL

===============================================================================
