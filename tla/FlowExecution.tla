---------------------------- MODULE FlowExecution ----------------------------
(***************************************************************************)
(* One run of a published flow, runPublishedFlow: the nodes of the         *)
(* snapshot are put in topological order by Kahn's algorithm, run one      *)
(* after the other with failures propagated along required connections,    *)
(* and the branches that end in a terminal are summed up.  The snapshot is *)
(* read once and never changes during the run.                             *)
(*                                                                         *)
(* What a node computes is abstracted to whether its executor returns.     *)
(***************************************************************************)
EXTENDS Naturals, SequencesExt

CONSTANTS
  Nodes,       \* node ids of the snapshot
  Insertion,   \* the order of the snapshot's nodes array
  Graphs       \* the flows that may be run

Kinds == {"mapper", "ai", "terminal", "other"}

\* A connection feeds input port `port` of its target.
Link == [id : STRING, source : Nodes, target : Nodes, port : STRING, required : BOOLEAN]

\* `required` is FlowNode.required, `branch` a terminal's own required flag,
\* terminalConfig.required, which defaults to the node's.
Graph ==
  [kind : [Nodes -> Kinds], required : [Nodes -> BOOLEAN],
   branch : [Nodes -> BOOLEAN], links : SUBSET Link]

ASSUME FlowAssumption ==
  /\ IsFiniteSet(Nodes)
  /\ Insertion \in Seq(Nodes)
  /\ ToSet(Insertion) = Nodes
  /\ \A i, j \in DOMAIN Insertion : Insertion[i] = Insertion[j] => i = j
  /\ Graphs \subseteq Graph
  /\ \A g \in Graphs : IsFiniteSet(g.links)

VARIABLES
  graph,      \* the snapshot being run
  pc,         \* where runPublishedFlow is
  inDegree,   \* topologicalOrder: connections from nodes not yet in the order
  ready,      \* topologicalOrder: its queue
  order,      \* the order of execution
  tries,      \* nodeTries, one entry for each node that has been dealt with
  failures,   \* nodes with an entry in requiredFailures
  branches,   \* branchResults: the status of each terminal
  data        \* the nodes whose output is the run's data, none for null

vars == <<graph, pc, inDegree, ready, order, tries, failures, branches, data>>

Status == {"completed", "failed", "skipped"}

\* `own` tells a failure of the node's executor from a propagated one, as the
\* error code does.
NodeTry == [node : Nodes, status : Status, own : BOOLEAN]

BranchStatus == {"none", "completed", "warning", "failed"}

Into(n) == {l \in graph.links : l.target = n}

Between(m, n) == {l \in graph.links : l.source = m /\ l.target = n}

OfKind(k) == {n \in Nodes : graph.kind[n] = k}

\* The nodes of S in the order of the nodes array, the one member of the set.
Arranged(S) ==
  {s \in SetToSeqs(S) : \A i, j \in DOMAIN s : \A p, q \in DOMAIN Insertion :
     i < j /\ Insertion[p] = s[i] /\ Insertion[q] = s[j] => p < q}

Init ==
  /\ graph \in Graphs
  /\ pc = "sort"
  /\ inDegree = [n \in Nodes |-> Cardinality(Into(n))]
  /\ ready \in Arranged({n \in Nodes : Into(n) = {}})
  /\ order = <<>>
  /\ tries = <<>>
  /\ failures = {}
  /\ branches = [n \in Nodes |-> "none"]
  /\ data = {}

-------------------------------------------------------------------------------
\* Mutant of SortNode: a node is ready as soon as one of its inputs is.
SortEager ==
  /\ pc = "sort"
  /\ ready # <<>>
  /\ LET freed == {m \in Nodes : Between(Head(ready), m) # {}
                                   /\ m \notin ToSet(ready) \cup ToSet(order)}
     IN \E s \in SetToSeqs(freed) : ready' = Tail(ready) \o s
  /\ order' = Append(order, Head(ready))
  /\ UNCHANGED <<graph, pc, inDegree, tries, failures, branches, data>>

\* Mutant of SortNode: a node is queued again for every input that becomes
\* available, and nothing notices that it has been seen.
SortUnseen ==
  /\ pc = "sort"
  /\ ready # <<>>
  /\ LET freed == {m \in Nodes : Between(Head(ready), m) # {}}
     IN \E s \in SetToSeqs(freed) : ready' = Tail(ready) \o s
  /\ order' = IF Head(ready) \in ToSet(order) THEN order ELSE Append(order, Head(ready))
  /\ UNCHANGED <<graph, pc, inDegree, tries, failures, branches, data>>

\* Mutant of SortNode: as before, and the connections are counted down again.
SortAgain ==
  /\ pc = "sort"
  /\ ready # <<>>
  /\ inDegree' = [m \in Nodes |-> inDegree[m] - Cardinality(Between(Head(ready), m))]
  /\ LET freed == {m \in Nodes : Between(Head(ready), m) # {}}
     IN \E s \in SetToSeqs(freed) : ready' = Tail(ready) \o s
  /\ order' = Append(order, Head(ready))
  /\ UNCHANGED <<graph, pc, tries, failures, branches, data>>

\* The next node of the queue enters the order; the nodes it frees are queued
\* in the order of its outgoing connections, whichever that is.  A node is
\* freed once, so the check of `seen` never skips one.
SortNode ==
  /\ pc = "sort"
  /\ ready # <<>>
  /\ inDegree' = [m \in Nodes |-> inDegree[m] - Cardinality(Between(Head(ready), m))]
  /\ LET freed == {m \in Nodes : Between(Head(ready), m) # {} /\ inDegree'[m] = 0}
     IN \E s \in SetToSeqs(freed) : ready' = Tail(ready) \o s
  /\ order' = Append(order, Head(ready))
  /\ UNCHANGED <<graph, pc, tries, failures, branches, data>>

\* Mutant of SortRest: the nodes on cycles are left out.
SortNoRest ==
  /\ pc = "sort"
  /\ ready = <<>>
  /\ pc' = "load"
  /\ UNCHANGED <<graph, inDegree, ready, order, tries, failures, branches, data>>

\* Nodes on a cycle, which validation should have kept out, are appended in
\* the order of the nodes array.
SortRest ==
  /\ pc = "sort"
  /\ ready = <<>>
  /\ \E s \in Arranged(Nodes \ ToSet(order)) : order' = order \o s
  /\ pc' = "load"
  /\ UNCHANGED <<graph, inDegree, ready, tries, failures, branches, data>>

\* The organization's connections and the OpenAI key are loaded once for the
\* whole run; an error here is an error of the run.
LoadConnections ==
  /\ pc = "load"
  /\ pc' \in {"run", "threw"}
  /\ UNCHANGED <<graph, inDegree, ready, order, tries, failures, branches, data>>

-------------------------------------------------------------------------------
Current == order[Len(tries) + 1]

\* runtime.get: there is an entry for node n, with one of the statuses in S.
Dealt(n, S) == \E i \in DOMAIN tries : tries[i].node = n /\ tries[i].status \in S

\* A mapper that may have two values on one of its ports, unless a source has
\* none to give.  The inputs for the trace are resolved before anything else,
\* outside the try block.
Clash(n) ==
  /\ graph.kind[n] = "mapper"
  /\ \E l, k \in Into(n) :
       /\ l # k /\ l.port = k.port
       /\ Dealt(l.source, {"completed"}) /\ Dealt(k.source, {"completed"})

\* Mutant of Blocked: a skipped node does not hold up those it feeds.
BlockedByFailure(n) ==
  \E l \in Into(n) : l.required /\ Dealt(l.source, {"failed"})

\* A required connection comes from a node that did not complete.
Blocked(n) ==
  \E l \in Into(n) : l.required /\ Dealt(l.source, {"failed", "skipped"})

\* The entries for node n: its try, and its required failure if it has one.
Record(n, status, own) ==
  /\ tries' = Append(tries, [node |-> n, status |-> status, own |-> own])
  /\ failures' = IF status = "failed" /\ graph.required[n]
                   THEN failures \cup {n} ELSE failures

\* The loop of runPublishedFlow has come to node n.
At(n) ==
  /\ pc = "run"
  /\ Len(tries) < Len(order)
  /\ n = Current
  /\ UNCHANGED <<graph, inDegree, ready, order, branches, data>>

ClashThrows(n) ==
  /\ At(n)
  /\ Clash(n)
  /\ pc' = "threw"
  /\ UNCHANGED <<tries, failures>>

Propagate(n) ==
  /\ At(n)
  /\ Blocked(n)
  /\ Record(n, IF graph.required[n] THEN "failed" ELSE "skipped", FALSE)
  /\ UNCHANGED pc

Execute(n) ==
  /\ At(n)
  /\ ~Blocked(n)
  /\ Record(n, "completed", FALSE) \/ Record(n, "failed", TRUE)
  /\ UNCHANGED pc

\* The branch result of terminal n.
BranchOf(n) ==
  CASE Dealt(n, {"completed"}) -> "completed"
    [] Dealt(n, {"skipped"}) \/ (Dealt(n, {"failed"}) /\ ~graph.branch[n]) -> "warning"
    [] OTHER -> "failed"

CompletedOf(k) == {n \in OfKind(k) : Dealt(n, {"completed"})}

\* The first node of S in the nodes array, if there is one.
First(S) ==
  {n \in S : \A i, j \in DOMAIN Insertion :
               Insertion[i] = n /\ Insertion[j] \in S => i <= j}

\* The data are those of the completed terminals or, failing these, of the
\* first completed AI node that has a result.
Data ==
  IF CompletedOf("terminal") # {}
    THEN {CompletedOf("terminal")}
    ELSE {First(S) : S \in SUBSET CompletedOf("ai")}

\* Mutant of Conclude: data is returned whatever failed.
ConcludeAnyway ==
  /\ pc = "run"
  /\ Len(tries) = Len(order)
  /\ branches' = [n \in Nodes |->
       IF n \in OfKind("terminal") THEN BranchOf(n) ELSE "none"]
  /\ data' \in Data
  /\ pc' = "done"
  /\ UNCHANGED <<graph, inDegree, ready, order, tries, failures>>

\* The branches are summed up; a run with required failures returns no data.
Conclude ==
  /\ pc = "run"
  /\ Len(tries) = Len(order)
  /\ branches' = [n \in Nodes |->
       IF n \in OfKind("terminal") THEN BranchOf(n) ELSE "none"]
  /\ data' \in (IF failures = {} THEN Data ELSE {{}})
  /\ pc' = "done"
  /\ UNCHANGED <<graph, inDegree, ready, order, tries, failures>>

Ended == pc \in {"done", "threw"}

Next ==
  \/ SortNode \/ SortRest \/ LoadConnections
  \/ \E n \in Nodes : ClashThrows(n) \/ Propagate(n) \/ Execute(n)
  \/ Conclude

Spec == Init /\ [][Next]_vars

\* The run is one asynchronous function: it is resumed whenever the call it
\* awaits has settled.
FairSpec == Spec /\ WF_vars(Next)

-------------------------------------------------------------------------------
TypeOK ==
  /\ graph \in Graphs
  /\ pc \in {"sort", "load", "run", "done", "threw"}
  /\ inDegree \in [Nodes -> Nat]
  /\ ready \in Seq(Nodes) /\ order \in Seq(Nodes)
  /\ tries \in Seq(NodeTry)
  /\ failures \subseteq Nodes
  /\ branches \in [Nodes -> BranchStatus]
  /\ data \subseteq Nodes

\* No set of nodes in which each is fed by another: the flow has no cycle.
Acyclic ==
  \A S \in (SUBSET Nodes) \ {{}} :
    \E n \in S : \A l \in Into(n) : l.source \notin S

\* The comment of topologicalOrder: in a flow without cycles no node is dealt
\* with before every node that feeds it, and it runs only if each of those it
\* requires has completed by then.
InputsFirst ==
  Acyclic => \A i \in DOMAIN tries : \A l \in Into(tries[i].node) :
    \E j \in 1..(i - 1) :
      /\ tries[j].node = l.source
      /\ l.required /\ (tries[i].status = "completed" \/ tries[i].own)
           => tries[j].status = "completed"

\* Every node is dealt with exactly once, on a cycle or not.
EachNodeOnce ==
  /\ \A i, j \in DOMAIN order : order[i] = order[j] => i = j
  /\ pc = "done" => {tries[i].node : i \in DOMAIN tries} = Nodes

FailedItself == {n \in Nodes : \E i \in DOMAIN tries : tries[i].node = n /\ tries[i].own}

\* The nodes that require the output of a node of S.
Dependents(S) == {l.target : l \in {m \in graph.links : m.required /\ m.source \in S}}

\* What the failures of single nodes take down with them: the least set that
\* has these nodes and, with a node, every node that requires it.
Affected ==
  {n \in Nodes : \A S \in SUBSET Nodes :
     FailedItself \subseteq S /\ Dependents(S) \subseteq S => n \in S}

\* A failure takes down exactly the nodes that depend on it through required
\* connections, however many optional or skipped nodes are in between, and the
\* run has a required failure exactly if one of them is required.
ExactCascade ==
  Acyclic /\ pc = "done" =>
    /\ \A n \in Nodes : Dealt(n, {"completed"}) <=> n \notin Affected
    /\ failures = {n \in Affected : graph.required[n]}

\* The result is consistent: data are returned only by a run in which every
\* required node completed, and a branch is FAILED only in a run that says so
\* in requiredFailures, provided its terminal is as required as its branch.
ResultHonest ==
  pc = "done" =>
    /\ data # {} => \A n \in Nodes : graph.required[n] => Dealt(n, {"completed"})
    /\ \A n \in OfKind("terminal") :
         branches[n] = "failed" /\ (graph.branch[n] => graph.required[n])
           => failures # {}

\* A run ends, whatever its nodes do.
RunEnds == <>Ended

===============================================================================
