--------------------------- MODULE FlowPublication ---------------------------
(***************************************************************************)
(* What publish does between reading a draft and writing its snapshot:     *)
(* validateDynamicFlowGraph goes through the flow in a fixed order of      *)
(* passes and collects issues; if none of them is blocking,                *)
(* computeTerminalPaths looks for a path to each terminal and the snapshot *)
(* is taken.  FlowExecution is what later runs that snapshot.              *)
(*                                                                         *)
(* An issue is abstracted to its code.  The arrays of connections are      *)
(* sets, so that the searches take them in any order; an optional string   *)
(* is "" when it is absent, as the code treats both alike.                 *)
(***************************************************************************)
EXTENDS Naturals, SequencesExt

CONSTANTS
  Ids,         \* node ids that the draft's nodes and connections mention
  Catalogue,   \* the node definitions that are found, by asset id
  Policy,      \* outgoing category keys of each builder category
  Flows,       \* the drafts that may be published
  None         \* no node

Kinds == {"inputField", "dataSource", "transform", "outputSchema", "aiProvider", "terminal"}

Categories == {"input", "source", "transform", "schema", "ai", "terminal"}

\* NODE_CATEGORY_RULES: what may follow a node of each category.
CategoryRules == [
  input     |-> {"source", "transform", "ai"},
  source    |-> {"source", "transform", "schema", "ai", "terminal"},
  transform |-> {"transform", "schema", "ai", "terminal"},
  schema    |-> {"ai", "terminal"},
  ai        |-> {"terminal"},
  terminal  |-> {}]

\* NODE_KIND_TO_CATEGORY, for nodes that say only their kind.
KindCategory == [
  inputField |-> "input", dataSource |-> "source", transform |-> "transform",
  outputSchema |-> "schema", aiProvider |-> "ai", terminal |-> "terminal"]

ResolveCategory(category, kind) == IF category # "" THEN category ELSE KindCategory[kind]

\* A connection point; `cap` holds maxConnections, if there is one.
Point ==
  [key : STRING, type : STRING, accepts : SUBSET STRING, kinds : SUBSET Kinds,
   typeKeys : SUBSET STRING, min : Nat, cap : SUBSET Nat]

Definition ==
  [kind : Kinds, category : Categories, key : STRING, typeKey : STRING, slug : STRING,
   active : BOOLEAN, inputs : SUBSET Point, outputs : SUBSET Point,
   sourceKinds : SUBSET Kinds, sourceTypeKeys : SUBSET STRING,
   targetKinds : SUBSET Kinds, targetTypeKeys : SUBSET STRING]

\* A mapper rule; of its source path only the first part counts.
Rule == [transform : {"direct", "filter", "other"}, required : BOOLEAN,
         source : STRING, field : BOOLEAN]

\* accepted* and branch are the terminalConfig of a terminal.
Node ==
  [id : Ids, definition : STRING, kind : Kinds, category : Categories \cup {""},
   key : STRING, typeKey : STRING, definitionSlug : STRING, rules : SUBSET Rule,
   acceptedKinds : SUBSET Kinds, acceptedTypeKeys : SUBSET STRING,
   required : BOOLEAN, branch : BOOLEAN]

Link == [id : STRING, source : Ids, out : STRING, target : Ids, port : STRING,
         required : BOOLEAN]

ASSUME PublicationAssumption ==
  /\ IsFiniteSet(Ids)
  /\ None \notin Ids
  /\ \A d \in DOMAIN Catalogue : Catalogue[d] \in Definition
  /\ \A k \in DOMAIN Policy : Policy[k] \in SUBSET STRING
  /\ \A f \in Flows : f.nodes \in Seq(Node) /\ f.links \in SUBSET Link /\ IsFiniteSet(f.links)

\* The codes of issues.
Codes ==
  {"empty_flow", "duplicate_node_id", "duplicate_connection_id", "unknown_node_definition",
   "node_definition_inactive", "node_kind_mismatch", "node_category_mismatch",
   "builder_category_key_mismatch", "node_type_key_mismatch", "connection_unknown_source",
   "connection_unknown_target", "port_not_output", "port_not_input",
   "incompatible_value_types", "terminal_source_not_accepted", "incompatible_node_categories",
   "incompatible_node_kinds", "missing_required_input", "too_many_connections",
   "no_terminal", "terminal_unreachable", "unreachable_node", "cycle_detected",
   "mapper_missing_source", "mapper_filter_needs_field"}

VARIABLES
  flow,      \* the draft: its nodes in order and its connections
  pc,        \* the pass that comes next
  issues,    \* codes of the issues found
  reached,   \* reachability: the nodes reached from the roots
  frontier,  \* reachability: ids still to visit
  colour,    \* hasCycle: white, gray or black
  stack,     \* hasCycle: the calls of dfs, each with the connections it has still to look at
  search,    \* bfsPath: target, queue, what it has seen, and the terminals left
  paths      \* terminalPaths: the path found to each terminal

vars == <<flow, pc, issues, reached, frontier, colour, stack, search, paths>>

NoSearch == [target |-> None, queue |-> <<>>, seen |-> {}, left |-> {}]

Known == {flow.nodes[i].id : i \in DOMAIN flow.nodes}

\* nodeById: the last node of an id is the one that is found.
NodeOf(id) ==
  flow.nodes[CHOOSE i \in DOMAIN flow.nodes :
    flow.nodes[i].id = id /\ \A j \in DOMAIN flow.nodes : flow.nodes[j].id = id => j <= i]

Terminals ==
  {n \in ToSet(flow.nodes) : ResolveCategory(n.category, n.kind) = "terminal"}

Init ==
  /\ flow \in Flows
  /\ pc = "empty"
  /\ issues = {}
  /\ reached = {} /\ frontier = {}
  /\ colour = [n \in Known |-> "white"]
  /\ stack = <<>>
  /\ search = [NoSearch EXCEPT !.left = {n.id : n \in Terminals}]
  /\ paths = [n \in Known |-> <<>>]

-------------------------------------------------------------------------------
(***************************************************************************)
(* What the passes ask about nodes and connections.                        *)
(***************************************************************************)
Nodes == ToSet(flow.nodes)

Found(n) == n.definition \in DOMAIN Catalogue

Def(n) == Catalogue[n.definition]

From(id) == {l \in flow.links : l.source = id}

Into(id) == {l \in flow.links : l.target = id}

IsSlot(p) == p.key \in {"slot2", "slot3", "slot4", "slot5", "slot6"}

\* isMergerMultiWireCatalogAsset: a merger by its slug or by the shape of a
\* transform, a single input called in.
TakenForMerger(slug, d) ==
  \/ slug = "nd-merger"
  \/ /\ d.kind = "transform"
     /\ ~\E p \in d.inputs : IsSlot(p)
     /\ \E p \in d.inputs : d.inputs = {p} /\ p.key = "in"

SlugOf(n) == IF Def(n).slug # "" THEN Def(n).slug ELSE n.definitionSlug

MergerNode(n) == TakenForMerger(SlugOf(n), Def(n))

\* Codes whose condition holds.
Raised(conditions) == {code \in DOMAIN conditions : conditions[code]}

\* A list of what is allowed, which allows everything if it is empty.
Allows(list, x) == list = {} \/ x \in list

NodeIssues(n) ==
  IF ~Found(n) THEN {"unknown_node_definition"}
  ELSE LET d == Def(n) IN Raised([
    node_definition_inactive |-> ~d.active,
    node_kind_mismatch |-> d.kind # n.kind,
    node_category_mismatch |-> n.category \notin {"", d.category},
    \* Flows saved before categories had keys say the category instead.
    builder_category_key_mismatch |-> n.key \notin {"", d.key, d.category},
    node_type_key_mismatch |-> n.typeKey \notin {"", d.typeKey}])

TypesFit(out, in) ==
  \/ "any" \in {out.type, in.type}
  \/ IF in.accepts # {} THEN out.type \in in.accepts \/ "any" \in in.accepts
     ELSE out.type = in.type

KindsFit(s, t, out, in) ==
  /\ Allows(in.typeKeys, s.typeKey) /\ Allows(t.sourceTypeKeys, s.typeKey)
  /\ Allows(out.typeKeys, t.typeKey) /\ Allows(s.targetTypeKeys, t.typeKey)
  /\ Allows(in.kinds, s.kind) /\ Allows(t.sourceKinds, s.kind)
  /\ Allows(out.kinds, t.kind) /\ Allows(s.targetKinds, t.kind)

\* The builder categories decide, and the matrix where they say nothing.
CategoriesFit(s, t) ==
  IF s.key \in DOMAIN Policy /\ Policy[s.key] # {}
    THEN t.key \in Policy[s.key]
    ELSE t.category \in CategoryRules[s.category]

\* The category of a node or, if it has none, that of its definition; the one
\* that buildPublishedFlowSnapshot gives the node, too.
Category(n) == IF n.category # "" THEN n.category ELSE Def(n).category

TerminalAccepts(n, s) ==
  Allows(n.acceptedTypeKeys, s.typeKey) /\ Allows(n.acceptedKinds, s.kind)

\* All that is wrong with a connection from point out of its source to point in
\* of its target.
FitIssues(l, out, in) ==
  LET n == NodeOf(l.target)
      feeder == Def(NodeOf(l.source))
      fed == Def(n)
  IN Raised([
       incompatible_value_types |-> ~TypesFit(out, in),
       terminal_source_not_accepted |-> Category(n) = "terminal" /\ ~TerminalAccepts(n, feeder),
       incompatible_node_categories |-> ~CategoriesFit(feeder, fed),
       incompatible_node_kinds |->
         CategoriesFit(feeder, fed) /\ ~KindsFit(feeder, fed, out, in)])

Outs(l) == {p \in Def(NodeOf(l.source)).outputs : p.key = l.out}

Ins(l) == {p \in Def(NodeOf(l.target)).inputs : p.key = l.port}

\* The first thing that is wrong with the ends of a connection, or all that is
\* wrong with what it connects.
LinkIssues(l) ==
  IF l.source \notin Known THEN {"connection_unknown_source"}
  ELSE IF l.target \notin Known THEN {"connection_unknown_target"}
  ELSE IF ~Found(NodeOf(l.source)) \/ ~Found(NodeOf(l.target)) THEN {}
  ELSE IF Outs(l) = {} THEN {"port_not_output"}
  ELSE IF Ins(l) = {} THEN {"port_not_input"}
  ELSE UNION {FitIssues(l, out, in) : out \in Outs(l), in \in Ins(l)}

\* Mutant of Overloaded: no transform has caps.
OverloadedUnlessTransform(n, p) ==
  /\ \E m \in p.cap : Cardinality({l \in Into(n.id) : l.port = p.key}) > m
  /\ Def(n).kind # "transform"

\* nodeDefinitionFromAsset has removed the cap of a merger's port in, and the
\* port is exempt again if only the node says that it is a merger.
Overloaded(n, p) ==
  /\ \E m \in p.cap : Cardinality({l \in Into(n.id) : l.port = p.key}) > m
  /\ ~(p.key = "in" /\ MergerNode(n))

PortIssues(n) ==
  UNION {Raised([
    missing_required_input |-> Cardinality({l \in Into(n.id) : l.port = p.key}) < p.min,
    too_many_connections |-> Overloaded(n, p)]) : p \in Def(n).inputs}

NeedsRules(n) ==
  /\ ~MergerNode(n)
  /\ Def(n).slug = "nd-mapper" \/ (n.kind = "transform" /\ Def(n).slug \notin {"", "nd-merger"})

\* The keys of the outputs that feed node n.
UpstreamKeys(n) ==
  {l.out : l \in {k \in Into(n.id) :
     /\ k.source \in Known /\ Found(NodeOf(k.source))
     /\ \E p \in Def(NodeOf(k.source)).outputs : p.key = k.out}}

RuleIssues(n) ==
  UNION {Raised([
    mapper_missing_source |-> r.transform = "direct" /\ r.required
                                /\ r.source \notin UpstreamKeys(n) \cup {""},
    mapper_filter_needs_field |-> r.transform = "filter" /\ ~r.field]) : r \in n.rules}

-------------------------------------------------------------------------------
(***************************************************************************)
(* The passes.                                                             *)
(***************************************************************************)
Pass(from, to, codes) ==
  /\ pc = from
  /\ pc' = to
  /\ issues' = issues \cup codes
  /\ UNCHANGED <<flow, colour, stack, search, paths>>

\* publish refuses a draft without nodes.
CheckEmpty ==
  /\ IF flow.nodes = <<>> THEN Pass("empty", "rejected", {"empty_flow"})
     ELSE Pass("empty", "nodes", {})
  /\ UNCHANGED <<reached, frontier>>

CheckNodes ==
  /\ Pass("nodes", "links",
       (UNION {NodeIssues(n) : n \in Nodes}) \cup
       (IF Len(flow.nodes) > Cardinality(Known) THEN {"duplicate_node_id"} ELSE {}))
  /\ UNCHANGED <<reached, frontier>>

CheckLinks ==
  /\ Pass("links", "ports",
       (UNION {LinkIssues(l) : l \in flow.links}) \cup
       (IF \E l, k \in flow.links : l # k /\ l.id = k.id THEN {"duplicate_connection_id"} ELSE {}))
  /\ UNCHANGED <<reached, frontier>>

\* Mutant of Roots: only input nodes are entries.
RootsInputOnly ==
  {n \in Nodes :
     IF Found(n) THEN Def(n).category = "input"
     ELSE ResolveCategory(n.category, n.kind) = "input"}

\* Entries of the flow: nodes that nothing feeds, and input nodes.
Roots ==
  {n \in Nodes :
     \/ Into(n.id) = {}
     \/ IF Found(n) THEN Def(n).category = "input"
        ELSE ResolveCategory(n.category, n.kind) = "input"}

CheckPorts ==
  /\ Pass("ports", "reach",
       (UNION {PortIssues(n) : n \in {m \in Nodes : Found(m)}}) \cup
       (IF Terminals = {} THEN {"no_terminal"} ELSE {}))
  /\ frontier' = {n.id : n \in Roots}
  /\ UNCHANGED reached

\* Mutant of Reach: nodes are visited again whenever they are queued.
ReachAgain ==
  \E u \in frontier :
    /\ Pass("reach", "reach", {})
    /\ reached' = reached \cup {u}
    /\ frontier' = (frontier \ {u}) \cup {l.target : l \in From(u)}

\* One turn of the loop over the queue; its order does not matter, and an id
\* that has been reached is not visited again.
Reach ==
  \E u \in frontier :
    /\ Pass("reach", "reach", {})
    /\ reached' = reached \cup {u}
    /\ frontier' = (frontier \cup {l.target : l \in From(u)}) \ reached'

Unreached == {n \in Nodes : n.id \notin reached}

\* Only a warning for nodes that are not terminals.
CheckReached ==
  /\ frontier = {}
  /\ Pass("reach", "cycle",
       (IF Unreached \cap Terminals # {} THEN {"terminal_unreachable"} ELSE {}) \cup
       (IF Unreached \ Terminals # {} THEN {"unreachable_node"} ELSE {}))
  /\ UNCHANGED <<reached, frontier>>

Call(n) == [node |-> n, todo |-> From(n)]

\* hasCycle starts at a node that it has not seen.
StartDfs ==
  /\ pc = "cycle"
  /\ stack = <<>>
  /\ \E n \in Known :
       /\ colour[n] = "white"
       /\ colour' = [colour EXCEPT ![n] = "gray"]
       /\ stack' = <<Call(n)>>
  /\ UNCHANGED <<flow, pc, issues, reached, frontier, search, paths>>

Top == stack[Len(stack)]

\* The call on top of the stack looks at one of its connections.
Take(l) ==
  /\ pc = "cycle"
  /\ stack # <<>>
  /\ l \in Top.todo
  /\ UNCHANGED <<flow, reached, frontier, search, paths>>

Rest(l) == [stack EXCEPT ![Len(stack)].todo = @ \ {l}]

\* Mutant of InProgress: a node that is done counts as one in progress.
InProgressOrDone(v) == v \in Known /\ colour[v] # "white"

InProgress(v) == v \in Known /\ colour[v] = "gray"

\* Mutant of Unseen: connections to unknown nodes are followed.
UnseenOrUnknown(v) == v \in Known => colour[v] = "white"

Unseen(v) == v \in Known /\ colour[v] = "white"

\* A connection to a node in progress closes a cycle and ends the search; one
\* to a new node is followed; others are skipped.
FollowLink(l) ==
  /\ Take(l)
  /\ \/ /\ InProgress(l.target)
        /\ issues' = issues \cup {"cycle_detected"}
        /\ pc' = "rules"
        /\ UNCHANGED <<colour, stack>>
     \/ /\ Unseen(l.target)
        /\ colour' = [colour EXCEPT ![l.target] = "gray"]
        /\ stack' = Append(Rest(l), Call(l.target))
        /\ UNCHANGED <<pc, issues>>
     \/ /\ ~InProgress(l.target) /\ ~Unseen(l.target)
        /\ stack' = Rest(l)
        /\ UNCHANGED <<pc, issues, colour>>

ReturnDfs ==
  /\ pc = "cycle"
  /\ stack # <<>>
  /\ Top.todo = {}
  /\ colour' = [colour EXCEPT ![Top.node] = "black"]
  /\ stack' = Front(stack)
  /\ UNCHANGED <<flow, pc, issues, reached, frontier, search, paths>>

EndDfs ==
  /\ stack = <<>>
  /\ \A n \in Known : colour[n] # "white"
  /\ Pass("cycle", "rules", {})
  /\ UNCHANGED <<reached, frontier>>

CheckRules ==
  /\ Pass("rules", "verdict",
       UNION {RuleIssues(n) : n \in {m \in Nodes : Found(m) /\ NeedsRules(m)}})
  /\ UNCHANGED <<reached, frontier>>

Blocking == issues \ {"unreachable_node"}

\* publish goes on only without blocking errors.
Verdict ==
  /\ Pass("verdict", IF Blocking = {} THEN "paths" ELSE "rejected", {})
  /\ UNCHANGED <<reached, frontier>>

-------------------------------------------------------------------------------
(***************************************************************************)
(* The snapshot.                                                           *)
(***************************************************************************)

\* Mutant of EntryIds: only input nodes are entries.
EntryIdsInputOnly ==
  {n.id : n \in {m \in Nodes : ResolveCategory(m.category, m.kind) = "input"}}

\* The entries of computeTerminalPaths, which looks at nodes only.
EntryIds ==
  {n.id : n \in {m \in Nodes :
     Into(m.id) = {} \/ ResolveCategory(m.category, m.kind) = "input"}}

\* The entries in the order of the nodes.
Entries ==
  {s \in SetToSeqs(EntryIds) : \A i, j \in DOMAIN s : \A p, q \in DOMAIN flow.nodes :
     i < j /\ flow.nodes[p].id = s[i] /\ flow.nodes[q].id = s[j] => p < q}

Searching ==
  /\ pc = "paths"
  /\ UNCHANGED <<flow, issues, reached, frontier, colour, stack>>

\* bfsPath is called for the next terminal.
StartPath ==
  /\ Searching
  /\ search.target = None
  /\ \E t \in search.left, s \in Entries :
       search' = [target |-> t, queue |-> [i \in DOMAIN s |-> <<s[i]>>],
                  seen |-> {}, left |-> search.left \ {t}]
  /\ UNCHANGED <<pc, paths>>

\* The first path of the queue is extended by every connection of its last node,
\* unless that node has been seen.
ExtendPath ==
  LET path == Head(search.queue)
      id == Last(path)
      further == {Append(path, l.target) : l \in From(id)}
  IN
  /\ Searching
  /\ search.queue # <<>>
  /\ id # search.target
  /\ \E s \in SetToSeqs(IF id \in search.seen THEN {} ELSE further) :
       search' = [search EXCEPT !.queue = Tail(@) \o s, !.seen = @ \cup {id}]
  /\ UNCHANGED <<pc, paths>>

\* It ends in the target, or there is no path left and the terminal gets none.
EndPath ==
  /\ Searching
  /\ search.target # None
  /\ search.queue # <<>> => Last(Head(search.queue)) = search.target
  /\ paths' = [paths EXCEPT ![search.target] =
                 IF search.queue = <<>> THEN <<>> ELSE Head(search.queue)]
  /\ search' = [NoSearch EXCEPT !.left = search.left]
  /\ UNCHANGED pc

Publish ==
  /\ Searching
  /\ search.target = None /\ search.left = {}
  /\ pc' = "published"
  /\ UNCHANGED <<search, paths>>

Next ==
  \/ CheckEmpty \/ CheckNodes \/ CheckLinks \/ CheckPorts
  \/ Reach \/ CheckReached
  \/ StartDfs \/ (\E l \in flow.links : FollowLink(l)) \/ ReturnDfs \/ EndDfs
  \/ CheckRules \/ Verdict
  \/ StartPath \/ ExtendPath \/ EndPath \/ Publish

Spec == Init /\ [][Next]_vars

\* The passes are one synchronous call, and so is the making of the snapshot.
FairSpec == Spec /\ WF_vars(Next)

-------------------------------------------------------------------------------
(***************************************************************************)
(* The snapshot as FlowExecution sees it.                                  *)
(***************************************************************************)

\* transformFlavor: a merger by the type of the node or of its definition, or
\* by the slug of the definition.
MergerFlavor(n) ==
  "merger" \in {n.typeKey, Def(n).typeKey} \/ Def(n).slug = "nd-merger"

ExecutionKind(n) ==
  CASE Category(n) = "transform" /\ ~MergerFlavor(n) -> "mapper"
    [] Category(n) = "ai" -> "ai"
    [] Category(n) = "terminal" -> "terminal"
    [] OTHER -> "other"

\* Ids that are no nodes count as nodes without connections.
Snapshot ==
  [kind |-> [i \in Ids |-> IF i \in Known THEN ExecutionKind(NodeOf(i)) ELSE "other"],
   required |-> [i \in Ids |-> i \in Known /\ NodeOf(i).required],
   branch |-> [i \in Ids |-> i \in Known /\ NodeOf(i).branch],
   links |-> {[id |-> l.id, source |-> l.source, target |-> l.target,
               port |-> l.port, required |-> l.required] : l \in flow.links}]

\* A run of the snapshot in which every node has completed.
Run ==
  INSTANCE FlowExecution WITH
    Nodes <- Ids, Insertion <- SetToSeq(Ids), Graphs <- {},
    graph <- Snapshot, pc <- "run", inDegree <- [i \in Ids |-> 0], ready <- <<>>,
    order <- SetToSeq(Ids), failures <- {}, branches <- [i \in Ids |-> "none"], data <- {},
    tries <- [k \in 1..Cardinality(Ids) |->
                [node |-> SetToSeq(Ids)[k], status |-> "completed", own |-> FALSE]]

-------------------------------------------------------------------------------
TypeOK ==
  /\ flow \in Flows
  /\ pc \in {"empty", "nodes", "links", "ports", "reach", "cycle", "rules", "verdict",
             "paths", "published", "rejected"}
  /\ issues \subseteq Codes
  /\ reached \subseteq Ids /\ frontier \subseteq Ids
  /\ colour \in [Known -> {"white", "gray", "black"}]
  /\ stack \in Seq([node : Known, todo : SUBSET flow.links])
  /\ search \in [target : Known \cup {None}, queue : Seq(Seq(Known)),
                 seen : SUBSET Known, left : SUBSET Known]
  /\ paths \in [Known -> Seq(Known)]

\* No set of nodes in which each is fed by another of the set.
Acyclic ==
  \A S \in (SUBSET Known) \ {{}} :
    \E n \in S : \A l \in Into(n) : l.source \notin S

\* 'Directed cycle detection': the search from every node in turn, cut short at
\* nodes that are done, reports a cycle exactly if there is one, whichever
\* connections it takes first and whatever else is wrong with the flow.
CycleFound ==
  pc \in {"rules", "verdict", "paths", "published", "rejected"} /\ flow.nodes # <<>> =>
    ("cycle_detected" \in issues <=> ~Acyclic)

\* What validation reports as not reachable lies on a cycle, is fed by a node that
\* is not there, or is behind such a node: the nodes that nothing feeds are
\* entries themselves.
UnreachedExplained ==
  pc = "verdict" /\ issues \cap {"unreachable_node", "terminal_unreachable"} # {} =>
    issues \cap {"cycle_detected", "connection_unknown_source"} # {}

\* 'Finds one simple path from entry nodes to each terminal': every terminal of
\* a published flow has a path along connections from an entry, a node that
\* nothing feeds or an input, without a node that comes twice.
TerminalPaths ==
  pc = "published" => \A t \in Terminals :
    LET path == paths[t.id] IN
    /\ path # <<>> /\ Last(path) = t.id
    /\ \E n \in Nodes :
         /\ n.id = Head(path)
         /\ Into(n.id) = {} \/ ResolveCategory(n.category, n.kind) = "input"
    /\ \A i \in 1..(Len(path) - 1) : \E l \in From(path[i]) : l.target = path[i + 1]
    /\ \A i, j \in DOMAIN path : path[i] = path[j] => i = j

\* Every port of node n is capped at one connection, and validation does not
\* exempt it.
OneEach(n) ==
  ~MergerNode(n) /\ \A p \in Def(n).inputs : p.cap = {1}

\* What runPublishedFlow takes for granted of a snapshot, 'validation would have
\* blocked publication': it has no cycle, and no transform that runs as a mapper
\* has two values on one port, other than one whose ports have no cap or that
\* validation takes for a merger by its shape.
PublishedRuns ==
  pc = "published" =>
    /\ Snapshot \in Run!Graph
    /\ Run!Acyclic
    /\ \A i \in Known : OneEach(NodeOf(i)) => ~Run!Clash(i)

\* publish gets an answer for every draft.
PublishEnds == <>(pc \in {"published", "rejected"})

===============================================================================
