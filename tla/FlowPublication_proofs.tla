------------------------- MODULE FlowPublication_proofs -------------------------
(***************************************************************************)
(* Proofs about FlowPublication, for any node ids, any catalogue of        *)
(* definitions and any draft with finitely many connections.               *)
(***************************************************************************)
EXTENDS FlowPublication, SequenceTheorems, FiniteSetTheorems, TLAPS

\* The codes that the two searches raise.
SearchCodes == {"cycle_detected", "terminal_unreachable", "unreachable_node"}

Warnings == {"terminal_unreachable", "unreachable_node"}

\* What hasCycle keeps on its stack.
Calls == [node : Known, todo : SUBSET flow.links]

\* The passes that come after the check of nodes, of connections, of ports,
\* and after the two searches.
NodesDone == {"links", "ports", "reach", "cycle", "rules", "verdict", "paths", "published"}
LinksDone == NodesDone \ {"links"}
PortsDone == LinksDone \ {"ports"}
ReachDone == PortsDone \ {"reach"}
CycleDone == ReachDone \ {"cycle"}
Accepted == {"paths", "published"}

-------------------------------------------------------------------------------
(***************************************************************************)
(* The draft stays as it is, and so does all that is computed from it.     *)
(***************************************************************************)
LEMMA Frame ==
  ASSUME [Next]_vars
  PROVE  flow' = flow
BY DEF Next, vars, CheckEmpty, CheckNodes, CheckLinks, CheckPorts, Reach, CheckReached, StartDfs,
       FollowLink, Take, ReturnDfs, EndDfs, CheckRules, Verdict, Pass, Searching, StartPath,
       ExtendPath, EndPath, Publish

LEMMA SameFlow ==
  ASSUME flow' = flow
  PROVE  /\ Known' = Known /\ Nodes' = Nodes /\ Roots' = Roots /\ Terminals' = Terminals
         /\ EntryIds' = EntryIds /\ Calls' = Calls /\ (Acyclic' <=> Acyclic)
<1>1. Known' = Known /\ Nodes' = Nodes
  BY DEF Known, Nodes
<1>2. \A id : Into(id)' = Into(id)
  BY DEF Into
<1>3. Roots' = Roots /\ Terminals' = Terminals /\ EntryIds' = EntryIds
  BY <1>1, <1>2 DEF Roots, Terminals, EntryIds, Nodes
<1>4. Acyclic' <=> Acyclic
  BY <1>1 DEF Acyclic, Into
<1> QED
  BY <1>1, <1>3, <1>4 DEF Calls

LEMMA SameIssues ==
  ASSUME flow' = flow
  PROVE  /\ \A n : NodeIssues(n)' = NodeIssues(n)
         /\ \A n : PortIssues(n)' = PortIssues(n)
         /\ \A l : LinkIssues(l)' = LinkIssues(l)
<1>1. Known' = Known /\ \A id : Into(id)' = Into(id)
  BY DEF Known, Into
<1>2. \A n, p : Overloaded(n, p)' = Overloaded(n, p)
  BY <1>1 DEF Overloaded
<1>3. \A n : PortIssues(n)' = PortIssues(n)
  BY <1>1, <1>2 DEF PortIssues
<1>4. ASSUME NEW l PROVE LinkIssues(l)' = LinkIssues(l)
  <2>1. NodeOf(l.source)' = NodeOf(l.source) /\ NodeOf(l.target)' = NodeOf(l.target)
    BY DEF NodeOf
  <2>2. Outs(l)' = Outs(l) /\ Ins(l)' = Ins(l)
    BY <2>1 DEF Outs, Ins
  <2> QED
    BY <1>1, <2>1, <2>2 DEF LinkIssues, FitIssues
<1> QED
  BY <1>3, <1>4

-------------------------------------------------------------------------------
(***************************************************************************)
(* What a pass finds wrong with a node, a connection, a port or a rule is  *)
(* a code, and none of those that the searches raise.                      *)
(***************************************************************************)
LEMMA NodeCodes ==
  ASSUME NEW n
  PROVE  NodeIssues(n) \subseteq Codes \ SearchCodes
<1> DEFINE d == Def(n)
           r == [node_definition_inactive |-> ~d.active,
                 node_kind_mismatch |-> d.kind # n.kind,
                 node_category_mismatch |-> n.category \notin {"", d.category},
                 builder_category_key_mismatch |-> n.key \notin {"", d.key, d.category},
                 node_type_key_mismatch |-> n.typeKey \notin {"", d.typeKey}]
<1>1. DOMAIN r \subseteq Codes \ SearchCodes
  BY DEF Codes, SearchCodes
<1>2. Raised(r) \subseteq Codes \ SearchCodes
  BY <1>1, Zenon DEF Raised
<1>3. NodeIssues(n) = IF ~Found(n) THEN {"unknown_node_definition"} ELSE Raised(r)
  BY Zenon DEF NodeIssues
<1> QED
  BY <1>2, <1>3 DEF Codes, SearchCodes

LEMMA PortCodes ==
  ASSUME NEW n
  PROVE  PortIssues(n) \subseteq Codes \ SearchCodes
<1> DEFINE r(p) == [missing_required_input |-> Cardinality({l \in Into(n.id) : l.port = p.key}) < p.min,
                    too_many_connections |-> Overloaded(n, p)]
<1>1. ASSUME NEW p PROVE Raised(r(p)) \subseteq Codes \ SearchCodes
  <2>1. DOMAIN r(p) \subseteq Codes \ SearchCodes
    BY DEF Codes, SearchCodes
  <2> QED
    BY <2>1, Zenon DEF Raised
<1>2. PortIssues(n) = UNION {Raised(r(p)) : p \in Def(n).inputs}
  BY Zenon DEF PortIssues
<1> HIDE DEF r
<1> QED
  BY <1>1, <1>2

LEMMA RuleCodes ==
  ASSUME NEW n
  PROVE  RuleIssues(n) \subseteq Codes \ SearchCodes
<1> DEFINE r(x) == [mapper_missing_source |-> x.transform = "direct" /\ x.required
                                                /\ x.source \notin UpstreamKeys(n) \cup {""},
                    mapper_filter_needs_field |-> x.transform = "filter" /\ ~x.field]
<1>1. ASSUME NEW x PROVE Raised(r(x)) \subseteq Codes \ SearchCodes
  <2>1. DOMAIN r(x) \subseteq Codes \ SearchCodes
    BY DEF Codes, SearchCodes
  <2> QED
    BY <2>1, Zenon DEF Raised
<1>2. RuleIssues(n) = UNION {Raised(r(x)) : x \in n.rules}
  BY Zenon DEF RuleIssues
<1> HIDE DEF r
<1> QED
  BY <1>1, <1>2

LEMMA LinkCodes ==
  ASSUME NEW l
  PROVE  LinkIssues(l) \subseteq Codes \ SearchCodes
<1>1. ASSUME NEW out, NEW in PROVE FitIssues(l, out, in) \subseteq Codes \ SearchCodes
  <2> DEFINE n == NodeOf(l.target)
             feeder == Def(NodeOf(l.source))
             fed == Def(n)
             r == [incompatible_value_types |-> ~TypesFit(out, in),
                   terminal_source_not_accepted |->
                     Category(n) = "terminal" /\ ~TerminalAccepts(n, feeder),
                   incompatible_node_categories |-> ~CategoriesFit(feeder, fed),
                   incompatible_node_kinds |->
                     CategoriesFit(feeder, fed) /\ ~KindsFit(feeder, fed, out, in)]
  <2>1. DOMAIN r \subseteq Codes \ SearchCodes
    BY DEF Codes, SearchCodes
  <2>2. FitIssues(l, out, in) = Raised(r)
    BY Zenon DEF FitIssues
  <2> QED
    BY <2>1, <2>2, Zenon DEF Raised
<1>2. UNION {FitIssues(l, out, in) : out \in Outs(l), in \in Ins(l)} \subseteq Codes \ SearchCodes
  BY <1>1
<1> QED
  BY <1>2 DEF LinkIssues, Codes, SearchCodes

-------------------------------------------------------------------------------
\* A listing of a finite set is a sequence of exactly its elements.
LEMMA Listed ==
  ASSUME NEW S, IsFiniteSet(S), NEW s \in SetToSeqs(S)
  PROVE  s \in Seq(S) /\ ToSet(s) = S
<1> DEFINE D == 1..Cardinality(S)
<1>1. Cardinality(S) \in Nat /\ IsFiniteSet(D) /\ Cardinality(D) = Cardinality(S)
  BY FS_CardinalityType, FS_Interval
<1>2. s \in [D -> S] /\ \A i, j \in D : i # j => s[i] # s[j]
  BY DEF SetToSeqs
<1>3. s \in Seq(S) /\ DOMAIN s = D
  BY <1>1, <1>2, SeqDef
<1>4. s \in Injection(D, S)
  BY <1>2, <1>3 DEF Injection, IsInjective
<1>5. s \in Surjection(D, S)
  BY <1>1, <1>4, FS_Injection
<1>6. ToSet(s) = S
  BY <1>2, <1>3, <1>5 DEF Surjection, ToSet
<1> QED
  BY <1>3, <1>6

\* Nodes and connections are what the types say.
LEMMA FlowTyped ==
  ASSUME flow \in Flows
  PROVE  /\ flow.nodes \in Seq(Node) /\ flow.links \subseteq Link /\ IsFiniteSet(flow.links)
         /\ Known \subseteq Ids /\ IsFiniteSet(Known) /\ None \notin Known
         /\ \A l \in flow.links : l.source \in Ids /\ l.target \in Ids
         /\ \A n \in Nodes : n \in Node /\ n.id \in Known
         /\ \A k \in Known : \E n \in Nodes : n.id = k
         /\ EntryIds \subseteq Known /\ Nodes = {flow.nodes[i] : i \in DOMAIN flow.nodes}
<1>1. /\ flow.nodes \in Seq(Node) /\ flow.links \subseteq Link /\ IsFiniteSet(flow.links)
  BY PublicationAssumption
<1>2. /\ DOMAIN flow.nodes = 1..Len(flow.nodes) /\ \A i \in DOMAIN flow.nodes : flow.nodes[i] \in Node
  BY <1>1, LenProperties
<1>3. Nodes = {flow.nodes[i] : i \in DOMAIN flow.nodes}
  BY DEF Nodes, ToSet
<1>4. Known \subseteq Ids
  BY <1>2 DEF Known, Node
<1>5. IsFiniteSet(Known) /\ None \notin Known
  BY <1>4, PublicationAssumption, FS_Subset
<1>6. \A l \in flow.links : l.source \in Ids /\ l.target \in Ids
  BY <1>1 DEF Link
<1>7. /\ \A n \in Nodes : n \in Node /\ n.id \in Known
      /\ \A k \in Known : \E n \in Nodes : n.id = k
  BY <1>2, <1>3 DEF Known
<1>8. EntryIds \subseteq Known
  BY <1>7 DEF EntryIds
<1> QED
  BY <1>1, <1>3, <1>4, <1>5, <1>6, <1>7, <1>8

(***************************************************************************)
(* Each pass has found what there is to find, and only a draft without     *)
(* blocking errors gets to its snapshot.                                   *)
(***************************************************************************)
PassInv ==
  /\ pc \in NodesDone =>
       /\ \A n \in Nodes : NodeIssues(n) \subseteq issues
       /\ Len(flow.nodes) > Cardinality(Known) => "duplicate_node_id" \in issues
  /\ pc \in LinksDone => \A l \in flow.links : LinkIssues(l) \subseteq issues
  /\ pc \in PortsDone => \A n \in Nodes : Found(n) => PortIssues(n) \subseteq issues
  /\ pc \in Accepted => Blocking = {}

-------------------------------------------------------------------------------
\* The parts of the invariant after a step, for a draft that stays the same.
LEMMA PassStays ==
  ASSUME flow' = flow,
         pc' \in NodesDone =>
           /\ \A n \in Nodes : NodeIssues(n) \subseteq issues'
           /\ Len(flow.nodes) > Cardinality(Known) => "duplicate_node_id" \in issues',
         pc' \in LinksDone => \A l \in flow.links : LinkIssues(l) \subseteq issues',
         pc' \in PortsDone => \A n \in Nodes : Found(n) => PortIssues(n) \subseteq issues',
         pc' \in Accepted => issues' \ {"unreachable_node"} = {}
  PROVE  PassInv'
<1>1. Known' = Known /\ Nodes' = Nodes
  BY SameFlow
<1>3. ASSUME pc' \in LinksDone, NEW l \in flow.links PROVE LinkIssues(l)' \subseteq issues'
  <2>1. LinkIssues(l)' = LinkIssues(l)
    BY SameIssues
  <2> QED
    BY <1>3, <2>1
<1>4. ASSUME pc' \in PortsDone, NEW n \in Nodes, Found(n) PROVE PortIssues(n)' \subseteq issues'
  <2>1. PortIssues(n)' = PortIssues(n)
    BY SameIssues
  <2> QED
    BY <1>4, <2>1
<1> QED
  BY <1>1, <1>3, <1>4 DEF PassInv, Blocking

\* A step that leaves the first passes behind only adds to the issues.
LEMMA PassGrows ==
  ASSUME PassInv, flow' = flow, issues \subseteq issues',
         pc' = pc \/ (pc \in PortsDone /\ pc' \in PortsDone),
         pc' \in Accepted => issues' \ {"unreachable_node"} = {}
  PROVE  PassInv'
<1>1. pc' \in NodesDone =>
        /\ \A n \in Nodes : NodeIssues(n) \subseteq issues'
        /\ Len(flow.nodes) > Cardinality(Known) => "duplicate_node_id" \in issues'
  BY DEF PassInv, NodesDone, LinksDone, PortsDone
<1>2. pc' \in LinksDone => \A l \in flow.links : LinkIssues(l) \subseteq issues'
  BY DEF PassInv, LinksDone, PortsDone
<1>3. pc' \in PortsDone => \A n \in Nodes : Found(n) => PortIssues(n) \subseteq issues'
  BY DEF PassInv
<1> QED
  BY <1>1, <1>2, <1>3, PassStays

LEMMA PassKept ==
  ASSUME PassInv, [Next]_vars
  PROVE  PassInv'
<1>1. flow' = flow
  BY Frame
<1> DEFINE U == UNCHANGED <<pc, issues>>
           Sets == NodesDone \cup LinksDone \cup PortsDone \cup Accepted
<1>2. CASE U
  BY <1>1, <1>2, PassGrows DEF PassInv, Blocking
<1>3. ASSUME pc' \in {"nodes", "rejected"} PROVE PassInv'
  <2>1. pc' \notin Sets
    BY <1>3 DEF NodesDone, LinksDone, PortsDone, Accepted
  <2> QED
    BY <1>1, <2>1, PassStays
<1>4. CASE CheckNodes
  <2>1. /\ pc' = "links" /\ \A n \in Nodes : NodeIssues(n) \subseteq issues'
        /\ Len(flow.nodes) > Cardinality(Known) => "duplicate_node_id" \in issues'
    BY <1>4 DEF CheckNodes, Pass
  <2> QED
    BY <1>1, <2>1, PassStays DEF LinksDone, PortsDone, Accepted
<1>5. CASE CheckLinks
  <2>1. /\ pc = "links" /\ pc' = "ports" /\ issues \subseteq issues'
        /\ \A l \in flow.links : LinkIssues(l) \subseteq issues'
    BY <1>5 DEF CheckLinks, Pass
  <2>2. /\ \A n \in Nodes : NodeIssues(n) \subseteq issues'
        /\ Len(flow.nodes) > Cardinality(Known) => "duplicate_node_id" \in issues'
    BY <2>1 DEF PassInv, NodesDone
  <2> QED
    BY <1>1, <2>1, <2>2, PassStays DEF PortsDone, Accepted
<1>6. CASE CheckPorts
  <2>1. /\ pc = "ports" /\ pc' = "reach" /\ issues \subseteq issues'
        /\ \A n \in Nodes : Found(n) => PortIssues(n) \subseteq issues'
    BY <1>6 DEF CheckPorts, Pass
  <2>2. /\ \A n \in Nodes : NodeIssues(n) \subseteq issues'
        /\ Len(flow.nodes) > Cardinality(Known) => "duplicate_node_id" \in issues'
        /\ \A l \in flow.links : LinkIssues(l) \subseteq issues'
    BY <2>1 DEF PassInv, NodesDone, LinksDone
  <2> QED
    BY <1>1, <2>1, <2>2, PassStays DEF Accepted
<1>7. ASSUME pc \in {"reach", "cycle", "rules"}, pc' \in {"cycle", "rules", "verdict"},
             issues \subseteq issues'
      PROVE  PassInv'
  BY <1>1, <1>7, PassGrows DEF NodesDone, LinksDone, PortsDone, Accepted
<1>8. ASSUME NEW l, FollowLink(l), ~U PROVE PassInv'
  BY <1>7, <1>8 DEF FollowLink, Take
<1>9. CASE Verdict
  <2>1. /\ pc = "verdict" /\ pc' \in {"paths", "rejected"} /\ issues' = issues
        /\ pc' = "paths" => issues \ {"unreachable_node"} = {}
    BY <1>9 DEF Verdict, Pass, Blocking
  <2>2. CASE pc' = "paths"
    BY <1>1, <2>1, <2>2, PassGrows DEF NodesDone, LinksDone, PortsDone
  <2> QED
    BY <1>3, <2>1, <2>2
<1>10. CASE Publish
  <2>1. pc = "paths" /\ pc' = "published" /\ issues' = issues
    BY <1>10 DEF Publish, Searching
  <2> QED
    BY <1>1, <2>1, PassGrows DEF PassInv, Blocking, NodesDone, LinksDone, PortsDone, Accepted
<1>11. CASE CheckEmpty
  BY <1>3, <1>11 DEF CheckEmpty, Pass
<1>12. CASE CheckReached \/ EndDfs \/ CheckRules
  BY <1>7, <1>12 DEF CheckReached, EndDfs, CheckRules, Pass
<1>13. CASE Reach \/ StartDfs \/ ReturnDfs \/ StartPath \/ ExtendPath \/ EndPath \/ UNCHANGED vars
  <2>1. U
    BY <1>13 DEF Reach, Pass, StartDfs, ReturnDfs, Searching, StartPath, ExtendPath, EndPath, vars
  <2> QED
    BY <1>2, <2>1
<1> HIDE DEF U
<1> QED
  BY <1>2, <1>4, <1>5, <1>6, <1>8, <1>9, <1>10, <1>11, <1>12, <1>13 DEF Next

\* The connections of a draft that is accepted lead from node to node, and the
\* draft has no cycle that the search has found.
LEMMA AcceptedFlow ==
  ASSUME PassInv, pc \in Accepted
  PROVE  /\ \A l \in flow.links : l.source \in Known /\ l.target \in Known
         /\ issues \subseteq {"unreachable_node"}
<1>1. issues \subseteq {"unreachable_node"}
  BY DEF PassInv, Blocking
<1>2. ASSUME NEW l \in flow.links PROVE l.source \in Known /\ l.target \in Known
  <2>1. LinkIssues(l) \subseteq issues
    BY DEF PassInv, Accepted, LinksDone, NodesDone
  <2> QED
    BY <1>1, <2>1 DEF LinkIssues
<1> QED
  BY <1>1, <1>2

(***************************************************************************)
(* Reachability: nothing is reached before the roots are queued, and then  *)
(* what has been reached or waits holds the roots and all that it feeds;   *)
(* what is not reached at the end is what the warnings are about.          *)
(***************************************************************************)
ReachInv ==
  /\ pc \in {"empty", "nodes", "links", "ports"} => reached = {}
  /\ pc \in PortsDone =>
       /\ \A n \in Roots : n.id \in reached \cup frontier
       /\ \A l \in flow.links : l.source \in reached => l.target \in reached \cup frontier
  /\ pc \in ReachDone => frontier = {}
  /\ issues \cap Warnings # {} =>
       /\ pc \in ReachDone \cup {"rejected"}
       /\ \E k \in Known : k \notin reached

\* Steps outside the search for what can be reached.
LEMMA ReachSame ==
  ASSUME ReachInv, flow' = flow, UNCHANGED <<reached, frontier>>,
         issues' \cap Warnings = issues \cap Warnings,
         pc' \in {"nodes", "links", "ports"} => pc \in {"empty", "nodes", "links", "ports"},
         pc' # "empty" \/ pc' = pc,
         pc' \in PortsDone => pc \in PortsDone,
         pc' \in ReachDone => pc \in ReachDone,
         pc \in ReachDone \cup {"rejected"} => pc' \in ReachDone \cup {"rejected"}
  PROVE  ReachInv'
<1>1. Known' = Known /\ Roots' = Roots
  BY SameFlow
<1>2. pc' \in {"empty", "nodes", "links", "ports"} => reached' = {}
  BY DEF ReachInv
<1>3. pc' \in PortsDone =>
       /\ \A n \in Roots : n.id \in reached' \cup frontier'
       /\ \A l \in flow.links : l.source \in reached' => l.target \in reached' \cup frontier'
  BY DEF ReachInv
<1>4. pc' \in ReachDone => frontier' = {}
  BY DEF ReachInv
<1>5. issues' \cap Warnings # {} =>
       /\ pc' \in ReachDone \cup {"rejected"}
       /\ \E k \in Known : k \notin reached'
  BY DEF ReachInv
<1> QED
  BY <1>1, <1>2, <1>3, <1>4, <1>5 DEF ReachInv

LEMMA ReachKept ==
  ASSUME ReachInv, flow \in Flows, [Next]_vars
  PROVE  ReachInv'
<1>1. flow' = flow /\ Known' = Known /\ Roots' = Roots
  BY Frame, SameFlow
<1> USE DEF NodesDone, LinksDone, PortsDone, ReachDone
<1> DEFINE U == UNCHANGED <<pc, issues, reached, frontier>>
<1>2. CASE U
  BY <1>1, <1>2, ReachSame
<1>3. CASE CheckEmpty
  BY <1>1, <1>3, ReachSame DEF CheckEmpty, Pass, Warnings
<1>4. CASE CheckNodes
  <2>1. ASSUME NEW n PROVE NodeIssues(n) \cap Warnings = {}
    BY NodeCodes DEF SearchCodes, Warnings
  <2>2. /\ UNCHANGED <<reached, frontier>> /\ pc = "nodes" /\ pc' = "links"
        /\ issues' \cap Warnings = issues \cap Warnings
    BY <1>4, <2>1 DEF CheckNodes, Pass, Warnings
  <2> QED
    BY <1>1, <2>2, ReachSame
<1>5. CASE CheckLinks
  <2>1. ASSUME NEW l PROVE LinkIssues(l) \cap Warnings = {}
    BY LinkCodes DEF SearchCodes, Warnings
  <2>2. /\ UNCHANGED <<reached, frontier>> /\ pc = "links" /\ pc' = "ports"
        /\ issues' \cap Warnings = issues \cap Warnings
    BY <1>5, <2>1 DEF CheckLinks, Pass, Warnings
  <2> QED
    BY <1>1, <2>2, ReachSame
<1>6. CASE CheckPorts
  <2>1. ASSUME NEW n PROVE PortIssues(n) \cap Warnings = {}
    BY PortCodes DEF SearchCodes, Warnings
  <2>2. /\ pc = "ports" /\ pc' = "reach" /\ reached' = reached
        /\ frontier' = {n.id : n \in Roots}
        /\ issues' \cap Warnings = issues \cap Warnings
    BY <1>6, <2>1 DEF CheckPorts, Pass, Warnings
  <2>3. reached' = {} /\ issues' \cap Warnings = {}
    BY <2>2 DEF ReachInv
  <2> QED
    BY <1>1, <2>2, <2>3 DEF ReachInv
<1>7. CASE Reach
  <2>1. PICK u \in frontier :
          /\ Pass("reach", "reach", {}) /\ reached' = reached \cup {u}
          /\ frontier' = (frontier \cup {l.target : l \in From(u)}) \ reached'
    BY <1>7 DEF Reach
  <2>2. issues \cap Warnings = {} /\ pc = "reach" /\ pc' = "reach" /\ issues' = issues
    BY <2>1 DEF ReachInv, Pass
  <2>3. \A n \in Roots : n.id \in reached' \cup frontier'
    BY <2>1, <2>2 DEF ReachInv
  <2>4. ASSUME NEW l \in flow.links, l.source \in reached' PROVE l.target \in reached' \cup frontier'
    <3>1. CASE l.source \in reached
      BY <2>1, <2>2, <3>1 DEF ReachInv
    <3>2. CASE l.source = u
      BY <2>1, <3>2 DEF From
    <3> QED
      BY <2>1, <2>4, <3>1, <3>2
  <2> QED
    BY <1>1, <2>2, <2>3, <2>4 DEF ReachInv
<1>8. CASE CheckReached
  <2>1. /\ frontier = {} /\ pc = "reach" /\ pc' = "cycle" /\ UNCHANGED <<reached, frontier>>
        /\ issues' \cap Warnings # {} => issues \cap Warnings # {} \/ Unreached # {}
    BY <1>8 DEF CheckReached, Pass, Warnings
  <2>2. issues \cap Warnings = {}
    BY <2>1 DEF ReachInv
  <2>3. Unreached # {} => \E k \in Known : k \notin reached
    BY FlowTyped DEF Unreached
  <2> QED
    BY <1>1, <2>1, <2>2, <2>3 DEF ReachInv
<1>9. ASSUME NEW l, FollowLink(l), ~U PROVE ReachInv'
  <2>1. /\ pc = "cycle" /\ pc' = "rules" /\ UNCHANGED <<reached, frontier>>
        /\ issues' = issues \cup {"cycle_detected"}
    BY <1>9 DEF FollowLink, Take
  <2> QED
    BY <1>1, <2>1, ReachSame DEF Warnings
<1>10. CASE EndDfs
  BY <1>1, <1>10, ReachSame DEF EndDfs, Pass, Warnings
<1>11. CASE CheckRules
  <2>1. ASSUME NEW n PROVE RuleIssues(n) \cap Warnings = {}
    BY RuleCodes DEF SearchCodes, Warnings
  <2>2. /\ UNCHANGED <<reached, frontier>> /\ pc = "rules" /\ pc' = "verdict"
        /\ issues' \cap Warnings = issues \cap Warnings
    BY <1>11, <2>1 DEF CheckRules, Pass, Warnings
  <2> QED
    BY <1>1, <2>2, ReachSame
<1>12. CASE Verdict
  <2>1. /\ UNCHANGED <<reached, frontier, issues>> /\ pc = "verdict" /\ pc' \in {"paths", "rejected"}
    BY <1>12 DEF Verdict, Pass
  <2> QED
    BY <1>1, <2>1, ReachSame
<1>13. CASE Publish
  <2>1. /\ UNCHANGED <<reached, frontier, issues>> /\ pc = "paths" /\ pc' = "published"
    BY <1>13 DEF Publish, Searching
  <2> QED
    BY <1>1, <2>1, ReachSame
<1>14. CASE StartDfs \/ ReturnDfs \/ StartPath \/ ExtendPath \/ EndPath \/ UNCHANGED vars
  <2>1. U
    BY <1>14 DEF StartDfs, ReturnDfs, Searching, StartPath, ExtendPath, EndPath, vars
  <2> QED
    BY <1>2, <2>1
<1> HIDE DEF U
<1> QED
  BY <1>2, <1>3, <1>4, <1>5, <1>6, <1>7, <1>8, <1>9, <1>10, <1>11, <1>12, <1>13, <1>14 DEF Next

\* Without a cycle and without connections from nowhere, everything is reached.
LEMMA AllReached ==
  ASSUME ReachInv, flow \in Flows, pc \in ReachDone, Acyclic,
         \A l \in flow.links : l.source \in Known
  PROVE  Known \subseteq reached
<1> SUFFICES ASSUME Known \ reached # {} PROVE FALSE
  OBVIOUS
<1>1. PICK k \in Known \ reached : \A l \in Into(k) : l.source \notin Known \ reached
  BY DEF Acyclic
<1>2. /\ \A n \in Roots : n.id \in reached
      /\ \A l \in flow.links : l.source \in reached => l.target \in reached
  BY DEF ReachInv, ReachDone
<1>3. Into(k) = {}
  BY <1>1, <1>2 DEF Into
<1>4. PICK n \in Nodes : n.id = k
  BY FlowTyped
<1> QED
  BY <1>1, <1>2, <1>3, <1>4 DEF Roots

\* The types of what hasCycle works on.
DfsTyped == stack \in Seq(Calls) /\ colour \in [Known -> {"white", "gray", "black"}]

\* Some node of S is fed by none of S.
Unfed(S) == \E n \in S : \A l \in flow.links : l.target = n => l.source \notin S

(***************************************************************************)
(* hasCycle: the nodes of the stack are the gray ones, each a target of    *)
(* the one below; a connection that a call has looked at leads to a node   *)
(* that is done or into the next call; black nodes feed only black ones,   *)
(* and no set of them lies on a cycle.                                     *)
(***************************************************************************)
StackGray ==
  \A i \in DOMAIN stack : /\ colour[stack[i].node] = "gray"
                          /\ \A l \in stack[i].todo : l.source = stack[i].node

GrayStacked == \A n \in Known : colour[n] = "gray" => \E i \in DOMAIN stack : stack[i].node = n

StackOnce == \A i, j \in DOMAIN stack : stack[i].node = stack[j].node => i = j

StackChain ==
  \A i \in 1..(Len(stack) - 1) :
    \E l \in flow.links : l.source = stack[i].node /\ l.target = stack[i + 1].node

LookedAt ==
  \A i \in DOMAIN stack : \A l \in flow.links :
    l.source = stack[i].node /\ l \notin stack[i].todo /\ l.target \in Known =>
      \/ colour[l.target] = "black"
      \/ i < Len(stack) /\ l.target = stack[i + 1].node

BlackClosed ==
  \A l \in flow.links :
    l.source \in Known /\ colour[l.source] = "black" /\ l.target \in Known =>
      colour[l.target] = "black"

BlackAcyclic ==
  \A S \in SUBSET Known : S # {} /\ (\A n \in S : colour[n] = "black") => Unfed(S)

DfsInv ==
  StackGray /\ GrayStacked /\ StackOnce /\ StackChain /\ LookedAt /\ BlackClosed /\ BlackAcyclic

\* The search reports a cycle only if there is one, and then has not ended.
CycleInv ==
  /\ "cycle_detected" \in issues => ~Acyclic
  /\ pc \in CycleDone \/ (pc = "rejected" /\ flow.nodes # <<>>) =>
       "cycle_detected" \in issues \/ Acyclic

\* The stack as a sequence of calls.
LEMMA StackFacts ==
  ASSUME DfsTyped
  PROVE  /\ Len(stack) \in Nat /\ DOMAIN stack = 1..Len(stack)
         /\ \A i \in DOMAIN stack : stack[i] \in Calls /\ stack[i].node \in Known
         /\ stack # <<>> => Len(stack) \in DOMAIN stack /\ Top \in Calls /\ Top = stack[Len(stack)]
         /\ stack = <<>> => DOMAIN stack = {}
<1>0. PICK C : C = Calls
  OBVIOUS
<1>1. stack \in Seq(C)
  BY <1>0 DEF DfsTyped
<1>2. Len(stack) \in Nat /\ DOMAIN stack = 1..Len(stack) /\ \A i \in DOMAIN stack : stack[i] \in C
  BY <1>1, LenProperties
<1>3. \A c \in C : c.node \in Known
  BY <1>0 DEF Calls
<1>4. stack # <<>> => Len(stack) \in DOMAIN stack
  BY <1>1, <1>2, EmptySeq
<1> QED
  BY <1>0, <1>2, <1>3, <1>4 DEF Top

\* What one step does to the stack.
LEMMA Dropped ==
  ASSUME DfsTyped, stack # <<>>
  PROVE  /\ Front(stack) \in Seq(Calls) /\ Len(Front(stack)) = Len(stack) - 1
         /\ DOMAIN Front(stack) = 1..(Len(stack) - 1)
         /\ \A i \in 1..(Len(stack) - 1) : Front(stack)[i] = stack[i]
<1>0. PICK C : C = Calls
  OBVIOUS
<1>1. Len(stack) \in Nat \ {0} /\ DOMAIN stack = 1..Len(stack) /\ \A i \in DOMAIN stack : stack[i] \in C
  BY <1>0, StackFacts
<1>2. /\ SubSeq(stack, 1, Len(stack) - 1) \in Seq(C)
      /\ Len(SubSeq(stack, 1, Len(stack) - 1)) = Len(stack) - 1
      /\ \A i \in 1..(Len(stack) - 1) : SubSeq(stack, 1, Len(stack) - 1)[i] = stack[i]
  <2>1. \A i \in 1..(Len(stack) - 1) : stack[i] \in C
    BY <1>1
  <2> QED
    BY <1>1, <2>1, SubSeqProperties
<1>3. DOMAIN SubSeq(stack, 1, Len(stack) - 1) = 1..(Len(stack) - 1)
  BY <1>2, LenProperties
<1> QED
  BY <1>0, <1>2, <1>3 DEF Front

LEMMA Rested ==
  ASSUME DfsTyped, stack # <<>>, NEW l
  PROVE  /\ Rest(l) \in Seq(Calls) /\ Len(Rest(l)) = Len(stack) /\ DOMAIN Rest(l) = DOMAIN stack
         /\ \A i \in DOMAIN stack : Rest(l)[i].node = stack[i].node
         /\ \A i \in DOMAIN stack : i # Len(stack) => Rest(l)[i].todo = stack[i].todo
         /\ Rest(l)[Len(stack)].todo = Top.todo \ {l}
<1>0. PICK C, e : C = Calls /\ e = [stack[Len(stack)] EXCEPT !.todo = @ \ {l}]
  OBVIOUS
<1>1. /\ Len(stack) \in DOMAIN stack /\ DOMAIN stack = 1..Len(stack) /\ stack \in Seq(C)
      /\ stack[Len(stack)] \in C /\ Top = stack[Len(stack)]
  BY <1>0, StackFacts DEF DfsTyped
<1>2. e \in C /\ e.node = Top.node /\ e.todo = Top.todo \ {l}
  BY <1>0, <1>1 DEF Calls
<1>3. Rest(l) = [stack EXCEPT ![Len(stack)] = e]
  BY <1>0, <1>1 DEF Rest
<1>4. /\ Rest(l) \in Seq(C) /\ Len(Rest(l)) = Len(stack)
      /\ \A i \in 1..Len(stack) : Rest(l)[i] = IF i = Len(stack) THEN e ELSE stack[i]
  BY <1>1, <1>2, <1>3, ExceptSeq
<1>5. DOMAIN Rest(l) = DOMAIN stack
  BY <1>1, <1>4, LenProperties
<1> QED
  BY <1>0, <1>1, <1>2, <1>4, <1>5

\* Steps outside the search for cycles.
LEMMA DfsSame ==
  ASSUME DfsTyped, DfsInv, UNCHANGED <<flow, colour, stack>>
  PROVE  DfsTyped' /\ DfsInv'
BY SameFlow DEF DfsTyped, DfsInv, StackGray, GrayStacked, StackOnce, StackChain, LookedAt,
     BlackClosed, BlackAcyclic, Unfed

\* The parts of the invariant after a step, for a draft that stays the same.
LEMMA DfsStays ==
  ASSUME flow' = flow, DfsTyped',
         \A i \in DOMAIN stack' : /\ colour'[stack'[i].node] = "gray"
                                  /\ \A k \in stack'[i].todo : k.source = stack'[i].node,
         \A m \in Known : colour'[m] = "gray" => \E i \in DOMAIN stack' : stack'[i].node = m,
         \A i, j \in DOMAIN stack' : stack'[i].node = stack'[j].node => i = j,
         \A i \in 1..(Len(stack') - 1) :
           \E k \in flow.links : k.source = stack'[i].node /\ k.target = stack'[i + 1].node,
         \A i \in DOMAIN stack' : \A k \in flow.links :
           k.source = stack'[i].node /\ k \notin stack'[i].todo /\ k.target \in Known =>
             \/ colour'[k.target] = "black"
             \/ i < Len(stack') /\ k.target = stack'[i + 1].node,
         \A k \in flow.links :
           k.source \in Known /\ colour'[k.source] = "black" /\ k.target \in Known =>
             colour'[k.target] = "black",
         \A S \in SUBSET Known : S # {} /\ (\A m \in S : colour'[m] = "black") => Unfed(S)
  PROVE  DfsTyped' /\ DfsInv'
<1>1. Known' = Known
  BY SameFlow
<1>2. StackGray'
  BY DEF StackGray
<1>3. GrayStacked'
  BY <1>1 DEF GrayStacked
<1>4. StackOnce'
  BY DEF StackOnce
<1>5. StackChain'
  BY DEF StackChain
<1>6. LookedAt'
  BY <1>1 DEF LookedAt
<1>7. BlackClosed'
  BY <1>1 DEF BlackClosed
<1>8. BlackAcyclic'
  BY <1>1 DEF BlackAcyclic, Unfed
<1> QED
  BY <1>2, <1>3, <1>4, <1>5, <1>6, <1>7, <1>8 DEF DfsInv

\* The first call, on a node that has not been seen.
LEMMA DfsStarts ==
  ASSUME DfsTyped, DfsInv, StartDfs
  PROVE  DfsTyped' /\ DfsInv'
<1>1. PICK n \in Known : /\ colour[n] = "white" /\ stack = <<>> /\ flow' = flow
                         /\ colour' = [colour EXCEPT ![n] = "gray"] /\ stack' = <<Call(n)>>
  BY DEF StartDfs
<1>2. Known' = Known /\ Calls' = Calls
  BY <1>1, SameFlow
<1>3. Call(n).node = n /\ Call(n).todo = {l \in flow.links : l.source = n} /\ Call(n) \in Calls
  BY DEF Call, Calls, From
<1>4. Len(stack') = 1 /\ DOMAIN stack' = {1} /\ stack'[1] = Call(n)
  BY <1>1
<1>5. DOMAIN stack = {}
  BY <1>1
<1>6. /\ colour' \in [Known -> {"white", "gray", "black"}] /\ colour'[n] = "gray"
      /\ \A m \in Known \ {n} : colour'[m] = colour[m]
      /\ \A m \in Known : colour'[m] = "black" <=> colour[m] = "black"
  BY <1>1 DEF DfsTyped
<1>7. DfsTyped'
  BY <1>1, <1>2, <1>3, <1>6 DEF DfsTyped
<1>8. \A i \in DOMAIN stack' : /\ colour'[stack'[i].node] = "gray"
                               /\ \A l \in stack'[i].todo : l.source = stack'[i].node
  BY <1>3, <1>4, <1>6
<1>9. \A m \in Known : colour'[m] = "gray" => \E i \in DOMAIN stack' : stack'[i].node = m
  BY <1>3, <1>4, <1>5, <1>6 DEF DfsInv, GrayStacked
<1>10. /\ \A i, j \in DOMAIN stack' : stack'[i].node = stack'[j].node => i = j
       /\ \A i \in 1..(Len(stack') - 1) :
            \E l \in flow.links : l.source = stack'[i].node /\ l.target = stack'[i + 1].node
  BY <1>4
<1>11. \A i \in DOMAIN stack' : \A l \in flow.links : l.source = stack'[i].node => l \in stack'[i].todo
  BY <1>3, <1>4
<1>12. \A l \in flow.links :
         l.source \in Known /\ colour'[l.source] = "black" /\ l.target \in Known =>
           colour'[l.target] = "black"
  BY <1>6 DEF DfsInv, BlackClosed
<1>13. \A S \in SUBSET Known : S # {} /\ (\A m \in S : colour'[m] = "black") => Unfed(S)
  BY <1>6 DEF DfsInv, BlackAcyclic
<1> QED
  BY <1>1, <1>7, <1>8, <1>9, <1>10, <1>11, <1>12, <1>13, DfsStays

\* A call on the target of a connection, which has not been seen.
LEMMA DfsDescends ==
  ASSUME DfsTyped, DfsInv, NEW l \in flow.links, Take(l), Unseen(l.target),
         colour' = [colour EXCEPT ![l.target] = "gray"],
         stack' = Append(Rest(l), Call(l.target))
  PROVE  DfsTyped' /\ DfsInv'
<1> DEFINE v == l.target
           n == Len(stack)
<1>1. stack # <<>> /\ l \in Top.todo /\ flow' = flow /\ v \in Known /\ colour[v] = "white"
  BY DEF Take, Unseen
<1>2. Known' = Known /\ Calls' = Calls
  BY <1>1, SameFlow
<1>3. Call(v).node = v /\ Call(v).todo = {k \in flow.links : k.source = v} /\ Call(v) \in Calls
  BY <1>1 DEF Call, Calls, From
<1>4. /\ n \in DOMAIN stack /\ n \in Nat /\ DOMAIN stack = 1..n /\ Top = stack[n]
      /\ \A i \in DOMAIN stack : stack[i].node \in Known
  BY <1>1, StackFacts
<1>5. PICK C, rest : C = Calls /\ rest = Rest(l)
  OBVIOUS
<1>6. /\ rest \in Seq(C) /\ Len(rest) = n /\ DOMAIN rest = 1..n
      /\ \A i \in 1..n : rest[i].node = stack[i].node
      /\ \A i \in 1..n : i # n => rest[i].todo = stack[i].todo
      /\ rest[n].todo = stack[n].todo \ {l}
  BY <1>1, <1>4, <1>5, Rested
<1>7. /\ stack' \in Seq(C) /\ Len(stack') = n + 1
      /\ \A i \in 1..n : stack'[i] = rest[i]
      /\ stack'[n + 1] = Call(v)
  BY <1>3, <1>5, <1>6, AppendProperties
<1>8. DOMAIN stack' = 1..(n + 1)
  BY <1>7, LenProperties
<1> HIDE DEF n, v
<1>9. /\ \A i \in 1..n : stack'[i].node = stack[i].node
      /\ \A i \in 1..n : i # n => stack'[i].todo = stack[i].todo
      /\ stack'[n].todo = stack[n].todo \ {l}
      /\ stack'[n + 1].node = v /\ stack'[n + 1].todo = {k \in flow.links : k.source = v}
  BY <1>3, <1>4, <1>6, <1>7
<1>10. /\ colour' \in [Known -> {"white", "gray", "black"}] /\ colour'[v] = "gray"
       /\ \A m \in Known \ {v} : colour'[m] = colour[m]
       /\ \A m \in Known : colour'[m] = "black" <=> colour[m] = "black"
  BY <1>1 DEF DfsTyped, v
<1>11. DfsTyped'
  BY <1>2, <1>5, <1>7, <1>10 DEF DfsTyped
<1>12. \A i \in 1..n : colour[stack[i].node] = "gray" /\ stack[i].node # v
  BY <1>1, <1>4 DEF DfsInv, StackGray
<1>13. \A i \in DOMAIN stack' : /\ colour'[stack'[i].node] = "gray"
                                /\ \A k \in stack'[i].todo : k.source = stack'[i].node
  BY <1>4, <1>8, <1>9, <1>10, <1>12 DEF DfsInv, StackGray
<1>14. \A m \in Known : colour'[m] = "gray" => \E i \in DOMAIN stack' : stack'[i].node = m
  BY <1>4, <1>8, <1>9, <1>10 DEF DfsInv, GrayStacked
<1>15. ASSUME NEW i \in DOMAIN stack', NEW j \in DOMAIN stack', stack'[i].node = stack'[j].node
       PROVE  i = j
  <2>1. \A a \in DOMAIN stack' : a = n + 1 \/ a \in 1..n
    BY <1>4, <1>8
  <2>2. (i = n + 1 <=> stack'[i].node = v) /\ (j = n + 1 <=> stack'[j].node = v)
    BY <2>1, <1>9, <1>12, <1>4
  <2>3. CASE i = n + 1
    BY <2>2, <2>3, <1>15
  <2>4. CASE i \in 1..n /\ j \in 1..n
    <3>1. stack[i].node = stack[j].node
      BY <2>4, <1>9, <1>15
    <3> QED
      BY <2>4, <3>1, <1>4 DEF DfsInv, StackOnce
  <2> QED
    BY <2>1, <2>2, <2>3, <2>4, <1>15
<1>16. \A i \in 1..(Len(stack') - 1) :
         \E k \in flow.links : k.source = stack'[i].node /\ k.target = stack'[i + 1].node
  <2> SUFFICES ASSUME NEW i \in 1..n
               PROVE  \E k \in flow.links : k.source = stack'[i].node /\ k.target = stack'[i + 1].node
    <3>1. Len(stack') - 1 = n
      BY <1>4, <1>7
    <3> QED
      BY <3>1
  <2>1. CASE i = n
    <3>1. l.source = stack[n].node
      BY <1>1, <1>4 DEF DfsInv, StackGray
    <3> QED
      BY <2>1, <3>1, <1>9 DEF v
  <2>2. CASE i # n
    <3>1. i \in 1..(n - 1) /\ i + 1 \in 1..n
      BY <1>4, <2>2
    <3>2. PICK k \in flow.links : k.source = stack[i].node /\ k.target = stack[i + 1].node
      BY <3>1 DEF DfsInv, StackChain, n
    <3> QED
      BY <3>1, <3>2, <1>9
  <2> QED
    BY <2>1, <2>2
<1>17. ASSUME NEW i \in DOMAIN stack', NEW k \in flow.links, k.source = stack'[i].node,
              k \notin stack'[i].todo, k.target \in Known
       PROVE  \/ colour'[k.target] = "black"
              \/ i < Len(stack') /\ k.target = stack'[i + 1].node
  <2>1. i # n + 1
    BY <1>9, <1>17
  <2>2. i \in 1..n
    BY <2>1, <1>4, <1>8
  <2>3. CASE k \in stack[i].todo
    BY <2>2, <2>3, <1>4, <1>7, <1>9, <1>17 DEF v
  <2>4. CASE k \notin stack[i].todo
    <3>1. colour[k.target] = "black" \/ (i < n /\ k.target = stack[i + 1].node)
      BY <2>2, <2>4, <1>4, <1>9, <1>17 DEF DfsInv, LookedAt, n
    <3>2. i < n => i + 1 \in 1..n /\ i < Len(stack')
      BY <2>2, <1>4, <1>7
    <3> QED
      BY <3>1, <3>2, <1>9, <1>10, <1>17
  <2> QED
    BY <2>3, <2>4
<1>18. \A k \in flow.links :
         k.source \in Known /\ colour'[k.source] = "black" /\ k.target \in Known =>
           colour'[k.target] = "black"
  BY <1>10 DEF DfsInv, BlackClosed
<1>19. \A S \in SUBSET Known : S # {} /\ (\A m \in S : colour'[m] = "black") => Unfed(S)
  BY <1>10 DEF DfsInv, BlackAcyclic
<1>20. \A i, j \in DOMAIN stack' : stack'[i].node = stack'[j].node => i = j
  BY <1>15
<1>21. \A i \in DOMAIN stack' : \A k \in flow.links :
         k.source = stack'[i].node /\ k \notin stack'[i].todo /\ k.target \in Known =>
           \/ colour'[k.target] = "black"
           \/ i < Len(stack') /\ k.target = stack'[i + 1].node
  BY <1>17
<1>22. flow' = flow
  BY <1>1
<1> QED
  BY <1>22, <1>11, <1>13, <1>14, <1>20, <1>16, <1>21, <1>18, <1>19, DfsStays

\* A connection to a node that is done, or to none.
LEMMA DfsSkips ==
  ASSUME DfsTyped, DfsInv, NEW l \in flow.links, Take(l),
         ~InProgress(l.target), ~Unseen(l.target), colour' = colour, stack' = Rest(l)
  PROVE  DfsTyped' /\ DfsInv'
<1> DEFINE n == Len(stack)
<1>1. /\ stack # <<>> /\ l \in Top.todo /\ flow' = flow
      /\ l.target \in Known => colour[l.target] = "black"
  BY DEF Take, Unseen, InProgress, DfsTyped
<1>2. Known' = Known /\ Calls' = Calls
  BY <1>1, SameFlow
<1>4. /\ n \in DOMAIN stack /\ n \in Nat /\ DOMAIN stack = 1..n /\ Top = stack[n]
  BY <1>1, StackFacts
<1>6. /\ stack' \in Seq(Calls) /\ Len(stack') = n /\ DOMAIN stack' = 1..n
      /\ \A i \in 1..n : stack'[i].node = stack[i].node
      /\ \A i \in 1..n : i # n => stack'[i].todo = stack[i].todo
      /\ stack'[n].todo = stack[n].todo \ {l}
  BY <1>1, <1>4, Rested
<1> HIDE DEF n
<1>7. DfsTyped'
  BY <1>2, <1>6 DEF DfsTyped
<1>8. \A i \in DOMAIN stack' : /\ colour[stack'[i].node] = "gray"
                               /\ \A k \in stack'[i].todo : k.source = stack'[i].node
  BY <1>4, <1>6 DEF DfsInv, StackGray
<1>9. /\ \A m \in Known : colour[m] = "gray" => \E i \in DOMAIN stack' : stack'[i].node = m
      /\ \A i, j \in DOMAIN stack' : stack'[i].node = stack'[j].node => i = j
  BY <1>4, <1>6 DEF DfsInv, GrayStacked, StackOnce
<1>10. \A i \in 1..(Len(stack') - 1) :
         \E k \in flow.links : k.source = stack'[i].node /\ k.target = stack'[i + 1].node
  <2> SUFFICES ASSUME NEW i \in 1..(n - 1)
               PROVE  \E k \in flow.links : k.source = stack'[i].node /\ k.target = stack'[i + 1].node
    BY <1>6
  <2>1. i \in 1..n /\ i + 1 \in 1..n
    BY <1>4
  <2>2. PICK k \in flow.links : k.source = stack[i].node /\ k.target = stack[i + 1].node
    BY DEF DfsInv, StackChain, n
  <2> QED
    BY <2>1, <2>2, <1>6
<1>11. ASSUME NEW i \in DOMAIN stack', NEW k \in flow.links, k.source = stack'[i].node,
              k \notin stack'[i].todo, k.target \in Known
       PROVE  \/ colour[k.target] = "black"
              \/ i < Len(stack') /\ k.target = stack'[i + 1].node
  <2>1. CASE k \in stack[i].todo
    BY <2>1, <1>1, <1>4, <1>6, <1>11
  <2>2. CASE k \notin stack[i].todo
    <3>1. colour[k.target] = "black" \/ (i < n /\ k.target = stack[i + 1].node)
      BY <2>2, <1>4, <1>6, <1>11 DEF DfsInv, LookedAt, n
    <3>2. i < n => i + 1 \in 1..n
      BY <1>4, <1>6, <1>11
    <3> QED
      BY <3>1, <3>2, <1>6
  <2> QED
    BY <2>1, <2>2
<1>12. /\ \A k \in flow.links :
            k.source \in Known /\ colour[k.source] = "black" /\ k.target \in Known =>
              colour[k.target] = "black"
       /\ \A S \in SUBSET Known : S # {} /\ (\A m \in S : colour[m] = "black") => Unfed(S)
  BY DEF DfsInv, BlackClosed, BlackAcyclic
<1> QED
  BY <1>1, <1>7, <1>8, <1>9, <1>10, <1>11, <1>12, DfsStays

\* A call returns: what its node feeds is done.
LEMMA DfsReturns ==
  ASSUME DfsTyped, DfsInv, ReturnDfs
  PROVE  DfsTyped' /\ DfsInv'
<1> DEFINE n == Len(stack)
           u == stack[n].node
<1>1. /\ stack # <<>> /\ Top.todo = {} /\ flow' = flow /\ stack' = Front(stack)
      /\ colour' = [colour EXCEPT ![Top.node] = "black"]
  BY DEF ReturnDfs
<1>2. Known' = Known /\ Calls' = Calls
  BY <1>1, SameFlow
<1>3. /\ n \in DOMAIN stack /\ n \in Nat \ {0} /\ DOMAIN stack = 1..n /\ Top = stack[n]
      /\ \A i \in 1..n : stack[i].node \in Known
  BY <1>1, StackFacts
<1>4. /\ stack' \in Seq(Calls) /\ Len(stack') = n - 1 /\ DOMAIN stack' = 1..(n - 1)
      /\ \A i \in 1..(n - 1) : stack'[i] = stack[i]
  BY <1>1, Dropped
<1>5. /\ u \in Known /\ colour[u] = "gray"
      /\ \A i \in 1..(n - 1) : stack[i].node # u
  BY <1>3 DEF DfsInv, StackGray, StackOnce
<1>6. /\ colour' \in [Known -> {"white", "gray", "black"}] /\ colour'[u] = "black"
      /\ \A m \in Known \ {u} : colour'[m] = colour[m]
  BY <1>1, <1>3, <1>5 DEF DfsTyped
<1>7. \A l \in flow.links : l.source = u /\ l.target \in Known => colour[l.target] = "black"
  BY <1>1, <1>3 DEF DfsInv, LookedAt
<1> HIDE DEF n, u
<1>8. DfsTyped'
  BY <1>2, <1>4, <1>6 DEF DfsTyped
<1>9. \A i \in DOMAIN stack' : /\ colour'[stack'[i].node] = "gray"
                               /\ \A k \in stack'[i].todo : k.source = stack'[i].node
  BY <1>3, <1>4, <1>5, <1>6 DEF DfsInv, StackGray
<1>10. \A m \in Known : colour'[m] = "gray" => \E i \in DOMAIN stack' : stack'[i].node = m
  <2> SUFFICES ASSUME NEW m \in Known, colour'[m] = "gray"
               PROVE  \E i \in DOMAIN stack' : stack'[i].node = m
    OBVIOUS
  <2>1. m # u /\ colour[m] = "gray"
    BY <1>6
  <2>2. PICK i \in DOMAIN stack : stack[i].node = m
    BY <2>1 DEF DfsInv, GrayStacked
  <2>3. i \in 1..(n - 1)
    BY <2>1, <2>2, <1>3 DEF u
  <2> QED
    BY <2>2, <2>3, <1>4
<1>11. \A i, j \in DOMAIN stack' : stack'[i].node = stack'[j].node => i = j
  BY <1>3, <1>4 DEF DfsInv, StackOnce
<1>12. \A i \in 1..(Len(stack') - 1) :
         \E k \in flow.links : k.source = stack'[i].node /\ k.target = stack'[i + 1].node
  <2> SUFFICES ASSUME NEW i \in 1..(n - 2)
               PROVE  \E k \in flow.links : k.source = stack'[i].node /\ k.target = stack'[i + 1].node
    BY <1>3, <1>4
  <2>1. i \in 1..(n - 1) /\ i + 1 \in 1..(n - 1)
    BY <1>3
  <2>2. PICK k \in flow.links : k.source = stack[i].node /\ k.target = stack[i + 1].node
    BY <2>1 DEF DfsInv, StackChain, n
  <2> QED
    BY <2>1, <2>2, <1>4
<1>13. ASSUME NEW i \in DOMAIN stack', NEW k \in flow.links, k.source = stack'[i].node,
              k \notin stack'[i].todo, k.target \in Known
       PROVE  \/ colour'[k.target] = "black"
              \/ i < Len(stack') /\ k.target = stack'[i + 1].node
  <2>1. i \in 1..(n - 1) /\ i \in 1..n /\ stack'[i] = stack[i]
    BY <1>3, <1>4
  <2>2. colour[k.target] = "black" \/ k.target = stack[i + 1].node
    BY <2>1, <1>3, <1>13 DEF DfsInv, LookedAt
  <2>3. CASE i = n - 1
    BY <2>2, <2>3, <1>3, <1>6, <1>13 DEF u
  <2>4. CASE i # n - 1
    <3>1. i < n - 1 /\ i + 1 \in 1..(n - 1)
      BY <2>1, <2>4, <1>3
    <3>2. stack'[i + 1] = stack[i + 1]
      BY <3>1, <1>4
    <3> QED
      BY <2>2, <3>1, <3>2, <1>4, <1>6, <1>13
  <2> QED
    BY <2>3, <2>4
<1>14. \A k \in flow.links :
         k.source \in Known /\ colour'[k.source] = "black" /\ k.target \in Known =>
           colour'[k.target] = "black"
  BY <1>6, <1>7 DEF DfsInv, BlackClosed
<1>15. ASSUME NEW S \in SUBSET Known, S # {}, \A m \in S : colour'[m] = "black" PROVE Unfed(S)
  <2>1. CASE u \notin S
    BY <2>1, <1>6, <1>15 DEF DfsInv, BlackAcyclic
  <2>2. CASE u \in S
    <3>1. \A l \in flow.links : l.target = u => l.source \notin S
      BY <1>5, <1>6, <1>7, <1>15 DEF DfsInv, BlackClosed
    <3> QED
      BY <2>2, <3>1 DEF Unfed
  <2> QED
    BY <2>1, <2>2
<1> QED
  BY <1>1, <1>8, <1>9, <1>10, <1>11, <1>12, <1>13, <1>14, <1>15, DfsStays

\* Every step keeps the invariant of the search for cycles.
LEMMA DfsKept ==
  ASSUME DfsTyped, DfsInv, [Next]_vars
  PROVE  DfsTyped' /\ DfsInv'
<1>1. flow' = flow
  BY Frame
<1>2. CASE StartDfs
  BY <1>2, DfsStarts
<1>3. CASE ReturnDfs
  BY <1>3, DfsReturns
<1>4. ASSUME NEW l \in flow.links, FollowLink(l) PROVE DfsTyped' /\ DfsInv'
  <2>1. CASE UNCHANGED <<colour, stack>>
    BY <1>1, <2>1, DfsSame
  <2>2. CASE /\ Unseen(l.target)
             /\ colour' = [colour EXCEPT ![l.target] = "gray"]
             /\ stack' = Append(Rest(l), Call(l.target))
    BY <1>4, <2>2, DfsDescends DEF FollowLink
  <2>3. CASE ~InProgress(l.target) /\ ~Unseen(l.target) /\ colour' = colour /\ stack' = Rest(l)
    BY <1>4, <2>3, DfsSkips DEF FollowLink
  <2> QED
    BY <1>4, <2>1, <2>2, <2>3 DEF FollowLink
<1>5. CASE UNCHANGED <<colour, stack>>
  BY <1>1, <1>5, DfsSame
<1>6. CASE \/ CheckEmpty \/ CheckNodes \/ CheckLinks \/ CheckPorts \/ Reach \/ CheckReached
           \/ EndDfs \/ CheckRules \/ Verdict \/ StartPath \/ ExtendPath \/ EndPath \/ Publish
           \/ UNCHANGED vars
  BY <1>5, <1>6 DEF CheckEmpty, CheckNodes, CheckLinks, CheckPorts, Reach, CheckReached, EndDfs,
       CheckRules, Verdict, Pass, StartPath, ExtendPath, EndPath, Publish, Searching, vars
<1> QED
  BY <1>2, <1>3, <1>4, <1>6 DEF Next

\* A connection back to a node of the stack closes a cycle with the nodes
\* from there to the top.
LEMMA GrayTarget ==
  ASSUME DfsTyped, DfsInv, NEW l \in flow.links, stack # <<>>, l \in Top.todo, InProgress(l.target)
  PROVE  ~Acyclic
<1> DEFINE n == Len(stack)
<1>1. /\ n \in DOMAIN stack /\ n \in Nat /\ DOMAIN stack = 1..n /\ Top = stack[n]
      /\ \A i \in 1..n : stack[i].node \in Known
  BY StackFacts
<1>2. PICK k \in 1..n : stack[k].node = l.target
  BY <1>1 DEF DfsInv, GrayStacked, InProgress
<1>3. l.source = stack[n].node
  BY <1>1 DEF DfsInv, StackGray
<1>4. \A i \in 1..(n - 1) :
        \E m \in flow.links : m.source = stack[i].node /\ m.target = stack[i + 1].node
  BY DEF DfsInv, StackChain
<1> HIDE DEF n
<1> DEFINE S == {stack[i].node : i \in k..n}
<1>5. S \in (SUBSET Known) \ {{}} /\ stack[n].node \in S
  <2>1. n \in k..n /\ k..n \subseteq 1..n
    BY <1>1, <1>2
  <2>2. stack[n].node \in S
    BY <2>1
  <2>3. S \subseteq Known
    BY <2>1, <1>1
  <2> HIDE DEF S
  <2> QED
    BY <2>2, <2>3
<1>6. ASSUME NEW s \in S PROVE \E m \in Into(s) : m.source \in S
  <2>1. PICK i \in k..n : s = stack[i].node
    OBVIOUS
  <2>2. CASE i = k
    BY <2>1, <2>2, <1>2, <1>3, <1>5 DEF Into
  <2>3. CASE i # k
    <3> HIDE DEF S
    <3>1. i - 1 \in k..n /\ i - 1 \in 1..(n - 1) /\ (i - 1) + 1 = i
      BY <2>3, <1>1, <1>2
    <3>2. PICK m \in flow.links : m.source = stack[i - 1].node /\ m.target = stack[(i - 1) + 1].node
      BY <3>1, <1>4
    <3>3. m.source \in S
      BY <3>1, <3>2 DEF S
    <3> QED
      BY <2>1, <3>1, <3>2, <3>3 DEF Into
  <2> QED
    BY <2>2, <2>3
<1> HIDE DEF S
<1>7. \A s \in S : \E m \in Into(s) : m.source \in S
  BY <1>6
<1> QED
  BY <1>5, <1>7 DEF Acyclic

\* When every node has been looked at, there is no cycle.
LEMMA AllBlack ==
  ASSUME DfsTyped, DfsInv, stack = <<>>, \A n \in Known : colour[n] # "white"
  PROVE  Acyclic
<1>1. \A n \in Known : colour[n] = "black"
  BY DEF DfsTyped, DfsInv, GrayStacked
<1> SUFFICES ASSUME NEW S \in (SUBSET Known) \ {{}}
             PROVE  \E n \in S : \A l \in Into(n) : l.source \notin S
  BY DEF Acyclic
<1>2. Unfed(S)
  BY <1>1 DEF DfsInv, BlackAcyclic
<1> QED
  BY <1>2 DEF Unfed, Into

\* Steps that say nothing about cycles.
LEMMA CycleSame ==
  ASSUME CycleInv, flow' = flow, "cycle_detected" \in issues' => "cycle_detected" \in issues,
         issues \subseteq issues',
         pc' \in CycleDone => pc \in CycleDone,
         pc' = "rejected" => pc \in CycleDone \cup {"rejected"} \/ flow.nodes = <<>>
  PROVE  CycleInv'
BY SameFlow DEF CycleInv

LEMMA CycleKept ==
  ASSUME CycleInv, DfsTyped, DfsInv, [Next]_vars
  PROVE  CycleInv'
<1>1. flow' = flow /\ (Acyclic' <=> Acyclic)
  BY Frame, SameFlow
<1> USE DEF NodesDone, LinksDone, PortsDone, ReachDone, CycleDone
<1>2. CASE UNCHANGED <<pc, issues>>
  BY <1>1, <1>2, CycleSame
<1>3. CASE CheckEmpty
  BY <1>1, <1>3, CycleSame DEF CheckEmpty, Pass
<1>4. CASE CheckNodes
  <2>1. ASSUME NEW n PROVE "cycle_detected" \notin NodeIssues(n)
    BY NodeCodes DEF SearchCodes
  <2>2. /\ pc' = "links" /\ issues \subseteq issues'
        /\ "cycle_detected" \in issues' => "cycle_detected" \in issues
    BY <1>4, <2>1 DEF CheckNodes, Pass
  <2> QED
    BY <1>1, <2>2, CycleSame
<1>5. CASE CheckLinks
  <2>1. ASSUME NEW l PROVE "cycle_detected" \notin LinkIssues(l)
    BY LinkCodes DEF SearchCodes
  <2>2. /\ pc' = "ports" /\ issues \subseteq issues'
        /\ "cycle_detected" \in issues' => "cycle_detected" \in issues
    BY <1>5, <2>1 DEF CheckLinks, Pass
  <2> QED
    BY <1>1, <2>2, CycleSame
<1>6. CASE CheckPorts
  <2>1. ASSUME NEW n PROVE "cycle_detected" \notin PortIssues(n)
    BY PortCodes DEF SearchCodes
  <2>2. /\ pc' = "reach" /\ issues \subseteq issues'
        /\ "cycle_detected" \in issues' => "cycle_detected" \in issues
    BY <1>6, <2>1 DEF CheckPorts, Pass
  <2> QED
    BY <1>1, <2>2, CycleSame
<1>7. CASE CheckReached
  <2>1. /\ pc' = "cycle" /\ issues \subseteq issues'
        /\ "cycle_detected" \in issues' => "cycle_detected" \in issues
    BY <1>7 DEF CheckReached, Pass
  <2> QED
    BY <1>1, <2>1, CycleSame
<1>8. ASSUME NEW l \in flow.links, FollowLink(l) PROVE CycleInv'
  <2>1. CASE InProgress(l.target) /\ issues' = issues \cup {"cycle_detected"} /\ pc' = "rules"
    <3>1. ~Acyclic
      BY <1>8, <2>1, GrayTarget DEF FollowLink, Take
    <3> QED
      BY <1>1, <2>1, <3>1 DEF CycleInv
  <2> QED
    BY <1>2, <1>8, <2>1 DEF FollowLink
<1>9. CASE EndDfs
  <2>1. pc' = "rules" /\ issues' = issues /\ Acyclic
    BY <1>9, AllBlack DEF EndDfs, Pass
  <2> QED
    BY <1>1, <2>1 DEF CycleInv
<1>10. CASE CheckRules
  <2>1. ASSUME NEW n PROVE "cycle_detected" \notin RuleIssues(n)
    BY RuleCodes DEF SearchCodes
  <2>2. /\ pc = "rules" /\ pc' = "verdict" /\ issues \subseteq issues'
        /\ "cycle_detected" \in issues' => "cycle_detected" \in issues
    BY <1>10, <2>1 DEF CheckRules, Pass
  <2> QED
    BY <1>1, <2>2, CycleSame
<1>11. CASE Verdict
  BY <1>1, <1>11, CycleSame DEF Verdict, Pass
<1>12. CASE Publish
  BY <1>1, <1>12, CycleSame DEF Publish, Searching
<1>13. CASE Reach \/ StartDfs \/ ReturnDfs \/ StartPath \/ ExtendPath \/ EndPath \/ UNCHANGED vars
  BY <1>2, <1>13 DEF Reach, Pass, StartDfs, ReturnDfs, Searching, StartPath, ExtendPath, EndPath, vars
<1> QED
  BY <1>3, <1>4, <1>5, <1>6, <1>7, <1>8, <1>9, <1>10, <1>11, <1>12, <1>13 DEF Next

-------------------------------------------------------------------------------
(***************************************************************************)
(* bfsPath: each path of the queue leads along connections from an entry   *)
(* through different nodes that the search has seen; the entries and what  *)
(* the nodes seen feed have been seen or end a path of the queue; the      *)
(* target has not been seen.                                               *)
(***************************************************************************)
Along(p) == \A i \in 1..(Len(p) - 1) : \E l \in flow.links : l.source = p[i] /\ l.target = p[i + 1]

Way(p, seen) ==
  /\ p \in Seq(Known) /\ p # <<>> /\ p[1] \in EntryIds /\ Along(p)
  /\ \A i \in 1..(Len(p) - 1) : p[i] \in seen
  /\ \A i, j \in 1..(Len(p) - 1) : p[i] = p[j] => i = j

\* A path to t as the snapshot keeps it.
PathTo(p, t) ==
  /\ p \in Seq(Known) /\ p # <<>> /\ p[1] \in EntryIds /\ Along(p)
  /\ p[Len(p)] = t
  /\ \A i, j \in DOMAIN p : p[i] = p[j] => i = j

Ends == {p[Len(p)] : p \in ToSet(search.queue)}

SearchTyped ==
  /\ search \in [target : Known \cup {None}, queue : Seq(Seq(Known)),
                 seen : SUBSET Known, left : SUBSET Known]
  /\ paths \in [Known -> Seq(Known)]

WaysInv ==
  /\ search.target = None => search.queue = <<>>
  /\ search.target \notin search.seen
  /\ \A p \in ToSet(search.queue) : Way(p, search.seen)

AheadInv ==
  search.target # None =>
    /\ EntryIds \subseteq search.seen \cup Ends
    /\ \A l \in flow.links : l.source \in search.seen => l.target \in search.seen \cup Ends

FoundInv ==
  /\ \A t \in Terminals :
       t.id \in search.left \/ t.id = search.target \/ PathTo(paths[t.id], t.id)
  /\ pc = "published" => search.target = None /\ search.left = {}

SearchInv == SearchTyped /\ WaysInv /\ AheadInv /\ FoundInv

\* Steps outside the search for paths.
LEMMA SearchSame ==
  ASSUME SearchInv, UNCHANGED <<flow, search, paths>>,
         pc' = "published" => pc = "published" \/ (search.target = None /\ search.left = {})
  PROVE  SearchInv'
<1>1. /\ Known' = Known /\ EntryIds' = EntryIds /\ Terminals' = Terminals /\ Ends' = Ends
  BY SameFlow DEF Ends
<1>2. \A p, t : PathTo(p, t)' = PathTo(p, t)
  BY <1>1 DEF PathTo, Along
<1>3. \A p, seen : Way(p, seen)' = Way(p, seen)
  BY <1>1 DEF Way, Along
<1>4. SearchTyped'
  BY <1>1 DEF SearchInv, SearchTyped
<1>5. WaysInv'
  <2>1. ASSUME NEW p \in ToSet(search.queue) PROVE Way(p, search.seen)'
    BY <1>3 DEF SearchInv, WaysInv
  <2> QED
    BY <2>1 DEF SearchInv, WaysInv
<1>6. AheadInv'
  BY <1>1 DEF SearchInv, AheadInv
<1>7. FoundInv'
  <2>1. ASSUME NEW t \in Terminals
        PROVE  t.id \in search'.left \/ t.id = search'.target \/ PathTo(paths[t.id], t.id)'
    BY <1>2 DEF SearchInv, FoundInv
  <2> QED
    BY <1>1, <2>1 DEF SearchInv, FoundInv
<1> QED
  BY <1>4, <1>5, <1>6, <1>7 DEF SearchInv

\* The queue without its first element and with more behind.
LEMMA Requeued ==
  ASSUME NEW W, NEW q \in Seq(W), q # <<>>, NEW s \in Seq(W)
  PROVE  /\ Tail(q) \o s \in Seq(W) /\ Head(q) \in ToSet(q) /\ Head(q) \in W
         /\ ToSet(Tail(q) \o s) \subseteq ToSet(q) \cup ToSet(s)
         /\ ToSet(q) \ {Head(q)} \subseteq ToSet(Tail(q) \o s)
         /\ ToSet(s) \subseteq ToSet(Tail(q) \o s)
<1> DEFINE r == Tail(q) \o s
<1>1. /\ Len(q) \in Nat \ {0} /\ DOMAIN q = 1..Len(q) /\ Head(q) = q[1] /\ Head(q) \in W
  BY LenProperties, EmptySeq, HeadTailProperties
<1>2. PICK t : t = Tail(q)
  OBVIOUS
<1>3. /\ t \in Seq(W) /\ Len(t) = Len(q) - 1 /\ \A i \in 1..Len(t) : t[i] = q[i + 1]
  BY <1>2, HeadTailProperties
<1>4. Len(s) \in Nat /\ DOMAIN s = 1..Len(s) /\ Len(t) \in Nat
  BY <1>3, LenProperties
<1>5. /\ r \in Seq(W) /\ Len(r) = Len(t) + Len(s)
      /\ \A i \in 1..(Len(t) + Len(s)) : r[i] = IF i <= Len(t) THEN t[i] ELSE s[i - Len(t)]
  BY <1>2, <1>3, ConcatProperties
<1>6. DOMAIN r = 1..(Len(t) + Len(s))
  BY <1>5, LenProperties
<1> HIDE DEF r
<1>7. ASSUME NEW i \in DOMAIN r PROVE r[i] \in ToSet(q) \cup ToSet(s)
  <2>1. CASE i <= Len(t)
    <3>1. r[i] = q[i + 1] /\ i + 1 \in DOMAIN q
      BY <2>1, <1>1, <1>3, <1>4, <1>5, <1>6
    <3> QED
      BY <3>1 DEF ToSet
  <2>2. CASE ~(i <= Len(t))
    <3>1. r[i] = s[i - Len(t)] /\ i - Len(t) \in DOMAIN s
      BY <2>2, <1>4, <1>5, <1>6
    <3> QED
      BY <3>1 DEF ToSet
  <2> QED
    BY <2>1, <2>2
<1>8. ASSUME NEW j \in DOMAIN q, j # 1 PROVE q[j] \in ToSet(r)
  <2>1. /\ j - 1 \in DOMAIN r /\ j - 1 <= Len(t) /\ j - 1 \in 1..Len(t) /\ (j - 1) + 1 = j
    BY <1>1, <1>3, <1>4, <1>6, <1>8
  <2>2. r[j - 1] = q[j]
    BY <2>1, <1>3, <1>5, <1>6
  <2> QED
    BY <2>1, <2>2 DEF ToSet
<1>9. ASSUME NEW k \in DOMAIN s PROVE s[k] \in ToSet(r)
  <2>1. /\ k + Len(t) \in DOMAIN r /\ ~(k + Len(t) <= Len(t)) /\ (k + Len(t)) - Len(t) = k
    BY <1>4, <1>6
  <2>2. r[k + Len(t)] = s[k]
    BY <2>1, <1>5, <1>6
  <2> QED
    BY <2>1, <2>2 DEF ToSet
<1>10. ToSet(r) \subseteq ToSet(q) \cup ToSet(s)
  BY <1>7 DEF ToSet
<1>11. ToSet(q) \ {Head(q)} \subseteq ToSet(r)
  <2>1. \A j \in DOMAIN q : q[j] # Head(q) => q[j] \in ToSet(r)
    BY <1>1, <1>8
  <2> QED
    BY <2>1 DEF ToSet
<1>12. ToSet(s) \subseteq ToSet(r)
  <2>1. \A k \in DOMAIN s : s[k] \in ToSet(r)
    BY <1>9
  <2> QED
    BY <2>1 DEF ToSet
<1>13. Head(q) \in ToSet(q)
  BY <1>1 DEF ToSet
<1> QED
  BY <1>1, <1>5, <1>10, <1>11, <1>12, <1>13 DEF r

\* A path to a node that has not been seen, and one connection more.
LEMMA Longer ==
  ASSUME NEW p, NEW seen, Way(p, seen), p[Len(p)] \notin seen,
         NEW l \in flow.links, l.source = p[Len(p)], l.target \in Known
  PROVE  /\ Way(Append(p, l.target), seen \cup {p[Len(p)]})
         /\ Append(p, l.target)[Len(Append(p, l.target))] = l.target
<1> DEFINE n == Len(p)
<1>1. n \in Nat \ {0} /\ p \in Seq(Known)
  BY EmptySeq DEF Way
<1>2. PICK r : r = Append(p, l.target)
  OBVIOUS
<1>3. /\ r \in Seq(Known) /\ r # <<>> /\ Len(r) = n + 1
      /\ \A i \in 1..n : r[i] = p[i]
      /\ r[n + 1] = l.target
  BY <1>1, <1>2, AppendProperties
<1>4. /\ \A i \in 1..(n - 1) : p[i] \in seen
      /\ \A i, j \in 1..(n - 1) : p[i] = p[j] => i = j
      /\ p[1] \in EntryIds /\ p[n] \notin seen /\ l.source = p[n]
      /\ \A i \in 1..(n - 1) : \E k \in flow.links : k.source = p[i] /\ k.target = p[i + 1]
  BY DEF Way, Along
<1> HIDE DEF n
<1>5. ASSUME NEW i \in 1..n PROVE \E k \in flow.links : k.source = r[i] /\ k.target = r[i + 1]
  <2>1. CASE i = n
    BY <2>1, <1>1, <1>3, <1>4
  <2>2. CASE i # n
    <3>1. i \in 1..(n - 1) /\ i + 1 \in 1..n
      BY <2>2, <1>1
    <3> QED
      BY <3>1, <1>3, <1>4
  <2> QED
    BY <2>1, <2>2
<1>6. ASSUME NEW i \in 1..n, NEW j \in 1..n, r[i] = r[j] PROVE i = j
  <2>1. p[i] = p[j]
    BY <1>3, <1>6
  <2>2. \A k \in 1..n : k = n \/ k \in 1..(n - 1)
    BY <1>1
  <2> QED
    BY <2>1, <2>2, <1>4
<1>7. \A i \in 1..n : r[i] \in seen \cup {p[n]}
  <2>1. \A k \in 1..n : k = n \/ k \in 1..(n - 1)
    BY <1>1
  <2> QED
    BY <2>1, <1>3, <1>4
<1>8. Len(r) - 1 = n /\ r[1] = p[1]
  BY <1>1, <1>3
<1>9. Along(r)
  BY <1>5, <1>8 DEF Along
<1>10. Way(r, seen \cup {p[n]})
  BY <1>3, <1>4, <1>6, <1>7, <1>8, <1>9 DEF Way
<1> QED
  BY <1>2, <1>3, <1>10 DEF n

\* A path of the queue whose last node has not been seen is one to keep.
LEMMA WayIsPath ==
  ASSUME NEW p, NEW seen, Way(p, seen), p[Len(p)] \notin seen
  PROVE  PathTo(p, p[Len(p)])
<1> DEFINE n == Len(p)
<1>1. n \in Nat \ {0} /\ p \in Seq(Known) /\ DOMAIN p = 1..n
  BY EmptySeq, LenProperties DEF Way
<1>3. \A i \in 1..(n - 1) : p[i] # p[n]
  BY DEF Way
<1>4. \A i, j \in 1..(n - 1) : p[i] = p[j] => i = j
  BY DEF Way
<1> HIDE DEF n
<1>2. \A k \in 1..n : k = n \/ k \in 1..(n - 1)
  BY <1>1
<1>5. ASSUME NEW i \in 1..n, NEW j \in 1..n, p[i] = p[j] PROVE i = j
  BY <1>2, <1>3, <1>4, <1>5
<1>6. \A i, j \in DOMAIN p : p[i] = p[j] => i = j
  BY <1>1, <1>5
<1> QED
  BY <1>6 DEF Way, PathTo

LEMMA WayStays ==
  ASSUME NEW p, NEW seen, Way(p, seen), NEW more, seen \subseteq more
  PROVE  Way(p, more)
BY DEF Way

LastOf(q) == {p[Len(p)] : p \in ToSet(q)}

\* The parts of the invariant after a step, for a draft that stays the same.
LEMMA SearchStays ==
  ASSUME flow' = flow, SearchTyped', NEW q, NEW seen, search'.queue = q, search'.seen = seen,
         search'.target = None => q = <<>>,
         search'.target \notin seen,
         \A p \in ToSet(q) : Way(p, seen),
         search'.target # None =>
           /\ EntryIds \subseteq seen \cup LastOf(q)
           /\ \A l \in flow.links : l.source \in seen => l.target \in seen \cup LastOf(q),
         \A t \in Terminals :
           t.id \in search'.left \/ t.id = search'.target \/ PathTo(paths'[t.id], t.id),
         pc' # "published"
  PROVE  SearchInv'
<1>1. Known' = Known /\ EntryIds' = EntryIds /\ Terminals' = Terminals
  BY SameFlow
<1>2. WaysInv'
  BY <1>1 DEF WaysInv, Way, Along
<1>3. AheadInv'
  BY <1>1 DEF AheadInv, Ends, LastOf
<1>4. FoundInv'
  BY <1>1 DEF FoundInv, PathTo, Along
<1> QED
  BY <1>2, <1>3, <1>4 DEF SearchInv

\* The search starts with the entries.
LEMMA Starts ==
  ASSUME SearchInv, flow \in Flows, StartPath
  PROVE  SearchInv'
<1>1. PICK t \in search.left, s \in Entries :
        search' = [target |-> t, queue |-> [i \in DOMAIN s |-> <<s[i]>>],
                   seen |-> {}, left |-> search.left \ {t}]
  BY DEF StartPath
<1>2. /\ flow' = flow /\ pc' = "paths" /\ paths' = paths /\ search.target = None
      /\ Known' = Known
  BY SameFlow DEF StartPath, Searching
<1>3. search.left \subseteq Known /\ t \in Known /\ None \notin Known /\ EntryIds \subseteq Known
  BY FlowTyped DEF SearchInv, SearchTyped
<1>4. s \in Seq(EntryIds) /\ ToSet(s) = EntryIds
  <2>1. IsFiniteSet(EntryIds)
    BY FlowTyped, FS_Subset
  <2>2. s \in SetToSeqs(EntryIds)
    BY DEF Entries
  <2> QED
    BY <2>1, <2>2, Listed
<1>5. DOMAIN s = 1..Len(s) /\ Len(s) \in Nat /\ \A i \in DOMAIN s : s[i] \in EntryIds
  BY <1>4, LenProperties
<1> DEFINE q == [i \in DOMAIN s |-> <<s[i]>>]
<1>6. \A e \in Known : /\ <<e>> \in Seq(Known) /\ <<e>> # <<>> /\ Len(<<e>>) = 1 /\ <<e>>[1] = e
  OBVIOUS
<1>7. q \in Seq(Seq(Known)) /\ DOMAIN q = DOMAIN s
  <2>1. PICK W : W = Seq(Known)
    OBVIOUS
  <2>2. \A i \in 1..Len(s) : <<s[i]>> \in W
    BY <1>3, <1>5, <1>6, <2>1
  <2> QED
    BY <1>5, <2>1, <2>2
<1>8. ToSet(q) = {<<e>> : e \in EntryIds}
  <2>1. EntryIds = {s[i] : i \in DOMAIN s}
    BY <1>4 DEF ToSet
  <2>2. ToSet(q) = {<<s[i]>> : i \in DOMAIN s}
    BY DEF ToSet
  <2> HIDE DEF q
  <2> QED
    BY <2>1, <2>2
<1>9. ASSUME NEW e \in EntryIds PROVE Way(<<e>>, {})
  BY <1>3, <1>6 DEF Way, Along
<1>10. /\ search'.queue = q /\ search'.seen = {} /\ search'.target = t
       /\ search'.left = search.left \ {t}
  BY <1>1
<1> HIDE DEF q
<1>11. LastOf(q) = EntryIds
  <2>1. \A e \in EntryIds : <<e>> \in ToSet(q) /\ <<e>>[Len(<<e>>)] = e
    BY <1>3, <1>6, <1>8
  <2>2. \A e \in EntryIds : e \in LastOf(q)
    <3> SUFFICES ASSUME NEW e \in EntryIds PROVE e \in LastOf(q)
      OBVIOUS
    <3>1. PICK w : w = <<e>>
      OBVIOUS
    <3>2. w \in ToSet(q) /\ w[Len(w)] = e
      BY <2>1, <3>1
    <3> QED
      BY <3>2 DEF LastOf
  <2>3. \A p \in ToSet(q) : p[Len(p)] \in EntryIds
    BY <1>8, <2>1
  <2> QED
    BY <2>2, <2>3 DEF LastOf
<1>12. SearchTyped'
  BY <1>1, <1>2, <1>3, <1>7, <1>10 DEF SearchInv, SearchTyped, q
<1>13. \A n \in Terminals :
         n.id \in search'.left \/ n.id = search'.target \/ PathTo(paths'[n.id], n.id)
  <2>1. \A n \in Terminals : n.id \in Known
    BY FlowTyped DEF Terminals, Nodes
  <2> QED
    BY <2>1, <1>2, <1>3, <1>10 DEF SearchInv, FoundInv
<1>14. \A p \in ToSet(q) : Way(p, {})
  BY <1>8, <1>9
<1>15. t # None /\ t \notin {}
  BY <1>3
<1> QED
  BY <1>2, <1>10, <1>11, <1>12, <1>13, <1>14, <1>15, SearchStays

\* A path is taken off the queue, and extended if its last node is new.
LEMMA Extends ==
  ASSUME SearchInv, flow \in Flows, \A l \in flow.links : l.target \in Known, ExtendPath
  PROVE  SearchInv'
<1> DEFINE q == search.queue
           p == Head(q)
           id == p[Len(p)]
           further == IF id \in search.seen THEN {} ELSE {Append(p, l.target) : l \in From(id)}
<1>1. /\ flow' = flow /\ pc' = "paths" /\ paths' = paths /\ q # <<>> /\ id # search.target
      /\ Known' = Known
  BY SameFlow DEF ExtendPath, Searching, Last
<1>2. PICK s \in SetToSeqs(further) :
        search' = [search EXCEPT !.queue = Tail(q) \o s, !.seen = search.seen \cup {id}]
  BY DEF ExtendPath, Last
<1>3. /\ q \in Seq(Seq(Known)) /\ search.target \in Known \cup {None} /\ search.seen \subseteq Known
      /\ search.left \subseteq Known /\ search.target # None /\ paths \in [Known -> Seq(Known)]
      /\ search.target \notin search.seen
      /\ \A r \in ToSet(q) : Way(r, search.seen)
      /\ DOMAIN search = {"target", "queue", "seen", "left"}
  BY <1>1 DEF SearchInv, SearchTyped, WaysInv
<1>4. PICK W : W = Seq(Known)
  OBVIOUS
<1>5. p \in ToSet(q) /\ Way(p, search.seen)
  <2>1. p \in ToSet(q)
    BY <1>1, <1>3, <1>4, EmptySeq, LenProperties, HeadTailProperties DEF ToSet
  <2> QED
    BY <2>1, <1>3
<1>6. id \in Known
  BY <1>5, EmptySeq, LenProperties DEF Way
<1>7. ASSUME NEW l \in From(id), id \notin search.seen
      PROVE  /\ Way(Append(p, l.target), search.seen \cup {id})
             /\ Append(p, l.target)[Len(Append(p, l.target))] = l.target
             /\ Append(p, l.target) \in W
  <2>1. l \in flow.links /\ l.source = id /\ l.target \in Known
    BY DEF From
  <2>2. /\ Way(Append(p, l.target), search.seen \cup {id})
        /\ Append(p, l.target)[Len(Append(p, l.target))] = l.target
    BY <1>5, <1>7, <2>1, Longer
  <2> QED
    BY <2>2, <1>4 DEF Way
<1>8. IsFiniteSet(further)
  <2>1. IsFiniteSet(From(id))
    BY FlowTyped, FS_Subset DEF From
  <2> DEFINE f == [l \in From(id) |-> Append(p, l.target)]
             T == {Append(p, l.target) : l \in From(id)}
  <2>2. f \in Surjection(From(id), T)
    BY DEF Surjection
  <2>3. IsFiniteSet(T)
    BY <2>1, <2>2, FS_Surjection
  <2>4. IsFiniteSet({})
    BY FS_EmptySet
  <2> QED
    BY <2>3, <2>4
<1>9. \A r \in further : r \in W /\ Way(r, search.seen \cup {id})
  BY <1>7
<1>10. \A l \in From(id) : id \notin search.seen => Append(p, l.target) \in further
  OBVIOUS
<1> HIDE DEF further
<1>11. s \in Seq(further) /\ ToSet(s) = further
  BY <1>2, <1>8, Listed
<1>12. s \in Seq(W)
  BY <1>9, <1>11
<1>13. PICK r : r = Tail(q) \o s
  OBVIOUS
<1>14. /\ r \in Seq(W) /\ ToSet(r) \subseteq ToSet(q) \cup further
       /\ ToSet(q) \ {p} \subseteq ToSet(r) /\ further \subseteq ToSet(r)
  BY <1>1, <1>3, <1>4, <1>11, <1>12, <1>13, Requeued
<1> DEFINE seen == search.seen \cup {id}
<1>15. /\ search' = [target |-> search.target, queue |-> r, seen |-> seen, left |-> search.left]
  BY <1>2, <1>3, <1>13
<1>16. /\ search'.queue = r /\ search'.seen = seen /\ search'.target = search.target
       /\ search'.left = search.left
  BY <1>15
<1>17. SearchTyped'
  BY <1>1, <1>3, <1>4, <1>6, <1>14, <1>15 DEF SearchTyped
<1>18. \A w \in ToSet(r) : Way(w, seen)
  <2>1. ASSUME NEW w \in ToSet(q) PROVE Way(w, seen)
    BY <1>3, WayStays
  <2> QED
    BY <2>1, <1>9, <1>14
<1>19. LastOf(q) \subseteq seen \cup LastOf(r)
  BY <1>14 DEF LastOf
<1>20. /\ EntryIds \subseteq search.seen \cup LastOf(q)
       /\ \A l \in flow.links : l.source \in search.seen => l.target \in search.seen \cup LastOf(q)
  BY <1>3 DEF SearchInv, AheadInv, Ends, LastOf
<1>21. ASSUME NEW l \in flow.links, l.source \in seen PROVE l.target \in seen \cup LastOf(r)
  <2>1. CASE l.source \in search.seen
    BY <2>1, <1>19, <1>20
  <2>2. CASE l.source \notin search.seen
    <3>1. l \in From(id) /\ id \notin search.seen
      BY <2>2, <1>21 DEF From
    <3>2. PICK w : w = Append(p, l.target)
      OBVIOUS
    <3>3. w \in ToSet(r) /\ w[Len(w)] = l.target
      BY <3>1, <3>2, <1>7, <1>10, <1>14
    <3> QED
      BY <3>3 DEF LastOf
  <2> QED
    BY <2>1, <2>2
<1>22. \A t \in Terminals :
         t.id \in search'.left \/ t.id = search'.target \/ PathTo(paths'[t.id], t.id)
  BY <1>1, <1>16 DEF SearchInv, FoundInv
<1>23. search.target \notin seen
  BY <1>1, <1>3
<1>24. EntryIds \subseteq seen \cup LastOf(r)
  BY <1>19, <1>20
<1> HIDE DEF seen
<1>25. \A l \in flow.links : l.source \in seen => l.target \in seen \cup LastOf(r)
  BY <1>21
<1>26. /\ search'.target = None => r = <<>>
       /\ search'.target \notin seen /\ flow' = flow /\ pc' # "published"
  BY <1>1, <1>3, <1>16, <1>23
<1> QED
  BY <1>16, <1>17, <1>18, <1>22, <1>24, <1>25, <1>26, SearchStays

\* While paths are looked for the queue does not run empty: everything would
\* have been seen.
LEMMA AlwaysMore ==
  ASSUME SearchInv, flow \in Flows, \A l \in flow.links : l.source \in Known, Acyclic,
         search.target # None
  PROVE  search.queue # <<>>
<1> SUFFICES ASSUME search.queue = <<>> PROVE FALSE
  OBVIOUS
<1>1. Ends = {}
  BY DEF Ends, ToSet
<1>2. /\ EntryIds \subseteq search.seen
      /\ \A l \in flow.links : l.source \in search.seen => l.target \in search.seen
  BY <1>1 DEF SearchInv, AheadInv
<1>3. search.target \in Known \ search.seen
  BY DEF SearchInv, SearchTyped, WaysInv
<1>4. PICK k \in Known \ search.seen : \A l \in Into(k) : l.source \notin Known \ search.seen
  BY <1>3 DEF Acyclic
<1>5. Into(k) = {}
  BY <1>2, <1>4 DEF Into
<1>6. PICK n \in Nodes : n.id = k
  BY <1>4, FlowTyped
<1> QED
  BY <1>2, <1>4, <1>5, <1>6 DEF EntryIds

\* The path that has come to the target is kept.
LEMMA Arrives ==
  ASSUME SearchInv, flow \in Flows, \A l \in flow.links : l.source \in Known, Acyclic, EndPath
  PROVE  SearchInv'
<1> DEFINE q == search.queue
           p == Head(q)
           t == search.target
<1>1. /\ flow' = flow /\ pc' = "paths" /\ t # None /\ q # <<>> /\ p[Len(p)] = t /\ Known' = Known
      /\ paths' = [paths EXCEPT ![t] = p]
      /\ search' = [NoSearch EXCEPT !.left = search.left]
  BY AlwaysMore, SameFlow DEF EndPath, Searching, Last
<1>2. /\ q \in Seq(Seq(Known)) /\ t \in Known /\ search.left \subseteq Known
      /\ paths \in [Known -> Seq(Known)] /\ t \notin search.seen
      /\ \A r \in ToSet(q) : Way(r, search.seen)
  BY <1>1 DEF SearchInv, SearchTyped, WaysInv
<1>3. PICK W : W = Seq(Known)
  OBVIOUS
<1>4. p \in ToSet(q)
  BY <1>1, <1>2, <1>3, EmptySeq, LenProperties, HeadTailProperties DEF ToSet
<1>5. PathTo(p, t) /\ p \in Seq(Known)
  BY <1>1, <1>2, <1>4, WayIsPath DEF Way
<1>6. search' = [target |-> None, queue |-> <<>>, seen |-> {}, left |-> search.left]
  BY <1>1 DEF NoSearch
<1>7. paths' \in [Known -> Seq(Known)] /\ paths'[t] = p /\ \A k \in Known \ {t} : paths'[k] = paths[k]
  BY <1>1, <1>2, <1>5
<1>8. SearchTyped'
  <2> HIDE DEF q, p, t
  <2>1. PICK Q : Q = Seq(Seq(Known))
    OBVIOUS
  <2>2. <<>> \in Q
    BY <2>1
  <2>3. search' \in [target : Known \cup {None}, queue : Q, seen : SUBSET Known, left : SUBSET Known]
    BY <2>2, <1>2, <1>6
  <2> QED
    BY <1>1, <1>7, <2>1, <2>3 DEF SearchTyped
<1> HIDE DEF q, p, t
<1>9. ASSUME NEW n \in Terminals PROVE n.id \in search'.left \/ PathTo(paths'[n.id], n.id)
  <2>1. n.id \in Known
    BY FlowTyped DEF Terminals, Nodes
  <2>2. n.id \in search.left \/ n.id = t \/ PathTo(paths[n.id], n.id)
    BY DEF SearchInv, FoundInv, t
  <2>3. CASE n.id = t
    BY <2>3, <1>5, <1>7
  <2>4. CASE n.id # t
    BY <2>1, <2>2, <2>4, <1>6, <1>7
  <2> QED
    BY <2>3, <2>4
<1>10. /\ search'.queue = <<>> /\ search'.seen = {} /\ search'.target = None
       /\ \A w \in ToSet(<<>>) : Way(w, {})
  BY <1>6 DEF ToSet
<1> QED
  BY <1>1, <1>8, <1>9, <1>10, SearchStays

LEMMA SearchKept ==
  ASSUME SearchInv, flow \in Flows, PassInv, CycleInv, [Next]_vars
  PROVE  SearchInv'
<1>1. flow' = flow
  BY Frame
<1>2. ASSUME pc = "paths" PROVE Acyclic /\ \A l \in flow.links : l.source \in Known /\ l.target \in Known
  BY <1>2, AcceptedFlow DEF CycleInv, CycleDone, ReachDone, PortsDone, LinksDone, NodesDone, Accepted
<1>3. CASE StartPath
  BY <1>3, Starts
<1>4. CASE ExtendPath
  BY <1>2, <1>4, Extends DEF ExtendPath, Searching
<1>5. CASE EndPath
  BY <1>2, <1>5, Arrives DEF EndPath, Searching
<1>6. CASE Publish
  BY <1>6, SearchSame DEF Publish, Searching
<1>7. ASSUME NEW l, FollowLink(l) PROVE SearchInv'
  BY <1>7, SearchSame DEF FollowLink, Take
<1>8. CASE \/ CheckEmpty \/ CheckNodes \/ CheckLinks \/ CheckPorts \/ Reach \/ CheckReached
           \/ StartDfs \/ ReturnDfs \/ EndDfs \/ CheckRules \/ Verdict \/ UNCHANGED vars
  <2>1. UNCHANGED <<flow, search, paths>> /\ (pc' = "published" => pc = "published")
    BY <1>8 DEF CheckEmpty, CheckNodes, CheckLinks, CheckPorts, Reach, CheckReached, StartDfs,
         ReturnDfs, EndDfs, CheckRules, Verdict, Pass, vars
  <2> QED
    BY <2>1, SearchSame
<1> QED
  BY <1>3, <1>4, <1>5, <1>6, <1>7, <1>8 DEF Next

-------------------------------------------------------------------------------
(***************************************************************************)
(* The inductive invariant.                                                *)
(***************************************************************************)
StepTyped ==
  /\ flow \in Flows
  /\ pc \in {"empty", "nodes", "links", "ports", "reach", "cycle", "rules", "verdict",
             "paths", "published", "rejected"}
  /\ issues \subseteq Codes
  /\ reached \subseteq Ids /\ frontier \subseteq Ids

IInv ==
  /\ StepTyped /\ PassInv /\ ReachInv /\ DfsTyped /\ DfsInv /\ CycleInv /\ SearchInv

LEMMA InitIInv ==
  ASSUME Init
  PROVE  IInv
<1>1. /\ flow \in Flows /\ pc = "empty" /\ issues = {} /\ reached = {} /\ frontier = {}
      /\ colour = [n \in Known |-> "white"] /\ stack = <<>>
      /\ search = [NoSearch EXCEPT !.left = {n.id : n \in Terminals}]
      /\ paths = [n \in Known |-> <<>>]
  BY DEF Init
<1>2. StepTyped
  BY <1>1 DEF StepTyped
<1>3. PassInv /\ ReachInv /\ CycleInv
  BY <1>1 DEF PassInv, ReachInv, CycleInv, NodesDone, LinksDone, PortsDone, ReachDone, CycleDone,
              Accepted
<1>4. DfsTyped
  <2>1. <<>> \in Seq(Calls)
    OBVIOUS
  <2>2. colour \in [Known -> {"white", "gray", "black"}]
    BY <1>1
  <2> QED
    BY <1>1, <2>1, <2>2 DEF DfsTyped
<1>5. DfsInv
  <2>1. DOMAIN stack = {} /\ Len(stack) = 0 /\ \A n \in Known : colour[n] = "white"
    BY <1>1
  <2>2. StackGray /\ GrayStacked /\ StackOnce /\ LookedAt /\ BlackClosed
    BY <2>1 DEF StackGray, GrayStacked, StackOnce, LookedAt, BlackClosed
  <2>3. StackChain
    BY <2>1 DEF StackChain
  <2>4. BlackAcyclic
    BY <2>1 DEF BlackAcyclic
  <2> QED
    BY <2>2, <2>3, <2>4 DEF DfsInv
<1>6. SearchInv
  <2>1. search = [target |-> None, queue |-> <<>>, seen |-> {}, left |-> {n.id : n \in Terminals}]
    BY <1>1 DEF NoSearch
  <2>2. {n.id : n \in Terminals} \subseteq Known
    BY <1>1, FlowTyped DEF Terminals, Nodes
  <2>3. SearchTyped
    <3>1. PICK Q, K : Q = Seq(Seq(Known)) /\ K = Seq(Known)
      OBVIOUS
    <3>2. <<>> \in Q /\ <<>> \in K
      BY <3>1
    <3>3. search \in [target : Known \cup {None}, queue : Q, seen : SUBSET Known, left : SUBSET Known]
      BY <2>1, <2>2, <3>2
    <3>4. paths \in [Known -> K]
      BY <1>1, <3>2
    <3> QED
      BY <3>1, <3>3, <3>4 DEF SearchTyped
  <2>4. WaysInv /\ AheadInv /\ FoundInv
    BY <1>1, <2>1 DEF WaysInv, AheadInv, FoundInv, ToSet
  <2> QED
    BY <2>3, <2>4 DEF SearchInv
<1> QED
  BY <1>2, <1>3, <1>4, <1>5, <1>6 DEF IInv

LEMMA StepTypedKept ==
  ASSUME StepTyped, [Next]_vars
  PROVE  StepTyped'
<1>1. flow' = flow /\ flow \in Flows
  BY Frame DEF StepTyped
<1> USE DEF StepTyped
<1>2. CASE UNCHANGED <<pc, issues, reached, frontier>>
  BY <1>1, <1>2
<1>3. CASE CheckEmpty
  BY <1>1, <1>3 DEF CheckEmpty, Pass, Codes
<1>4. CASE CheckNodes
  <2>1. UNION {NodeIssues(n) : n \in Nodes} \subseteq Codes
    BY NodeCodes
  <2> QED
    BY <1>1, <1>4, <2>1 DEF CheckNodes, Pass, Codes
<1>5. CASE CheckLinks
  <2>1. UNION {LinkIssues(l) : l \in flow.links} \subseteq Codes
    BY LinkCodes
  <2> QED
    BY <1>1, <1>5, <2>1 DEF CheckLinks, Pass, Codes
<1>6. CASE CheckPorts
  <2>1. UNION {PortIssues(n) : n \in {m \in Nodes : Found(m)}} \subseteq Codes
    BY PortCodes
  <2>2. {n.id : n \in Roots} \subseteq Ids
    BY <1>1, FlowTyped DEF Roots
  <2> QED
    BY <1>1, <1>6, <2>1, <2>2 DEF CheckPorts, Pass, Codes
<1>7. CASE Reach
  <2>1. \A u : {l.target : l \in From(u)} \subseteq Ids
    BY <1>1, FlowTyped DEF From
  <2> QED
    BY <1>1, <1>7, <2>1 DEF Reach, Pass
<1>8. CASE CheckReached
  BY <1>1, <1>8 DEF CheckReached, Pass, Codes
<1>9. ASSUME NEW l, FollowLink(l) PROVE StepTyped'
  BY <1>1, <1>9 DEF FollowLink, Take, Codes
<1>10. CASE EndDfs \/ Verdict
  BY <1>1, <1>10 DEF EndDfs, Verdict, Pass
<1>11. CASE CheckRules
  <2>1. UNION {RuleIssues(n) : n \in {m \in Nodes : Found(m) /\ NeedsRules(m)}} \subseteq Codes
    BY RuleCodes
  <2> QED
    BY <1>1, <1>11, <2>1 DEF CheckRules, Pass
<1>12. CASE Publish
  BY <1>1, <1>12 DEF Publish, Searching
<1>13. CASE StartDfs \/ ReturnDfs \/ StartPath \/ ExtendPath \/ EndPath \/ UNCHANGED vars
  BY <1>2, <1>13 DEF StartDfs, ReturnDfs, StartPath, ExtendPath, EndPath, Searching, vars
<1> HIDE DEF StepTyped
<1> QED
  BY <1>3, <1>4, <1>5, <1>6, <1>7, <1>8, <1>9, <1>10, <1>11, <1>12, <1>13 DEF Next

LEMMA NextIInv ==
  ASSUME IInv, [Next]_vars
  PROVE  IInv'
BY StepTypedKept, PassKept, ReachKept, DfsKept, CycleKept, SearchKept DEF IInv, StepTyped

LEMMA Inductive ==
  Spec => []IInv
<1>1. Init => IInv
  BY InitIInv
<1>2. IInv /\ [Next]_vars => IInv'
  BY NextIInv
<1> QED
  BY <1>1, <1>2, PTL DEF Spec

-------------------------------------------------------------------------------
\* Every variable has its type: the stack holds calls on nodes of the draft, the
\* queue of a search paths of nodes, and an issue is one of the codes.
THEOREM Typed ==
  Spec => []TypeOK
<1>1. IInv => TypeOK
  BY DEF IInv, StepTyped, DfsTyped, SearchInv, SearchTyped, TypeOK, Calls
<1> QED
  BY <1>1, Inductive, PTL

\* hasCycle reports a cycle exactly if there is one, in whatever order it takes
\* nodes and connections.
THEOREM CyclesAreFound ==
  Spec => []CycleFound
<1>1. IInv => CycleFound
  BY DEF IInv, CycleInv, CycleFound, CycleDone, ReachDone, PortsDone, LinksDone, NodesDone
<1> QED
  BY <1>1, Inductive, PTL

\* A warning that something is not reachable has a cycle or a connection from
\* nowhere as its reason.
THEOREM UnreachedIsExplained ==
  Spec => []UnreachedExplained
<1>1. ASSUME IInv, pc = "verdict", issues \cap {"unreachable_node", "terminal_unreachable"} # {}
      PROVE  issues \cap {"cycle_detected", "connection_unknown_source"} # {}
  <2>1. /\ pc \in ReachDone /\ pc \in CycleDone /\ pc \in LinksDone
        /\ flow \in Flows /\ issues \cap Warnings # {}
    BY <1>1 DEF IInv, StepTyped, NodesDone, LinksDone, PortsDone, ReachDone, CycleDone, Warnings
  <2>2. ~(Known \subseteq reached)
    BY <1>1, <2>1 DEF IInv, ReachInv
  <2>3. CASE ~Acyclic
    BY <1>1, <2>1, <2>3 DEF IInv, CycleInv
  <2>4. ASSUME NEW l \in flow.links, l.source \notin Known
        PROVE  "connection_unknown_source" \in issues
    BY <1>1, <2>1, <2>4 DEF IInv, PassInv, LinkIssues
  <2> QED
    BY <1>1, <2>1, <2>2, <2>3, <2>4, AllReached DEF IInv
<1>2. IInv => UnreachedExplained
  BY <1>1 DEF UnreachedExplained
<1> QED
  BY <1>2, Inductive, PTL

\* Every terminal of a published flow has a simple path from an entry.
THEOREM TerminalsHavePaths ==
  Spec => []TerminalPaths
<1>1. ASSUME IInv, pc = "published", NEW t \in Terminals
      PROVE  LET path == paths[t.id] IN
             /\ path # <<>> /\ Last(path) = t.id
             /\ \E n \in Nodes :
                  /\ n.id = Head(path)
                  /\ Into(n.id) = {} \/ ResolveCategory(n.category, n.kind) = "input"
             /\ \A i \in 1..(Len(path) - 1) : \E l \in From(path[i]) : l.target = path[i + 1]
             /\ \A i, j \in DOMAIN path : path[i] = path[j] => i = j
  <2> DEFINE path == paths[t.id]
  <2>1. flow \in Flows /\ t.id \in Known /\ None \notin Known
    BY <1>1, FlowTyped DEF IInv, StepTyped, Terminals, Nodes
  <2>2. PathTo(path, t.id)
    BY <1>1, <2>1 DEF IInv, SearchInv, FoundInv
  <2> HIDE DEF path
  <2>3. Head(path) = path[1] /\ Last(path) = path[Len(path)]
    BY <2>2 DEF PathTo, Last
  <2>4. \E n \in Nodes :
          n.id = path[1] /\ (Into(n.id) = {} \/ ResolveCategory(n.category, n.kind) = "input")
    BY <2>2 DEF PathTo, EntryIds
  <2>5. \A i \in 1..(Len(path) - 1) : \E l \in From(path[i]) : l.target = path[i + 1]
    BY <2>2 DEF PathTo, Along, From
  <2>6. /\ path # <<>> /\ path[Len(path)] = t.id
        /\ \A i, j \in DOMAIN path : path[i] = path[j] => i = j
    BY <2>2 DEF PathTo
  <2> QED
    BY <2>3, <2>4, <2>5, <2>6 DEF path
<1>2. IInv => TerminalPaths
  BY <1>1, Zenon DEF TerminalPaths
<1> QED
  BY <1>2, Inductive, PTL

-------------------------------------------------------------------------------
(***************************************************************************)
(* What runs.                                                              *)
(***************************************************************************)

\* Without a duplicate, NodeOf finds the one node of an id.
LEMMA TheNode ==
  ASSUME flow \in Flows, ~(Len(flow.nodes) > Cardinality(Known)), NEW id \in Known
  PROVE  NodeOf(id) \in Nodes /\ NodeOf(id) \in Node /\ NodeOf(id).id = id
<1> DEFINE D == DOMAIN flow.nodes
           f == [i \in D |-> flow.nodes[i].id]
<1>1. flow.nodes \in Seq(Node) /\ Nodes = {flow.nodes[i] : i \in D} /\ \A n \in Nodes : n \in Node
  BY FlowTyped
<1>2. Len(flow.nodes) \in Nat /\ D = 1..Len(flow.nodes)
  BY <1>1, LenProperties
<1>3. IsFiniteSet(D) /\ Cardinality(D) = Len(flow.nodes)
  BY <1>2, FS_Interval
<1>4. f \in Surjection(D, Known)
  BY DEF Surjection, Known
<1>5. /\ IsFiniteSet(Known) /\ Cardinality(Known) <= Cardinality(D)
      /\ Cardinality(Known) = Cardinality(D) <=> f \in Injection(D, Known)
  BY <1>3, <1>4, FS_Surjection
<1>6. f \in Injection(D, Known)
  BY <1>2, <1>3, <1>5, FS_CardinalityType
<1>7. \A i, j \in D : flow.nodes[i].id = flow.nodes[j].id => i = j
  BY <1>6 DEF Injection, IsInjective
<1>8. PICK i \in D : flow.nodes[i].id = id
  BY DEF Known
<1>9. \A j \in D : flow.nodes[j].id = id => j <= i
  BY <1>2, <1>7, <1>8
<1> DEFINE c == CHOOSE k \in D :
                  flow.nodes[k].id = id /\ \A j \in D : flow.nodes[j].id = id => j <= k
<1>10. c \in D /\ flow.nodes[c].id = id
  BY <1>8, <1>9
<1>11. NodeOf(id) = flow.nodes[c]
  BY DEF NodeOf
<1> HIDE DEF c
<1> QED
  BY <1>1, <1>10, <1>11

\* What validation has established of a published flow.
LEMMA PublishedFacts ==
  ASSUME IInv, pc = "published"
  PROVE  /\ flow \in Flows /\ Acyclic
         /\ \A l \in flow.links : l.source \in Known /\ l.target \in Known
         /\ \A id \in Known : NodeOf(id) \in Nodes /\ NodeOf(id) \in Node /\ NodeOf(id).id = id
         /\ \A n \in Nodes : Found(n)
         /\ \A l \in flow.links : Ins(l) # {}
         /\ \A n \in Nodes : \A p \in Def(n).inputs : ~Overloaded(n, p)
<1>1. flow \in Flows /\ PassInv /\ CycleInv
  BY DEF IInv, StepTyped
<1>2. /\ pc \in Accepted /\ pc \in NodesDone /\ pc \in LinksDone /\ pc \in PortsDone /\ pc \in CycleDone
  BY DEF Accepted, NodesDone, LinksDone, PortsDone, ReachDone, CycleDone
<1>3. issues \subseteq {"unreachable_node"} /\ \A l \in flow.links : l.source \in Known /\ l.target \in Known
  BY <1>1, <1>2, AcceptedFlow
<1>4. Acyclic
  BY <1>1, <1>2, <1>3 DEF CycleInv
<1>5. \A id \in Known : NodeOf(id) \in Nodes /\ NodeOf(id) \in Node /\ NodeOf(id).id = id
  BY <1>1, <1>2, <1>3, TheNode DEF PassInv
<1>6. ASSUME NEW n \in Nodes PROVE Found(n)
  BY <1>1, <1>2, <1>3 DEF PassInv, NodeIssues
<1>7. ASSUME NEW l \in flow.links PROVE Ins(l) # {}
  <2>1. LinkIssues(l) \subseteq {"unreachable_node"}
    BY <1>1, <1>2, <1>3 DEF PassInv
  <2>2. Found(NodeOf(l.source)) /\ Found(NodeOf(l.target))
    BY <1>3, <1>5, <1>6
  <2> QED
    BY <2>1, <2>2, <1>3 DEF LinkIssues
<1>8. ASSUME NEW n \in Nodes, NEW p \in Def(n).inputs PROVE ~Overloaded(n, p)
  <2> DEFINE c == [missing_required_input |-> Cardinality({l \in Into(n.id) : l.port = p.key}) < p.min,
                   too_many_connections |-> Overloaded(n, p)]
  <2>1. Raised(c) \subseteq PortIssues(n)
    BY Zenon DEF PortIssues
  <2>2. PortIssues(n) \subseteq {"unreachable_node"}
    BY <1>1, <1>2, <1>3, <1>6 DEF PassInv
  <2>3. "too_many_connections" \in DOMAIN c /\ c["too_many_connections"] = Overloaded(n, p)
    OBVIOUS
  <2>4. Overloaded(n, p) => "too_many_connections" \in Raised(c)
    BY <2>3, Zenon DEF Raised
  <2> QED
    BY <2>1, <2>2, <2>4
<1> QED
  BY <1>1, <1>3, <1>4, <1>5, <1>6, <1>7, <1>8

\* The snapshot is a flow as FlowExecution takes one.
LEMMA SnapshotTyped ==
  ASSUME IInv, pc = "published"
  PROVE  Snapshot \in Run!Graph
<1>1. /\ flow.links \subseteq Link
      /\ \A l \in flow.links : l.id \in STRING /\ l.source \in Ids /\ l.target \in Ids
                               /\ l.port \in STRING /\ l.required \in BOOLEAN
  BY PublishedFacts, FlowTyped DEF Link
<1> DEFINE kind == [i \in Ids |-> IF i \in Known THEN ExecutionKind(NodeOf(i)) ELSE "other"]
           required == [i \in Ids |-> i \in Known /\ NodeOf(i).required]
           branch == [i \in Ids |-> i \in Known /\ NodeOf(i).branch]
           links == {[id |-> l.id, source |-> l.source, target |-> l.target,
                      port |-> l.port, required |-> l.required] : l \in flow.links}
<1>2. \A n : ExecutionKind(n) \in Run!Kinds
  BY DEF ExecutionKind, Run!Kinds
<1>3. kind \in [Ids -> Run!Kinds]
  BY <1>2 DEF Run!Kinds
<1>4. required \in [Ids -> BOOLEAN] /\ branch \in [Ids -> BOOLEAN]
  BY PublishedFacts DEF Node
<1>5. links \subseteq Run!Link
  BY <1>1 DEF Run!Link
<1>6. Snapshot = [kind |-> kind, required |-> required, branch |-> branch, links |-> links]
  BY Zenon DEF Snapshot
<1> HIDE DEF kind, required, branch, links
<1> QED
  BY <1>3, <1>4, <1>5, <1>6 DEF Run!Graph

\* It has no cycle: ids that are no nodes have no connections.
LEMMA SnapshotAcyclic ==
  ASSUME IInv, pc = "published"
  PROVE  Run!Acyclic
<1>1. Acyclic /\ \A l \in flow.links : l.source \in Known /\ l.target \in Known
  BY PublishedFacts
<1>2. ASSUME NEW n, NEW l \in Run!Into(n)
      PROVE  \E k \in flow.links : k.target = n /\ k.source = l.source
  BY DEF Run!Into, Snapshot
<1>3. ASSUME NEW S \in (SUBSET Ids) \ {{}}
      PROVE  \E n \in S : \A l \in Run!Into(n) : l.source \notin S
  <2>1. CASE S \cap Known = {}
    <3>1. PICK n \in S : n \notin Known
      BY <2>1
    <3> QED
      BY <3>1, <1>1, <1>2
  <2>2. CASE S \cap Known # {}
    <3>1. PICK n \in S \cap Known : \A l \in Into(n) : l.source \notin S \cap Known
      BY <2>2, <1>1 DEF Acyclic
    <3> QED
      BY <3>1, <1>1, <1>2 DEF Into
  <2> QED
    BY <2>1, <2>2
<1> QED
  BY <1>3 DEF Run!Acyclic

\* Two values on a port capped at one need two connections, which are too many.
LEMMA NoClash ==
  ASSUME IInv, pc = "published", NEW i \in Known, OneEach(NodeOf(i))
  PROVE  ~Run!Clash(i)
<1> SUFFICES ASSUME Run!Clash(i) PROVE FALSE
  OBVIOUS
<1>1. PICK a \in Run!Into(i), b \in Run!Into(i) : a # b /\ a.port = b.port
  BY DEF Run!Clash
<1>2. \A x \in Run!Into(i) : \E l \in flow.links :
        l.target = i /\ x = [id |-> l.id, source |-> l.source, target |-> l.target,
                             port |-> l.port, required |-> l.required]
  BY DEF Run!Into, Snapshot
<1>3. PICK l \in flow.links, k \in flow.links : l # k /\ l.target = i /\ k.target = i /\ l.port = k.port
  <2>1. PICK l \in flow.links :
          l.target = i /\ a = [id |-> l.id, source |-> l.source, target |-> l.target,
                               port |-> l.port, required |-> l.required]
    BY <1>1, <1>2
  <2>2. PICK k \in flow.links :
          k.target = i /\ b = [id |-> k.id, source |-> k.source, target |-> k.target,
                               port |-> k.port, required |-> k.required]
    BY <1>1, <1>2
  <2> QED
    BY <1>1, <2>1, <2>2
<1> DEFINE n == NodeOf(i)
<1>4. n \in Nodes /\ n.id = i /\ flow \in Flows /\ Ins(l) # {}
  BY PublishedFacts
<1>5. PICK p \in Def(n).inputs : p.key = l.port
  BY <1>3, <1>4 DEF Ins
<1>6. p.cap = {1} /\ ~MergerNode(n) /\ ~Overloaded(n, p)
  BY <1>4, <1>5, PublishedFacts DEF OneEach
<1> DEFINE S == {x \in Into(n.id) : x.port = p.key}
<1>7. ~(Cardinality(S) > 1)
  BY <1>6 DEF Overloaded
<1>8. IsFiniteSet(S) /\ {l, k} \subseteq S
  BY <1>3, <1>4, <1>5, FlowTyped, FS_Subset DEF Into
<1> HIDE DEF S
<1>9. IsFiniteSet({l, k}) /\ Cardinality({l, k}) = 2
  <2>1. IsFiniteSet({l}) /\ Cardinality({l}) = 1
    BY FS_Singleton
  <2>2. {l} \cup {k} = {l, k} /\ k \notin {l}
    BY <1>3
  <2>3. IsFiniteSet({l} \cup {k}) /\ Cardinality({l} \cup {k}) = Cardinality({l}) + 1
    BY <2>1, <2>2, FS_AddElement
  <2> QED
    BY <2>1, <2>2, <2>3
<1>10. Cardinality({l, k}) <= Cardinality(S) /\ Cardinality(S) \in Nat
  BY <1>8, FS_Subset, FS_CardinalityType
<1> QED
  BY <1>7, <1>9, <1>10

\* What a run takes for granted of a snapshot holds of every published flow.
THEOREM PublishedFlowsRun ==
  Spec => []PublishedRuns
<1>1. IInv => PublishedRuns
  BY SnapshotTyped, SnapshotAcyclic, NoClash DEF PublishedRuns
<1> QED
  BY <1>1, Inductive, PTL

===============================================================================
