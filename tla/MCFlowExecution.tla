--------------------------- MODULE MCFlowExecution ---------------------------
(***************************************************************************)
(* Flows of four nodes for TLC: a source, a mapper, an AI node and a       *)
(* terminal, with the nodes array in the reverse of the usual order.  The  *)
(* mapper may be replaced by a second terminal.                            *)
(***************************************************************************)
EXTENDS FlowExecution

CONSTANTS s, m, a, t

BackToFront == <<t, a, m, s>>

\* A connection on a port of its own, or on the one port of the mapper.
Wire(from, to, needed) ==
  [id |-> ToString(<<from, to>>), source |-> from, target |-> to, required |-> needed,
   port |-> IF to = m THEN "in" ELSE CASE from = s -> "s" [] from = m -> "m" [] from = a -> "a"]

\* Each pair is connected by a required connection, an optional one or none.
Wirings(pairs) ==
  {{Wire(p[1], p[2], TRUE) : p \in must} \cup {Wire(p[1], p[2], FALSE) : p \in may} :
     <<must, may>> \in {c \in (SUBSET pairs) \X (SUBSET pairs) : c[1] \cap c[2] = {}}}

Kinds1 == [n \in Nodes |->
  CASE n = m -> "mapper" [] n = a -> "ai" [] n = t -> "terminal" [] OTHER -> "other"]

Kinds2 == [Kinds1 EXCEPT ![m] = "terminal"]

Flags == {f \in [Nodes -> BOOLEAN] : f[s]}

\* With a mapper, which may be on a cycle with the AI node.
MapperFlows ==
  [kind : {Kinds1}, required : Flags, branch : {[n \in Nodes |-> TRUE]},
   links : Wirings({<<s, m>>, <<s, a>>, <<m, a>>, <<a, m>>, <<m, t>>, <<a, t>>})]

\* With two terminals, required or not.
TerminalFlows ==
  [kind : {Kinds2}, required : {f \in Flags : f[a]}, branch : {f \in Flags : f[a]},
   links : Wirings({<<s, m>>, <<s, a>>, <<a, m>>, <<a, t>>})]

Flows == MapperFlows \cup TerminalFlows

===============================================================================
