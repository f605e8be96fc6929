-------------------------- MODULE MCFlowPublication --------------------------
(***************************************************************************)
(* Drafts for TLC: a source s, transforms x and y and a terminal t, on     *)
(* every set of eight connections, the transforms being mappers, mergers   *)
(* or transforms of one's own; and one good draft with one thing wrong.    *)
(***************************************************************************)
EXTENDS FlowPublication

CONSTANTS s, x, y, t, ghost

Port(key, type, accepts, min, cap) ==
  [key |-> key, type |-> type, accepts |-> accepts, kinds |-> {}, typeKeys |-> {},
   min |-> min, cap |-> cap]

Objects == {"object", "any"}

Asset(kind, slug, inputs, outputs) ==
  [kind |-> kind, category |-> KindCategory[kind], key |-> KindCategory[kind],
   typeKey |-> "", slug |-> slug, active |-> TRUE, inputs |-> inputs, outputs |-> outputs,
   sourceKinds |-> {}, sourceTypeKeys |-> {}, targetKinds |-> {}, targetTypeKeys |-> {}]

Out == {Port("out", "object", {}, 0, {})}

Source == Asset("dataSource", "nd-source-web-scraper", {}, Out)

\* The catalogue's mapper and merger, the latter with a stale cap, a terminal,
\* and transforms that somebody has added.
Assets == [
  source   |-> Source,
  mapper   |-> Asset("transform", "nd-mapper",
                 {Port("in", "object", Objects, 1, {1}), Port("slot2", "object", Objects, 0, {1})}, Out),
  merger   |-> Asset("transform", "nd-merger",
                 {Port("in", "object", Objects, 0, {1})}, {Port("out", "array", {}, 0, {})}),
  combine  |-> Asset("transform", "nd-combine", {Port("in", "object", Objects, 1, {1})}, Out),
  pair     |-> Asset("transform", "nd-pair",
                 {Port("in", "object", Objects, 1, {1}), Port("key", "object", Objects, 0, {1})}, Out),
  terminal |-> Asset("terminal", "nd-terminal", {Port("in", "any", {"any"}, 1, {})}, {}),
  \* One thing wrong with each of these.
  old      |-> [Source EXCEPT !.active = FALSE],
  picky    |-> [Source EXCEPT !.targetKinds = {"aiProvider"}],
  text     |-> [Source EXCEPT !.outputs = {Port("out", "string", {}, 0, {})}],
  quality  |-> [Source EXCEPT !.key = "quality"]]

Categorized == [quality |-> {"terminal"}, source |-> {}]

N(id, definition) ==
  [id |-> id, definition |-> definition,
   kind |-> IF id = s THEN "dataSource" ELSE IF id = t THEN "terminal" ELSE "transform",
   category |-> "", key |-> "", typeKey |-> "", definitionSlug |-> "", rules |-> {},
   acceptedKinds |-> {}, acceptedTypeKeys |-> {}, required |-> TRUE, branch |-> TRUE]

L(from, to, port) ==
  [id |-> ToString(<<from, to, port>>), source |-> from, out |-> "out", target |-> to,
   port |-> port, required |-> TRUE]

Connections ==
  {L(s, x, "in"), L(s, x, "slot2"), L(s, y, "in"), L(x, y, "in"), L(y, x, "in"),
   L(y, x, "slot2"), L(x, t, "in"), L(y, t, "in")}

Draft(a, b, links) ==
  [nodes |-> <<N(t, "terminal"), N(y, b), N(x, a), N(s, "source")>>, links |-> links]

Wired == {Draft(a, b, links) : a \in {"mapper", "merger"}, b \in {"mapper", "combine", "pair"},
                               links \in SUBSET Connections}

\* From s through x to t and straight to t, with a rule; then with one thing wrong.
Direct == [transform |-> "direct", required |-> TRUE, source |-> "out", field |-> FALSE]

X == [N(x, "mapper") EXCEPT !.rules = {Direct}, !.category = "transform"]

Wires == {L(s, x, "in"), L(x, t, "in"), L(s, t, "in")}

Flow3(a, b, c) == [nodes |-> <<a, b, c>>, links |-> Wires]

With(l) == [nodes |-> <<N(s, "source"), X, N(t, "terminal")>>, links |-> Wires \cup {l}]

Odd ==
  {Flow3(N(s, d), X, N(t, "terminal")) : d \in {"source", "none", "old", "picky", "text", "quality"}}
  \cup {Flow3(N(s, "source"), n, N(t, "terminal")) : n \in {
      [X EXCEPT !.kind = "aiProvider"], [X EXCEPT !.category = "source"],
      [X EXCEPT !.key = "quality"], [X EXCEPT !.typeKey = "merger"],
      [X EXCEPT !.rules = {[Direct EXCEPT !.source = "in"]}],
      [X EXCEPT !.rules = {[Direct EXCEPT !.transform = "filter"]}]}}
  \cup {Flow3(N(s, "source"), X, n) : n \in {
      [N(t, "terminal") EXCEPT !.acceptedKinds = {"transform"}],
      [N(t, "terminal") EXCEPT !.acceptedTypeKeys = {"url-input"}],
      N(s, "source"), N(y, "mapper")}}
  \cup {With(l) : l \in {
      L(ghost, x, "slot2"), L(ghost, s, "in"), L(s, ghost, "in"), L(x, s, "in"), L(s, x, "slot9"),
      [L(s, x, "slot2") EXCEPT !.out = "result"],
      [L(s, x, "slot2") EXCEPT !.id = ToString(<<s, x, "in">>)]}}
  \cup {[nodes |-> <<>>, links |-> {}]}

Drafts == Wired \cup Odd

===============================================================================
