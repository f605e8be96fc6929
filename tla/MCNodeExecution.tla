--------------------------- MODULE MCNodeExecution ---------------------------
(***************************************************************************)
(* Flows of seven nodes for TLC, in four families: mapping rules between a *)
(* source and a terminal, a model with schemas, a merger that fills the    *)
(* fields of a schema, and a logo picked from a page.  A node that a       *)
(* family does not use is an input node without connections.               *)
(***************************************************************************)
EXTENDS NodeExecution

CONSTANTS nInput, nSource, nSecond, nTransform, nSchema, nAi, nTerminal

InOrder == <<nInput, nSchema, nSource, nSecond, nTransform, nAi, nTerminal>>

Labels == [summary |-> "Summary (text)", chart |-> "chart (column_chart)", data |-> "data (column_chart)"]

Idle == [category |-> "input", group |-> "none", flavor |-> "mapper", inputKey |-> "none",
         provider |-> "none", legacy |-> "none", declared |-> TRUE, htmlKey |-> "none",
         rules |-> <<>>, schema |-> <<>>, mode |-> "aiResult", terminalKey |-> "report"]

Source(class) == [Idle EXCEPT !.category = "source", !.provider = class]
Mapper(rules) == [Idle EXCEPT !.category = "transform", !.rules = rules]
Merger == [Idle EXCEPT !.category = "transform", !.flavor = "merger"]
SchemaNode(fields) == [Idle EXCEPT !.category = "schema", !.schema = fields]
Ai(fields) == [Idle EXCEPT !.category = "ai", !.schema = fields]
Terminal(mode) == [Idle EXCEPT !.category = "terminal", !.mode = mode]
Other(group) == [Idle EXCEPT !.category = "other", !.group = group]

Wire(from, port, to, at, needed) ==
  [from |-> port,
   link |-> [id |-> "", source |-> from, target |-> to, port |-> at, required |-> needed]]

NoPage == [jsonLd |-> <<>>, images |-> <<>>, svgs |-> <<>>]

KindOf(c) ==
  CASE c.category = "transform" -> IF c.flavor = "mapper" THEN "mapper" ELSE "other"
    [] c.category \in {"ai", "terminal"} -> c.category
    [] OTHER -> "other"

\* All nodes are required but those in `optional`.
Design(nodes, links, optional, connection, rows, page) ==
  LET node == nodes @@ [n \in Nodes |-> Idle]
      wires == [i \in DOMAIN links |-> [links[i] EXCEPT !.link.id = ToString(i)]]
      required == [n \in Nodes |-> n \notin optional]
  IN [graph |-> [kind |-> [n \in Nodes |-> KindOf(node[n])], required |-> required,
                 branch |-> required, links |-> {wires[i].link : i \in DOMAIN wires}],
      wires |-> wires, node |-> node,
      inputs |-> [site |-> Text("url"), note |-> Text(""), media |-> No, brand |-> Ref(1)],
      objects |-> <<[name |-> Text("name"), colors |-> List(<<Text("red"), Ref(2)>>)], Nothing>>,
      connection |-> connection, rows |-> rows, openaiKey |-> TRUE, page |-> page]

Key1(key) == [Idle EXCEPT !.inputKey = key]

RuleOf(transform, from, to) ==
  [transform |-> transform, from |-> from, to |-> to, field |-> "text",
   paths |-> <<<<"in", "html">>, <<"copy">>>>]

\* A scraped page through rules that copy, write into what came in, directly or
\* through a copy, read lists and convert.
RuleLists ==
  LET copy == RuleOf("direct", <<"in">>, <<"copy">>)
  IN {<<>>, <<copy>>, <<RuleOf("direct", <<"in">>, <<"in", "again">>)>>,
      <<copy, RuleOf("direct", <<"in", "html">>, <<"copy", "title">>)>>,
      <<RuleOf("direct", <<"in", "payload", "text">>, <<"a", "b">>), RuleOf("defaultValue", <<>>, <<"a", "c">>)>>,
      <<RuleOf("combineFields", <<>>, <<"list">>), RuleOf("filter", <<"list">>, <<"picked">>)>>,
      <<RuleOf("filter", <<"many", "x">>, <<"in", "x">>), RuleOf("direct", <<"in", "missing">>, <<"y">>)>>,
      <<RuleOf("formatConversion", <<"in">>, <<"text">>), RuleOf("direct", <<"text">>, <<"many", "x">>)>>}

MapperDesigns ==
  {Design(nInput :> Key1(key) @@ nSource :> source @@ nSecond :> Mapper(<<>>)
          @@ nTransform :> Mapper(rules) @@ nAi :> other @@ nTerminal :> Terminal("aiResult"),
          <<Wire(nInput, "value", nSource, "websiteUrl", TRUE),
            Wire(nSource, "payload", nTransform, "in", TRUE),
            Wire(nSource, "payload", nTransform, second, TRUE),
            Wire(nSource, "payload", nSecond, "in", TRUE),
            Wire(nSecond, "out", nAi, "in", FALSE),
            Wire(nTransform, "out", nTerminal, "in", TRUE)>>,
          {nSource, nAi}, "web-scraper" :> held, {}, NoPage) :
     key \in {"site", "note"}, second \in {"in", "many"}, other \in {Other("none"), Other("delivery")},
     source \in {Source("WebScraper"), [Source("none") EXCEPT !.legacy = "web-scraper"]},
     rules \in RuleLists, held \in {"key", "unreadable"}}

Field(key, type) == [key |-> key, type |-> type]

FieldLists ==
  {<<Field("summary", "text")>>, <<Field("chart", "column_chart"), Field("summary", "unknown")>>,
   <<Field("summary", "text"), Field("data", "column_chart")>>}

\* Everything at the terminal from one model, with the model's schema on a port
\* of its own, shared with a source, or after another one.  Where the terminals need the
\* source and it fails, the model's answer is the report.
ModelDesigns ==
  {Design(nInput :> Key1("none") @@ nSource :> Source(class) @@ nSchema :> SchemaNode(fields)
          @@ nSecond :> SchemaNode(<<Field("chart", "text")>>) @@ nAi :> Ai(<<Field("summary", "score")>>)
          @@ nTransform :> [Terminal(mode) EXCEPT !.terminalKey = "second"]
          @@ nTerminal :> [Terminal("schemaResult") EXCEPT !.terminalKey = key],
          <<Wire(nInput, "value", nSchema, "in", TRUE)>>
          \o (IF twice THEN <<Wire(nSource, "keywords", nSecond, "in", FALSE),
                              Wire(nSecond, "schema", nAi, "schema", FALSE)>> ELSE <<>>)
          \o <<Wire(nSchema, "schema", nAi, "in", TRUE),
               Wire(nSource, "payload", nAi, at, FALSE),
               Wire(nAi, "result", nTerminal, "in", FALSE),
               Wire(nAi, "result", nTransform, "in", FALSE),
               Wire(nSource, "missing", nTransform, "source", needed)>>
          \o (IF needed THEN <<Wire(nSource, "missing", nTerminal, "source", TRUE)>> ELSE <<>>),
          {nSource, nTransform, nTerminal, nAi}, "instagram" :> "token" @@ "semrush" :> "key", rows, NoPage) :
     fields \in FieldLists, at \in {"in", "context"}, twice \in BOOLEAN, needed \in BOOLEAN,
     mode \in {"aiResult", "schemaResult"}, key \in {"report", "second"},
     class \in {"Instagram", "Google"}, rows \in {{}, {"Instagram", "Semrush"}}}

\* Two sources into a merger, in the place of the fields of a schema.
SlotDesigns ==
  {Design(nInput :> Key1("site") @@ nSource :> Source("Pravatar") @@ nSecond :> Source(class)
          @@ nTransform :> Merger @@ nSchema :> SchemaNode(fields) @@ nTerminal :> Terminal("aiResult"),
          <<Wire(nInput, "value", nSource, "seed", TRUE),
            Wire(nInput, "value", nSecond, "websiteUrl", TRUE),
            Wire(nSecond, from, nTransform, "b", FALSE),
            Wire(nSource, "payload", nTransform, "a", FALSE),
            Wire(nTransform, "out", nTerminal, at, TRUE)>>,
          {nSecond}, connection, {}, NoPage) :
     class \in {"Instagram", "Browserless", "Semrush", "OpenAI", "Google"}, at \in {"in", "data", "items"},
     from \in {"payload", "keywords", "error"},
     fields \in {<<Field("chart", "img"), Field("summary", "img")>>, <<Field("data", "img")>>, <<>>},
     connection \in {"instagram" :> "token" @@ "semrush" :> "key", "instagram" :> "bare",
                     [slug \in {"semrush", "openai", "google"} |-> "unreadable"]}}

Href(words) == [href |-> words, tag |-> {}, inside |-> {}]

Pages ==
  [jsonLd : {<<>>, <<{}>>, <<{"bad"}>>, <<{"malformed"}>>},
   images : {<<>>, <<Href({"ad"}), Href({})>>,
             <<[Href({"logo", "mild", "svg"}) EXCEPT !.tag = {"logo", "mild"}, !.inside = {"header"}]>>,
             <<[Href({"logo", "ad"}) EXCEPT !.tag = {"logo"}, !.inside = {"nav"}], Href({"unresolved"})>>,
             <<[Href({"sprite"}) EXCEPT !.inside = {"footer"}], Href({"mild", "favicon"})>>},
   svgs : {<<>>, <<[code |-> {"mark"}, before |-> {"header", "nav"}, inside |-> {"header_nav"}]>>,
           <<[code |-> {"hero"}, before |-> {}, inside |-> {}],
             [code |-> {"short"}, before |-> {}, inside |-> {"nav", "header"}]>>}]

LogoDesigns ==
  {Design(nInput :> Key1(key) @@ nSource :> [Source("LogoPicker") EXCEPT !.htmlKey = "html"]
          @@ nTransform :> Mapper(<<>>) @@ nTerminal :> Terminal("aiResult"),
          <<Wire(nInput, "value", nSource, port, TRUE),
            Wire(nSource, "payload", nTransform, "in", TRUE),
            Wire(nTransform, "out", nTerminal, "in", TRUE)>>,
          optional, Nothing, {}, page) :
     key \in {"site", "note"}, port \in {"html", "pageHtml"},
     optional \in {{}, {nSource}}, page \in Pages}

\* A profile with its media or, on demand, without, in the fields of a schema.
MediaDesigns ==
  {Design(nInput :> Key1(key) @@ nSource :> Source("Instagram") @@ nTransform :> Merger
          @@ nSchema :> SchemaNode(<<Field("chart", "list"), Field("summary", "list")>>)
          @@ nTerminal :> Terminal("aiResult"),
          <<Wire(nInput, "value", nSource, "includeMedia", TRUE),
            Wire(nSource, "recentMedia", nTransform, "a", FALSE),
            Wire(nSource, "insights", nTransform, "b", FALSE),
            Wire(nTransform, "out", nTerminal, "in", TRUE)>>,
          optional, "instagram" :> held, {}, NoPage) :
     key \in {"media", "site"}, optional \in {{}, {nSource}}, held \in {"bare", "token"}}

Flows == MediaDesigns \cup MapperDesigns \cup ModelDesigns \cup SlotDesigns \cup LogoDesigns

FlowGraphs == {d.graph : d \in Flows}

===============================================================================
