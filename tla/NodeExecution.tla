---------------------------- MODULE NodeExecution ----------------------------
(***************************************************************************)
(* FlowExecution with the values that the nodes compute: what arrives at a *)
(* node's ports, what its executor makes of it, and the report that is put *)
(* together at the end.                                                    *)
(*                                                                         *)
(* JavaScript objects are shared, not copied, when they move along a       *)
(* connection.  The heap holds them, as functions from keys to values, so  *)
(* that a mapper that writes into an object it was given is seen by every  *)
(* other holder.  The order of keys is kept only where it matters: ports,  *)
(* in the order of the connections, and the fields of an output schema.    *)
(***************************************************************************)
EXTENDS FlowExecution, SourceProviders

CONSTANTS
  Designs,   \* the flows that may be run, with what their nodes are set up to do
  Label      \* a field -> the label a model may give it instead, as "field (type)"

\* A mapping rule; `paths` are the fields that combineFields reads.
Rule == [transform : STRING, from : Seq(STRING), to : Seq(STRING), field : STRING,
         paths : Seq(Seq(STRING))]

\* An output schema has its fields in the order of its keys.
SchemaFields(fields) ==
  /\ fields \in Seq([key : STRING, type : STRING])
  /\ \A i, j \in DOMAIN fields : fields[i].key = fields[j].key => i = j

\* A parameter of an analysis: a text or the like, one of the n objects within
\* the parameters, or a list.
Parameter(value, n) ==
  \/ value.is \in {"undefined", "text", "no"}
  \/ value.is = "object" /\ value.at \in 1..n
  \/ value.is = "list" /\ \A i \in DOMAIN value.items :
       value.items[i].is = "object" => value.items[i].at \in 1..n

PortNames == {"in", "out", "input", "output", "schema", "data", "result", "items"}

\* A design is a flow for FlowExecution with, for each node, its configuration:
\* - wires, the connections in their order, with the output port of each
\* - node, a record per node
\* - inputs of the analysis, and the objects within them; connection, the
\*   credentials per provider slug; rows, the connector classes of the active
\*   catalogue rows; openaiKey; page, what the pages that are looked at contain.
Configured(d) ==
  /\ d.graph \in Graphs
  /\ d.wires \in Seq([from : STRING, link : Link])
  /\ d.graph.links = {d.wires[i].link : i \in DOMAIN d.wires}
  /\ \A i, j \in DOMAIN d.wires : d.wires[i].link = d.wires[j].link => i = j
  /\ DOMAIN d.node = Nodes
  /\ \A n \in Nodes : d.node[n].rules \in Seq(Rule) /\ SchemaFields(d.node[n].schema)
  /\ d.objects \in Seq(ToSet(d.objects))
  /\ \A object \in {d.inputs} \cup ToSet(d.objects) : \A key \in DOMAIN object :
       Parameter(object[key], Len(d.objects))

ASSUME DesignAssumption == \A d \in Designs : Configured(d)

\* A label is like nothing that is a key by itself.
ASSUME LabelAssumption ==
  /\ \A d \in Designs : \A n \in Nodes : \A i \in DOMAIN d.node[n].schema :
       d.node[n].schema[i].key \in DOMAIN Label
  /\ \A j, k \in DOMAIN Label : Label[j] = Label[k] => j = k
  /\ \A k \in DOMAIN Label : Label[k] \notin DOMAIN Label \cup PortNames

VARIABLES
  design,    \* the flow being run
  heap,      \* the objects made so far
  outputs,   \* runtime: for each node, its output ports and their values
  asked,     \* for each AI node, the fields it was asked for and how it answered
  report     \* the run's data: terminal key -> field -> cell

nodeVars == <<design, heap, outputs, asked, report>>

NodeInit ==
  /\ Init
  /\ design \in Designs
  /\ graph = design.graph
  /\ heap = design.objects
  /\ outputs = [n \in Nodes |-> Nothing]
  /\ asked = [n \in Nodes |-> [fields |-> <<>>, as |-> "not asked"]]
  /\ report = Nothing

Config(n) == design.node[n]

Without(object, key) == [k \in DOMAIN object \ {key} |-> object[k]]

Least(I) == CHOOSE i \in I : \A j \in I : i <= j

Greatest(I) == CHOOSE i \in I : \A j \in I : j <= i

\* Object.assign({}, ...s): of several values under a key, the last.
Assigned(s) ==
  [key \in UNION {DOMAIN s[i] : i \in DOMAIN s} |->
     s[Greatest({i \in DOMAIN s : key \in DOMAIN s[i]})][key]]

With(object, key, value) == Spread(object, [k \in {key} |-> value])

\* The value under a key, undefined if there is none.
Key(object, key) == IF key \in DOMAIN object THEN object[key] ELSE Undefined

Truthy(value) == value \notin {Undefined, Text(""), No}

-------------------------------------------------------------------------------
\* There is a value on wire w.
Carries(w) ==
  /\ Dealt(w.link.source, {"completed"})
  /\ Key(outputs[w.link.source], w.from) # Undefined

\* The place of i among the places I, the k-th of them, and the elements of s at
\* these places.
Rank(I, i) == Cardinality({j \in I : j <= i})

Nth(I, k) == CHOOSE i \in I : Rank(I, i) = k

Chosen(s, I) == [k \in 1..Cardinality(I) |-> s[Nth(I, k)]]

\* What arrives at node n, in the order of its connections.
Arrivals(n) ==
  Chosen(design.wires,
         {i \in DOMAIN design.wires : design.wires[i].link.target = n /\ Carries(design.wires[i])})

Value(w) == outputs[w.link.source][w.from]

Values(wires) == [i \in DOMAIN wires |-> Value(wires[i])]

\* collectIncomingByPort: the ports with a value, and the values of each.
Ports(n) ==
  LET came == Arrivals(n)
      at == [i \in DOMAIN came |-> came[i].link.port]
  IN Chosen(at, {i \in DOMAIN at : \A j \in 1..(i - 1) : at[j] # at[i]})

ValuesAt(n, port) ==
  LET came == Arrivals(n)
  IN Values(Chosen(came, {i \in DOMAIN came : came[i].link.port = port}))

\* mergeIncomingGeneric: a single object spreads its keys over the result,
\* several on one port become one object, and anything else stays a value or a
\* list under its port.
MergedAt(ports, values) ==
  LET Objects(i) == [j \in {k \in DOMAIN values[i] : values[i][k].is = "object"} |->
                       heap[values[i][j].at]]
      plain == {i \in DOMAIN ports : DOMAIN Objects(i) = DOMAIN values[i]}
      single == {i \in DOMAIN ports : Len(values[i]) = 1}
      Under(i, value) == [port \in {ports[i]} |-> value]
      Part(i) ==
        CASE i \in plain \cap single -> Objects(i)[1]
          [] i \in plain \ single -> Under(i, Ref(Len(heap) + Rank(plain \ single, i)))
          [] i \in single \ plain -> Under(i, values[i][1])
          [] i \notin plain \cup single -> Under(i, List(values[i]))
  IN [heap |-> heap \o Chosen([i \in DOMAIN ports |-> Assigned(Objects(i))], plain \ single),
      object |-> Assigned([i \in DOMAIN ports |-> Part(i)])]

Merged(n) == MergedAt(Ports(n), [i \in DOMAIN Ports(n) |-> ValuesAt(n, Ports(n)[i])])

\* mergeMapperKeyedInputs.
KeyedInputs(n) == [port \in ToSet(Ports(n)) |-> ValuesAt(n, port)[1]]

IsMapper(n) == graph.kind[n] = "mapper"

\* mergeMapperKeyedInputs refuses a second value on a port.
ClashAt(n) ==
  /\ IsMapper(n)
  /\ \E v, w \in ToSet(design.wires) :
       /\ v # w /\ v.link.port = w.link.port
       /\ v.link.target = n /\ w.link.target = n
       /\ Carries(v) /\ Carries(w)

-------------------------------------------------------------------------------
Follow(h, value, key) == IF value.is = "object" THEN Key(h[value.at], key) ELSE Undefined

\* getPath from the object at `root`.
Get(h, root, path) ==
  LET found[k \in 0..Len(path)] ==
        IF k = 0 THEN Ref(root) ELSE Follow(h, found[k - 1], path[k])
  IN found[Len(path)]

\* A path without parts writes the property `undefined`.
Target(path) == IF path = <<>> THEN <<"undefined">> ELSE path

\* A list on the way takes a value as a property that nothing reads; address 0
\* stands for that.
Put(h, at, key, value) == IF at = 0 THEN h ELSE [h EXCEPT ![at] = With(@, key, value)]

\* One step on the way to where a value is put: objects are entered, whoever
\* made them, and made where they are missing.
Enter(s, key) ==
  LET next == IF s.at = 0 THEN List(<<>>) ELSE Key(s.heap[s.at], key)
      new == Len(s.heap) + 1
  IN IF next.is = "object" THEN [heap |-> s.heap, at |-> next.at]
     ELSE IF next.is \in {"list", "schema"} THEN [heap |-> s.heap, at |-> 0]
     ELSE [heap |-> Append(Put(s.heap, s.at, key, Ref(new)), Nothing), at |-> new]

\* setPath.
Set(h, root, path, value) ==
  LET keys == Target(path)
      way[k \in 0..(Len(keys) - 1)] ==
        IF k = 0 THEN [heap |-> h, at |-> root] ELSE Enter(way[k - 1], keys[k])
      parent == way[Len(keys) - 1]
  IN Put(parent.heap, parent.at, Last(keys), value)

\* String(v ?? '').
Shown(value) == CASE value.is = "undefined" -> Text("") [] value.is = "text" -> value
                  [] value.is = "no" -> Text("false") [] OTHER -> Text("[object Object]")

\* applyOne.  A formatConversion to anything but a string is a direct rule.
Apply(h, root, rule) ==
  CASE rule.transform = "direct" /\ rule.from # <<>> ->
         Set(h, root, rule.to, Get(h, root, rule.from))
    [] rule.transform = "defaultValue" /\ Get(h, root, rule.to) = Undefined ->
         Set(h, root, rule.to, Text("default"))
    [] rule.transform = "formatConversion" /\ rule.from # <<>> ->
         Set(h, root, rule.to, Shown(Get(h, root, rule.from)))
    [] rule.transform = "filter" /\ rule.from # <<>> /\ Get(h, root, <<rule.from[1]>>).is = "list" ->
         LET items == Get(h, root, <<rule.from[1]>>).items
             Field(v) == IF v.is \in {"object", "list", "schema"} THEN Follow(h, v, rule.field) ELSE v
         IN Set(h, root, rule.to, List([i \in DOMAIN items |-> Field(items[i])]))
    [] rule.transform = "combineFields" ->
         Set(h, root, rule.to, List([i \in DOMAIN rule.paths |-> Get(h, root, rule.paths[i])]))
    [] OTHER -> h

ApplyRules(h, root, rules) ==
  LET after[k \in 0..Len(rules)] == IF k = 0 THEN h ELSE Apply(after[k - 1], root, rules[k])
  IN after[Len(rules)]

-------------------------------------------------------------------------------
\* NodeExecutorRegistryService: the first executor that supports the node.
Executor(n) ==
  LET c == Config(n)
  IN CASE c.category = "input" -> "input"
       [] c.category = "source" \/ c.group \in {"acquisition", "enrichment"} -> "source"
       [] c.category = "transform" -> c.flavor
       [] c.category = "schema" -> "schema"
       [] c.category = "ai" \/ c.group = "reasoning" -> "ai"
       [] c.category = "terminal" \/ c.group = "delivery" -> "terminal"
       [] OTHER -> "passthrough"

Completes(n, newHeap, ports) ==
  /\ Record(n, "completed", FALSE)
  /\ heap' = newHeap
  /\ outputs' = [outputs EXCEPT ![n] = ports]

\* Mutant of Fails: the error is left as an output.
FailsWithOutput(n) ==
  /\ Record(n, "failed", TRUE)
  /\ outputs' = [outputs EXCEPT ![n] = [error |-> Text("error")]]
  /\ UNCHANGED heap

Fails(n) == Record(n, "failed", TRUE) /\ UNCHANGED <<heap, outputs>>

\* Node n may run, by the executor of that name.
Runs(n, executor) ==
  /\ At(n)
  /\ ~ClashAt(n) /\ ~Blocked(n)
  /\ Executor(n) = executor
  /\ UNCHANGED <<pc, design, report>>

ExecuteInput(n) ==
  /\ Runs(n, "input")
  /\ IF Config(n).inputKey = "none"
       THEN Completes(n, Append(heap, design.inputs), [value |-> Ref(Len(heap) + 1)])
       ELSE Completes(n, heap, [value |-> Key(design.inputs, Config(n).inputKey)])
  /\ UNCHANGED asked

\* declaredInputs of a source: the value of a port, or the list of its values.
Call(n, slug) ==
  [inputs |-> [port \in ToSet(Ports(n)) |->
                 LET values == ValuesAt(n, port)
                 IN IF Len(values) = 1 THEN values[1] ELSE List(values)],
   declared |-> Config(n).declared, required |-> graph.required[n],
   htmlKey |-> Config(n).htmlKey, page |-> design.page,
   connection |-> IF slug \in DOMAIN design.connection THEN design.connection[slug] ELSE "none"]

\* Mutant of Bucket: a key payload of the bucket takes the port.
BucketOver(base, bucket) == Spread([payload |-> Ref(base + 1)], bucket)

\* Everything the source returns is on port payload, its bucket, and each key of
\* the bucket is a port as well.
Bucket(base, bucket) == With(bucket, "payload", Ref(base + 1))

SourceOutcomes(n) ==
  UNION {Outcomes(slug, Call(n, slug), Len(heap)) :
           slug \in ProviderSlug(Config(n)) \cap Registered(design.rows)}

ExecuteSource(n) ==
  /\ Runs(n, "source")
  /\ IF SourceOutcomes(n) = {} THEN Fails(n)
     ELSE \E made \in SourceOutcomes(n) :
            IF made.ok
              THEN Completes(n, heap \o made.objects, Bucket(Len(heap), made.objects[1]))
              ELSE Fails(n)
  /\ UNCHANGED asked

\* Mutant of ExecuteMapper: the rules work on the object that came in.
ExecuteMapperInPlace(n) ==
  /\ Runs(n, "mapper")
  /\ LET single == {v \in {ValuesAt(n, port)[1] : port \in ToSet(Ports(n))} : v.is = "object"}
         root == IF Cardinality(single) = 1 THEN (CHOOSE v \in single : TRUE).at ELSE Len(heap) + 1
         start == IF Cardinality(single) = 1 THEN [heap EXCEPT ![root] = Spread(@, KeyedInputs(n))]
                  ELSE Append(heap, KeyedInputs(n))
     IN Completes(n, ApplyRules(start, root, Config(n).rules), [out |-> Ref(root)])
  /\ UNCHANGED asked

\* applyRules works on a new object, but the objects in it are those that came.
ExecuteMapper(n) ==
  /\ Runs(n, "mapper")
  /\ LET root == Len(heap) + 1
     IN Completes(n, ApplyRules(Append(heap, KeyedInputs(n)), root, Config(n).rules),
                  [out |-> Ref(root)])
  /\ UNCHANGED asked

\* collectMergerInboundArray.
ExecuteMerger(n) ==
  /\ Runs(n, "merger")
  /\ Completes(n, heap, [out |-> List(Values(Arrivals(n)))])
  /\ UNCHANGED asked

\* An output schema is a value of its own kind, which nothing looks into before
\* it reaches the prompt.
Schema(fields) == [is |-> "schema", fields |-> fields]

ExecuteSchema(n) ==
  /\ Runs(n, "schema")
  /\ LET in == Merged(n)
         base == Len(in.heap)
     IN Completes(n, in.heap \o <<in.object,
                       [data |-> Ref(base + 1), outputSchema |-> Schema(Config(n).schema)]>>,
                  [schema |-> Ref(base + 2)])
  /\ UNCHANGED asked

\* Mutant of SchemaFor: the node's own schema goes first.
SchemaForOwnFirst(n, in) ==
  LET below == Follow(in.heap, Key(in.object, "schema"), "outputSchema")
      first == IF Key(in.object, "outputSchema") # Undefined
                 THEN Key(in.object, "outputSchema") ELSE below
  IN IF Config(n).schema # <<>> THEN Config(n).schema
     ELSE IF first.is = "schema" THEN first.fields ELSE <<>>

\* The schema for the prompt of AI node n: the one that arrived at the root of
\* its input, or under `schema`, or else its own.  What else arrived there in
\* the place of a schema counts as one without fields.
SchemaFor(n, in) ==
  LET below == Follow(in.heap, Key(in.object, "schema"), "outputSchema")
      first == IF Key(in.object, "outputSchema") # Undefined
                 THEN Key(in.object, "outputSchema") ELSE below
  IN CASE first = Undefined -> Config(n).schema
       [] first.is = "schema" -> first.fields
       [] OTHER -> <<>>

\* The answers of the model as objects for the heap after address `base`: the
\* fields it was asked for, the same with labels or below the name of a port,
\* or something else.  A chart is an object, anything else a text.
Answers(fields, base) ==
  LET keys == {fields[i].key : i \in DOMAIN fields}
      Chart(key) == \E i \in DOMAIN fields : fields[i].key = key /\ fields[i].type = "column_chart"
      value == [key \in keys |-> IF Chart(key) THEN Ref(base + 2) ELSE Text(key)]
      labelled == [l \in {Label[key] : key \in keys} |->
                     value[CHOOSE key \in keys : Label[key] = l]]
      Answer(object, as) ==
        [objects |-> <<object, [labels |-> List(<<Text("x")>>)], value>>, as |-> as]
  IN {Answer(value, "exact"), Answer(labelled, "labelled"),
      Answer([in |-> Ref(base + 3)], "wrapped"), Answer([insight |-> Text("insight")], "other")}

\* unwrapModelJsonIfPortWrapped: the address of the object the answer becomes.
Unwrapped(h, address) ==
  LET keys == DOMAIN h[address]
      wrapped == /\ Cardinality(keys) = 1
                 /\ keys \subseteq {"in", "out", "input", "output", "schema", "data"}
                 /\ \A key \in keys : h[address][key].is = "object"
  IN IF wrapped THEN h[address][CHOOSE key \in keys : TRUE].at ELSE address

\* The request fails without a key, and may fail with one.
ExecuteAi(n) ==
  /\ Runs(n, "ai")
  /\ LET in == Merged(n)
         fields == SchemaFor(n, in)
         base == Len(in.heap)
     IN \/ /\ design.openaiKey
           /\ \E answer \in Answers(fields, base) :
                LET h == in.heap \o answer.objects
                IN /\ Completes(n, h, [result |-> Ref(Unwrapped(h, base + 1))])
                   /\ asked' = [asked EXCEPT ![n] = [fields |-> fields, as |-> answer.as]]
        \/ Fails(n) /\ UNCHANGED asked

\* The first of the keys with a truthy value, or all that came.
ExecuteTerminal(n) ==
  /\ Runs(n, "terminal")
  /\ LET in == Merged(n)
         keys == IF Config(n).mode = "schemaResult"
                   THEN <<"data", "result", "schema">> ELSE <<"result", "data", "schema">>
         given == {k \in DOMAIN keys : Truthy(Key(in.object, keys[k]))}
     IN IF given # {}
          THEN Completes(n, in.heap, [data |-> in.object[keys[Least(given)]]])
          ELSE Completes(n, Append(in.heap, in.object), [data |-> Ref(Len(in.heap) + 1)])
  /\ UNCHANGED asked

ExecutePassthrough(n) ==
  /\ Runs(n, "passthrough")
  /\ LET in == Merged(n)
     IN Completes(n, Append(in.heap, in.object), [passthrough |-> Ref(Len(in.heap) + 1)])
  /\ UNCHANGED asked

-------------------------------------------------------------------------------
\* The fields of all the schemas, in their order.
Concatenated(schemas) ==
  LET all[k \in 0..Len(schemas)] == IF k = 0 THEN <<>> ELSE all[k - 1] \o schemas[k]
  IN all[Len(schemas)]

\* The fields in the order in which they first occur, each with the type that
\* it has last.
Gathered(fields) ==
  LET Latest(key) == fields[Greatest({i \in DOMAIN fields : fields[i].key = key})]
  IN Chosen([i \in DOMAIN fields |-> Latest(fields[i].key)],
            {i \in DOMAIN fields : \A j \in 1..(i - 1) : fields[j].key # fields[i].key})

\* mergeOutputSchemaFromSnapshotNodes: the fields of all schema nodes.
ReportSchema ==
  LET Own(n) == IF Config(n).category = "schema" THEN Config(n).schema ELSE <<>>
  IN Gathered(Concatenated([k \in DOMAIN Insertion |-> Own(Insertion[k])]))

SchemaKeys == {ReportSchema[i].key : i \in DOMAIN ReportSchema}

\* normalizeTerminalPayloadToRecord.
Flat(value) == IF value.is = "object" THEN heap[value.at] ELSE [result |-> value]

\* tryUnwrapPortOnlyPayload: what is behind a port, when there are only ports.
Behind(flat) ==
  LET Held(port) == Key(flat, port)
      inner == IF Held("in").is \in {"list", "object"} THEN Held("in") ELSE Held("out")
  IN CASE ~(DOMAIN flat \subseteq {"in", "out"}) -> flat
       [] inner.is = "list" -> [items |-> inner]
       [] inner.is = "object" -> heap[inner.at]
       [] OTHER -> flat

\* valueForOutputSchemaKey.
ForField(flat, key) ==
  IF key \in DOMAIN flat \/ key \notin DOMAIN Label THEN Key(flat, key) ELSE Key(flat, Label[key])

\* normalizePortCellToScalar.
Scalar(value) ==
  LET keys == <<"payload", "url", "value">>
      texts == {k \in DOMAIN keys :
                  value.is = "object" /\ Key(heap[value.at], keys[k]).is = "text"}
  IN IF texts = {} THEN value ELSE heap[value.at][keys[Least(texts)]]

\* An object without its ports, or what it has of the fields of the schema.
FieldsIn(object) ==
  IF SchemaKeys = {}
    THEN [key \in DOMAIN object \ {"in", "out"} |-> object[key]]
    ELSE [key \in {k \in SchemaKeys : ForField(object, k) # Undefined} |-> ForField(object, key)]

\* What is at each depth below objects that have only ports.
Levels(flat) ==
  LET level[k \in 0..Len(heap)] == IF k = 0 THEN flat ELSE Behind(level[k - 1])
  IN level

\* pickTerminalPayloadForReport: the fields of the schema from the first level
\* that has any, or else the schema's fields in their order from a list;
\* without a schema, everything but the ports.
Picked(flat) ==
  LET level == Levels(flat)
      levels == {k \in 0..Len(heap) : DOMAIN FieldsIn(level[k]) # {}}
      items == Key(level[Len(heap)], "items")
      slots == IF items.is # "list" THEN 0
               ELSE CHOOSE k \in {Len(items.items), Len(ReportSchema)} :
                      k <= Len(items.items) /\ k <= Len(ReportSchema)
  IN IF levels # {} THEN FieldsIn(level[Least(levels)])
     ELSE [key \in {ReportSchema[i].key : i \in 1..slots} |->
             Scalar(items.items[CHOOSE i \in 1..slots : ReportSchema[i].key = key])]

OutputFieldTypes ==
  {"text", "score", "tag", "list", "color", "color_scheme", "number", "url", "img",
   "currency", "column_chart"}

\* wrapOutputDataWithSchema: a cell is kept, any other value becomes one, of the
\* type that the schema or the value says.
Cell(key, value) ==
  LET typed == value.is = "object" /\ {"type", "value"} \subseteq DOMAIN heap[value.at]
      types == {ReportSchema[i].type : i \in {j \in DOMAIN ReportSchema : ReportSchema[j].key = key}}
  IN [value |-> value,
      type |-> CASE typed -> "kept"
                 [] ~typed /\ types = {} -> IF value.is = "list" THEN "list" ELSE "text"
                 [] OTHER -> IF types \subseteq OutputFieldTypes
                               THEN CHOOSE type \in types : TRUE ELSE "text"]

Cells(value) == LET picked == Picked(Flat(value)) IN [key \in DOMAIN picked |-> Cell(key, picked[key])]

\* The value a node of the result gives to the report.
Given(n) == Key(outputs[n], IF n \in OfKind("terminal") THEN "data" ELSE "result")

\* Terminals that have the same terminalKey overwrite each other, the last of
\* the nodes array remains.
ReportKey(n) == IF n \in OfKind("terminal") THEN Config(n).terminalKey ELSE "__ai_output__"

LastOf(S) ==
  CHOOSE n \in S : \A i, j \in DOMAIN Insertion : Insertion[i] = n /\ Insertion[j] \in S => j <= i

\* Mutant of Answering: an AI node stands in for failed terminals even if it
\* failed itself.
AnsweringAny == First(OfKind("ai"))

\* The AI node whose result stands in for the terminals, none of which
\* completed.
Answering == First({n \in CompletedOf("ai") : Truthy(Key(outputs[n], "result"))})

\* The terminals are summed up, and the report is put together unless a
\* required node failed.
ConcludeReport ==
  /\ pc = "run"
  /\ Len(tries) = Len(order)
  /\ pc' = "done"
  /\ branches' = [n \in Nodes |-> IF n \in OfKind("terminal") THEN BranchOf(n) ELSE "none"]
  /\ data' = IF failures # {} THEN {}
             ELSE IF CompletedOf("terminal") # {} THEN CompletedOf("terminal") ELSE Answering
  /\ report' = [key \in {ReportKey(n) : n \in data'} |->
                  Cells(Given(LastOf({n \in data' : ReportKey(n) = key})))]
  /\ UNCHANGED <<graph, inDegree, ready, order, tries, failures, design, heap, outputs, asked>>

\* resolveInputsForNodeTrace refuses the second value before anything else is
\* done for the node, and outside of any try block.
Refuse(n) ==
  /\ At(n)
  /\ ClashAt(n)
  /\ pc' = "threw"
  /\ UNCHANGED <<tries, failures>>

NodeNext ==
  \/ (SortNode \/ SortRest \/ LoadConnections) /\ UNCHANGED nodeVars
  \/ \E n \in Nodes :
       \/ Refuse(n) /\ UNCHANGED nodeVars
       \/ Propagate(n) /\ ~ClashAt(n) /\ UNCHANGED nodeVars
       \/ ExecuteInput(n) \/ ExecuteSource(n) \/ ExecuteMapper(n) \/ ExecuteMerger(n)
       \/ ExecuteSchema(n) \/ ExecuteAi(n) \/ ExecuteTerminal(n) \/ ExecutePassthrough(n)
  \/ ConcludeReport

NodeSpec == NodeInit /\ [][NodeNext]_<<vars, nodeVars>>

-------------------------------------------------------------------------------
Sound(value) ==
  CASE value.is = "object" -> value.at \in DOMAIN heap
    [] value.is = "list" -> \A i \in DOMAIN value.items :
         value.items[i].is = "object" => value.items[i].at \in DOMAIN heap
    [] OTHER -> value.is \in {"undefined", "text", "no", "schema"}

\* References lead to objects, and only nodes that completed have outputs.
NodeTypeOK ==
  /\ TypeOK
  /\ \A address \in DOMAIN heap : \A key \in DOMAIN heap[address] : Sound(heap[address][key])
  /\ \A n \in Nodes : \A port \in DOMAIN outputs[n] :
       Sound(outputs[n][port]) /\ Dealt(n, {"completed"})
  /\ report # Nothing => pc = "done"

\* Whatever the nodes compute, the run is one of FlowExecution: values decide
\* which of its steps are taken, never what a step does to the flow.
FlowSpec == Spec

\* The i-th rule of mapper n may write into an object that is at one of the
\* ports, or that a rule before it has put there.
WritesInto(n, ports, i) ==
  LET rules == Config(n).rules
  IN /\ Len(rules[i].to) > 1
     /\ rules[i].to[1] \in ports \cup {Target(rules[j].to)[1] : j \in 1..(i - 1)}

\* A node's output is what it was when the node completed: an object changes
\* only when a mapper has a rule whose target lies inside an object that came
\* in at one of its ports, or that an earlier rule has put there.
OutputsKept ==
  [][\A address \in DOMAIN heap : heap'[address] # heap[address] =>
       \E n \in Nodes :
         /\ outputs'[n] # outputs[n] /\ Executor(n) = "mapper"
         /\ \E i \in DOMAIN Config(n).rules : WritesInto(n, ToSet(Ports(n)), i)
    ]_nodeVars

\* An AI node is asked for the fields of the schema node that feeds it, unless
\* the schema shares its port with another value or something else that arrives
\* has an output schema.
SchemaArrives ==
  \A a \in Nodes : asked[a].as # "not asked" =>
    \A w \in ToSet(Arrivals(a)) :
      Executor(w.link.source) = "schema" =>
        \/ asked[a].fields = Config(w.link.source).schema
        \/ \E v \in ToSet(Arrivals(a)) \ {w} :
             \/ v.link.port \in {w.link.port, "outputSchema"}
             \/ Value(v).is = "object" /\ "outputSchema" \in DOMAIN heap[Value(v).at]

\* The terminals whose data are the report's under their key, with just one
\* value, from node n.
Delivering(n) ==
  {t \in data \cap OfKind("terminal") :
     /\ Executor(t) = "terminal"
     /\ t = LastOf({u \in data : ReportKey(u) = ReportKey(t)})
     /\ Len(Arrivals(t)) = 1 /\ Arrivals(t)[1].link.source = n}

\* What a model answers to the fields it was asked for is in the report, unless
\* a terminal mistakes a field for its input or the only field is a chart with
\* the name of a port.
AnswersArrive ==
  pc = "done" => \A a \in OfKind("ai") : \A t \in Delivering(a) :
    LET fields == asked[a].fields
        keys == {fields[i].key : i \in DOMAIN fields}
    IN \/ asked[a].as \in {"other", "not asked"}
       \/ \E port \in PortNames : keys = {port}
       \/ keys \cap {"result", "data", "schema"} # {}
       \/ \A i \in DOMAIN fields : fields[i].key \in SchemaKeys =>
            /\ fields[i].key \in DOMAIN report[ReportKey(t)]
            /\ LET cell == report[ReportKey(t)][fields[i].key]
               IN IF fields[i].type = "column_chart" THEN cell.value.is = "object"
                  ELSE cell.value = Text(fields[i].key)

\* The test "maps OUTPUT SCHEMA img keys to merger `in` array in order": the
\* i-th field is the value of the merger's i-th connection, as long as every
\* connection before it brought a value; after one that did not, the fields
\* are off by one.
SlotsInOrder ==
  pc = "done" => \A g \in Nodes : \A t \in Delivering(g) :
    LET into == Chosen(design.wires, {i \in DOMAIN design.wires : design.wires[i].link.target = g})
        came == ToSet(Arrivals(g))
    IN Executor(g) = "merger" /\ {"in", "out", "items"} \cap SchemaKeys = {}
         /\ Arrivals(t)[1].link.port \in {"in", "out", "items"} =>
       \A i \in DOMAIN into \cap DOMAIN ReportSchema :
         (\A j \in 1..i : into[j] \in came) =>
           /\ ReportSchema[i].key \in DOMAIN report[ReportKey(t)]
           /\ report[ReportKey(t)][ReportSchema[i].key].value
                = Scalar(Value(into[i]))

\* No mapper is set up to write into the objects that it is given.
ObjectsStay ==
  \A n \in Nodes : Executor(n) = "mapper" =>
    \A i \in DOMAIN Config(n).rules :
      ~WritesInto(n, {w.link.port : w \in {v \in ToSet(design.wires) : v.link.target = n}}, i)

\* From the schema to the prompt, from the answer or the list to the report: no
\* field is lost or mixed up on the way, in a flow that validation lets through
\* and whose mappers leave alone what the others hold.
FieldsReachReport == Acyclic /\ ObjectsStay => SchemaArrives /\ AnswersArrive /\ SlotsInOrder

\* The providers that decrypt the key of the connection.
Decrypting == {"web-scraper", "browserless", "semrush", "openai", "google"}

\* A source node fails by itself only for want of a connector or of a text that
\* its contract requires, or if it is required, or when its key cannot be read
\* or Browserless fails.  The shim for dataSourceSlug "exists purely for
\* backward compatibility with snapshots published before node definitions
\* carried a `providerKey`" (builder-data-source-providers.ts:3-5), but a node
\* that names its provider in this way never completes: what the shim makes of
\* it is the name of a class, and no connector goes by that.
FailureExplained ==
  \A i \in DOMAIN tries :
    LET n == tries[i].node
        slugs == ProviderSlug(Config(n)) \cap Registered(design.rows)
    IN Executor(n) = "source" =>
       /\ tries[i].own =>
            \/ slugs = {} \/ graph.required[n] \/ slugs = {"browserless"}
            \/ \E slug \in slugs \ {"logo-picker"} : \E port \in Contracts[slug].required :
                 ~Ready(Call(n, slug), port)
            \/ \E slug \in slugs \cap Decrypting : Unreadable(Call(n, slug))
       /\ tries[i].status = "completed" => Config(n).provider # "none"

\* "ports are defined by the code provider; replace DTO ports when the provider
\* is registered so DB matches execution" (builder-assets.service:300): a source
\* that completes has its payload and, at every other port of its contract,
\* what the contract says or nothing; and each such port can bring a value.  A
\* key of the bucket that is named payload does not get in the way.
PortsMatchExecution ==
  \A i \in DOMAIN tries :
    LET n == tries[i].node
    IN Executor(n) = "source" /\ tries[i].status = "completed" =>
         \A slug \in ProviderSlug(Config(n)) :
           LET declared == Contracts[slug].outputs
           IN /\ outputs[n].payload.is = "object"
              /\ \A port \in DOMAIN declared \cap DOMAIN outputs[n] : outputs[n][port].is = declared[port]
              /\ \A port \in DOMAIN declared :
                   \E held \in {"bare", "key", "token"} :
                     \E made \in Outcomes(slug, [Call(n, slug) EXCEPT !.connection = held,
                                                                    !.inputs = Without(@, "includeMedia")], 0) :
                       made.ok /\ port \in {"payload"} \cup DOMAIN made.objects[1]

\* What a source may do is what its contract and its failures announce, in a
\* flow that validation lets through.
SourceFailureExplained == Acyclic => FailureExplained /\ PortsMatchExecution

\* The comment of logo-candidate.scoring.ts, "prefer real brand marks over
\* decorative photos, ads": a plausible logo that the page names in JSON-LD is
\* taken before any other, and a candidate with too few points is taken only
\* where the page names implausible ones.
LogoRight ==
  \A logo \in Pick(design.page) :
    LET named == {words \in ToSet(design.page.jsonLd) : ~ClearlyNotLogo(words)}
    IN /\ named # {} => logo.from = "jsonLd"
       /\ logo.score < 8 => design.page.jsonLd # <<>> /\ named = {}

===============================================================================
