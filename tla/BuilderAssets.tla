---------------------------- MODULE BuilderAssets ----------------------------
(***************************************************************************)
(* The catalogue of the flow builder: the node definitions of              *)
(* BuilderAssetsService with the node types and builder categories that    *)
(* they name, and the versions of report types that name them.  Of a       *)
(* report type only what a definition can be referred to by is kept;       *)
(* ReportTypeLifecycle has the rest.                                       *)
(*                                                                         *)
(* Editors are those of DataSources: a request is one for any of the two   *)
(* catalogues.  A body that is refused before the first query is not a     *)
(* step.                                                                   *)
(***************************************************************************)
EXTENDS DataSources

CONSTANTS
  Builders,           \* the catalogues there may be at first
  NewDefinitions,     \* bodies of createNodeDefinition and of the plain create
  DefinitionChanges,  \* bodies of updateNodeDefinition, as functions from fields
  AssetChanges,       \* bodies of the plain update
  NewNodeTypes, NodeTypeChanges, CategoryChanges,
  Contract,           \* ports of the providers that have a connection contract
  BadPorts,           \* ports that validateNodeDefinitionShape refuses
  Flows               \* the definitions that the nodes of a new flow name

AssetFields == {"status", "category", "type", "provider", "ports"}

\* What is there at first is numbered and names what is there.
ASSUME BuilderAssumption ==
  /\ \A b \in Builders :
       /\ b.categories \in Seq([key : STRING, slug : STRING])
       /\ b.nodeTypes \in Seq([key : STRING, slug : STRING, category : STRING])
       /\ b.definitions \in Seq([AssetFields -> STRING])
       /\ b.versions \in Seq([flow : SUBSET DOMAIN b.definitions, flowAt : {0},
                              snapshot : SUBSET DOMAIN b.definitions, snapshotAt : {0}])
       /\ b.reports \in Seq([status : STRING, current : {0} \cup DOMAIN b.versions,
                             draft : {0} \cup DOMAIN b.versions])
  /\ NewDefinitions \subseteq [AssetFields -> STRING]

VARIABLES
  categories,   \* builder categories: id -> key and slug
  nodeTypes,    \* node types: id -> key, slug and builderCategoryKey
  definitions,  \* node definitions: id -> status and nodeDefinition
  reports,      \* report types: id -> status and pointers to versions
  versions,     \* their versions: id -> definitions in the draft and the snapshot
  past          \* history: when categories, types, and reports were last
                \* changed, and of each definition what its writer had seen

builderVars == <<categories, nodeTypes, definitions, reports, versions, past>>
sourceDocs == <<rows, integrations, connections, stamp>>

\* Of a definition: when it was changed, when its references were looked for,
\* and the category and type that it got its keys from, with the times.
Unseen == [changed |-> 0, unused |-> 0, category |-> 0, type |-> 0, at |-> 0, typeAt |-> 0]

BuilderInit ==
  \E b \in Builders :
    /\ categories = b.categories /\ nodeTypes = b.nodeTypes
    /\ definitions = b.definitions /\ reports = b.reports /\ versions = b.versions
    /\ past = [category |-> [c \in DOMAIN categories |-> 0],
               type |-> [t \in DOMAIN nodeTypes |-> 0],
               report |-> [r \in DOMAIN reports |-> 0],
               definition |-> [d \in DOMAIN definitions |-> Unseen]]

Starts(e, to) == Begins(e, to) /\ UNCHANGED builderVars
Looks(e, from, to) == Continues(e, from, to) /\ UNCHANGED builderVars
Writes(e, from, to) == Step(e, from, to) /\ UNCHANGED sourceDocs

\* A request of one query.
AtOnce ==
  /\ edits <= MaxEdits
  /\ edits' = edits + 1
  /\ UNCHANGED <<sourceDocs, edit>>

Fresh(docs) == Cardinality(DOMAIN docs) + 1

\* The unique indexes on key and slug.
Distinct(doc, docs, others) ==
  \A id \in others : docs[id].key # doc.key /\ docs[id].slug # doc.slug

-------------------------------------------------------------------------------
CreateNodeType ==
  \E doc \in NewNodeTypes :
    /\ Distinct(doc, nodeTypes, DOMAIN nodeTypes)
    /\ AtOnce
    /\ nodeTypes' = Add(nodeTypes, Fresh(nodeTypes), doc)
    /\ past' = [past EXCEPT !.type = Add(@, Fresh(nodeTypes), edits)]
    /\ UNCHANGED <<categories, definitions, reports, versions>>

\* Nobody looks whether definitions name the type by the key it has.
UpdateNodeType ==
  \E t \in DOMAIN nodeTypes, dto \in NodeTypeChanges :
    /\ Distinct(Merged(dto, nodeTypes[t]), nodeTypes, DOMAIN nodeTypes \ {t})
    /\ AtOnce
    /\ nodeTypes' = [nodeTypes EXCEPT ![t] = Merged(dto, @)]
    /\ past' = [past EXCEPT !.type[t] = edits]
    /\ UNCHANGED <<categories, definitions, reports, versions>>

UpdateCategory ==
  \E c \in DOMAIN categories, dto \in CategoryChanges :
    /\ Distinct(Merged(dto, categories[c]), categories, DOMAIN categories \ {c})
    /\ AtOnce
    /\ categories' = [categories EXCEPT ![c] = Merged(dto, @)]
    /\ past' = [past EXCEPT !.category[c] = edits]
    /\ UNCHANGED <<nodeTypes, definitions, reports, versions>>

-------------------------------------------------------------------------------
\* applyDataSourcePortsFromProviderContract.
Ported(dto) == IF dto.provider \in DOMAIN Contract THEN [dto EXCEPT !.ports = Contract[dto.provider]] ELSE dto

Shaped(dto) == dto.ports \notin BadPorts

CreateDefinition(e) ==
  \E dto \in NewDefinitions :
    /\ Shaped(Ported(dto))
    /\ Starts(e, [pc |-> "category", id |-> 0, next |-> Ported(dto), body |-> AssetFields,
                  read |-> edits, seen |-> [Unseen EXCEPT !.unused = edits]])

\* Mutant of NextDefinition: the ports of the contract go into the body, and
\* only if that names the provider.
NextDefinitionOfBody(dto, doc) ==
  Merged(IF "ports" \in DOMAIN dto /\ "provider" \in DOMAIN dto THEN Ported(dto) ELSE dto, doc)

NextDefinition(dto, doc) == Ported(Merged(dto, doc))

\* updateNodeDefinition: what is written is the whole definition as it was read,
\* but for the body.  References are looked for only if it is to be archived
\* and is not yet.
ReadDefinition(e) ==
  \E d \in DOMAIN definitions, dto \in DefinitionChanges :
    LET next == NextDefinition(dto, definitions[d])
        archives == next.status = "archived" /\ definitions[d].status # "archived"
    IN /\ archives \/ Shaped(next)
       /\ Starts(e, [pc |-> IF archives THEN "usage" ELSE "category", id |-> d, next |-> next,
                     body |-> DOMAIN dto, read |-> edits, seen |-> past.definition[d]])

\* Mutant of References: snapshots are not looked at.
ReferencesInDrafts(d) == {v \in DOMAIN versions : d \in versions[v].flow}

\* findUsageByBuilderAssetId.
References(d) == {v \in DOMAIN versions : d \in versions[v].flow \cup versions[v].snapshot}

Usage(e) ==
  /\ edit[e].pc = "usage"
  /\ LET unused == References(edit[e].id) = {} /\ Shaped(edit[e].next)
     IN Looks(e, "usage", IF unused THEN [edit[e] EXCEPT !.pc = "category", !.seen.unused = edits] ELSE Idle)

\* By key or by slug; findOne takes any.
Called(name, docs) == {id \in DOMAIN docs : name \in {docs[id].key, docs[id].slug}}

\* resolveDynamicNodeDefinitionKeys, first query: the category's key is taken.
ResolveCategory(e) ==
  /\ edit[e].pc = "category"
  /\ LET next == edit[e].next
         pc == IF next.type = "" THEN "definition" ELSE "type"
     IN \/ Called(next.category, categories) = {} /\ Looks(e, "category", Idle)
        \/ \E c \in Called(next.category, categories) :
             Looks(e, "category",
                   [edit[e] EXCEPT !.pc = pc, !.next.category = categories[c].key,
                                   !.seen.category = c, !.seen.at = edits,
                                   !.seen.type = 0, !.seen.typeAt = edits])

\* Mutant of Belongs: any type of that name will do.
BelongsAnywhere(t, next) == t \in DOMAIN nodeTypes /\ next.category # ""

\* "Node type X belongs to builder category Y, not Z."
Belongs(t, next) == nodeTypes[t].category = next.category

ResolveType(e) ==
  /\ edit[e].pc = "type"
  /\ LET next == edit[e].next
     IN \/ Called(next.type, nodeTypes) = {} /\ Looks(e, "type", Idle)
        \/ \E t \in Called(next.type, nodeTypes) :
             Looks(e, "type",
                   IF Belongs(t, next)
                     THEN [edit[e] EXCEPT !.pc = "definition", !.next.type = nodeTypes[t].key,
                                          !.seen.type = t, !.seen.typeAt = edits]
                     ELSE Idle)

WriteDefinition(e) ==
  LET id == IF edit[e].id = 0 THEN Fresh(definitions) ELSE edit[e].id
  IN /\ edit[e].pc = "definition"
     /\ Writes(e, "definition", Idle)
     /\ definitions' = Add(definitions, id, edit[e].next)
     /\ past' = [past EXCEPT !.definition = Add(@, id, [edit[e].seen EXCEPT !.changed = edits])]
     /\ UNCHANGED <<categories, nodeTypes, reports, versions>>

\* The plain create and update of builder assets write what they are given.
CreateAsset ==
  \E dto \in NewDefinitions :
    /\ AtOnce
    /\ definitions' = Add(definitions, Fresh(definitions), dto)
    /\ past' = [past EXCEPT !.definition = Add(@, Fresh(definitions), Unseen)]
    /\ UNCHANGED <<categories, nodeTypes, reports, versions>>

\* What was looked at does not count for the fields that are written.
Overwritten(seen, body) ==
  [seen EXCEPT !.changed = edits,
               !.unused = IF "status" \in body THEN 0 ELSE @,
               !.category = IF body \subseteq {"status"} THEN @ ELSE 0]

UpdateAsset ==
  \E d \in DOMAIN definitions, dto \in AssetChanges :
    /\ AtOnce
    /\ definitions' = [definitions EXCEPT ![d] = Merged(dto, @)]
    /\ past' = [past EXCEPT !.definition[d] = Overwritten(@, DOMAIN dto)]
    /\ UNCHANGED <<categories, nodeTypes, reports, versions>>

-------------------------------------------------------------------------------
\* saveReportFlow; without a draft the published version is copied into one.
\* Nobody can name a definition that is not there yet.
SaveFlow(e) ==
  \E r \in DOMAIN reports, flow \in Flows :
    LET report == reports[r]
    IN /\ flow \subseteq DOMAIN definitions
       /\ report.draft # 0 \/ report.current # 0
       /\ Starts(e, [pc |-> IF report.draft = 0 THEN "copy" ELSE "flow", id |-> r, flow |-> flow,
                     version |-> report.draft, from |-> report.current])

CopyVersion(e) ==
  LET v == Fresh(versions)
  IN /\ edit[e].pc = "copy"
     /\ Writes(e, "copy", [edit[e] EXCEPT !.pc = "point", !.version = v])
     /\ versions' = Add(versions, v, [flow |-> edit[e].flow, flowAt |-> edits,
                                     snapshot |-> versions[edit[e].from].snapshot, snapshotAt |-> edits])
     /\ UNCHANGED <<categories, nodeTypes, definitions, reports, past>>

\* A write of a report type.
Reported(e, from, to, report) ==
  /\ edit[e].pc = from
  /\ Writes(e, from, to)
  /\ reports' = [reports EXCEPT ![edit[e].id] = report]
  /\ past' = [past EXCEPT !.report[edit[e].id] = edits]
  /\ UNCHANGED <<categories, nodeTypes, definitions, versions>>

PointDraft(e) ==
  Reported(e, "point", [edit[e] EXCEPT !.pc = "flow"], [reports[edit[e].id] EXCEPT !.draft = edit[e].version])

WriteFlow(e) ==
  /\ edit[e].pc = "flow"
  /\ Writes(e, "flow", Idle)
  /\ versions' = [versions EXCEPT ![edit[e].version].flow = edit[e].flow,
                                 ![edit[e].version].flowAt = edits]
  /\ UNCHANGED <<categories, nodeTypes, definitions, reports, past>>

\* publish: the type, its draft, the definitions, then the two writes.
Publish(e) ==
  \E r \in DOMAIN reports :
    reports[r].draft # 0 /\ Starts(e, [pc |-> "draft", id |-> r, version |-> reports[r].draft])

ReadDraft(e) ==
  /\ edit[e].pc = "draft"
  /\ Looks(e, "draft", Add([edit[e] EXCEPT !.pc = "check"], "flow", versions[edit[e].version].flow))

\* Of the validation, which FlowPublication has, the rule on the definitions.
CheckFlow(e) ==
  /\ edit[e].pc = "check"
  /\ LET good == edit[e].flow # {} /\ \A d \in edit[e].flow : definitions[d].status = "active"
     IN Looks(e, "check", IF good THEN [edit[e] EXCEPT !.pc = "snapshot"] ELSE Idle)

WriteSnapshot(e) ==
  /\ edit[e].pc = "snapshot"
  /\ Writes(e, "snapshot", [edit[e] EXCEPT !.pc = "current"])
  /\ versions' = [versions EXCEPT ![edit[e].version].snapshot = edit[e].flow,
                                 ![edit[e].version].snapshotAt = edits]
  /\ UNCHANGED <<categories, nodeTypes, definitions, reports, past>>

WriteCurrent(e) ==
  Reported(e, "current", Idle, [status |-> "published", current |-> edit[e].version, draft |-> 0])

Archive(e) ==
  \E r \in DOMAIN reports : Starts(e, [pc |-> "archive", id |-> r])

WriteArchived(e) ==
  Reported(e, "archive", Idle, [reports[edit[e].id] EXCEPT !.status = "archived"])

\* The edits of data sources leave the builder's documents alone.
BuilderNext ==
  \/ SourceNext /\ UNCHANGED builderVars
  \/ CreateNodeType \/ UpdateNodeType \/ UpdateCategory \/ CreateAsset \/ UpdateAsset
  \/ \E e \in Editors :
       \/ CreateDefinition(e) \/ ReadDefinition(e) \/ Usage(e) \/ ResolveCategory(e)
       \/ ResolveType(e) \/ WriteDefinition(e)
       \/ SaveFlow(e) \/ CopyVersion(e) \/ PointDraft(e) \/ WriteFlow(e)
       \/ Publish(e) \/ ReadDraft(e) \/ CheckFlow(e) \/ WriteSnapshot(e) \/ WriteCurrent(e)
       \/ Archive(e) \/ WriteArchived(e)

-------------------------------------------------------------------------------
\* "Cannot archive this node definition while report types or versions still
\* reference it": a draft or a snapshot names an archived definition only if it
\* was written after the references had been looked for, or if the definition
\* was archived by the plain update, which does not look (builder-assets.service
\* :511), or from the first.  A definition that was archived when it was read is written back as
\* archived without a further look.
ArchivedUnused ==
  \A d \in DOMAIN definitions, v \in DOMAIN versions :
    LET looked == past.definition[d].unused
    IN definitions[d].status = "archived" /\ looked # 0 =>
         /\ d \in versions[v].flow => versions[v].flowAt > looked
         /\ d \in versions[v].snapshot => versions[v].snapshotAt > looked

\* "Node type X belongs to builder category Y, not Z": the keys of a definition
\* are those of a category and of a type in it, unless one of the two was
\* changed after it was looked up or the plain update has set them.
KeysBelong ==
  \A d \in DOMAIN definitions :
    LET seen == past.definition[d]
        def == definitions[d]
    IN seen.category # 0 =>
         /\ def.category = categories[seen.category].key \/ past.category[seen.category] > seen.at
         /\ def.type # "" =>
              /\ seen.type # 0
              /\ \/ /\ def.type = nodeTypes[seen.type].key
                    /\ def.category = nodeTypes[seen.type].category
                 \/ past.type[seen.type] > seen.typeAt

\* "replace DTO ports when the provider is registered so DB matches execution"
\* (builder-assets.service:301), unless the plain update has set them.
PortsMatch ==
  \A d \in DOMAIN definitions :
    past.definition[d].category # 0 /\ definitions[d].provider \in DOMAIN Contract =>
      definitions[d].ports = Contract[definitions[d].provider]

\* An edit of a definition changes what its body names, the ports with the
\* provider, and the keys of a category or type that goes by another key now;
\* anything else only if another edit came between its read and its write,
\* which puts back what it has read.
DefinitionsKept ==
  [][\A d \in DOMAIN definitions, field \in AssetFields :
       definitions'[d][field] # definitions[d][field] =>
         \/ edit' = edit
         \/ \E e \in Editors :
              /\ edit[e].pc = "definition" /\ edit[e].id = d
              /\ \/ field \in edit[e].body
                 \/ field = "ports" /\ edit[e].next.provider \in DOMAIN Contract
                 \/ field = "category" /\ LET c == edit[e].seen.category
                                          IN \/ definitions[d].category \in {categories[c].key, categories[c].slug}
                                             \/ edit[e].read < past.category[c]
                 \/ field = "type" /\ LET t == edit[e].seen.type
                                      IN t # 0 /\ \/ definitions[d].type \in {nodeTypes[t].key, nodeTypes[t].slug}
                                                  \/ edit[e].read < past.type[t]
                 \/ edit[e].read < past.definition[d].changed
    ]_definitions

===============================================================================
