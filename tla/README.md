# roya-api in TLA+

TLA+ models of the NestJS/MongoDB service in `src/`, which sells analyses made
of AI-generated reports: what happens between the request that asks for an
analysis and the reports that answer it, who is charged for it, how the flow
behind a report runs and what its nodes compute, how that flow is edited and
published, and how the catalogues and credentials it depends on change.  TLC
checks the models on small instances; TLAPS proves the theorems listed below for
every value of the constants.

## 1. The system

| Component | State it keeps | Operations | Module |
|---|---|---|---|
| Analysis pipeline: `analyses.service.ts`, `reports.service.ts`, `analysis.processor.ts` | `Analysis.status`, `Report.status`, `Report.executionTries`, the Bull queue `analysis-queue` | create, regenerate and delete an analysis, re-run a report, process a job | `AnalysisPipeline`, `RunLedger` |
| Public API: `standalone-api.controller.ts` | the same documents | create a report, read it | `AnalysisPipeline` |
| Quota: `subscriptions.service.ts` | subscriptions, monthly usage counters | check and increment, upgrade, cancel | `UsageQuota` |
| Flow execution: `dynamic-flow-execution.service.ts`, its executors and output mapper | local to one run | run the snapshot of a published flow | `FlowExecution`, `NodeExecution` |
| Output schemas and mapping rules: `dynamic-flow-output-schema.util.ts`, `dynamic-flow-mapper.service.ts` | local to one run | the fields a model is asked for, the rules of a mapper | `NodeExecution` |
| Data source providers, contracts and registries: `modules/providers/` | tables filled at start-up | execute one provider for a node | `SourceProviders` |
| Logo picker and other clients: `modules/clients/` | none | choose a logo, call a service | `LogoPicker`, `SourceProviders` (the outcomes) |
| Report types: `report-types.service.ts` | types, versions, snapshots | create, save, publish, archive, duplicate, remove | `ReportTypeLifecycle` |
| Flow validation and snapshot: `dynamic-flow-graph.validation.ts`, `report-type-flow-snapshot.ts` | local to one publish | the issues of a flow, a path to each terminal | `FlowPublication` |
| Connections and OAuth: `connections.service.ts`, `oauth.service.ts`, `oauth-config.registry.ts` | connections with their tokens, the state of round trips, cached configurations | create, update, remove, authorize | `Connections` |
| Data sources: `data-sources.service.ts`, `service-integrations` | rows with unique slugs and keys | create, update, remove, plainly and as catalogue rows | `DataSources` |
| Builder assets and node types: `builder-assets.service.ts`, `node-types` | node definitions, node types, categories | create, update, archive | `BuilderAssets` |
| Analysis types: `analysis-types.service.ts` | types with the report types they attach | create, update, publish, unpublish, remove | `AnalysisTypes` |
| Stripe billing: `stripe-webhooks.controller.ts` | invoices | webhooks | not modelled |
| Accounts, API keys, organizations | users, organizations, keys | register, create, revoke | not modelled |
| Seeder, scripts, Docker and Jenkins files, Postman collection, `specs/` | none | none at run time | not modelled |

How they interact:

* `AnalysesService.create` checks that the report types are PUBLISHED, calls
  `SubscriptionsService.checkAndIncrement` once per type, inserts the analysis and
  its reports, adds a job and marks the analysis RUNNING.
* The Bull processor takes the job, loads the QUEUED reports of the analysis and,
  for each, calls `DynamicFlowExecutionService.runPublishedFlow`, which follows
  `ReportType.currentPublishedVersionId` to a snapshot, loads a connection for each
  provider that the snapshot names, and runs its nodes; the outcome is written by
  `ReportsService.applyDynamicFlowExecutionUpdate`.
* A source node calls the connector registered for its provider, with the inputs
  of its ports and the organization's connection; a transform runs its mapping rules
  on what arrived; an AI node asks a model for the fields of a schema; a terminal's
  payload becomes the cells of the report.
* An OAuth round trip starts with a configuration read from a data source, leaves
  its state in memory, and ends in a connection with tokens for that data source.
* A publication validates a draft against the node definitions, whose categories,
  node types and providers are references into the other catalogues; an analysis
  type attaches published report types; removals look for what still refers to
  their document.
* The event stream of an analysis polls `Analysis.status` until it is COMPLETED or
  FAILED.  All components share state only through MongoDB documents, the queue in
  Redis, and a few in-process tables (OAuth states, provider configuration).

What is hard: nothing is done in a transaction, so every `await` is a point where
another request, the worker, or a second process may change what was just read,
and where a failed call or a dying process leaves the rest undone.  Bull puts the
job of a dead process back once.  Within a run, values are JavaScript objects
that nodes share and may change under each other.  `PROJECT.json` lists these
hazards one by one, each at its line, with the properties that watch it.

## 2. The modules

`AnalysisPipeline` has one action per awaited operation of the handlers and of the
processor.  `request[c]` is the handler a caller is in: `reports` (documents still to
write, then the job to add) and `mark` (RUNNING still to write).  `worker[w]` is
the job of a process: `load`, `next`, `run`, `read`, `push`, `complete` and `fail` follow
`processAnalysis`, `processReport` and `applyDynamicFlowExecutionUpdate` line by line.
A worker has one job at a time, as the processor declares no concurrency; several
workers are several processes.  `RequestFails`, `JobCallFails`, `StartFails` and `ApplyFails`
are a call that throws at each place, with the catch block it lands in.  With `LostAcks`
the write of a report's outcome (`ApplyFails`) may be applied although it reports an error; at the
other places a call that throws has done nothing.  `Crash` is the death of a process,
after which Bull returns the stalled job to the front, once.  What a flow computes is
abstracted to its outcome: completed, required failures, or thrown.  The public API
looks a report type up by `isActive`, a field its schema no longer has, so
`CreateStandalone` is about documents that still carry it.

`RunLedger` is what the pipeline promises to whoever asks for a report: a report
asked for is pending until it is answered, answer and entry in the ledger appear
together, and an answer is taken back only as a request does it.  The ledger does not say when
a request may come: it allows one at any time, so that the pipeline is free to take an answer back
where one arrives.  `AnalysisPipeline` implements
it under the refinement mapping at its end.

`UsageQuota` is one organization's subscriptions and counters, because every query is
scoped to one organization.  The check and the increment are separate steps; the
month, read from the clock before the check, may turn at any point.  `granted` and
`forfeited` are history variables: which requests the charges were for.  A limit of 0
lets one report through, as the code does, for a missing usage document passes.

`FlowExecution` is one run.  `SortNode` and `SortRest` are Kahn's algorithm as
`topologicalOrder` writes it, appending the nodes of cycles at the end; then one step per
node, in which it is skipped or failed because of a required input, executed, or ends the
whole run because two values meet on one port of a mapper; then the summary.  A
connection is a record, so two nodes may be connected twice; the flows of `flow_runs` have no such
pair (those of `flow_publication` have), the theorems of section 5 cover it.

`NodeExecution` puts the values into that run.  `heap` is the memory of objects, so that an
object that two nodes hold is one object: `outputs`, lists and other objects refer to it by address, and a
mapper's `setPath` writes into what came in, as the code does, not into a copy.  `Arrivals` is
what meets at a node's ports, in the order of the connections (`Chosen` keeps the elements of a sequence
at some of its places); each executor (input, source,
transform with its rules or as a merger, schema, AI, terminal, the rest) is an operator that
tells the outcomes it can have; `asked` and `tries` keep what a model was asked for and how
each node ended; the last step turns the terminals' payloads into the cells of the report.  Its
steps conjoin the steps of `FlowExecution` with what happens to the values, and `FlowSpec`
states that what results is a behaviour of `FlowExecution`.

`SourceProviders` is `execute` of the eight providers: the set of outcomes that a call can have,
given the node's inputs and the connection, with what each provider does about a failed or
empty answer for required and optional nodes; how a node names its provider, by slug, by class
or in the legacy way; and the contracts that declare the ports.  The key of a connection may be one that cannot
be decrypted any more (`Unreadable`): then the provider throws, whether the node is required or not.  `LogoPicker` is the choice among the
candidates that a page offers.  Words and patterns in a page are sets of named features
(`"header"`, `"ad"`, `"malformed"`), the scores are those of the code, and a page without a
candidate above the threshold gives none.

`FlowPublication` is what a publish does between reading the draft and saving it.  Each pass of
`validateDynamicFlowGraph` is a step, in the order of the code, except that the searches have
a step for each turn of their loops: `Reach` for reachability, `StartDfs`, `FollowLink` and
`ReturnDfs` for `hasCycle`, whose recursion is the variable `stack`, and `StartPath`, `ExtendPath`
and `EndPath` for `bfsPath`.  As in the code, a pass goes on whatever the earlier ones have
found, so the searches also work on flows with unknown nodes.  The rules of a pass are
operators named for what they decide (`TypesFit`, `KindsFit`, `CategoriesFit`, `Overloaded`); a node's
`Category` is its own or, failing that, the one of its definition.  Reachability
starts from `Roots`, the entries by their definitions (658), the path search from `EntryIds`, the entries by
their nodes, in the order of the nodes array (`Entries`).
`Snapshot` maps what was published to a flow of `FlowExecution`, and `Run` is an instance of that
module, at a moment at which every node has completed: `PublishedRuns` joins the two.

`ReportTypeLifecycle` has a copy of the type in each request, as the handlers read the
type once.  A Mongoose `save()` writes only the fields that were assigned a new value
and fails if the document is gone.  Versions are referred to by their place in
`versions`, which keeps deleted ones with `there = FALSE`.  A flow is a model value: one
of `Valid` passes the validation that `FlowPublication` describes.  `LoadSnapshot` and `EndRun` are
the run of an analysis that follows the pointer.

`DataSources` has the edits of the rows query by query: `edit[e]` is the request an editor is
in, with what it has read.  Plain `update` writes the whole row back as it was read but for the
body; `updateCatalogRow` writes the fields of its body.  `stamp` is history: when a row changed,
when its provider was written and last checked, and the names it has answered to.  The
variable `connections` is declared here because a removal counts them.

`Connections` extends it with the requests for connections.  `states` is the state store of
round trips and `configs` the cache of configurations, both in memory: `Restart` clears them, `Expire` is
the timer.  `Callback` deletes the state before `Exchange`; then `findByProvider` looks by the slug that
was copied into a connection (`FindBySlug`) and, failing that, by the row that answers to it now
(`FindSource`, `FindByDataSource`); `create` (`Resolve` to `InsertConnection`) has a check and an insert apart; and
`QueryFails` can end a request anywhere.  A start may ask for any of the `Scopes`: POST refuses `system`, GET
passes on what its query says.  From there on only a userId decides where connections are looked for
(`Sought`), and a scope that the schema does not know ends in `InvalidScope`.  `trips` keeps each round trip's URL and the clients its
code went to.

`BuilderAssets` extends `DataSources` with node definitions, node types and categories, each a
document with references by key or slug into the others, and with the report types and versions whose flows
use definitions.  Its checked endpoints look for uses and owners before they write; the plain
PATCH does not.  `AnalysisTypes` is the last of the catalogues and composes them: all edits go
through the one set `Editors`, so any two of them can interleave.

## 3. The runs

Every bound is a constant of the module it belongs to; the cfg files name their values.
All runs switch the deadlock check off, because a behaviour ends when its bounds are used
up and every request and job is over.

| Run | Instance | What it shows |
|---|---|---|
| `pipeline_failures` | 1 analysis, 2 reports, 2 callers, 1 worker, 3 requests, 1 crash, 1 failed call, lost acknowledgements | `FinishedHasTry`, `FinishedStays`, and `LedgerKept`, the refinement of `RunLedger` |
| `pipeline_answers` | 1 analysis, 1 report, 2 callers, 2 workers, 3 requests, no failures | `NoLostWork`: two racing regenerations or re-runs strand nothing; `LedgerAnswers`: each report gets an answer |
| `pipeline_standalone` | 2 analyses with a report each, 2 callers, 2 workers, 4 requests of the public API, re-run and delete | `RunningIsBusy`, `StreamEnds` |
| `pipeline_running` (violation) | 1 analysis, 1 worker, 1 request | `create` adds the job, a worker completes the analysis, `create` then writes RUNNING for good: `RunningIsBusy` fails |
| `quota_plans` | 2 callers, 2 types, 2 plans with limits 0, 1 and none, 3 requests, 2 months, 2 subscriptions | `OvershootBounded`, `ChargesBalance` |
| `flow_runs` | every flow over 4 nodes: source, mapper, AI node and terminal on six possible connections, each required, optional or absent, a cycle among them; and flows with two terminals | `InputsFirst`, `EachNodeOnce`, `ExactCascade`, `ResultHonest`, `RunEnds` |
| `flow_values` | flows of 7 nodes in five families: eight lists of mapping rules behind a scraper that may fail; a model with one schema, with two, and with one that shares its port; two sources, of several providers, with keys that can be decrypted or not, merged into the fields of a schema; a logo from every combination of the listed JSON-LD, image and SVG candidates; a profile with and without its media | `FieldsReachReport`, `SourceFailureExplained`, `LogoRight`, `OutputsKept`, and `FlowSpec`, the refinement of `FlowExecution` |
| `flow_publication` | a source, two transforms (mapper, merger or custom) and a terminal on every subset of 8 connections; and a good draft with one of 23 things wrong with it | `CycleFound`, `UnreachedExplained`, `TerminalPaths`, `PublishedRuns`, `PublishEnds` |
| `lifecycle_versions` | 2 types, 2 callers, one of which publishes, 2 good flows and a bad one, 6 requests, 1 failure | `PublishedRunnable`, `NeverStuck`, `CurrentSnapshotStays` |
| `lifecycle_immutable` (violation) | 1 type, 2 callers, 4 requests | a save that read the draft before a publish changes the published version: `PublishedImmutable` fails |
| `connections` | 1 or 2 data sources with OAuth clients, 2 callers, 1 editor with one edit, 2 round trips of any of four scopes; the data sources and the other requests, failed queries and restarts are 4 together | `RoundTripSound`, `TokensBelong`, `LeftoverExplained` |
| `catalogue` | 2 editors, 3 steps before the last edit begins, 2 data sources, 2 definitions, 2 report types, 1 analysis type, 1 analysis | `ProviderUnique`, `ReferencesExplained`, `EditsKept` |

Why the bounds are enough: the races of this code are between two actors, a request
and a request, or a request and a worker, so two callers are needed and a third would
repeat them; the proofs of section 5 remove the bounds for the properties proved there.  Three
pipeline requests are a creation and two that race with each other and with its job;
one crash and one failed call in the same behaviour already cover a call that fails in
the repetition of a stalled job.  Two months and two subscriptions are the first numbers
at which a stale month or plan differs from the current one.  Four nodes are what a chain
with a skipped node in the middle, a diamond and a cycle with a node behind it need, for running a
flow as for validating it, which also sees two connections between one pair; the single
defects raise every code of the validator.  Seven nodes are two sources, an input for
them, a transform, a schema, a model and a terminal: what any value passes on its way from
an input to a report.  Six lifecycle requests are create, save, publish, save and two more that
race with them.  Two round trips and two data sources are a code that comes back for a
client that is no longer there; with one data source there are three other requests, failures or restarts,
which is a pending connection, its removal and a new attempt, and with two, two; two editors, the second of which begins while the first is
between its check and its write, are every check-then-act of the catalogue.  `connections` is
symmetric in its callers and `catalogue` in its editors; no liveness is checked there.

Conditions in the properties, and why they are there:

* `NoLostWork` and `RunningIsBusy` are stated for behaviours without crashes and failed
  calls.  With them the code does strand a report (a crash after the GENERATING write, a
  failed `queue.add`), and no doc says that it should not.
* `LedgerAnswers` is checked without failures for the same reason.
* `FinishedStays` is about one worker process.  With two, one may run a report that the
  other has just finished.
* `RunningIsBusy` holds for the analyses of the public API, which are created in RUNNING
  and never marked afterwards; for `create` it fails, which is `pipeline_running`.
* `PublishedRuns` leaves out two kinds of transforms that a published flow may feed twice on
  one port and that throw in every run: those with a port without a cap, and those that
  validation takes for mergers by their shape (a single input `in`) while execution, which
  goes by slug or node type, takes them for mappers.
* `UnreachedExplained` shows that the messages about unreachable nodes never stand alone: a node
  that nothing feeds counts as an entry, so an isolated terminal is reported only by its
  missing input.
* `CurrentSnapshotStays` is about one publisher at a time: two concurrent publishes of one
  type write the same version.  `PublishedRunnable` is proved without that condition.
* `NeverStuck` leaves out requests that died: an error between the insert of version 1 and
  the write of the pointer leaves a type that cannot be saved any more.
* `FieldsReachReport` is about flows without cycles whose mappers leave alone what they are given
  (`Acyclic`, `ObjectsStay`): a rule may put something else into the object of a schema, an answer or a
  list before it has reached the report.  Exceptions: a model is not asked for the fields of a schema that
  shares its port with another value, or if something else that arrives has an `outputSchema`; a
  terminal takes a field of the answer named `result`, `data` or `schema` for the whole, and one chart
  that is the only field and has the name of a port for its envelope; and in a merger, the fields after an
  optional source that brought nothing are filled from the wrong source.
* `SourceFailureExplained`: a node that names its provider by the legacy `dataSourceSlug` never
  completes (section 4); an optional Browserless node fails like a required one; and so does a node of a provider
that uses a stored key, if its connection has one that cannot be decrypted.  It is about flows without
  cycles, as validation lets through: on a cycle, what arrives at a node may change after it has run.
* `LogoRight`: JSON-LD that names no plausible logo lowers the threshold for every other candidate.
* `OutputsKept`: a rule whose target lies inside an object that came in, or that an earlier rule has put
  there from what came in, changes the output of the node that made it, also for the other nodes that
  read it.
* The designs of `NodeExecution` (`Configured`): one wire per connection; the keys of a schema are distinct;
  the objects within the parameters of an analysis are in the heap from the start.  `LabelAssumption`
  says that the labels a model may put for two keys differ, and that none is itself a key or the
  name of a port, as `key (type)` is not.
* `RoundTripSound`: two starts that read the configuration at the same time leave the later one in
  the cache, which the earlier round trip then uses.
* `TokensBelong`: a slug that has passed from one data source to another leads tokens to the new one;
  and a round trip started with the scope `system`, or with one that does not exist, finds the connection
  of the organization and stores its tokens there (`Serves`; section 4).
* `LeftoverExplained`: check and insert of a connection are apart, and connections of scope
  `system` are compared with those of the organization or of a user, so both leave duplicates; a
  data source may be deleted between the check and the insert; a round trip that stops
  between the insert and the tokens leaves a pending connection, which blocks the next one
  until it is removed.  The connection that blocks serves the scope of the round trip, as for `TokensBelong`.
* `ProviderUnique`: `createCatalogBuilder` without `implClass` takes the key for the provider and
  does not look whether a row has it; the other checks and their writes are apart; and an
  `update` that puts back the name it read does not look again, so the check that counts for it
  is the one that gave the row that name.
* `EditsKept`: `update` of a data source and `updateNodeDefinition` write back everything as it was
  read, and so undo an edit that came in between.
* `ReferencesExplained`: it names who may leave a reference without its document, the races between a
  check and its write among them; a report type that is republished with another version between
  the check and the publication of its analysis type needs more steps than `catalogue` has and is
  covered by the theorem only.  Besides, the plain PATCH of a builder asset bypasses the checks of uses, keys and
  ports; keys of node types and categories change under the definitions that name them;
  the update of an analysis type takes any status and any report types; and analyses
  that are RUNNING do not keep their type from removal.

Fairness: weak fairness of each handler's and each worker's next step in
`AnalysisPipeline` (the event loop resumes every `await` that has settled and Bull delivers
waiting jobs to idle workers), of the run in `FlowExecution` (one asynchronous
function) and of the passes in `FlowPublication` (one synchronous call).  Nothing is assumed of
new requests or failures.  The other modules have no liveness property: a request of
theirs is a straight line of queries, which ends or fails.

Each property of a passing run has a mutant, an operator with a plausible bug in it, under
which TLC finds that property violated, and the properties made of several parts have one for
each of several parts; they are defined next to the operator they replace.

## 4. Disagreements with comments and docs

The two runs that expect a violation are disagreements between the code and what it
says of itself; `findings` in `PROJECT.json` quotes both sides: RUNNING is written after the
job is queued; and a published version can still be changed by a late save.

Known limitations that the models show or that their properties step around, without a
run of their own:

* The trigger of a re-run is never `regenerate`: the processor derives it from the report's
  status, which the handler has set to QUEUED already (`analysis.processor.ts:92-95`).
* The read and the push of a try's number are apart (`reports.service.ts:188-215`), which is safe
  with one worker and no regeneration in between: that is the theorem `OneWorkerNumbersTries`.
* `cancel` updates the first subscription it finds, which may be one that is cancelled already
  (`subscriptions.service.ts:52`).
* "OAuth connection does not support system scope" (`oauth.controller.ts:51`) holds of the POST start only.
  GET `/auth/oauth/:providerSlug` (69-92) passes the scope of its query on as it is: with `system` the
  round trip looks for a connection without a userId, so it finds that of the organization
  (`connections.service.ts:153-155`) and stores its tokens in it, or creates one of scope `system`, which no
  later search finds.  `StartCached` and `StartRead` take every scope, and `Serves` is what is left of the claim.
* The table of `builder-data-source-providers.ts` "exists purely for backward compatibility with snapshots
  published before node definitions carried a `providerKey`" (3-4), but it yields the names of
  classes, and connectors are registered by slugs (`connector.registry.ts:118-165`): every node that needs
  the table fails.  `LegacyProvider` and `ProviderSlug` do as the code does; `FailureExplained` counts the name
  among the reasons.
* The exceptions listed in section 3 for `FieldsReachReport` to `ReferencesExplained`.

## 5. What is proved

Each theorem holds for every value of the constants that satisfies the assumption named with its
module.  A property is seldom inductive as it stands; `IInv`, or an invariant named for
what it is about, is what is shown to be kept by each action, and the property follows
from it.  TLC checks every property below on the runs of section 3, too.

`AnalysisPipeline_proofs`, from `PipelineAssumption` (every report belongs to an analysis, bounds are
naturals), for any number of analyses, reports, callers and workers:

* `Typed`, `TriesRecorded` (`FinishedHasTry`).  The processor uses fields of its job that are set only in
  some of its steps; `InHand` says which: a request or job beyond its first step has an
  analysis, a job that runs a report has its document, and no worker lists a report that
  does not exist.
* `PipelineImplementsLedger` (`LedgerKept`).  `ReportStep` sorts every step by what it does to one
  report; each kind maps to a step of `RunLedger` or to a stutter.
* `NoReportIsStranded` (`NoLostWork`).  `WorkInv` adds what a worker or a handler is still holding: the
  reports that a worker has listed and not yet dealt with (`Holding`), and those for which
  a handler will still add a job (`Writing`).
* `RunningIsTrue`: `RunningIsBusy` under `JobFirst`, that only the public API, re-runs and deletions are
  used.  `NoMark` says that then nobody is about to write RUNNING; without it the violation of
  `pipeline_running` is what remains.
* `AnswersStand`: `FinishedStays` with one worker, whose list names only reports that were queued when it
  was made and that nobody else can finish (`ListInv`).
* `OneWorkerNumbersTries`: with one worker and without regeneration, `TriesNumbered`: the comment on
  `appendExecutionTry` under the conditions it needs, because a regeneration may clear the
  tries between the read and the push.

`UsageQuota_proofs`, from `QuotaAssumption` (finitely many callers, `Ceiling` bounds every limit):

* `Typed`; `OvershootIsBounded`: the counter alone does not tell how many requests have passed the
  check, so `AllRoom` adds them: counter plus passed requests is at most ceiling plus
  callers as long as one has passed.
* `ChargesAreBalanced`, with `HeldByAll`: what a request has still to charge and what it has charged
  are disjoint.

`FlowExecution_proofs`, from `FlowAssumption` (finitely many nodes and connections), for any flow:

* `Typed`, `InputsComeFirst`, `NodesOnce`.  `SortInv` is the loop invariant of Kahn's algorithm: `inDegree[m]`
  counts the connections into m from nodes that are not in the order yet, and queue and order
  are disjoint and hold exactly the nodes that miss no input.  `OrderInv` says that every node of
  the order comes after those that feed it, as long as there are no cycles, and
  `TriesInv` carries that over to the tries.
* `CascadeIsExact`: a node completes exactly if no required chain joins it to a node that
  failed by itself.  `Affected` is the least set closed under required dependents: the nodes
  that did not complete are such a set, which bounds it from above; and a first node in the order that
  did not complete but is outside some such set cannot be.
* `ResultsAreHonest`, from `DoneInv`, which ties branches, failures and data to the tries.

`NodeExecution_proofs`, from `FlowAssumption`, `DesignAssumption` (section 3: the wires of a design are the connections
of its flow, one each) and, for the last theorem, `LabelAssumption`, for any designs:

* `ValuesFollowFlow` (`FlowSpec`), the refinement step by step: each executor is an `Execute` of
  `FlowExecution`; two wires at one port of a mapper that carry a value are two connections from
  nodes that completed, so what `Refuse` refuses is a `Clash`; and the data that are chosen by
  value are one of the choices left open there.  With it, all that is proved of `FlowExecution` holds of
  the run with values.
* `NamedLogosFirst` (`LogoRight`): JSON-LD gives 130 points, and the sums of the scoring rules bound every
  other candidate below that.
* `SourcesAreExplained` (`SourceFailureExplained`).  Of each provider: without an answer there is an
  `Excuse` (`FailureExcused`), an answer has at its ports what the contract says (`AnswersMatch`), and each port of the
  contract can come (`PortsCanCome`).  That a try could be explained when it was made is not enough, as the
  property looks at the ports at every later time: `CallKept` says that they are what they were as long as the nodes
  that feed them are, and by `FedBefore` these are dealt with before, and only once.
* `NodesAreTyped` (`NodeTypeOK`).  `HeapInv` says that every reference in an object or at a port leads to
  an object; each executor is shown to keep it, and `GetFound`, `SetFound` and `RulesFound`
  turn the recursions along paths and lists of rules into statements about each step.
* `OutputsStay` (`OutputsKept`): by induction over the rules (`RulesKeep`), the keys of the mapper's own object are
  the ports and the targets of earlier rules, so a `setPath` that starts at another key makes every
  object it passes, and one with a single step writes the mapper's own object only.
* `FieldsArrive` (`FieldsReachReport`).  Nothing that a node dealt with holds, and nothing that came in at its
  ports, changes any more (`DealtStays`, `ArrivedStays`), so that it is enough to follow a value to the
  node where it is used.  `AskedInv`: a schema node leaves its fields where the AI node looks for them.
  `LeftInv`: what an AI node, a merger and a terminal leave (`AnswerLeft`, `MergerLeft`, `TerminalLeft`).
  `Reported`: the last step finds it there, below as many envelopes as there are (`ListLevels`), and puts it
  under the keys of the schema (`ListPicked`).  For a merger, the i-th value is that of the i-th wire as
  long as no wire before it came without one (`PlacesKept`).

The recursive definitions are functions on the naturals, and an equation that defines such a
function is known to have a solution only by induction.  `AllNaturals` is that principle for a set
instead of a predicate, from the pigeonhole theorem of the library: a set with 0 and the successors of its
elements cannot miss n, or else +1 would map its part below n into itself without 0.

`FlowPublication_proofs`, from `PublicationAssumption` (finitely many connections), for any draft and catalogue:

* `Typed`, `CyclesAreFound`.  `DfsInv` is the invariant of the three-colour search: the stack holds
  the grey nodes, once each, and is a chain of connections; a black node feeds only
  black ones, and no cycle passes through them.  So a grey target closes a cycle, and
  when every node is black there is none.
* `UnreachedIsExplained`, from `PassInv` (a pass that is over has raised everything it looks for) and
  `ReachInv`: the nodes not reached are a set in which each is fed by another.
* `TerminalsHavePaths`.  `SearchInv` says that the queue of `bfsPath` holds paths, and that what is
  fed by a node already left behind is seen or at the end of a path in the queue; so the queue cannot run
  empty before the target has come up, in a flow without cycles.
* `PublishedFlowsRun`: what passes validation is a flow in the sense of `FlowExecution` (`SnapshotTyped`,
  `SnapshotAcyclic`) in which no mapper is fed twice on a capped port (`NoClash`).

`ReportTypeLifecycle_proofs`, from `LifecycleAssumption` (publishers are callers,
valid flows are flows, `Empty` and `None` are neither flows nor types, the bounds are naturals), for any types, callers,
flows and failures:

* `Typed`, `PublishedCanRun` (`PublishedRunnable`), `DraftsAreReachable` (`NeverStuck`).  `IInv` says what the
  handlers' stale copies of a type may still write: pointers lead to versions of the same type,
  a published one has a snapshot of a valid flow, and a type with versions but without a
  pointer has a request that is about to set it (`PointerComing`).
* `SnapshotsAreImmutable` (`CurrentSnapshotStays`), with one publisher: `DraftInv` says that no draft
  pointer, in the type or in the copy of the publisher, is a version that has been published.

`Connections_proofs`, from `ConnectionAssumption` and `CatalogueAssumption`, for any callers, editors, slugs, round trips, failures and restarts:

* `RoundTripsAreSound`.  The property is about codes that have been exchanged; `IInv` adds those on
  their way: a state that can still be called back, or a code in the hands of a caller (`NewCode`), has
  not been used and is nobody else's, and a configuration in the cache or in a caller's hands is
  one that a round trip was sent off with (`Vouched`).
* `DocumentsAreTyped`, `TokensAreAtHome` (`TokensBelong`).  `SourceInv` says that `stamp` remembers every name that
  a row has had; `ConnInv`, that what a caller has found by a slug is a row that has answered
  to it, wherever the caller is between finding and writing.
* `LeftoversAreExplained`.  `Standing` says of each connection who was between check and insert when
  it was made; `OpenInv`, that a round trip is carried by one of its state, its code, its caller or the
  tokens, so that a pending connection whose trip nobody carries any more was left by it.

`AnalysisTypes_proofs`, from `CatalogueAssumption`, `BuilderAssumption` and `TypeAssumption` (documents and bodies
have the fields that the DTOs and schemas give them), for any editors and documents of the three catalogues:

* `ProvidersAreUnique`.  `Pending` says of the name that an editor is about to write what `CheckedApart`
  says of the names of rows; that needs `RowShape`, that no check is later than the name
  it was for.
* `ReferencesAreExplained`.  What the history variables know of a document has to be known of the one
  that a request is about to write: `BuilderInv` for definitions, node types and categories, `FlowInv` for
  the versions that name definitions, and `TypesInv` with `AnalysesInv` for analysis types and what they attach.
* `UnnamedStays` (`EditsKept`), from `RowsInv` and `BuilderInv`: a request holds its document as it was
  at the time of its read, which is remembered.

Only model-checked: the liveness properties (`LedgerAnswers`, `StreamEnds`, `RunEnds`, `PublishEnds`), since fairness
and ENABLED are beyond the prover, and the two violations.  Every safety invariant and action
property of a passing run is stated by a theorem, three of them (`FinishedStays`, `RunningIsBusy`,
`CurrentSnapshotStays`) under a condition on the constants that the theorem names and the run meets.

## 6. What is not modelled

* Wording of errors, logging, pagination, the read-only endpoints, authentication and permissions.
* In `NodeExecution`: numbers and booleans, which the code treats as texts but for the type of
  their cell; the traces of a run, their texts and times, and the truncation of payloads to
  MongoDB's limit.  What a rule or an input puts in the place of a schema (a text, an object with other
  things in it) counts as a schema without fields.  A rule with an empty target writes the property
  `undefined`, as `setPath` does.
* In the pipeline, how a run fails before its first node (its first queries, the key of the OpenAI connection,
  `dynamic-flow-execution.service.ts:167-168`): it is one of the ways in which a run is "thrown".  `create`
  inserts its reports with `Promise.all` (`analyses.service.ts:168`): that after one has failed the others
  are still inserted is left out; the analysis has failed for its caller either way, and no job is added.
* Two ports of one definition with the same key (`dynamic-flow-graph.validation.ts:220`).
* In the catalogues: what normalization does to a body (names are trimmed, an empty slug is made from the name),
  so bodies are taken as normalized and without empty names; an empty `providerKey` counts as none, although the
  sparse index would index it; that only definitions of data sources have a provider whose ports are synchronized
  (`builder-assets.service.ts:306`) is taken from their having one.  The first save of a report type and its removal
  are in `ReportTypeLifecycle` only, so a removal that races with an attachment is not covered.
* What nothing calls: `preservePartialOutput`, `appendExecutionTry`, `markAsExpired`, `updateLastUsed`,
  `refreshTokenIfNeeded`, `findSecretLikeKeyInConfig`.
* Requests to third parties that no flow makes (`searchBrand`, `getBacklinks`, operations on S3
  other than the upload), and all that is pure I/O in those that it makes.
* `update` and `rename` of a report type, whose fields no other operation reads; icons, labels and
  the order of catalogue rows; analysis categories, single writes that nothing checks.
* Stripe's webhooks: no code writes `externalSubId`, by which they look for a subscription, and an
  invoice is inserted without the organization it would be listed by.  No event has an
  effect that another part can see, so a model would have nothing to say.
* Accounts, API keys and organizations: single reads and writes, but for `register`, whose four
  writes may stop half-way; the code states nothing about that state that a property
  could be compared with.  `Init` of `UsageQuota` is what a complete registration leaves.
* Seeder, scripts and deployment: nothing at run time.

## 7. Plan

Done: the pipeline and its ledger, the quota, flow execution with and without values, validation
and publication, the lifecycle of report types, connections with OAuth, the catalogues, and
the proofs of section 5, which state every safety property of the passing runs.  What is left:

* the composition of `UsageQuota` with `AnalysisPipeline`: charges against reports that were
  created, answered or lost.
