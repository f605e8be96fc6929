--------------------------- MODULE AnalysisPipeline ---------------------------
(***************************************************************************)
(* The path of an analysis from the HTTP handlers that create and re-run   *)
(* it, through the Bull queue 'analysis-queue', to the processor that runs *)
(* its reports and writes their outcome.                                   *)
(*                                                                         *)
(* Every await of a handler or of the processor is a step of its own, so   *)
(* that everything the event loop, a second process or the database may    *)
(* interleave with it does.  What a report's flow computes is abstracted   *)
(* to its outcome; the flow itself is the subject of FlowExecution.        *)
(***************************************************************************)
EXTENDS Naturals, Sequences, FiniteSets

CONSTANTS
  Analyses,         \* identities of analysis documents
  Reports,          \* identities of report documents
  AnalysisOf,       \* the analysis a report belongs to (Report.analysisId)
  Callers,          \* HTTP requests that can be in progress at once
  Workers,          \* processes with a Bull consumer (concurrency 1 each)
  Ops,              \* the endpoints in use, a subset of Endpoints
  None,             \* no analysis, no report
  LostAcks,         \* may a database write be applied and still report an error?
  MaxRequests,      \* bound: requests accepted in a behaviour
  MaxCrashes,       \* bound: worker processes that die in a behaviour
  MaxFaults         \* bound: failed calls to the database or to Redis

Endpoints == {"create", "standalone", "regenerate", "rerun", "delete"}

AnalysisStatus == {"absent", "draft", "running", "completed", "failed"}
Finished       == {"completed", "failed"}
ReportStatus   == {"absent", "queued", "generating"} \cup Finished

\* A report document as the processor's query returned it.
Doc == [id : Reports, status : ReportStatus]

ASSUME PipelineAssumption ==
  /\ AnalysisOf \in [Reports -> Analyses]
  /\ Ops \subseteq Endpoints
  /\ None \notin Reports \cup Analyses \cup Doc
  /\ LostAcks \in BOOLEAN
  /\ MaxRequests \in Nat /\ MaxCrashes \in Nat /\ MaxFaults \in Nat

VARIABLES
  analysisStatus,   \* Analysis.status, "absent" before the document exists
  reportStatus,     \* Report.status, "absent" before the document exists
  tries,            \* Report.executionTries
  queue,            \* waiting jobs, next one first
  request,          \* the handler each caller is in
  worker,           \* the job each worker is in
  used              \* what has been used of the three bounds

vars == <<analysisStatus, reportStatus, tries, queue, request, worker, used>>

Try == [number : Nat, trigger : {"initial", "regenerate"}, status : Finished]
Job == [analysis : Analyses, stalls : Nat]

RequestState ==
  [pc : {"idle", "reports", "mark"}, op : Endpoints \cup {"none"},
   analysis : Analyses \cup {None}, left : SUBSET Reports]

WorkerState ==
  [pc : {"idle", "load", "next", "run", "read", "push", "complete", "fail"},
   analysis : Analyses \cup {None}, stalls : Nat, todo : SUBSET Doc,
   doc : Doc \cup {None}, outcome : Finished, caught : BOOLEAN, number : Nat]

Idle == [pc |-> "idle", op |-> "none", analysis |-> None, left |-> {}]

Waiting ==
  [pc |-> "idle", analysis |-> None, stalls |-> 0, todo |-> {}, doc |-> None,
   outcome |-> "failed", caught |-> FALSE, number |-> 0]

ReportsOf(a) == {r \in Reports : AnalysisOf[r] = a}

Init ==
  /\ analysisStatus = [a \in Analyses |-> "absent"]
  /\ reportStatus = [r \in Reports |-> "absent"]
  /\ tries = [r \in Reports |-> <<>>]
  /\ queue = <<>>
  /\ request = [c \in Callers |-> Idle]
  /\ worker = [w \in Workers |-> Waiting]
  /\ used = [requests |-> 0, crashes |-> 0, faults |-> 0]

-------------------------------------------------------------------------------
(***************************************************************************)
(* The handlers.                                                           *)
(***************************************************************************)

\* Caller c takes up a request for endpoint op on analysis a, with reports
\* `left` still to be written.
Begin(c, op, a, left) ==
  /\ op \in Ops
  /\ request[c].pc = "idle"
  /\ used.requests < MaxRequests
  /\ used' = [used EXCEPT !.requests = @ + 1]
  /\ request' = [request EXCEPT ![c] =
       [pc |-> "reports", op |-> op, analysis |-> a, left |-> left]]
  /\ UNCHANGED <<reportStatus, tries, queue, worker>>

\* AnalysesService.create after the published check and the quota: the
\* analysis document is written in DRAFT.
CreateAnalysis(c, a) ==
  /\ analysisStatus[a] = "absent"
  /\ analysisStatus' = [analysisStatus EXCEPT ![a] = "draft"]
  /\ Begin(c, "create", a, ReportsOf(a))

\* The public API creates the analysis, with its one report, in RUNNING.  The
\* report types it finds have an isActive flag stored from before the schema
\* dropped that field.
CreateStandalone(c, a) ==
  /\ analysisStatus[a] = "absent"
  /\ \E r \in Reports : ReportsOf(a) = {r}
  /\ analysisStatus' = [analysisStatus EXCEPT ![a] = "running"]
  /\ Begin(c, "standalone", a, ReportsOf(a))

\* AnalysesService.regenerate up to its Conflict check.
BeginRegenerate(c, a) ==
  /\ analysisStatus[a] \notin {"absent", "running"}
  /\ UNCHANGED analysisStatus
  /\ Begin(c, "regenerate", a, ReportsOf(a))

\* ReportsService.regenerate up to its check that the report is FAILED.
BeginRerun(c, r) ==
  /\ reportStatus[r] = "failed"
  /\ UNCHANGED analysisStatus
  /\ Begin(c, "rerun", AnalysisOf[r], {r})

\* AnalysesService.softDelete is a single update.
SoftDelete(a) ==
  /\ "delete" \in Ops
  /\ used.requests < MaxRequests
  /\ used' = [used EXCEPT !.requests = @ + 1]
  /\ analysisStatus[a] # "absent"
  /\ analysisStatus' = [analysisStatus EXCEPT ![a] = "failed"]
  /\ UNCHANGED <<reportStatus, tries, queue, request, worker>>

\* The request stops being concerned with report r.
WroteReport(c, r) ==
  /\ request[c].pc = "reports"
  /\ r \in request[c].left
  /\ request' = [request EXCEPT ![c].left = @ \ {r}]
  /\ UNCHANGED <<analysisStatus, queue, worker, used>>

\* One of the documents create (in any order) or the public API inserts.
CreateReportDoc(c, r) ==
  /\ request[c].op \in {"create", "standalone"}
  /\ WroteReport(c, r)
  /\ reportStatus' = [reportStatus EXCEPT ![r] = "queued"]
  /\ UNCHANGED tries

\* Mutant of ResetReport: executionTries is set to nothing, not to no tries.
ResetReportToNothing(c, r) ==
  /\ request[c].op = "regenerate"
  /\ WroteReport(c, r)
  /\ reportStatus' = [reportStatus EXCEPT ![r] = "queued"]
  /\ tries' = [tries EXCEPT ![r] = None]

\* Mutant of ResetReport: the tries are cleared, the status stays.
ResetReportTries(c, r) ==
  /\ request[c].op = "regenerate"
  /\ WroteReport(c, r)
  /\ tries' = [tries EXCEPT ![r] = <<>>]
  /\ UNCHANGED reportStatus

\* updateMany changes the existing reports of the analysis one document at a
\* time; it also unsets executionTries.
ResetReport(c, r) ==
  /\ request[c].op = "regenerate"
  /\ WroteReport(c, r)
  /\ IF reportStatus[r] = "absent"
       THEN UNCHANGED <<reportStatus, tries>>
       ELSE /\ reportStatus' = [reportStatus EXCEPT ![r] = "queued"]
            /\ tries' = [tries EXCEPT ![r] = <<>>]

\* ReportsService.regenerate writes QUEUED whatever the status has become.
RequeueReport(c, r) ==
  /\ request[c].op = "rerun"
  /\ WroteReport(c, r)
  /\ reportStatus' = [reportStatus EXCEPT ![r] = "queued"]
  /\ UNCHANGED tries

\* Mutant of Enqueue: no second job for an analysis that has one.
EnqueueOnce(c) ==
  /\ request[c].pc = "reports"
  /\ request[c].left = {}
  /\ queue' =
       IF \/ \E w \in Workers : worker[w].analysis = request[c].analysis
          \/ \E i \in 1..Len(queue) : queue[i].analysis = request[c].analysis
         THEN queue
         ELSE Append(queue, [analysis |-> request[c].analysis, stalls |-> 0])
  /\ request' = [request EXCEPT ![c] =
       IF @.op \in {"create", "regenerate"} THEN [@ EXCEPT !.pc = "mark"] ELSE Idle]
  /\ UNCHANGED <<analysisStatus, reportStatus, tries, worker, used>>

\* Mutant of Enqueue: every endpoint goes on to write RUNNING.
EnqueueThenMark(c) ==
  /\ request[c].pc = "reports"
  /\ request[c].left = {}
  /\ queue' = Append(queue, [analysis |-> request[c].analysis, stalls |-> 0])
  /\ request' = [request EXCEPT ![c].pc = "mark"]
  /\ UNCHANGED <<analysisStatus, reportStatus, tries, worker, used>>

\* queue.add('process-analysis'); only create and regenerate go on to write
\* RUNNING.
Enqueue(c) ==
  /\ request[c].pc = "reports"
  /\ request[c].left = {}
  /\ queue' = Append(queue, [analysis |-> request[c].analysis, stalls |-> 0])
  /\ request' = [request EXCEPT ![c] =
       IF @.op \in {"create", "regenerate"} THEN [@ EXCEPT !.pc = "mark"] ELSE Idle]
  /\ UNCHANGED <<analysisStatus, reportStatus, tries, worker, used>>

MarkRunning(c) ==
  /\ request[c].pc = "mark"
  /\ analysisStatus' = [analysisStatus EXCEPT ![request[c].analysis] = "running"]
  /\ request' = [request EXCEPT ![c] = Idle]
  /\ UNCHANGED <<reportStatus, tries, queue, worker, used>>

\* A database or Redis call of the handler throws, or the process dies: the
\* client sees an error and the steps not yet taken are never taken.
RequestFails(c) ==
  /\ request[c].pc # "idle"
  /\ used.faults < MaxFaults
  /\ used' = [used EXCEPT !.faults = @ + 1]
  /\ request' = [request EXCEPT ![c] = Idle]
  /\ UNCHANGED <<analysisStatus, reportStatus, tries, queue, worker>>

-------------------------------------------------------------------------------
(***************************************************************************)
(* The processor.                                                          *)
(***************************************************************************)

\* Bull hands the next waiting job to an idle worker.
TakeJob(w) ==
  /\ worker[w].pc = "idle"
  /\ queue # <<>>
  /\ worker' = [worker EXCEPT ![w] =
       [Waiting EXCEPT !.pc = "load", !.analysis = Head(queue).analysis,
                       !.stalls = Head(queue).stalls]]
  /\ queue' = Tail(queue)
  /\ UNCHANGED <<analysisStatus, reportStatus, tries, request, used>>

\* Mutant of LoadQueued: everything that is not COMPLETED is run again.
LoadUnfinished(w) ==
  /\ worker[w].pc = "load"
  /\ worker' = [worker EXCEPT
       ![w].pc = "next",
       ![w].todo = {[id |-> r, status |-> reportStatus[r]] :
                      r \in {q \in ReportsOf(worker[w].analysis) :
                               reportStatus[q] \in {"queued", "generating", "failed"}}}]
  /\ UNCHANGED <<analysisStatus, reportStatus, tries, queue, request, used>>

\* Mutant of LoadQueued: a FAILED analysis, deleted perhaps, has no work.
LoadUnlessFailed(w) ==
  /\ worker[w].pc = "load"
  /\ worker' = [worker EXCEPT
       ![w].pc = "next",
       ![w].todo = {[id |-> r, status |-> reportStatus[r]] :
                      r \in {q \in ReportsOf(worker[w].analysis) :
                               /\ reportStatus[q] = "queued"
                               /\ analysisStatus[worker[w].analysis] # "failed"}}]
  /\ UNCHANGED <<analysisStatus, reportStatus, tries, queue, request, used>>

\* The job's list of work is the set of reports that are QUEUED now.
LoadQueued(w) ==
  /\ worker[w].pc = "load"
  /\ worker' = [worker EXCEPT
       ![w].pc = "next",
       ![w].todo = {[id |-> r, status |-> reportStatus[r]] :
                      r \in {q \in ReportsOf(worker[w].analysis) :
                               reportStatus[q] = "queued"}}]
  /\ UNCHANGED <<analysisStatus, reportStatus, tries, queue, request, used>>

\* processReport marks the next report of the list GENERATING.
StartReport(w, d) ==
  /\ worker[w].pc = "next"
  /\ d \in worker[w].todo
  /\ reportStatus' = [reportStatus EXCEPT ![d.id] = "generating"]
  /\ worker' = [worker EXCEPT
       ![w].pc = "run", ![w].todo = @ \ {d}, ![w].doc = d, ![w].caught = FALSE]
  /\ UNCHANGED <<analysisStatus, tries, queue, request, used>>

\* The report type is loaded and its flow run: it completes, ends with
\* required failures, or throws into the catch block.
Ran(k, result) ==
  [k EXCEPT !.pc = "read", !.caught = (result = "threw"),
            !.outcome = IF result = "completed" THEN "completed" ELSE "failed"]

RunFlow(w) ==
  /\ worker[w].pc = "run"
  /\ \E result \in {"completed", "failed", "threw"} :
       worker' = [worker EXCEPT ![w] = Ran(@, result)]
  /\ UNCHANGED <<analysisStatus, reportStatus, tries, queue, request, used>>

\* applyDynamicFlowExecutionUpdate first reads how many tries there are ...
ReadTries(w) ==
  /\ worker[w].pc = "read"
  /\ worker' = [worker EXCEPT
       ![w].pc = "push", ![w].number = Len(tries[worker[w].doc.id]) + 1]
  /\ UNCHANGED <<analysisStatus, reportStatus, tries, queue, request, used>>

\* 'regenerate' when the report was FAILED before the run, as loaded.
Trigger(d) == IF d.status = "failed" THEN "regenerate" ELSE "initial"

\* Mutant of RecordTry: only the status is written.
RecordStatus(w) ==
  /\ reportStatus' = [reportStatus EXCEPT ![worker[w].doc.id] = worker[w].outcome]
  /\ UNCHANGED tries

\* ... then writes status and try in one update.
RecordTry(w) ==
  LET k == worker[w] IN
  /\ reportStatus' = [reportStatus EXCEPT ![k.doc.id] = k.outcome]
  /\ tries' = [tries EXCEPT ![k.doc.id] =
       Append(@, [number |-> k.number, trigger |-> Trigger(k.doc),
                  status |-> k.outcome])]

PushTry(w) ==
  /\ worker[w].pc = "push"
  /\ RecordTry(w)
  /\ worker' = [worker EXCEPT ![w].pc = "next", ![w].doc = None]
  /\ UNCHANGED <<analysisStatus, queue, request, used>>

\* Mutant of AllDone: only success counts as done.
AllCompleted(a) ==
  \A r \in ReportsOf(a) :
    reportStatus[r] # "absent" => reportStatus[r] = "completed"

AllDone(a) ==
  \A r \in ReportsOf(a) : reportStatus[r] # "absent" => reportStatus[r] \in Finished

\* The list is exhausted: re-read the reports of the analysis.
Settle(w) ==
  /\ worker[w].pc = "next"
  /\ worker[w].todo = {}
  /\ worker' = [worker EXCEPT ![w] =
       IF AllDone(worker[w].analysis) THEN [@ EXCEPT !.pc = "complete"] ELSE Waiting]
  /\ UNCHANGED <<analysisStatus, reportStatus, tries, queue, request, used>>

CompleteAnalysis(w) ==
  /\ worker[w].pc = "complete"
  /\ analysisStatus' = [analysisStatus EXCEPT ![worker[w].analysis] = "completed"]
  /\ worker' = [worker EXCEPT ![w] = Waiting]
  /\ UNCHANGED <<reportStatus, tries, queue, request, used>>

\* The catch block of processAnalysis.
FailAnalysis(w) ==
  /\ worker[w].pc = "fail"
  /\ analysisStatus' = [analysisStatus EXCEPT ![worker[w].analysis] = "failed"]
  /\ worker' = [worker EXCEPT ![w] = Waiting]
  /\ UNCHANGED <<reportStatus, tries, queue, request, used>>

-------------------------------------------------------------------------------
(***************************************************************************)
(* Failures of the processor.                                              *)
(***************************************************************************)

Fault ==
  /\ used.faults < MaxFaults
  /\ used' = [used EXCEPT !.faults = @ + 1]
  /\ UNCHANGED <<analysisStatus, queue, request>>

\* A call outside processReport throws into the catch block of
\* processAnalysis; one that throws in that block fails the job, which Bull
\* does not retry (attempts is 1).
JobCallFails(w) ==
  /\ Fault
  /\ \/ /\ \/ worker[w].pc \in {"load", "complete"}
           \/ worker[w].pc = "next" /\ worker[w].todo = {}
        /\ worker' = [worker EXCEPT ![w].pc = "fail"]
     \/ /\ worker[w].pc = "fail"
        /\ worker' = [worker EXCEPT ![w] = Waiting]
  /\ UNCHANGED <<reportStatus, tries>>

\* The GENERATING write throws: the catch block records a failed try.
StartFails(w, d) ==
  /\ Fault
  /\ worker[w].pc = "next"
  /\ d \in worker[w].todo
  /\ worker' = [worker EXCEPT
       ![w].pc = "read", ![w].todo = @ \ {d}, ![w].doc = d,
       ![w].outcome = "failed", ![w].caught = TRUE]
  /\ UNCHANGED <<reportStatus, tries>>

\* A call of applyDynamicFlowExecutionUpdate throws: into the catch block of
\* processReport the first time, out of it the second.
Caught(k) ==
  IF k.caught
    THEN [k EXCEPT !.pc = "fail", !.doc = None]
    ELSE [k EXCEPT !.pc = "read", !.outcome = "failed", !.caught = TRUE]

ApplyFails(w) ==
  /\ Fault
  /\ \/ /\ worker[w].pc \in {"read", "push"}
        /\ UNCHANGED <<reportStatus, tries>>
     \/ /\ LostAcks
        /\ worker[w].pc = "push"
        /\ RecordTry(w)
  /\ worker' = [worker EXCEPT ![w] = Caught(@)]

\* The process dies. Bull finds the job stalled and puts it back in front, at
\* most once (maxStalledCount is 1 by default).
Crash(w) ==
  /\ worker[w].pc # "idle"
  /\ used.crashes < MaxCrashes
  /\ used' = [used EXCEPT !.crashes = @ + 1]
  /\ queue' = IF worker[w].stalls < 1
                THEN <<[analysis |-> worker[w].analysis,
                        stalls |-> worker[w].stalls + 1]>> \o queue
                ELSE queue
  /\ worker' = [worker EXCEPT ![w] = Waiting]
  /\ UNCHANGED <<analysisStatus, reportStatus, tries, request>>

-------------------------------------------------------------------------------
NewRequest ==
  \/ \E a \in Analyses :
       \/ \E c \in Callers :
            CreateAnalysis(c, a) \/ CreateStandalone(c, a) \/ BeginRegenerate(c, a)
       \/ SoftDelete(a)
  \/ \E c \in Callers, r \in Reports : BeginRerun(c, r)

RequestStep(c) ==
  \/ \E r \in Reports :
       CreateReportDoc(c, r) \/ ResetReport(c, r) \/ RequeueReport(c, r)
  \/ Enqueue(c)
  \/ MarkRunning(c)

WorkerStep(w) ==
  \/ TakeJob(w) \/ LoadQueued(w)
  \/ \E d \in worker[w].todo : StartReport(w, d)
  \/ RunFlow(w) \/ ReadTries(w) \/ PushTry(w)
  \/ Settle(w) \/ CompleteAnalysis(w) \/ FailAnalysis(w)

WorkerFailure(w) ==
  \/ JobCallFails(w) \/ ApplyFails(w) \/ Crash(w)
  \/ \E d \in worker[w].todo : StartFails(w, d)

Next ==
  \/ NewRequest
  \/ \E c \in Callers : RequestStep(c) \/ RequestFails(c)
  \/ \E w \in Workers : WorkerStep(w) \/ WorkerFailure(w)

Spec == Init /\ [][Next]_vars

\* The event loop resumes every handler and every job whose await is over, and
\* Bull delivers waiting jobs to idle workers: no step of either is put off
\* for ever.  Nothing is assumed of new requests or of failures.
FairSpec ==
  /\ Spec
  /\ \A c \in Callers : WF_vars(RequestStep(c))
  /\ \A w \in Workers : WF_vars(WorkerStep(w))

-------------------------------------------------------------------------------
TypeOK ==
  /\ analysisStatus \in [Analyses -> AnalysisStatus]
  /\ reportStatus \in [Reports -> ReportStatus]
  /\ tries \in [Reports -> Seq(Try)]
  /\ queue \in Seq(Job)
  /\ request \in [Callers -> RequestState]
  /\ worker \in [Workers -> WorkerState]
  /\ used \in [requests : Nat, crashes : Nat, faults : Nat]

\* The comment of applyDynamicFlowExecutionUpdate: no crash, failed call or
\* racing request can leave a report COMPLETED or FAILED without a try that
\* says so; the last try always tells the status of a finished report.
FinishedHasTry ==
  \A r \in Reports : reportStatus[r] \in Finished =>
    /\ tries[r] # <<>>
    /\ tries[r][Len(tries[r])].status = reportStatus[r]

\* The comments on executionTries: a report's tries are numbered 1, 2, 3, ...
\* in the order they were recorded.
TriesNumbered ==
  \A r \in Reports : \A i \in 1..Len(tries[r]) : tries[r][i].number = i

Unharmed == used.crashes = 0 /\ used.faults = 0

JobWaiting(a) == \E i \in 1..Len(queue) : queue[i].analysis = a

\* Some handler that has not finished will still add a job for analysis a.
JobToCome(a) == \E c \in Callers : request[c].pc = "reports" /\ request[c].analysis = a

\* Worker w holds report r: it is running it, or has it on its list.
Runs(w, r) == worker[w].doc # None /\ worker[w].doc.id = r

Holds(w, r) == Runs(w, r) \/ \E d \in worker[w].todo : d.id = r

\* As long as nothing crashes and no call fails, no interleaving of requests
\* and workers strands a report: one that is QUEUED has a job or a worker that
\* will run it, and one that is GENERATING is being run.
NoLostWork ==
  Unharmed => \A r \in Reports :
    /\ reportStatus[r] = "queued" =>
         \/ JobWaiting(AnalysisOf[r]) \/ JobToCome(AnalysisOf[r])
         \/ \E w \in Workers :
              \/ Holds(w, r)
              \/ worker[w].pc = "load" /\ worker[w].analysis = AnalysisOf[r]
    /\ reportStatus[r] = "generating" => \E w \in Workers : Runs(w, r)

\* 'Analysis is already running', the answer of regenerate to a RUNNING
\* analysis, is true: some job, worker or handler is at work on it. Otherwise
\* the analysis could never be re-run and its event stream would never end.
RunningIsBusy ==
  Unharmed => \A a \in Analyses : analysisStatus[a] = "running" =>
    \/ JobWaiting(a)
    \/ \E w \in Workers : worker[w].analysis = a
    \/ \E c \in Callers : request[c].analysis = a

\* With one worker, only a request re-opens a finished report: the processor
\* never starts or overwrites a report that has been COMPLETED or FAILED since
\* it was listed. The one exception is the catch block of the run that wrote
\* the answer, when the write was applied and its acknowledgement lost.
FinishedStays ==
  [][\A r \in Reports :
       reportStatus[r] \in Finished /\ reportStatus'[r] # reportStatus[r] =>
         \/ reportStatus'[r] = "queued"
         \/ \E w \in Workers : Runs(w, r) /\ worker[w].caught]_vars

\* The event stream of a RUNNING analysis ends: its status becomes COMPLETED
\* or FAILED.
StreamEnds ==
  \A a \in Analyses :
    analysisStatus[a] = "running" ~> analysisStatus[a] \in Finished

\* The pipeline keeps the promise of RunLedger.
Standing(s) ==
  CASE s = "absent" -> "unknown"
    [] s \in Finished -> s
    [] OTHER -> "pending"

Ledger == INSTANCE RunLedger WITH
  Outcomes <- Finished,
  standing <- [r \in Reports |-> Standing(reportStatus[r])],
  ledger   <- [r \in Reports |-> [i \in 1..Len(tries[r]) |-> tries[r][i].status]]

LedgerKept == Ledger!Spec

LedgerAnswers == Ledger!FairSpec

===============================================================================
