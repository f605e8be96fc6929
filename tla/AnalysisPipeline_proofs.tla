------------------------ MODULE AnalysisPipeline_proofs ------------------------
(***************************************************************************)
(* Proofs about AnalysisPipeline, for any sets of analyses, reports,       *)
(* callers and workers and any bounds.                                     *)
(***************************************************************************)
EXTENDS AnalysisPipeline, SequenceTheorems, TLAPS

(***************************************************************************)
(* The handlers and the processor keep hold of documents that exist: what  *)
(* makes the indices in their updates meaningful.                          *)
(***************************************************************************)
RequestInHand(c) == request[c].pc # "idle" => request[c].analysis \in Analyses

JobInHand(w) ==
  /\ worker[w].pc # "idle" => worker[w].analysis \in Analyses
  /\ worker[w].pc \in {"run", "read", "push"} => worker[w].doc # None
  /\ worker[w].doc # None => reportStatus[worker[w].doc.id] # "absent"
  /\ \A d \in worker[w].todo : reportStatus[d.id] # "absent"

InHand ==
  /\ \A c \in Callers : RequestInHand(c)
  /\ \A w \in Workers : JobInHand(w)

IInv == TypeOK /\ InHand

\* The empty database, with nobody at work, satisfies the invariant.
LEMMA InitIInv == Init => IInv
<1> SUFFICES ASSUME Init PROVE IInv
  OBVIOUS
<1> USE PipelineAssumption DEF Init
<1>1. TypeOK
  BY DEF TypeOK, Idle, Waiting, RequestState, WorkerState, AnalysisStatus,
         ReportStatus, Finished, Doc
<1>2. InHand
  BY DEF InHand, RequestInHand, JobInHand, Idle, Waiting
<1> QED
  BY <1>1, <1>2 DEF IInv

(***************************************************************************)
(* A step of a handler writes one request state; a step of the processor   *)
(* one worker state.                                                       *)
(***************************************************************************)
\* What a step of a handler does to the request states.
LEMMA RequestUpdate ==
  ASSUME NEW c \in Callers, NEW q \in RequestState,
         request \in [Callers -> RequestState],
         request' = [request EXCEPT ![c] = q]
  PROVE  /\ request' \in [Callers -> RequestState]
         /\ request'[c] = q
         /\ \A b \in Callers \ {c} : request'[b] = request[b]
OBVIOUS

\* What a step of the processor does to the worker states.
LEMMA WorkerUpdate ==
  ASSUME NEW w \in Workers, NEW k \in WorkerState,
         worker \in [Workers -> WorkerState],
         worker' = [worker EXCEPT ![w] = k]
  PROVE  /\ worker' \in [Workers -> WorkerState]
         /\ worker'[w] = k
         /\ \A v \in Workers \ {w} : worker'[v] = worker[v]
OBVIOUS

\* Counting a request, a crash or a fault leaves the bounds counted.
LEMMA UsedUpdate ==
  ASSUME used \in [requests : Nat, crashes : Nat, faults : Nat],
         \/ used' = [used EXCEPT !.requests = @ + 1]
         \/ used' = [used EXCEPT !.crashes = @ + 1]
         \/ used' = [used EXCEPT !.faults = @ + 1]
  PROVE  used' \in [requests : Nat, crashes : Nat, faults : Nat]
OBVIOUS

\* The end of a flow (RunFlow) keeps the worker's report, list and analysis.
LEMMA WithResult ==
  ASSUME NEW k \in WorkerState, NEW result \in {"completed", "failed", "threw"}
  PROVE  LET m == Ran(k, result) IN
         /\ m \in WorkerState /\ m.pc = "read" /\ m.doc = k.doc
         /\ m.todo = k.todo /\ m.analysis = k.analysis
<1>1. (result = "threw") \in BOOLEAN
  OBVIOUS
<1>2. (IF result = "completed" THEN "completed" ELSE "failed") \in Finished
  BY DEF Finished
<1> QED
  BY <1>1, <1>2 DEF WorkerState, Ran

\* What a worker is at when the start of a document has failed (StartFails).
FailedStart(x, d) == [x EXCEPT !.pc = "read", !.todo = @ \ {d}, !.doc = d,
                               !.outcome = "failed", !.caught = TRUE]

LEMMA WithFailedStart ==
  ASSUME NEW x \in WorkerState, NEW d \in Doc
  PROVE  LET k == FailedStart(x, d)
         IN k \in WorkerState /\ k.pc = "read" /\ k.doc = d /\ k.todo = x.todo \ {d}
            /\ k.analysis = x.analysis
<1> DEFINE rest == x.todo \ {d}
<1>1. rest \in SUBSET Doc
  BY DEF WorkerState
<1> HIDE DEF rest
<1>2. LET k == [x EXCEPT !.pc = "read", !.todo = rest, !.doc = d,
                         !.outcome = "failed", !.caught = TRUE]
      IN k \in WorkerState /\ k.pc = "read" /\ k.doc = d /\ k.todo = rest
         /\ k.analysis = x.analysis
  BY <1>1 DEF WorkerState, Finished
<1> QED
  BY <1>2 DEF FailedStart, rest

\* Reading the number of tries (ReadTries) changes nothing else the worker holds.
LEMMA WithNumber ==
  ASSUME NEW k \in WorkerState, NEW n \in Nat
  PROVE  LET m == [k EXCEPT !.pc = "push", !.number = n] IN
         /\ m \in WorkerState /\ m.pc = "push" /\ m.doc = k.doc
         /\ m.todo = k.todo /\ m.analysis = k.analysis
BY DEF WorkerState

\* A call that throws in applyDynamicFlowExecutionUpdate leaves the worker in one
\* of the two catch blocks, with the report in hand or done with.
LEMMA WithCaught ==
  ASSUME NEW k \in WorkerState
  PROVE  LET m == Caught(k) IN
         /\ m \in WorkerState /\ m.pc \in {"fail", "read"}
         /\ m.pc = "read" => m.doc = k.doc
         /\ m.doc \in {None, k.doc}
         /\ m.todo = k.todo /\ m.analysis = k.analysis
<1>1. CASE k.caught
  BY <1>1 DEF WorkerState, Caught
<1>2. CASE ~k.caught
  BY <1>2 DEF WorkerState, Caught, Finished
<1> QED
  BY <1>1, <1>2

\* A new request, whichever endpoint it comes in by, keeps the invariant.
LEMMA NewRequestIInv == IInv /\ NewRequest => IInv'
<1> SUFFICES ASSUME IInv, NewRequest PROVE IInv'
  OBVIOUS
<1> USE PipelineAssumption DEF IInv, TypeOK, InHand, RequestInHand, JobInHand
<1>1. ASSUME NEW c \in Callers, NEW op \in Endpoints, NEW a \in Analyses,
             NEW left \in SUBSET Reports, Begin(c, op, a, left),
             analysisStatus' \in [Analyses -> AnalysisStatus]
      PROVE  IInv'
  <2>1. [pc |-> "reports", op |-> op, analysis |-> a, left |-> left] \in RequestState
    BY DEF RequestState
  <2>2. used' \in [requests : Nat, crashes : Nat, faults : Nat]
    BY <1>1, UsedUpdate DEF Begin
  <2> QED
    BY <1>1, <2>1, <2>2 DEF Begin
<1>2. ASSUME NEW c \in Callers, NEW a \in Analyses,
             \/ CreateAnalysis(c, a) \/ CreateStandalone(c, a)
             \/ BeginRegenerate(c, a)
      PROVE  IInv'
  <2>1. ReportsOf(a) \in SUBSET Reports
    BY DEF ReportsOf
  <2>2. analysisStatus' \in [Analyses -> AnalysisStatus]
    BY <1>2 DEF CreateAnalysis, CreateStandalone, BeginRegenerate, AnalysisStatus
  <2>3. PICK op \in Endpoints : Begin(c, op, a, ReportsOf(a))
    BY <1>2 DEF CreateAnalysis, CreateStandalone, BeginRegenerate, Endpoints
  <2> QED
    BY <1>1, <2>1, <2>2, <2>3
<1>3. ASSUME NEW c \in Callers, NEW r \in Reports, BeginRerun(c, r)
      PROVE  IInv'
  <2>1. /\ AnalysisOf[r] \in Analyses /\ {r} \in SUBSET Reports
        /\ "rerun" \in Endpoints
    BY DEF Endpoints
  <2>2. /\ Begin(c, "rerun", AnalysisOf[r], {r})
        /\ analysisStatus' \in [Analyses -> AnalysisStatus]
    BY <1>3 DEF BeginRerun
  <2> QED
    BY <1>1, <2>1, <2>2
<1>4. ASSUME NEW a \in Analyses, SoftDelete(a)
      PROVE  IInv'
  <2>1. analysisStatus' \in [Analyses -> AnalysisStatus]
    BY <1>4 DEF SoftDelete, AnalysisStatus
  <2>2. used' \in [requests : Nat, crashes : Nat, faults : Nat]
    BY <1>4, UsedUpdate DEF SoftDelete
  <2> QED
    BY <1>4, <2>1, <2>2 DEF SoftDelete
<1> QED
  BY <1>2, <1>3, <1>4 DEF NewRequest

(***************************************************************************)
(* What is in hand stays in hand as long as no document disappears and the *)
(* other requests and workers do not change.                               *)
(***************************************************************************)
\* The steps of a handler in progress, and its failure, keep the invariant.
LEMMA RequestStepIInv ==
  ASSUME NEW c \in Callers, IInv, RequestStep(c) \/ RequestFails(c)
  PROVE  IInv'
<1> USE PipelineAssumption DEF IInv, TypeOK, InHand, RequestInHand, JobInHand
<1>1. ASSUME NEW r \in Reports, WroteReport(c, r),
             reportStatus' \in [Reports -> ReportStatus],
             tries' \in [Reports -> Seq(Try)],
             \A q \in Reports : reportStatus[q] # "absent" => reportStatus'[q] # "absent"
      PROVE  IInv'
  <2> DEFINE q == [request[c] EXCEPT !.left = @ \ {r}]
  <2>1. q \in RequestState /\ q.analysis = request[c].analysis /\ q.pc = request[c].pc
    BY DEF RequestState
  <2>2. request' = [request EXCEPT ![c] = q]
    BY <1>1 DEF WroteReport
  <2>3. /\ request' \in [Callers -> RequestState]
        /\ \A b \in Callers : RequestInHand(b)'
    BY <2>1, <2>2
  <2>4. \A w \in Workers : JobInHand(w)'
    BY <1>1 DEF WroteReport, WorkerState, Doc
  <2> QED
    BY <1>1, <2>3, <2>4 DEF WroteReport
<1>2. ASSUME NEW r \in Reports,
             CreateReportDoc(c, r) \/ ResetReport(c, r) \/ RequeueReport(c, r)
      PROVE  IInv'
  <2>1. reportStatus' \in [Reports -> ReportStatus]
    BY <1>2 DEF CreateReportDoc, ResetReport, RequeueReport, ReportStatus
  <2>2. tries' \in [Reports -> Seq(Try)]
    <3>1. <<>> \in Seq(Try)
      OBVIOUS
    <3> QED
      BY <1>2, <3>1 DEF CreateReportDoc, ResetReport, RequeueReport
  <2>3. \A q \in Reports : reportStatus[q] # "absent" => reportStatus'[q] # "absent"
    BY <1>2 DEF CreateReportDoc, ResetReport, RequeueReport
  <2> QED
    BY <1>1, <1>2, <2>1, <2>2, <2>3 DEF CreateReportDoc, ResetReport, RequeueReport
<1>3. CASE Enqueue(c)
  <2> DEFINE job == [analysis |-> request[c].analysis, stalls |-> 0]
  <2> DEFINE q == IF request[c].op \in {"create", "regenerate"}
                    THEN [request[c] EXCEPT !.pc = "mark"] ELSE Idle
  <2>1. job \in Job
    BY <1>3 DEF Enqueue, Job
  <2>2. queue' \in Seq(Job)
    BY <1>3, <2>1 DEF Enqueue
  <2>3. q \in RequestState /\ (q.pc # "idle" => q.analysis \in Analyses)
    BY <1>3 DEF Enqueue, RequestState, Idle
  <2>4. request' = [request EXCEPT ![c] = q]
    BY <1>3 DEF Enqueue
  <2> QED
    BY <1>3, <2>2, <2>3, <2>4 DEF Enqueue
<1>4. CASE MarkRunning(c)
  <2>1. Idle \in RequestState /\ Idle.pc = "idle"
    BY DEF RequestState, Idle
  <2>2. analysisStatus' \in [Analyses -> AnalysisStatus]
    BY <1>4 DEF MarkRunning, AnalysisStatus
  <2> QED
    BY <1>4, <2>1, <2>2 DEF MarkRunning
<1>5. CASE RequestFails(c)
  <2>1. Idle \in RequestState /\ Idle.pc = "idle"
    BY DEF RequestState, Idle
  <2>2. used' \in [requests : Nat, crashes : Nat, faults : Nat]
    BY <1>5, UsedUpdate DEF RequestFails
  <2> QED
    BY <1>5, <2>1, <2>2 DEF RequestFails
<1> QED
  BY <1>2, <1>3, <1>4, <1>5 DEF RequestStep

(***************************************************************************)
(* The processor's steps, its failures included.                           *)
(***************************************************************************)
\* Every step of the processor, and each of its failures, keeps the invariant.
LEMMA WorkerStepIInv ==
  ASSUME NEW w \in Workers, IInv, WorkerStep(w) \/ WorkerFailure(w)
  PROVE  IInv'
<1> USE PipelineAssumption DEF IInv, TypeOK, InHand, RequestInHand, JobInHand
<1>w. Waiting \in WorkerState /\ Waiting.pc = "idle" /\ Waiting.doc = None /\ Waiting.todo = {}
  BY DEF Waiting, WorkerState, Finished
<1>k. worker[w] \in WorkerState
  OBVIOUS
\* It is enough to type what a step writes and to say what worker w holds.
<1>a. ASSUME NEW k \in WorkerState,
             worker' = [worker EXCEPT ![w] = k],
             k.pc # "idle" => k.analysis \in Analyses,
             k.pc \in {"run", "read", "push"} => k.doc # None,
             k.doc # None => reportStatus'[k.doc.id] # "absent",
             \A d \in k.todo : reportStatus'[d.id] # "absent",
             \A q \in Reports : reportStatus[q] # "absent" => reportStatus'[q] # "absent",
             analysisStatus' \in [Analyses -> AnalysisStatus],
             reportStatus' \in [Reports -> ReportStatus],
             tries' \in [Reports -> Seq(Try)],
             queue' \in Seq(Job),
             used' \in [requests : Nat, crashes : Nat, faults : Nat],
             request' = request
      PROVE  IInv'
  <2>1. worker' \in [Workers -> WorkerState] /\ worker'[w] = k
    BY <1>a, WorkerUpdate
  <2>2. \A v \in Workers \ {w} : worker'[v] = worker[v]
    BY <1>a, WorkerUpdate
  <2>3. JobInHand(w)'
    BY <1>a, <2>1
  <2>4. \A v \in Workers \ {w} : JobInHand(v)'
    BY <1>a, <2>2 DEF WorkerState, Doc
  <2> QED
    BY <1>a, <2>1, <2>3, <2>4
<1>1. CASE TakeJob(w)
  <2> DEFINE k == [Waiting EXCEPT !.pc = "load", !.analysis = Head(queue).analysis,
                                  !.stalls = Head(queue).stalls]
  <2>1. Head(queue) \in Job /\ queue' \in Seq(Job)
    BY <1>1 DEF TakeJob
  <2>2. k \in WorkerState /\ k.pc = "load" /\ k.doc = None /\ k.todo = {}
        /\ k.analysis \in Analyses
    BY <2>1 DEF Waiting, WorkerState, Finished, Job
  <2>3. worker' = [worker EXCEPT ![w] = k]
    BY <1>1 DEF TakeJob
  <2> HIDE DEF k
  <2> QED
    BY <1>1, ZenonT(60), <1>a, <2>1, <2>2, <2>3 DEF TakeJob
<1>2. CASE LoadQueued(w)
  <2> DEFINE t == {[id |-> r, status |-> reportStatus[r]] :
                     r \in {q \in ReportsOf(worker[w].analysis) :
                              reportStatus[q] = "queued"}}
             k == [worker[w] EXCEPT !.pc = "next", !.todo = t]
  <2>1. t \in SUBSET Doc /\ \A d \in t : reportStatus[d.id] # "absent"
    BY DEF Doc, ReportsOf, ReportStatus
  <2>2. k \in WorkerState /\ k.pc = "next" /\ k.doc = worker[w].doc /\ k.todo = t
        /\ k.analysis = worker[w].analysis
    BY <2>1 DEF WorkerState
  <2>3. worker' = [worker EXCEPT ![w] = k]
    BY <1>2 DEF LoadQueued
  <2> HIDE DEF k, t
  <2> QED
    BY <1>2, ZenonT(60), <1>a, <2>1, <2>2, <2>3 DEF LoadQueued
<1>3. ASSUME NEW d \in worker[w].todo, StartReport(w, d)
      PROVE  IInv'
  <2> DEFINE k == [worker[w] EXCEPT !.pc = "run", !.todo = @ \ {d}, !.doc = d,
                                    !.caught = FALSE]
  <2>0. d \in Doc /\ d.id \in Reports /\ worker[w].todo \subseteq Doc
    BY DEF WorkerState, Doc
  <2>1. k \in WorkerState /\ k.pc = "run" /\ k.doc = d /\ k.todo = worker[w].todo \ {d}
        /\ k.analysis = worker[w].analysis
    BY <2>0 DEF WorkerState
  <2>2. worker' = [worker EXCEPT ![w] = k]
    BY <1>3 DEF StartReport
  <2>3. reportStatus' \in [Reports -> ReportStatus]
    BY <1>3, <2>0 DEF StartReport, ReportStatus
  <2>4. \A q \in Reports : reportStatus[q] # "absent" => reportStatus'[q] # "absent"
    BY <1>3 DEF StartReport
  <2>5. reportStatus'[d.id] # "absent" /\ \A e \in k.todo : reportStatus'[e.id] # "absent"
    BY <1>3, <2>0, <2>1, <2>4 DEF Doc
  <2>6. d # None
    BY <2>0
  <2>7. k.analysis \in Analyses
    BY <1>3, <2>1 DEF StartReport
  <2> HIDE DEF k
  <2> QED
    BY <1>3, ZenonT(60), <1>a, <2>1, <2>2, <2>3, <2>4, <2>5, <2>6, <2>7 DEF StartReport
<1>4. CASE RunFlow(w)
  <2>1. PICK result \in {"completed", "failed", "threw"} :
          worker' = [worker EXCEPT ![w] = Ran(@, result)]
    BY <1>4 DEF RunFlow
  <2> DEFINE k == Ran(worker[w], result)
  <2>2. /\ k \in WorkerState /\ k.pc = "read" /\ k.doc = worker[w].doc
        /\ k.todo = worker[w].todo /\ k.analysis = worker[w].analysis
    BY WithResult
  <2>3. worker' = [worker EXCEPT ![w] = k]
    BY <2>1
  <2> HIDE DEF k
  <2> QED
    BY <1>4, ZenonT(60), <1>a, <2>2, <2>3 DEF RunFlow
<1>5. CASE ReadTries(w)
  <2> DEFINE n == Len(tries[worker[w].doc.id]) + 1
             k == [worker[w] EXCEPT !.pc = "push", !.number = n]
  <2>1. worker[w].doc.id \in Reports
    BY <1>5 DEF ReadTries, WorkerState, Doc
  <2>2. n \in Nat
    BY <2>1
  <2>3. worker' = [worker EXCEPT ![w] = k]
    BY <1>5 DEF ReadTries
  <2> HIDE DEF n
  <2>4. /\ k \in WorkerState /\ k.pc = "push" /\ k.doc = worker[w].doc
        /\ k.todo = worker[w].todo /\ k.analysis = worker[w].analysis
    BY <1>k, <2>2, WithNumber
  <2> HIDE DEF k
  <2> QED
    BY <1>5, ZenonT(60), <1>a, <2>3, <2>4 DEF ReadTries
<1>b. ASSUME worker[w].pc = "push", RecordTry(w)
      PROVE  /\ reportStatus' \in [Reports -> ReportStatus]
             /\ tries' \in [Reports -> Seq(Try)]
             /\ \A q \in Reports : reportStatus[q] # "absent" => reportStatus'[q] # "absent"
  <2> DEFINE k == worker[w]
             t == [number |-> k.number, trigger |-> Trigger(k.doc), status |-> k.outcome]
  <2>1. k \in WorkerState /\ k.doc \in Doc /\ k.doc.id \in Reports
    BY <1>b DEF WorkerState, Doc
  <2>2. t \in Try
    BY <2>1 DEF WorkerState, Try, Trigger
  <2>3. tries' = [tries EXCEPT ![k.doc.id] = Append(@, t)]
    BY <1>b DEF RecordTry
  <2>4. tries' \in [Reports -> Seq(Try)]
    <3> HIDE DEF t, k
    <3> QED
      BY <2>1, <2>2, <2>3
  <2>5. k.outcome \in ReportStatus \ {"absent"}
    BY <2>1 DEF WorkerState, ReportStatus, Finished
  <2>6. reportStatus' = [reportStatus EXCEPT ![k.doc.id] = k.outcome]
    BY <1>b DEF RecordTry
  <2> QED
    BY <2>4, <2>5, <2>6
<1>6. CASE PushTry(w)
  <2> DEFINE k == [worker[w] EXCEPT !.pc = "next", !.doc = None]
  <2>1. k \in WorkerState /\ k.pc = "next" /\ k.doc = None
        /\ k.todo = worker[w].todo /\ k.analysis = worker[w].analysis
    BY DEF WorkerState
  <2>2. worker' = [worker EXCEPT ![w] = k]
    BY <1>6 DEF PushTry
  <2>3. worker[w].pc = "push" /\ RecordTry(w)
    BY <1>6 DEF PushTry
  <2>4. \A d \in k.todo : reportStatus'[d.id] # "absent"
    BY <1>b, <2>1, <2>3 DEF WorkerState, Doc
  <2> HIDE DEF k
  <2> QED
    BY <1>6, ZenonT(60), <1>a, <1>b, <2>1, <2>2, <2>3, <2>4 DEF PushTry
<1>7. CASE Settle(w)
  <2> DEFINE k == IF AllDone(worker[w].analysis)
                    THEN [worker[w] EXCEPT !.pc = "complete"] ELSE Waiting
  <2>1. /\ k \in WorkerState /\ k.pc \in {"complete", "idle"}
        /\ k.doc \in {None, worker[w].doc} /\ k.todo \subseteq worker[w].todo
        /\ k.pc = "complete" => k.analysis = worker[w].analysis
    BY <1>w DEF WorkerState
  <2>2. worker' = [worker EXCEPT ![w] = k]
    BY <1>7 DEF Settle
  <2> HIDE DEF k
  <2> QED
    BY <1>7, ZenonT(60), <1>a, <2>1, <2>2 DEF Settle
<1>8. CASE CompleteAnalysis(w) \/ FailAnalysis(w)
  <2>1. analysisStatus' \in [Analyses -> AnalysisStatus]
    BY <1>8 DEF CompleteAnalysis, FailAnalysis, AnalysisStatus
  <2> QED
    BY <1>8, ZenonT(60), <1>a, <1>w, <2>1 DEF CompleteAnalysis, FailAnalysis
<1>9. CASE JobCallFails(w)
  <2>1. used' \in [requests : Nat, crashes : Nat, faults : Nat]
    BY <1>9, UsedUpdate DEF JobCallFails, Fault
  <2> DEFINE k == [worker[w] EXCEPT !.pc = "fail"]
  <2>2. /\ k \in WorkerState /\ k.pc = "fail" /\ k.doc = worker[w].doc
        /\ k.todo = worker[w].todo /\ k.analysis = worker[w].analysis
    BY DEF WorkerState
  <2>3. \/ worker' = [worker EXCEPT ![w] = k] /\ worker[w].pc # "idle"
        \/ worker' = [worker EXCEPT ![w] = Waiting]
    BY <1>9 DEF JobCallFails
  <2>4. UNCHANGED <<analysisStatus, reportStatus, tries, queue, request>>
    BY <1>9 DEF JobCallFails, Fault
  <2> HIDE DEF k
  <2>5. CASE worker' = [worker EXCEPT ![w] = k] /\ worker[w].pc # "idle"
    <3>1. /\ k.analysis \in Analyses
          /\ k.doc # None => reportStatus[k.doc.id] # "absent"
          /\ \A d \in k.todo : reportStatus[d.id] # "absent"
      BY <2>2, <2>5
    <3>2. k.pc \notin {"idle", "run", "read", "push"}
      BY <2>2
    <3> QED
      BY <1>a, <2>1, <2>2, <2>4, <2>5, <3>1, <3>2
  <2>6. CASE worker' = [worker EXCEPT ![w] = Waiting]
    BY <1>w, <2>1, <2>4, <2>6
  <2> QED
    BY <2>3, <2>5, <2>6
<1>10. ASSUME NEW d \in worker[w].todo, StartFails(w, d)
       PROVE  IInv'
  <2> DEFINE k == FailedStart(worker[w], d)
  <2>1. used' \in [requests : Nat, crashes : Nat, faults : Nat]
    BY <1>10, UsedUpdate DEF StartFails, Fault
  <2>2. d \in Doc /\ d.id \in Reports /\ d # None
    BY DEF WorkerState, Doc
  <2>3. k \in WorkerState /\ k.pc = "read" /\ k.doc = d /\ k.todo = worker[w].todo \ {d}
        /\ k.analysis = worker[w].analysis
    BY <2>2, WithFailedStart
  <2>4. worker' = [worker EXCEPT ![w] = k] /\ worker[w].pc = "next"
    BY <1>10 DEF StartFails, FailedStart
  <2> HIDE DEF k
  <2> QED
    BY <1>10, ZenonT(60), <1>a, <2>1, <2>2, <2>3, <2>4 DEF StartFails, Fault
<1>11. CASE ApplyFails(w)
  <2> DEFINE k == Caught(worker[w])
  <2>1. used' \in [requests : Nat, crashes : Nat, faults : Nat]
    BY <1>11, UsedUpdate DEF ApplyFails, Fault
  <2>2. worker[w].pc \in {"read", "push"}
    BY <1>11 DEF ApplyFails
  <2>3. /\ k \in WorkerState /\ k.pc \in {"fail", "read"}
        /\ k.pc = "read" => k.doc = worker[w].doc
        /\ k.doc \in {None, worker[w].doc}
        /\ k.todo = worker[w].todo /\ k.analysis = worker[w].analysis
    BY WithCaught
  <2>4. worker' = [worker EXCEPT ![w] = k]
    BY <1>11 DEF ApplyFails
  <2>5. /\ reportStatus' \in [Reports -> ReportStatus]
        /\ tries' \in [Reports -> Seq(Try)]
        /\ \A q \in Reports : reportStatus[q] # "absent" => reportStatus'[q] # "absent"
    BY <1>11, <1>b DEF ApplyFails
  <2>6. /\ k.doc # None => reportStatus'[k.doc.id] # "absent"
        /\ \A d \in k.todo : reportStatus'[d.id] # "absent"
    BY <2>3, <2>5 DEF WorkerState, Doc
  <2> HIDE DEF k
  <2> QED
    BY <1>11, ZenonT(60), <1>a, <2>1, <2>2, <2>3, <2>4, <2>5, <2>6 DEF ApplyFails, Fault
<1>12. CASE Crash(w)
  <2> DEFINE job == [analysis |-> worker[w].analysis, stalls |-> worker[w].stalls + 1]
  <2>1. used' \in [requests : Nat, crashes : Nat, faults : Nat]
    BY <1>12, UsedUpdate DEF Crash
  <2>2. job \in Job
    BY <1>12 DEF Crash, Job, WorkerState
  <2>3. <<job>> \o queue \in Seq(Job)
    <3> HIDE DEF job
    <3> QED
      BY <2>2
  <2>4. queue' \in Seq(Job)
    BY <1>12, <2>3 DEF Crash
  <2> QED
    BY <1>12, ZenonT(60), <1>a, <1>w, <2>1, <2>4 DEF Crash
<1> QED
  BY <1>1, <1>2, <1>3, <1>4, <1>5, <1>6, <1>7, <1>8, <1>9, <1>10, <1>11, <1>12
     DEF WorkerStep, WorkerFailure

\* Every step of the pipeline keeps the invariant.
LEMMA NextIInv == IInv /\ [Next]_vars => IInv'
<1> SUFFICES ASSUME IInv, [Next]_vars PROVE IInv'
  OBVIOUS
<1>1. CASE UNCHANGED vars
  BY <1>1 DEF vars, IInv, TypeOK, InHand, RequestInHand, JobInHand
<1> QED
  BY <1>1, NewRequestIInv, RequestStepIInv, WorkerStepIInv DEF Next

\* The invariant holds in every reachable state.
LEMMA AlwaysIInv == Spec => []IInv
BY InitIInv, NextIInv, PTL DEF Spec

(***************************************************************************)
(* Every variable always has its type, whatever the constants are.         *)
(***************************************************************************)
THEOREM Typed == Spec => []TypeOK
<1>1. IInv => TypeOK
  BY DEF IInv
<1> QED
  BY <1>1, AlwaysIInv, PTL

(***************************************************************************)
(* The four things a step can do to the reports: nothing, or one of these  *)
(* to one report.                                                          *)
(***************************************************************************)
Opened(r) ==
  /\ \E s \in {"queued", "generating"} :
       reportStatus' = [reportStatus EXCEPT ![r] = s]
  /\ UNCHANGED tries

Restarted(r) ==
  /\ reportStatus[r] # "absent"
  /\ reportStatus' = [reportStatus EXCEPT ![r] = "queued"]
  /\ tries' = [tries EXCEPT ![r] = <<>>]

Recorded(r, t) ==
  /\ reportStatus[r] # "absent"
  /\ reportStatus' = [reportStatus EXCEPT ![r] = t.status]
  /\ tries' = [tries EXCEPT ![r] = Append(@, t)]

\* Whatever the step, the reports change in one of these four ways.
LEMMA ReportStep ==
  ASSUME IInv, [Next]_vars
  PROVE  \/ UNCHANGED <<reportStatus, tries>>
         \/ \E r \in Reports : \/ Opened(r)
                               \/ Restarted(r)
                               \/ \E t \in Try : Recorded(r, t)
<1> DEFINE Goal == \/ UNCHANGED <<reportStatus, tries>>
                   \/ \E r \in Reports : \/ Opened(r)
                                         \/ Restarted(r)
                                         \/ \E t \in Try : Recorded(r, t)
<1>1. ASSUME NEW w \in Workers, worker[w].pc = "push", RecordTry(w)
      PROVE  \E r \in Reports, t \in Try : Recorded(r, t)
  <2> DEFINE k == worker[w]
             t == [number |-> k.number, trigger |-> Trigger(k.doc), status |-> k.outcome]
  <2>1. /\ k \in WorkerState /\ k.doc \in Doc /\ k.doc.id \in Reports
        /\ reportStatus[k.doc.id] # "absent"
    BY <1>1 DEF WorkerState, Doc, InHand, JobInHand, IInv, TypeOK
  <2>2. t \in Try /\ t.status = k.outcome
    BY <2>1 DEF WorkerState, Try, Trigger
  <2>3. /\ reportStatus' = [reportStatus EXCEPT ![k.doc.id] = t.status]
        /\ tries' = [tries EXCEPT ![k.doc.id] = Append(@, t)]
    BY <1>1, <2>2 DEF RecordTry
  <2> HIDE DEF t, k
  <2> QED
    BY <2>1, <2>2, <2>3 DEF Recorded
<1>2. CASE NewRequest
  BY <1>2 DEF NewRequest, CreateAnalysis, CreateStandalone, BeginRegenerate,
              BeginRerun, Begin, SoftDelete
<1>3. ASSUME NEW c \in Callers, RequestStep(c) \/ RequestFails(c)
      PROVE  Goal
  <2>1. ASSUME NEW r \in Reports,
               CreateReportDoc(c, r) \/ ResetReport(c, r) \/ RequeueReport(c, r)
        PROVE  Goal
    BY <2>1 DEF CreateReportDoc, ResetReport, RequeueReport, Opened, Restarted
  <2>2. CASE Enqueue(c) \/ MarkRunning(c) \/ RequestFails(c)
    BY <2>2 DEF Enqueue, MarkRunning, RequestFails
  <2> QED
    BY <1>3, <2>1, <2>2 DEF RequestStep
<1>4. ASSUME NEW w \in Workers, WorkerStep(w) \/ WorkerFailure(w)
      PROVE  Goal
  <2>1. CASE PushTry(w) \/ ApplyFails(w)
    BY <2>1, <1>1 DEF PushTry, ApplyFails
  <2>2. ASSUME NEW d \in worker[w].todo, StartReport(w, d) \/ StartFails(w, d)
        PROVE  Goal
    <3>1. d.id \in Reports
      BY DEF IInv, TypeOK, WorkerState, Doc
    <3> QED
      BY <2>2, <3>1 DEF StartReport, StartFails, Opened
  <2>3. CASE \/ TakeJob(w) \/ LoadQueued(w) \/ RunFlow(w) \/ ReadTries(w) \/ Settle(w)
             \/ CompleteAnalysis(w) \/ FailAnalysis(w) \/ JobCallFails(w) \/ Crash(w)
    BY <2>3 DEF TakeJob, LoadQueued, RunFlow, ReadTries, Settle, CompleteAnalysis,
                FailAnalysis, JobCallFails, Crash
  <2> QED
    BY <1>4, <2>1, <2>2, <2>3 DEF WorkerStep, WorkerFailure
<1>5. CASE UNCHANGED vars
  BY <1>5 DEF vars
<1> QED
  BY <1>2, <1>3, <1>4, <1>5 DEF Next

(***************************************************************************)
(* A finished report has the try that finished it, whatever crashes, fails *)
(* or interleaves: applyDynamicFlowExecutionUpdate writes both at once.    *)
(***************************************************************************)
THEOREM TriesRecorded == Spec => []FinishedHasTry
<1>1. Init => FinishedHasTry
  BY DEF Init, FinishedHasTry, Finished
<1>2. IInv /\ FinishedHasTry /\ [Next]_vars => FinishedHasTry'
  <2> SUFFICES ASSUME IInv, FinishedHasTry, [Next]_vars PROVE FinishedHasTry'
    OBVIOUS
  <2>0. reportStatus \in [Reports -> ReportStatus] /\ tries \in [Reports -> Seq(Try)]
    BY DEF IInv, TypeOK
  <2>1. CASE UNCHANGED <<reportStatus, tries>>
    BY <2>1 DEF FinishedHasTry
  <2>2. ASSUME NEW r \in Reports, Opened(r) \/ Restarted(r)
        PROVE  FinishedHasTry'
    BY <2>0, <2>2 DEF Opened, Restarted, FinishedHasTry, Finished
  <2>3. ASSUME NEW r \in Reports, NEW t \in Try, Recorded(r, t)
        PROVE  FinishedHasTry'
    <3>1. tries'[r] = Append(tries[r], t) /\ reportStatus'[r] = t.status
      BY <2>0, <2>3 DEF Recorded
    <3>2. tries'[r] # <<>> /\ tries'[r][Len(tries'[r])] = t
      <4>1. tries[r] \in Seq(Try)
        BY <2>0
      <4> QED
        BY <3>1, <4>1
    <3>3. \A q \in Reports \ {r} : reportStatus'[q] = reportStatus[q] /\ tries'[q] = tries[q]
      BY <2>0, <2>3 DEF Recorded
    <3> QED
      BY <3>1, <3>2, <3>3 DEF FinishedHasTry
  <2> QED
    BY <2>1, <2>2, <2>3, ReportStep
<1> QED
  BY <1>1, <1>2, AlwaysIInv, PTL DEF Spec

(***************************************************************************)
(* The pipeline implements RunLedger: for every report, a request makes it *)
(* pending, and an answer and its ledger entry come in one step.           *)
(***************************************************************************)
\* A report without tries maps to an empty ledger.
LEMMA StatusesEmpty ==
  ASSUME NEW s, s = <<>>
  PROVE  [i \in 1..Len(s) |-> s[i].status] = <<>>
<1>1. 1..Len(s) = {}
  BY EmptySeq
<1> QED
  BY <1>1

\* Pushing a try appends its status to the ledger.
LEMMA StatusesAppend ==
  ASSUME NEW s \in Seq(Try), NEW t \in Try
  PROVE  [i \in 1..Len(Append(s, t)) |-> Append(s, t)[i].status]
           = Append([i \in 1..Len(s) |-> s[i].status], t.status)
<1> DEFINE f == [i \in 1..Len(s) |-> s[i].status]
           g == [i \in 1..Len(Append(s, t)) |-> Append(s, t)[i].status]
<1>0. /\ Len(s) \in Nat /\ Len(Append(s, t)) = Len(s) + 1
      /\ \A i \in 1..Len(s) : s[i] \in Try
      /\ \A i \in 1..Len(s) + 1 : Append(s, t)[i] = IF i <= Len(s) THEN s[i] ELSE t
  OBVIOUS
<1>1. f \in Seq(Finished) /\ Len(f) = Len(s)
  <2>1. f \in [1..Len(s) -> Finished]
    BY <1>0 DEF Try
  <2>2. f \in Seq(Finished)
    BY <1>0, <2>1, SeqDef
  <2> QED
    BY <1>0, <2>1, <2>2, LenProperties
<1>2. g \in Seq(Finished) /\ Len(g) = Len(s) + 1
  <2>1. g \in [1..Len(s) + 1 -> Finished]
    BY <1>0 DEF Try
  <2>2. g \in Seq(Finished)
    BY <1>0, <2>1, SeqDef
  <2> QED
    BY <1>0, <2>1, <2>2, LenProperties
<1>3. Append(f, t.status) \in Seq(Finished) /\ Len(Append(f, t.status)) = Len(s) + 1
  BY <1>1 DEF Try
<1>4. \A i \in 1..(Len(s) + 1) : g[i] = Append(f, t.status)[i]
  BY <1>1
<1> QED
  BY <1>2, <1>3, <1>4

\* Every behaviour of the handlers, the queue and the processor, failures and
\* all, is a behaviour of the ledger that RunLedger specifies.
THEOREM PipelineImplementsLedger == Spec => LedgerKept
<1> DEFINE standing == [r \in Reports |-> Standing(reportStatus[r])]
           statuses(r) == [i \in 1..Len(tries[r]) |-> tries[r][i].status]
           ledger == [r \in Reports |-> statuses(r)]
<1>1. Init => Ledger!Init
  <2> SUFFICES ASSUME Init PROVE Ledger!Init
    OBVIOUS
  <2>1. standing = [r \in Reports |-> "unknown"]
    BY DEF Init, Standing, Finished
  <2>2. \A r \in Reports : statuses(r) = <<>>
    BY StatusesEmpty DEF Init
  <2>3. ledger = [r \in Reports |-> <<>>]
    BY <2>2
  <2> QED
    BY <2>1, <2>3 DEF Ledger!Init
<1>2. IInv /\ [Next]_vars => [Ledger!Next]_(Ledger!vars)
  <2> SUFFICES ASSUME IInv, [Next]_vars PROVE [Ledger!Next]_(Ledger!vars)
    OBVIOUS
  <2>0. reportStatus \in [Reports -> ReportStatus] /\ tries \in [Reports -> Seq(Try)]
    BY DEF IInv, TypeOK
  <2>1. CASE UNCHANGED <<reportStatus, tries>>
    BY <2>1 DEF Ledger!vars
  <2>2. ASSUME NEW r \in Reports, Opened(r)
        PROVE  Ledger!Ask(r)
    <3>1. standing' = [standing EXCEPT ![r] = "pending"]
      BY <2>0, <2>2 DEF Opened, Standing, Finished
    <3>2. ledger' = ledger
      BY <2>2 DEF Opened
    <3> QED
      BY <3>1, <3>2 DEF Ledger!Ask
  <2>3. ASSUME NEW r \in Reports, Restarted(r)
        PROVE  Ledger!AskAfresh(r)
    <3>1. standing[r] # "unknown" /\ standing' = [standing EXCEPT ![r] = "pending"]
      BY <2>0, <2>3 DEF Restarted, Standing, Finished
    <3>2. ledger' = [ledger EXCEPT ![r] = <<>>]
      <4>1. tries' = [tries EXCEPT ![r] = <<>>]
        BY <2>3 DEF Restarted
      <4>2. statuses(r)' = <<>>
        BY <2>0, <4>1, StatusesEmpty
      <4>3. \A q \in Reports \ {r} : statuses(q)' = statuses(q)
        BY <2>0, <4>1
      <4> HIDE DEF statuses
      <4> QED
        BY <4>2, <4>3
    <3> QED
      BY <3>1, <3>2 DEF Ledger!AskAfresh
  <2>4. ASSUME NEW r \in Reports, NEW t \in Try, Recorded(r, t)
        PROVE  Ledger!Answer(r, t.status)
    <3>1. standing[r] # "unknown" /\ standing' = [standing EXCEPT ![r] = t.status]
      BY <2>0, <2>4 DEF Recorded, Standing, Finished, Try
    <3>2. ledger' = [ledger EXCEPT ![r] = Append(@, t.status)]
      <4>1. tries' = [tries EXCEPT ![r] = Append(tries[r], t)]
        BY <2>4 DEF Recorded
      <4>2. statuses(r)' = Append(statuses(r), t.status)
        BY <2>0, <4>1, StatusesAppend
      <4>3. \A q \in Reports \ {r} : statuses(q)' = statuses(q)
        BY <2>0, <4>1
      <4> HIDE DEF statuses
      <4> QED
        BY <4>2, <4>3
    <3> QED
      BY <3>1, <3>2 DEF Ledger!Answer
  <2> QED
    BY <2>1, <2>2, <2>3, <2>4, ReportStep DEF Ledger!Next, Try
<1> QED
  BY <1>1, <1>2, AlwaysIInv, PTL DEF Spec, LedgerKept, Ledger!Spec

(***************************************************************************)
(* The numbers of the tries. A number is right between its read and the    *)
(* push as long as nothing else writes tries in between: no second worker, *)
(* and no analysis regeneration, which clears them.                        *)
(***************************************************************************)
NumberInHand(w) ==
  worker[w].pc = "push" => worker[w].number = Len(tries[worker[w].doc.id]) + 1

NoRegenerate == \A c \in Callers : request[c].op # "regenerate"

NumbersInv ==
  /\ TriesNumbered
  /\ \A w \in Workers : NumberInHand(w)
  /\ NoRegenerate

\* Handlers other than regenerate leave the numbering alone.
LEMMA RequestNumbers ==
  ASSUME "regenerate" \notin Ops, IInv, NumbersInv,
         NewRequest \/ \E c \in Callers : RequestStep(c) \/ RequestFails(c)
  PROVE  NumbersInv'
<1>1. request \in [Callers -> RequestState]
  BY DEF IInv, TypeOK
<1>2. UNCHANGED <<tries, worker>>
  BY DEF NewRequest, CreateAnalysis, CreateStandalone, BeginRegenerate, BeginRerun,
         Begin, SoftDelete, RequestStep, RequestFails, CreateReportDoc, ResetReport,
         RequeueReport, WroteReport, Enqueue, MarkRunning, NumbersInv, NoRegenerate
<1>3. NoRegenerate'
  <2>1. CASE NewRequest
    BY <1>1, <2>1 DEF NewRequest, CreateAnalysis, CreateStandalone, BeginRegenerate,
       BeginRerun, Begin, SoftDelete, NumbersInv, NoRegenerate
  <2>2. ASSUME NEW c \in Callers, RequestStep(c) \/ RequestFails(c)
        PROVE  NoRegenerate'
    <3>1. ASSUME NEW r \in Reports, WroteReport(c, r)
          PROVE  NoRegenerate'
      BY <1>1, <3>1 DEF WroteReport, NumbersInv, NoRegenerate, RequestState
    <3>2. CASE Enqueue(c)
      BY <1>1, <3>2 DEF Enqueue, Idle, NumbersInv, NoRegenerate, RequestState
    <3>3. CASE MarkRunning(c) \/ RequestFails(c)
      BY <1>1, <3>3 DEF MarkRunning, RequestFails, Idle, NumbersInv, NoRegenerate
    <3> QED
      BY <2>2, <3>1, <3>2, <3>3 DEF RequestStep, CreateReportDoc, ResetReport, RequeueReport
  <2> QED
    BY <2>1, <2>2
<1> QED
  BY <1>2, <1>3 DEF NumbersInv, TriesNumbered, NumberInHand

\* A sole worker pushes the number it has read before any other is pushed.
LEMMA WorkerNumbers ==
  ASSUME \A v, w \in Workers : v = w, IInv, NumbersInv,
         NEW w \in Workers, WorkerStep(w) \/ WorkerFailure(w)
  PROVE  NumbersInv'
<1>0. /\ worker \in [Workers -> WorkerState] /\ worker[w] \in WorkerState
      /\ tries \in [Reports -> Seq(Try)]
  BY DEF IInv, TypeOK
<1>1. NoRegenerate'
  BY DEF NumbersInv, NoRegenerate, WorkerStep, WorkerFailure, TakeJob, LoadQueued,
         StartReport, RunFlow, ReadTries, PushTry, Settle, CompleteAnalysis,
         FailAnalysis, JobCallFails, StartFails, ApplyFails, Crash, Fault
<1>2. ASSUME worker[w].pc = "push", RecordTry(w), worker'[w].pc # "push"
      PROVE  TriesNumbered' /\ \A v \in Workers : NumberInHand(v)'
  <2> DEFINE k == worker[w]
             r == k.doc.id
             t == [number |-> k.number, trigger |-> Trigger(k.doc), status |-> k.outcome]
  <2>1. r \in Reports /\ k.doc \in Doc
    BY <1>0, <1>2 DEF WorkerState, Doc, IInv, InHand, JobInHand
  <2>2. t \in Try /\ t.number = Len(tries[r]) + 1
    BY <1>0, <1>2, <2>1 DEF WorkerState, Try, Trigger, NumbersInv, NumberInHand
  <2>3. tries' = [tries EXCEPT ![r] = Append(tries[r], t)]
    BY <1>2 DEF RecordTry
  <2> HIDE DEF t, r, k
  <2>4. \A i \in 1..Len(tries'[r]) : tries'[r][i].number = i
    <3>1. tries[r] \in Seq(Try) /\ tries'[r] = Append(tries[r], t)
      BY <1>0, <2>1, <2>3
    <3>2. \A i \in 1..Len(tries[r]) : tries[r][i].number = i
      BY <2>1 DEF NumbersInv, TriesNumbered
    <3> QED
      BY <2>2, <3>1, <3>2
  <2>5. \A q \in Reports \ {r} : tries'[q] = tries[q]
    BY <1>0, <2>3
  <2>6. TriesNumbered'
    BY <2>4, <2>5 DEF NumbersInv, TriesNumbered
  <2> QED
    BY <1>2, <2>6 DEF NumberInHand
<1>3. ASSUME UNCHANGED tries,
             \/ worker'[w].pc # "push"
             \/ worker'[w].number = Len(tries[worker'[w].doc.id]) + 1
      PROVE  TriesNumbered' /\ \A v \in Workers : NumberInHand(v)'
  BY <1>3 DEF NumbersInv, TriesNumbered, NumberInHand
<1>4. CASE ReadTries(w)
  <2>1. /\ worker'[w].doc = worker[w].doc
        /\ worker'[w].number = Len(tries[worker[w].doc.id]) + 1
    BY <1>0, <1>4 DEF ReadTries, WorkerState
  <2> QED
    BY <1>1, <1>3, <1>4, <2>1 DEF ReadTries, NumbersInv
<1>5. CASE PushTry(w)
  <2>1. worker'[w].pc # "push"
    BY <1>0, <1>5 DEF PushTry, WorkerState
  <2> QED
    BY <1>1, <1>2, <1>5, <2>1 DEF PushTry, NumbersInv
<1>6. CASE ApplyFails(w)
  <2>1. worker'[w].pc # "push"
    BY <1>0, <1>6, WithCaught DEF ApplyFails
  <2> QED
    BY <1>1, <1>2, <1>3, <1>6, <2>1 DEF ApplyFails, NumbersInv
<1>7. ASSUME NEW d \in worker[w].todo, StartReport(w, d) \/ StartFails(w, d)
      PROVE  NumbersInv'
  <2>1. worker'[w].pc # "push"
    BY <1>0, <1>7 DEF StartReport, StartFails, WorkerState
  <2> QED
    BY <1>1, <1>3, <1>7, <2>1 DEF StartReport, StartFails, NumbersInv
<1>8. CASE \/ TakeJob(w) \/ LoadQueued(w) \/ RunFlow(w) \/ Settle(w)
           \/ CompleteAnalysis(w) \/ FailAnalysis(w) \/ JobCallFails(w) \/ Crash(w)
  <2>1. worker'[w].pc # "push"
    <3>1. CASE RunFlow(w)
      BY <1>0, <3>1, WithResult DEF RunFlow
    <3>2. CASE CompleteAnalysis(w) \/ FailAnalysis(w) \/ Crash(w)
      BY <1>0, <3>2 DEF CompleteAnalysis, FailAnalysis, Crash, Waiting
    <3>4. CASE TakeJob(w)
      BY <1>0, <3>4 DEF TakeJob, Waiting
    <3>3. CASE LoadQueued(w) \/ Settle(w) \/ JobCallFails(w)
      BY <1>0, <3>3 DEF LoadQueued, Settle, JobCallFails, Waiting, WorkerState
    <3> QED
      BY <1>8, <3>1, <3>2, <3>3, <3>4
  <2>2. UNCHANGED tries
    BY <1>8 DEF TakeJob, LoadQueued, RunFlow, Settle, CompleteAnalysis, FailAnalysis,
                JobCallFails, Crash
  <2> QED
    BY <1>1, <1>3, <2>1, <2>2 DEF NumbersInv
<1> QED
  BY <1>4, <1>5, <1>6, <1>7, <1>8 DEF WorkerStep, WorkerFailure

(***************************************************************************)
(* With one worker process and without analysis regeneration, the tries of *)
(* every report are numbered 1, 2, 3, ..., through any crash and any       *)
(* failed or half-failed write: the read-then-push is safe there.          *)
(***************************************************************************)
THEOREM OneWorkerNumbersTries ==
  ASSUME \A v, w \in Workers : v = w, "regenerate" \notin Ops
  PROVE  Spec => []TriesNumbered
<1>1. Init => NumbersInv
  <2> SUFFICES ASSUME Init PROVE NumbersInv
    OBVIOUS
  <2>1. TriesNumbered
    <3>1. \A r \in Reports : 1..Len(tries[r]) = {}
      BY EmptySeq DEF Init
    <3> QED
      BY <3>1 DEF TriesNumbered
  <2> QED
    BY <2>1 DEF Init, NumbersInv, NumberInHand, NoRegenerate, Idle, Waiting
<1>2. IInv /\ NumbersInv /\ [Next]_vars => NumbersInv'
  <2> SUFFICES ASSUME IInv, NumbersInv, [Next]_vars PROVE NumbersInv'
    OBVIOUS
  <2>1. CASE UNCHANGED vars
    BY <2>1 DEF vars, NumbersInv, TriesNumbered, NumberInHand, NoRegenerate
  <2> QED
    BY <2>1, RequestNumbers, WorkerNumbers DEF Next
<1>3. NumbersInv => TriesNumbered
  BY DEF NumbersInv
<1> QED
  BY <1>1, <1>2, <1>3, AlwaysIInv, PTL DEF Spec

-------------------------------------------------------------------------------
(***************************************************************************)
(* No lost work. What a worker holds belongs to its job, and it holds      *)
(* nothing but while it works through its list; the catch block of the job *)
(* is reached only by a failed call.                                       *)
(***************************************************************************)
Holding(w) ==
  /\ worker[w].pc \notin {"run", "read", "push"} => worker[w].doc = None
  /\ worker[w].pc \in {"idle", "load", "complete"} => worker[w].todo = {}
  /\ worker[w].pc = "idle" => worker[w].analysis = None
  /\ \A d \in worker[w].todo : AnalysisOf[d.id] = worker[w].analysis
  /\ worker[w].doc # None => AnalysisOf[worker[w].doc.id] = worker[w].analysis
  /\ Unharmed => worker[w].pc # "fail"

\* The reports a handler still has to write are those of its analysis.
Writing(c) ==
  /\ request[c].pc = "reports" => \A r \in request[c].left : AnalysisOf[r] = request[c].analysis
  /\ request[c].pc = "idle" => request[c].analysis = None

WorkInv ==
  /\ NoLostWork
  /\ \A w \in Workers : Holding(w)
  /\ \A c \in Callers : Writing(c)

\* Worker w is about to look for the queued reports of analysis a.
Loads(w, a) == worker[w].pc = "load" /\ worker[w].analysis = a

\* Once something has failed, it has.
LEMMA Harm ==
  ASSUME IInv, \/ used' = used
               \/ used' = [used EXCEPT !.requests = @ + 1]
               \/ used' = [used EXCEPT !.crashes = @ + 1]
               \/ used' = [used EXCEPT !.faults = @ + 1]
  PROVE  /\ Unharmed' => Unharmed
         /\ used' = [used EXCEPT !.crashes = @ + 1] \/ used' = [used EXCEPT !.faults = @ + 1]
              => ~Unharmed'
BY DEF IInv, TypeOK, Unharmed

\* A step of a handler that does not fail keeps the work in sight, if what it
\* makes QUEUED is of an analysis for which it will add a job.
LEMMA RequestWork ==
  ASSUME IInv, WorkInv, worker' = worker, Unharmed' => Unharmed,
         \A c \in Callers : Writing(c)',
         \A a \in Analyses : JobWaiting(a) => JobWaiting(a)',
         \A a \in Analyses : JobToCome(a) => JobToCome(a)' \/ JobWaiting(a)',
         \A r \in Reports : reportStatus'[r] = "queued" =>
           reportStatus[r] = "queued" \/ JobToCome(AnalysisOf[r])',
         \A r \in Reports : reportStatus'[r] = "generating" => reportStatus[r] = "generating"
  PROVE  WorkInv'
<1>1. \A w \in Workers : Holding(w)'
  BY DEF WorkInv, Holding
<1>2. ASSUME Unharmed', NEW r \in Reports, reportStatus'[r] = "queued"
      PROVE  \/ JobWaiting(AnalysisOf[r])' \/ JobToCome(AnalysisOf[r])'
             \/ \E w \in Workers : Holds(w, r)' \/ Loads(w, AnalysisOf[r])'
  <2>1. PICK a \in Analyses : a = AnalysisOf[r]
    BY PipelineAssumption
  <2>2. CASE reportStatus[r] = "queued"
    <3>1. JobWaiting(a) \/ JobToCome(a) \/ \E w \in Workers : Holds(w, r) \/ Loads(w, a)
      BY <1>2, <2>1, <2>2 DEF WorkInv, NoLostWork, Loads
    <3>2. \A w \in Workers : /\ Holds(w, r) => Holds(w, r)'
                             /\ Loads(w, a) => Loads(w, a)'
      BY DEF Holds, Runs, Loads
    <3> QED
      BY <2>1, <3>1, <3>2
  <2>3. CASE JobToCome(AnalysisOf[r])'
    BY <2>3
  <2> QED
    BY <1>2, <2>2, <2>3
<1>3. ASSUME Unharmed', NEW r \in Reports, reportStatus'[r] = "generating"
      PROVE  \E w \in Workers : Runs(w, r)'
  BY <1>3 DEF WorkInv, NoLostWork, Runs
<1>4. NoLostWork'
  BY <1>2, <1>3 DEF NoLostWork, Loads
<1> QED
  BY <1>1, <1>4 DEF WorkInv

\* The same for the processor: what worker w held, ran or was about to list,
\* and the job it took, it still does unless the report is done.
LEMMA WorkerWork ==
  ASSUME IInv, WorkInv, NEW w \in Workers, request' = request, Unharmed' => Unharmed,
         \A v \in Workers \ {w} : worker'[v] = worker[v],
         Holding(w)',
         Unharmed' =>
           /\ \A a \in Analyses : JobWaiting(a) => JobWaiting(a)' \/ Loads(w, a)'
           /\ \A r \in Reports : reportStatus'[r] = "queued" =>
                /\ reportStatus[r] = "queued"
                /\ Holds(w, r) \/ Loads(w, AnalysisOf[r]) => Holds(w, r)'
           /\ \A r \in Reports : reportStatus'[r] = "generating" =>
                (reportStatus[r] = "generating" /\ ~Runs(w, r)) \/ Runs(w, r)'
  PROVE  WorkInv'
<1>1. \A v \in Workers : Holding(v)'
  BY DEF WorkInv, Holding
<1>2. \A c \in Callers : Writing(c)'
  BY DEF WorkInv, Writing
<1>3. ASSUME Unharmed', NEW r \in Reports, reportStatus'[r] = "queued"
      PROVE  \/ JobWaiting(AnalysisOf[r])' \/ JobToCome(AnalysisOf[r])'
             \/ \E v \in Workers : Holds(v, r)' \/ Loads(v, AnalysisOf[r])'
  <2>1. PICK a \in Analyses : a = AnalysisOf[r]
    BY PipelineAssumption
  <2>2. JobWaiting(a) \/ JobToCome(a) \/ \E v \in Workers : Holds(v, r) \/ Loads(v, a)
    BY <1>3, <2>1 DEF WorkInv, NoLostWork, Loads
  <2>3. JobToCome(a) => JobToCome(a)'
    BY DEF JobToCome
  <2>4. \A v \in Workers \ {w} : /\ Holds(v, r) => Holds(v, r)'
                                 /\ Loads(v, a) => Loads(v, a)'
    BY DEF Holds, Runs, Loads
  <2> QED
    BY <1>3, <2>1, <2>2, <2>3, <2>4
<1>4. ASSUME Unharmed', NEW r \in Reports, reportStatus'[r] = "generating"
      PROVE  \E v \in Workers : Runs(v, r)'
  <2>1. \A v \in Workers \ {w} : Runs(v, r) => Runs(v, r)'
    BY DEF Runs
  <2>2. reportStatus[r] = "generating" => \E v \in Workers : Runs(v, r)
    BY <1>4 DEF WorkInv, NoLostWork
  <2> QED
    BY <1>4, <2>1, <2>2
<1>5. NoLostWork'
  BY <1>3, <1>4 DEF NoLostWork, Loads
<1> QED
  BY <1>1, <1>2, <1>5 DEF WorkInv

\* The steps of the handlers keep the work in sight.
LEMMA RequestsWork ==
  ASSUME IInv, WorkInv, NewRequest \/ \E c \in Callers : RequestStep(c) \/ RequestFails(c)
  PROVE  WorkInv'
<1>0. request \in [Callers -> RequestState] /\ worker' = worker
  BY DEF IInv, TypeOK, NewRequest, CreateAnalysis, CreateStandalone, BeginRegenerate,
         BeginRerun, Begin, SoftDelete, RequestStep, RequestFails, CreateReportDoc,
         ResetReport, RequeueReport, WroteReport, Enqueue, MarkRunning
<1>1. ASSUME NEW c \in Callers, NEW op, NEW a, NEW left \in SUBSET Reports,
             Begin(c, op, a, left), \A r \in left : AnalysisOf[r] = a
      PROVE  WorkInv'
  <2>1. /\ request[c].pc = "idle"
        /\ request'[c] = [pc |-> "reports", op |-> op, analysis |-> a, left |-> left]
        /\ \A b \in Callers \ {c} : request'[b] = request[b]
        /\ UNCHANGED <<reportStatus, queue>>
    BY <1>0, <1>1 DEF Begin
  <2>2. \A b \in Callers : Writing(b)'
    BY <1>1, <2>1 DEF WorkInv, Writing
  <2>3. \A b \in Analyses : JobToCome(b) => JobToCome(b)'
    BY <2>1 DEF JobToCome
  <2>4. \A b \in Analyses : JobWaiting(b) => JobWaiting(b)'
    BY <2>1 DEF JobWaiting
  <2>5. Unharmed' => Unharmed
    BY <1>1, Harm DEF Begin
  <2> QED
    BY <1>0, <2>1, <2>2, <2>3, <2>4, <2>5, RequestWork
<1>2. CASE NewRequest
  <2>1. ASSUME NEW c \in Callers, NEW a \in Analyses,
               CreateAnalysis(c, a) \/ CreateStandalone(c, a) \/ BeginRegenerate(c, a)
        PROVE  WorkInv'
    <3>1. PICK op : Begin(c, op, a, ReportsOf(a))
      BY <2>1 DEF CreateAnalysis, CreateStandalone, BeginRegenerate
    <3> QED
      BY <1>1, <3>1 DEF ReportsOf
  <2>2. ASSUME NEW c \in Callers, NEW r \in Reports, BeginRerun(c, r) PROVE WorkInv'
    BY <1>1, <2>2 DEF BeginRerun
  <2>3. ASSUME NEW a \in Analyses, SoftDelete(a) PROVE WorkInv'
    <3>1. UNCHANGED <<reportStatus, queue, request, worker>> /\ (Unharmed' => Unharmed)
      BY <2>3, Harm DEF SoftDelete
    <3>2. /\ \A c \in Callers : Writing(c)'
          /\ \A b \in Analyses : JobWaiting(b) => JobWaiting(b)'
          /\ \A b \in Analyses : JobToCome(b) => JobToCome(b)'
      BY <3>1 DEF WorkInv, Writing, JobWaiting, JobToCome
    <3> QED
      BY <3>1, <3>2, RequestWork
  <2> QED
    BY <1>2, <2>1, <2>2, <2>3 DEF NewRequest
<1>3. ASSUME NEW c \in Callers, NEW r \in Reports,
             CreateReportDoc(c, r) \/ ResetReport(c, r) \/ RequeueReport(c, r)
      PROVE  WorkInv'
  <2>1. /\ WroteReport(c, r)
        /\ reportStatus' = reportStatus \/ reportStatus' = [reportStatus EXCEPT ![r] = "queued"]
    BY <1>3 DEF CreateReportDoc, ResetReport, RequeueReport
  <2>2. /\ request[c].pc = "reports" /\ r \in request[c].left
        /\ request'[c].pc = "reports" /\ request'[c].analysis = request[c].analysis
        /\ request'[c].left \subseteq request[c].left
        /\ \A b \in Callers \ {c} : request'[b] = request[b]
        /\ UNCHANGED <<queue, used>>
    BY <1>0, <2>1 DEF WroteReport, RequestState
  <2>3. \A b \in Callers : Writing(b)'
    BY <2>2 DEF WorkInv, Writing
  <2>4. \A a \in Analyses : JobWaiting(a) => JobWaiting(a)'
    BY <2>2 DEF JobWaiting
  <2>5. \A a \in Analyses : JobToCome(a) => JobToCome(a)'
    BY <2>2 DEF JobToCome
  <2>6. request[c].analysis = AnalysisOf[r]
    BY <2>2 DEF WorkInv, Writing
  <2>7. PICK a \in Analyses : a = AnalysisOf[r]
    BY PipelineAssumption
  <2>8. JobToCome(a)'
    BY <2>2, <2>6, <2>7 DEF JobToCome
  <2>9. reportStatus \in [Reports -> ReportStatus]
    BY DEF IInv, TypeOK
  <2>10. \A q \in Reports : reportStatus'[q] = "queued" =>
           reportStatus[q] = "queued" \/ JobToCome(AnalysisOf[q])'
    BY <2>1, <2>7, <2>8, <2>9
  <2>11. \A q \in Reports : reportStatus'[q] = "generating" => reportStatus[q] = "generating"
    BY <2>1, <2>9
  <2> QED
    BY <1>0, <2>2, <2>3, <2>4, <2>5, <2>10, <2>11, Harm, RequestWork
<1>4. ASSUME NEW c \in Callers, Enqueue(c) PROVE WorkInv'
  <2>0. PICK a \in Analyses : a = request[c].analysis
    BY <1>4 DEF Enqueue, IInv, InHand, RequestInHand
  <2> DEFINE job == [analysis |-> a, stalls |-> 0]
  <2>1. /\ queue' = Append(queue, job) /\ queue \in Seq(Job) /\ job \in Job
        /\ request'[c].pc # "reports" /\ \A b \in Callers \ {c} : request'[b] = request[b]
        /\ request'[c].pc = "idle" => request'[c].analysis = None
        /\ UNCHANGED <<reportStatus, used>>
    BY <1>0, <1>4, <2>0 DEF Enqueue, Idle, RequestState, IInv, TypeOK, Job
  <2>2. /\ Len(queue') = Len(queue) + 1 /\ Len(queue) \in Nat /\ queue'[Len(queue) + 1] = job
        /\ \A i \in 1..Len(queue) : queue'[i] = queue[i]
    <3> HIDE DEF job
    <3> QED
      BY <2>1
  <2>3. \A b \in Analyses : JobWaiting(b) => JobWaiting(b)'
    BY <2>2 DEF JobWaiting
  <2>4. JobWaiting(a)'
    BY <2>2 DEF JobWaiting
  <2>5. \A b \in Analyses : JobToCome(b) => JobToCome(b)' \/ b = a
    BY <2>0, <2>1 DEF JobToCome
  <2>6. \A b \in Callers : Writing(b)'
    BY <2>1 DEF WorkInv, Writing
  <2>7. \A b \in Analyses : JobToCome(b) => JobToCome(b)' \/ JobWaiting(b)'
    BY <2>4, <2>5
  <2> QED
    BY <1>0, <2>1, <2>3, <2>6, <2>7, Harm, RequestWork
<1>5. ASSUME NEW c \in Callers, MarkRunning(c) PROVE WorkInv'
  <2>1. /\ request[c].pc = "mark" /\ request'[c] = Idle
        /\ \A b \in Callers \ {c} : request'[b] = request[b]
        /\ UNCHANGED <<reportStatus, queue, used>>
    BY <1>0, <1>5 DEF MarkRunning
  <2>2. \A b \in Callers : Writing(b)'
    BY <2>1 DEF WorkInv, Writing, Idle
  <2>3. \A b \in Analyses : JobToCome(b) => JobToCome(b)'
    BY <2>1 DEF JobToCome
  <2>4. \A b \in Analyses : JobWaiting(b) => JobWaiting(b)'
    BY <2>1 DEF JobWaiting
  <2> QED
    BY <1>0, <2>1, <2>2, <2>3, <2>4, Harm, RequestWork
<1>6. ASSUME NEW c \in Callers, RequestFails(c) PROVE WorkInv'
  <2>1. /\ request'[c] = Idle /\ \A b \in Callers \ {c} : request'[b] = request[b]
        /\ ~Unharmed'
    BY <1>0, <1>6, Harm DEF RequestFails
  <2>2. \A b \in Callers : Writing(b)'
    BY <2>1 DEF WorkInv, Writing, Idle
  <2>3. \A w \in Workers : Holding(w)'
    BY <1>0, <2>1 DEF WorkInv, Holding
  <2> QED
    BY <2>1, <2>2, <2>3 DEF WorkInv, NoLostWork
<1> QED
  BY <1>2, <1>3, <1>4, <1>5, <1>6 DEF RequestStep

(***************************************************************************)
(* What each step of the processor leaves worker w with.                   *)
(***************************************************************************)
\* A step of a worker leaves the handlers and the other workers alone.
LEMMA OneWorker ==
  ASSUME IInv, NEW w \in Workers, WorkerStep(w) \/ WorkerFailure(w)
  PROVE  /\ request' = request /\ \A v \in Workers \ {w} : worker'[v] = worker[v]
         /\ Unharmed' => Unharmed
<1>1. worker \in [Workers -> WorkerState]
  BY DEF IInv, TypeOK
<1>2. /\ request' = request /\ \A v \in Workers \ {w} : worker'[v] = worker[v]
  BY <1>1 DEF WorkerStep, WorkerFailure, TakeJob, LoadQueued, StartReport, RunFlow, ReadTries,
         PushTry, Settle, CompleteAnalysis, FailAnalysis, JobCallFails, StartFails,
         ApplyFails, Crash, Fault
<1>3. \/ used' = used
      \/ used' = [used EXCEPT !.crashes = @ + 1]
      \/ used' = [used EXCEPT !.faults = @ + 1]
  BY DEF WorkerStep, WorkerFailure, TakeJob, LoadQueued, StartReport, RunFlow, ReadTries,
         PushTry, Settle, CompleteAnalysis, FailAnalysis, JobCallFails, StartFails,
         ApplyFails, Crash, Fault
<1> QED
  BY <1>2, <1>3, Harm

LEMMA AfterTake ==
  ASSUME IInv, NEW w \in Workers, TakeJob(w)
  PROVE  /\ worker[w].pc = "idle" /\ worker'[w].pc = "load" /\ worker'[w].doc = None
         /\ worker'[w].todo = {} /\ worker'[w].analysis = Head(queue).analysis
         /\ queue # <<>> /\ queue' = Tail(queue) /\ queue \in Seq(Job)
         /\ UNCHANGED <<analysisStatus, reportStatus>>
BY DEF TakeJob, Waiting, IInv, TypeOK

LEMMA AfterLoad ==
  ASSUME IInv, NEW w \in Workers, LoadQueued(w)
  PROVE  /\ worker[w].pc = "load" /\ worker'[w].pc = "next" /\ worker'[w].doc = worker[w].doc
         /\ worker'[w].analysis = worker[w].analysis
         /\ \A d \in worker'[w].todo :
              /\ d.id \in Reports /\ reportStatus[d.id] = "queued" /\ d.status = "queued"
              /\ AnalysisOf[d.id] = worker[w].analysis
         /\ \A r \in Reports :
              reportStatus[r] = "queued" /\ AnalysisOf[r] = worker[w].analysis =>
                \E d \in worker'[w].todo : d.id = r
         /\ UNCHANGED <<analysisStatus, reportStatus, queue>>
<1> DEFINE t == {[id |-> r, status |-> reportStatus[r]] :
                   r \in {q \in ReportsOf(worker[w].analysis) : reportStatus[q] = "queued"}}
<1>1. worker' = [worker EXCEPT ![w].pc = "next", ![w].todo = t]
  BY DEF LoadQueued
<1>2. /\ \A d \in t : /\ d.id \in Reports /\ reportStatus[d.id] = "queued" /\ d.status = "queued"
                      /\ AnalysisOf[d.id] = worker[w].analysis
      /\ \A r \in Reports :
           reportStatus[r] = "queued" /\ AnalysisOf[r] = worker[w].analysis =>
             \E d \in t : d.id = r
  <2>1. \A d \in t : \E r \in Reports :
          /\ reportStatus[r] = "queued" /\ AnalysisOf[r] = worker[w].analysis
          /\ d = [id |-> r, status |-> reportStatus[r]]
    BY DEF ReportsOf
  <2>2. ASSUME NEW r \in Reports, reportStatus[r] = "queued",
               AnalysisOf[r] = worker[w].analysis
        PROVE  \E d \in t : d.id = r
    <3>1. [id |-> r, status |-> reportStatus[r]] \in t
      BY <2>2 DEF ReportsOf
    <3> QED
      BY <3>1
  <2> HIDE DEF t
  <2> QED
    BY <2>1, <2>2
<1> HIDE DEF t
<1>3. /\ worker'[w].pc = "next" /\ worker'[w].doc = worker[w].doc /\ worker'[w].todo = t
      /\ worker'[w].analysis = worker[w].analysis
  BY <1>1 DEF IInv, TypeOK, WorkerState
<1> QED
  BY <1>2, <1>3 DEF LoadQueued

LEMMA AfterStart ==
  ASSUME IInv, NEW w \in Workers, NEW d \in worker[w].todo, StartReport(w, d)
  PROVE  /\ worker[w].pc = "next" /\ worker'[w].pc = "run" /\ worker'[w].doc = d
         /\ worker'[w].todo = worker[w].todo \ {d} /\ d \in Doc /\ d # None
         /\ worker'[w].analysis = worker[w].analysis /\ worker'[w].caught = FALSE
         /\ reportStatus'[d.id] = "generating"
         /\ \A r \in Reports \ {d.id} : reportStatus'[r] = reportStatus[r]
         /\ UNCHANGED <<analysisStatus, queue>>
<1>1. /\ worker \in [Workers -> WorkerState] /\ d \in Doc
      /\ reportStatus \in [Reports -> ReportStatus]
  BY DEF IInv, TypeOK, WorkerState
<1>2. d # None /\ d.id \in Reports
  BY <1>1, PipelineAssumption DEF Doc
<1> QED
  BY <1>1, <1>2 DEF StartReport, WorkerState

\* The end of a flow and the read of the number of tries.
LEMMA AfterRun ==
  ASSUME IInv, NEW w \in Workers, RunFlow(w) \/ ReadTries(w)
  PROVE  /\ worker[w].pc \in {"run", "read"} /\ worker'[w].pc \in {"read", "push"}
         /\ worker'[w].doc = worker[w].doc /\ worker'[w].todo = worker[w].todo
         /\ worker'[w].analysis = worker[w].analysis
         /\ worker[w].pc = "run" \/ worker'[w].caught = worker[w].caught
         /\ UNCHANGED <<analysisStatus, reportStatus, queue>>
<1>1. worker \in [Workers -> WorkerState]
  BY DEF IInv, TypeOK
<1>2. CASE RunFlow(w)
  BY <1>1, <1>2, WithResult DEF RunFlow
<1>3. CASE ReadTries(w)
  BY <1>1, <1>3 DEF ReadTries, WorkerState
<1> QED
  BY <1>2, <1>3

\* The report in hand gets its outcome.
LEMMA AfterRecord ==
  ASSUME IInv, NEW w \in Workers, worker[w].pc = "push", RecordTry(w)
  PROVE  /\ worker[w].doc # None /\ worker[w].doc.id \in Reports
         /\ reportStatus'[worker[w].doc.id] \in Finished
         /\ \A r \in Reports \ {worker[w].doc.id} : reportStatus'[r] = reportStatus[r]
<1>1. /\ worker[w] \in WorkerState /\ reportStatus \in [Reports -> ReportStatus]
      /\ worker[w].doc # None
  BY DEF IInv, TypeOK, InHand, JobInHand
<1>2. worker[w].doc.id \in Reports /\ worker[w].outcome \in Finished
  BY <1>1 DEF WorkerState, Doc
<1> QED
  BY <1>1, <1>2 DEF RecordTry

LEMMA AfterPush ==
  ASSUME IInv, NEW w \in Workers, PushTry(w)
  PROVE  /\ worker[w].pc = "push" /\ worker'[w].pc = "next" /\ worker'[w].doc = None
         /\ worker'[w].todo = worker[w].todo /\ worker'[w].analysis = worker[w].analysis
         /\ UNCHANGED <<analysisStatus, queue>>
BY DEF PushTry, IInv, TypeOK, WorkerState

\* The worker is done with its list, or with its job.
LEMMA AfterSettle ==
  ASSUME IInv, NEW w \in Workers, Settle(w)
  PROVE  /\ worker[w].pc = "next" /\ worker[w].todo = {}
         /\ \/ /\ worker'[w].pc = "complete" /\ worker'[w].doc = worker[w].doc
               /\ worker'[w].todo = {} /\ worker'[w].analysis = worker[w].analysis
            \/ worker'[w] = Waiting /\ ~AllDone(worker[w].analysis)
         /\ UNCHANGED <<analysisStatus, reportStatus, queue>>
BY DEF Settle, IInv, TypeOK, WorkerState

LEMMA AfterEnd ==
  ASSUME IInv, NEW w \in Workers, CompleteAnalysis(w) \/ FailAnalysis(w)
  PROVE  /\ worker[w].pc \in {"complete", "fail"} /\ worker'[w] = Waiting
         /\ analysisStatus'[worker[w].analysis] # "running"
         /\ \A a \in Analyses \ {worker[w].analysis} : analysisStatus'[a] = analysisStatus[a]
         /\ UNCHANGED <<reportStatus, queue>>
BY DEF CompleteAnalysis, FailAnalysis, IInv, TypeOK, InHand, JobInHand

\* A call of the job outside its reports fails: into the catch block, or out.
LEMMA AfterJobFails ==
  ASSUME IInv, NEW w \in Workers, JobCallFails(w) \/ Crash(w)
  PROVE  /\ \/ /\ worker'[w].pc = "fail" /\ worker'[w].doc = worker[w].doc
               /\ worker'[w].todo = worker[w].todo /\ worker'[w].analysis = worker[w].analysis
               /\ worker[w].pc \in {"load", "complete", "next"}
            \/ worker'[w] = Waiting
         /\ ~Unharmed' /\ UNCHANGED reportStatus
<1>1. worker \in [Workers -> WorkerState]
  BY DEF IInv, TypeOK
<1>2. ~Unharmed'
  BY Harm DEF JobCallFails, Crash, Fault
<1>3. CASE JobCallFails(w)
  BY <1>1, <1>2, <1>3 DEF JobCallFails, WorkerState
<1>4. CASE Crash(w)
  BY <1>1, <1>2, <1>4 DEF Crash
<1> QED
  BY <1>3, <1>4

LEMMA AfterStartFails ==
  ASSUME IInv, NEW w \in Workers, NEW d \in worker[w].todo, StartFails(w, d)
  PROVE  /\ worker[w].pc = "next" /\ worker'[w].pc = "read" /\ worker'[w].doc = d
         /\ worker'[w].todo = worker[w].todo \ {d}
         /\ worker'[w].analysis = worker[w].analysis /\ worker'[w].caught = TRUE
         /\ ~Unharmed' /\ UNCHANGED reportStatus
<1>1. worker \in [Workers -> WorkerState]
  BY DEF IInv, TypeOK
<1>2. ~Unharmed'
  BY Harm DEF StartFails, Fault
<1> QED
  BY <1>1, <1>2 DEF StartFails, WorkerState

LEMMA AfterApplyFails ==
  ASSUME IInv, NEW w \in Workers, ApplyFails(w)
  PROVE  /\ worker[w].pc \in {"read", "push"} /\ worker'[w].pc \in {"fail", "read"}
         /\ IF worker'[w].pc = "fail" THEN worker'[w].doc = None
            ELSE worker'[w].doc = worker[w].doc /\ worker'[w].caught = TRUE
         /\ worker'[w].todo = worker[w].todo /\ worker'[w].analysis = worker[w].analysis
         /\ UNCHANGED reportStatus \/ (worker[w].pc = "push" /\ RecordTry(w))
         /\ ~Unharmed'
<1>1. worker[w] \in WorkerState /\ worker' = [worker EXCEPT ![w] = Caught(@)]
      /\ worker \in [Workers -> WorkerState]
  BY DEF IInv, TypeOK, ApplyFails
<1>2. ~Unharmed'
  BY Harm DEF ApplyFails, Fault
<1>3. CASE worker[w].caught
  <2>1. worker'[w] = [worker[w] EXCEPT !.pc = "fail", !.doc = None]
    BY <1>1, <1>3 DEF Caught
  <2> QED
    BY <1>1, <1>2, <2>1 DEF ApplyFails, WorkerState
<1>4. CASE ~worker[w].caught
  <2>1. worker'[w] = [worker[w] EXCEPT !.pc = "read", !.outcome = "failed", !.caught = TRUE]
    BY <1>1, <1>4 DEF Caught
  <2> QED
    BY <1>1, <1>2, <2>1 DEF ApplyFails, WorkerState
<1> QED
  BY <1>3, <1>4

\* The processor keeps the work in sight, and what it drops it has answered.
LEMMA WorkersWork ==
  ASSUME IInv, WorkInv, NEW w \in Workers, WorkerStep(w) \/ WorkerFailure(w)
  PROVE  WorkInv'
<1>0. /\ request' = request /\ \A v \in Workers \ {w} : worker'[v] = worker[v]
      /\ Unharmed' => Unharmed
  BY OneWorker
<1>h. Holding(w)
  BY DEF WorkInv
<1>w. Waiting.pc = "idle" /\ Waiting.doc = None /\ Waiting.todo = {} /\ Waiting.analysis = None
  BY DEF Waiting
<1>1. CASE TakeJob(w)
  <2>1. Holding(w)'
    BY <1>1, AfterTake DEF Holding
  <2>2. ASSUME NEW a \in Analyses, JobWaiting(a) PROVE JobWaiting(a)' \/ Loads(w, a)'
    <3>1. PICK i \in 1..Len(queue) : queue[i].analysis = a
      BY <2>2 DEF JobWaiting
    <3>2. queue \in Seq(Job) /\ queue # <<>> /\ queue' = Tail(queue)
      BY <1>1, AfterTake
    <3>3. CASE i = 1
      BY <1>1, <3>1, <3>2, <3>3, AfterTake DEF Loads
    <3>4. CASE i # 1
      <4>1. i - 1 \in 1..Len(queue') /\ queue'[i - 1] = queue[i]
        BY <3>2, <3>4
      <4> QED
        BY <3>1, <4>1 DEF JobWaiting
    <3> QED
      BY <3>3, <3>4
  <2>3. \A r \in Reports : ~Runs(w, r) /\ ~Holds(w, r) /\ ~Loads(w, AnalysisOf[r])
    BY <1>1, <1>h, AfterTake DEF Holding, Runs, Holds, Loads
  <2> QED
    BY <1>0, <1>1, <2>1, <2>2, <2>3, AfterTake, WorkerWork
<1>2. CASE LoadQueued(w)
  <2>1. Holding(w)'
    BY <1>0, <1>2, <1>h, AfterLoad DEF Holding
  <2>2. \A a \in Analyses : JobWaiting(a) => JobWaiting(a)'
    BY <1>2, AfterLoad DEF JobWaiting
  <2>3. \A r \in Reports : ~Runs(w, r)
    BY <1>2, <1>h, AfterLoad DEF Holding, Runs
  <2>4. \A r \in Reports : reportStatus[r] = "queued" /\ (Holds(w, r) \/ Loads(w, AnalysisOf[r]))
           => Holds(w, r)'
    BY <1>2, <1>h, <2>3, AfterLoad DEF Holding, Holds, Loads
  <2> QED
    BY <1>0, <1>2, <2>1, <2>2, <2>3, <2>4, AfterLoad, WorkerWork
<1>3. ASSUME NEW d \in worker[w].todo, StartReport(w, d) PROVE WorkInv'
  <2>0. /\ worker[w].pc = "next" /\ worker'[w].pc = "run" /\ worker'[w].doc = d
        /\ worker'[w].todo = worker[w].todo \ {d} /\ d # None
        /\ worker'[w].analysis = worker[w].analysis
        /\ reportStatus'[d.id] = "generating"
        /\ \A r \in Reports \ {d.id} : reportStatus'[r] = reportStatus[r]
        /\ queue' = queue
    BY <1>3, AfterStart
  <2>1. Holding(w)'
    BY <1>0, <1>3, <1>h, <2>0 DEF Holding
  <2>2. \A a \in Analyses : JobWaiting(a) => JobWaiting(a)'
    BY <2>0 DEF JobWaiting
  <2>3. \A r \in Reports : ~Runs(w, r) /\ ~Loads(w, AnalysisOf[r])
    BY <1>3, <1>h, <2>0 DEF Holding, Runs, Loads
  <2>4. Runs(w, d.id)'
    BY <2>0 DEF Runs
  <2>5. \A r \in Reports \ {d.id} : Holds(w, r) => Holds(w, r)'
    BY <2>0, <2>3 DEF Holds
  <2> QED
    BY <1>0, <1>3, <2>1, <2>2, <2>3, <2>4, <2>5, <2>0, WorkerWork
<1>4. CASE RunFlow(w) \/ ReadTries(w)
  <2>1. Holding(w)'
    BY <1>0, <1>4, <1>h, AfterRun DEF Holding
  <2>2. \A a \in Analyses : JobWaiting(a) => JobWaiting(a)'
    BY <1>4, AfterRun DEF JobWaiting
  <2>3. \A r \in Reports : /\ Runs(w, r) => Runs(w, r)'
                           /\ Holds(w, r) => Holds(w, r)'
                           /\ ~Loads(w, AnalysisOf[r])
    BY <1>4, AfterRun DEF Runs, Holds, Loads
  <2> QED
    BY <1>0, <1>4, <2>1, <2>2, <2>3, AfterRun, WorkerWork
<1>5. CASE PushTry(w)
  <2>1. Holding(w)'
    BY <1>0, <1>5, <1>h, AfterPush DEF Holding
  <2>2. \A a \in Analyses : JobWaiting(a) => JobWaiting(a)'
    BY <1>5, AfterPush DEF JobWaiting
  <2>3. RecordTry(w) /\ worker[w].pc = "push"
    BY <1>5 DEF PushTry
  <2>4. reportStatus'[worker[w].doc.id] \notin {"queued", "generating"}
    BY <2>3, AfterRecord DEF Finished
  <2>5. \A r \in Reports \ {worker[w].doc.id} :
          /\ reportStatus'[r] = reportStatus[r] /\ ~Runs(w, r) /\ ~Loads(w, AnalysisOf[r])
          /\ Holds(w, r) => Holds(w, r)'
    BY <1>5, <2>3, AfterRecord, AfterPush DEF Runs, Holds, Loads
  <2> QED
    BY <1>0, <2>1, <2>2, <2>4, <2>5, WorkerWork
<1>6. CASE Settle(w)
  <2>1. Holding(w)'
    BY <1>0, <1>6, <1>h, <1>w, AfterSettle DEF Holding
  <2>2. \A a \in Analyses : JobWaiting(a) => JobWaiting(a)'
    BY <1>6, AfterSettle DEF JobWaiting
  <2>3. \A r \in Reports : ~Runs(w, r) /\ ~Holds(w, r) /\ ~Loads(w, AnalysisOf[r])
    BY <1>6, <1>h, AfterSettle DEF Holding, Runs, Holds, Loads
  <2> QED
    BY <1>0, <1>6, <2>1, <2>2, <2>3, AfterSettle, WorkerWork
<1>7. CASE CompleteAnalysis(w) \/ FailAnalysis(w)
  <2>1. Holding(w)'
    BY <1>7, <1>w, AfterEnd DEF Holding
  <2>2. \A a \in Analyses : JobWaiting(a) => JobWaiting(a)'
    BY <1>7, AfterEnd DEF JobWaiting
  <2>3. Unharmed => \A r \in Reports : ~Runs(w, r) /\ ~Holds(w, r) /\ ~Loads(w, AnalysisOf[r])
    BY <1>7, <1>h, AfterEnd DEF Holding, Runs, Holds, Loads
  <2> QED
    BY <1>0, <1>7, <2>1, <2>2, <2>3, AfterEnd, WorkerWork
<1>8. CASE JobCallFails(w) \/ Crash(w)
  <2>1. Holding(w)'
    BY <1>8, <1>h, <1>w, AfterJobFails DEF Holding
  <2> QED
    BY <1>0, <1>8, <2>1, AfterJobFails, WorkerWork
<1>9. ASSUME NEW d \in worker[w].todo, StartFails(w, d) PROVE WorkInv'
  <2>1. Holding(w)'
    BY <1>9, <1>h, AfterStartFails DEF Holding
  <2> QED
    BY <1>0, <1>9, <2>1, AfterStartFails, WorkerWork
<1>10. CASE ApplyFails(w)
  <2>1. Holding(w)'
    BY <1>10, <1>h, AfterApplyFails DEF Holding
  <2> QED
    BY <1>0, <1>10, <2>1, AfterApplyFails, WorkerWork
<1> QED
  BY <1>1, <1>2, <1>3, <1>4, <1>5, <1>6, <1>7, <1>8, <1>9, <1>10 DEF WorkerStep, WorkerFailure

LEMMA AlwaysWorkInv == Spec => []WorkInv
<1>1. Init => WorkInv
  BY DEF Init, WorkInv, NoLostWork, Holding, Writing, Idle, Waiting
<1>2. IInv /\ WorkInv /\ [Next]_vars => WorkInv'
  <2> SUFFICES ASSUME IInv, WorkInv, [Next]_vars PROVE WorkInv'
    OBVIOUS
  <2>1. CASE UNCHANGED vars
    BY <2>1 DEF vars, WorkInv, NoLostWork, Holding, Writing, Unharmed, JobWaiting, JobToCome,
                Holds, Runs
  <2> QED
    BY <2>1, RequestsWork, WorkersWork DEF Next
<1> QED
  BY <1>1, <1>2, AlwaysIInv, PTL DEF Spec

(***************************************************************************)
(* As long as nothing crashes and no call fails, no interleaving of any    *)
(* number of requests and workers strands a report.                        *)
(***************************************************************************)
THEOREM NoReportIsStranded == Spec => []NoLostWork
<1>1. WorkInv => NoLostWork
  BY DEF WorkInv
<1> QED
  BY <1>1, AlwaysWorkInv, PTL

-------------------------------------------------------------------------------
(***************************************************************************)
(* RUNNING means busy. It does where RUNNING is written together with the  *)
(* promise of a job, by the public API, and not once the job is added, by  *)
(* create and regenerate.                                                  *)
(***************************************************************************)
JobFirst == Ops \cap {"create", "regenerate"} = {}

\* No handler writes RUNNING after its job has been added.
NoMark == \A c \in Callers :
  request[c].op \notin {"create", "regenerate"} /\ request[c].pc # "mark"

Busy(a) ==
  \/ JobWaiting(a)
  \/ \E w \in Workers : worker[w].analysis = a
  \/ \E c \in Callers : request[c].analysis = a

BusyInv == RunningIsBusy /\ NoMark

\* The handlers of the other endpoints stay busy until their job is waiting.
LEMMA RequestsBusy ==
  ASSUME JobFirst, IInv, WorkInv, BusyInv,
         NewRequest \/ \E c \in Callers : RequestStep(c) \/ RequestFails(c)
  PROVE  BusyInv'
<1>0. request \in [Callers -> RequestState] /\ worker' = worker
  BY DEF IInv, TypeOK, NewRequest, CreateAnalysis, CreateStandalone, BeginRegenerate,
         BeginRerun, Begin, SoftDelete, RequestStep, RequestFails, CreateReportDoc,
         ResetReport, RequeueReport, WroteReport, Enqueue, MarkRunning
<1>n. NoMark
  BY DEF BusyInv
<1>a. None \notin Analyses /\ analysisStatus \in [Analyses -> AnalysisStatus]
  BY PipelineAssumption DEF IInv, TypeOK
\* It is enough that what was busy or has become RUNNING is busy afterwards.
<1>b. ASSUME Unharmed' => Unharmed, NoMark',
             \A a \in Analyses : Unharmed' /\ Busy(a) => Busy(a)',
             \A a \in Analyses : Unharmed' /\ analysisStatus'[a] = "running" =>
               analysisStatus[a] = "running" \/ Busy(a)'
      PROVE  BusyInv'
  BY <1>b DEF BusyInv, RunningIsBusy, Busy
<1>1. ASSUME NEW c \in Callers, NEW op, NEW a \in Analyses, NEW left, Begin(c, op, a, left),
             \A b \in Analyses \ {a} : analysisStatus'[b] = analysisStatus[b]
      PROVE  BusyInv'
  <2>1. /\ request[c].pc = "idle" /\ op \in Ops
        /\ request'[c] = [pc |-> "reports", op |-> op, analysis |-> a, left |-> left]
        /\ \A b \in Callers \ {c} : request'[b] = request[b]
        /\ queue' = queue
    BY <1>0, <1>1 DEF Begin
  <2>2. request[c].analysis = None
    BY <2>1 DEF WorkInv, Writing
  <2>3. \A b \in Analyses : Busy(b) => Busy(b)'
    BY <1>0, <1>a, <2>1, <2>2 DEF Busy, JobWaiting
  <2>4. Busy(a)'
    BY <2>1 DEF Busy
  <2>5. NoMark'
    BY <1>n, <2>1 DEF NoMark, JobFirst
  <2>6. Unharmed' => Unharmed
    BY <1>1, Harm DEF Begin
  <2> QED
    BY <1>1, <1>b, <2>3, <2>4, <2>5, <2>6
<1>2. CASE NewRequest
  <2>1. ASSUME NEW c \in Callers, NEW a \in Analyses,
               CreateAnalysis(c, a) \/ CreateStandalone(c, a) \/ BeginRegenerate(c, a)
        PROVE  BusyInv'
    BY <1>1, <1>a, <2>1 DEF CreateAnalysis, CreateStandalone, BeginRegenerate
  <2>2. ASSUME NEW c \in Callers, NEW r \in Reports, BeginRerun(c, r) PROVE BusyInv'
    <3>1. AnalysisOf[r] \in Analyses
      BY PipelineAssumption
    <3> QED
      BY <1>1, <2>2, <3>1 DEF BeginRerun
  <2>3. ASSUME NEW a \in Analyses, SoftDelete(a) PROVE BusyInv'
    <3>1. UNCHANGED <<queue, request, worker>> /\ (Unharmed' => Unharmed)
      BY <2>3, Harm DEF SoftDelete
    <3>2. \A b \in Analyses : Busy(b) => Busy(b)'
      BY <3>1 DEF Busy, JobWaiting
    <3>3. \A b \in Analyses : analysisStatus'[b] = "running" => analysisStatus[b] = "running"
      BY <1>a, <2>3 DEF SoftDelete
    <3> QED
      BY <1>b, <1>n, <3>1, <3>2, <3>3 DEF NoMark
  <2> QED
    BY <1>2, <2>1, <2>2, <2>3 DEF NewRequest
<1>3. ASSUME NEW c \in Callers, NEW r \in Reports, WroteReport(c, r)
      PROVE  BusyInv'
  <2>1. /\ request'[c].pc = request[c].pc /\ request'[c].analysis = request[c].analysis
        /\ request'[c].op = request[c].op
        /\ \A b \in Callers \ {c} : request'[b] = request[b]
        /\ UNCHANGED <<analysisStatus, queue, used>>
    BY <1>0, <1>3 DEF WroteReport, RequestState
  <2>2. \A b \in Analyses : Busy(b) => Busy(b)'
    BY <1>0, <2>1 DEF Busy, JobWaiting
  <2>3. NoMark'
    BY <1>n, <2>1 DEF NoMark
  <2> QED
    BY <1>b, <2>1, <2>2, <2>3, Harm
<1>4. ASSUME NEW c \in Callers, Enqueue(c) PROVE BusyInv'
  <2>1. PICK a \in Analyses : a = request[c].analysis
    BY <1>4 DEF Enqueue, IInv, InHand, RequestInHand
  <2> DEFINE job == [analysis |-> a, stalls |-> 0]
  <2>2. /\ queue' = Append(queue, job) /\ queue \in Seq(Job) /\ job \in Job
        /\ request'[c] = Idle /\ \A b \in Callers \ {c} : request'[b] = request[b]
        /\ UNCHANGED <<analysisStatus, used>>
    BY <1>0, <1>4, <1>n, <2>1 DEF Enqueue, IInv, TypeOK, Job, NoMark
  <2>3. /\ Len(queue') = Len(queue) + 1 /\ Len(queue) \in Nat /\ queue'[Len(queue) + 1] = job
        /\ \A i \in 1..Len(queue) : queue'[i] = queue[i]
    <3> HIDE DEF job
    <3> QED
      BY <2>2
  <2>4. JobWaiting(a)' /\ \A b \in Analyses : JobWaiting(b) => JobWaiting(b)'
    BY <2>3 DEF JobWaiting
  <2>5. \A b \in Analyses : Busy(b) => Busy(b)'
    BY <1>0, <2>1, <2>2, <2>4 DEF Busy
  <2>6. NoMark'
    BY <1>n, <2>2 DEF NoMark, Idle
  <2> QED
    BY <1>b, <2>2, <2>5, <2>6, Harm
<1>5. ASSUME NEW c \in Callers, MarkRunning(c) PROVE BusyInv'
  BY <1>5, <1>n DEF MarkRunning, NoMark
<1>6. ASSUME NEW c \in Callers, RequestFails(c) PROVE BusyInv'
  <2>1. request'[c] = Idle /\ \A b \in Callers \ {c} : request'[b] = request[b]
    BY <1>0, <1>6 DEF RequestFails
  <2>2. NoMark'
    BY <1>n, <2>1 DEF NoMark, Idle
  <2>3. ~Unharmed'
    BY <1>6, Harm DEF RequestFails
  <2> QED
    BY <1>b, <2>2, <2>3
<1> QED
  BY <1>2, <1>3, <1>4, <1>5, <1>6 DEF RequestStep, CreateReportDoc, ResetReport, RequeueReport

\* A worker that leaves a RUNNING analysis has found a report that is not done,
\* and that one is not stranded.
LEMMA WorkersBusy ==
  ASSUME IInv, WorkInv, BusyInv, NEW w \in Workers, WorkerStep(w) \/ WorkerFailure(w)
  PROVE  BusyInv'
<1>0. /\ request' = request /\ \A v \in Workers \ {w} : worker'[v] = worker[v]
      /\ Unharmed' => Unharmed
  BY OneWorker
<1>h. Holding(w) /\ None \notin Analyses
  BY PipelineAssumption DEF WorkInv
<1>n. NoMark'
  BY <1>0 DEF BusyInv, NoMark
<1>b. ASSUME \A a \in Analyses : Unharmed' /\ Busy(a) =>
               Busy(a)' \/ analysisStatus'[a] # "running",
             \A a \in Analyses : Unharmed' /\ analysisStatus'[a] = "running" =>
               analysisStatus[a] = "running"
      PROVE  BusyInv'
  BY <1>0, <1>b, <1>n DEF BusyInv, RunningIsBusy, Busy
<1>1. CASE TakeJob(w)
  <2>1. ASSUME NEW a \in Analyses, Busy(a) PROVE Busy(a)'
    <3>1. worker[w].analysis = None /\ queue \in Seq(Job) /\ queue # <<>> /\ queue' = Tail(queue)
      BY <1>1, <1>h, AfterTake DEF Holding
    <3>2. ASSUME NEW i \in 1..Len(queue), queue[i].analysis = a PROVE Busy(a)'
      <4>1. CASE i = 1
        BY <1>1, <3>1, <3>2, <4>1, AfterTake DEF Busy
      <4>2. CASE i # 1
        <5>1. i - 1 \in 1..Len(queue') /\ queue'[i - 1] = queue[i]
          BY <3>1, <4>2
        <5> QED
          BY <3>2, <5>1 DEF Busy, JobWaiting
      <4> QED
        BY <4>1, <4>2
    <3> QED
      BY <1>0, <1>h, <2>1, <3>1, <3>2 DEF Busy, JobWaiting
  <2> QED
    BY <1>1, <1>b, <2>1, AfterTake
<1>2. ASSUME worker'[w].analysis = worker[w].analysis, UNCHANGED <<analysisStatus, queue>>
      PROVE  BusyInv'
  BY <1>0, <1>2, <1>b DEF Busy, JobWaiting
<1>3. CASE Settle(w) /\ worker'[w] = Waiting /\ ~AllDone(worker[w].analysis)
  <2>1. /\ worker[w].pc = "next" /\ worker[w].todo = {} /\ worker[w].doc = None
        /\ UNCHANGED <<analysisStatus, queue>>
    BY <1>3, <1>h, AfterSettle DEF Holding
  <2>2. ASSUME Unharmed, NEW a \in Analyses, a = worker[w].analysis PROVE Busy(a)'
    <3>1. PICK r \in Reports : AnalysisOf[r] = a /\ reportStatus[r] \in {"queued", "generating"}
      BY <1>3, <2>2 DEF AllDone, ReportsOf, IInv, TypeOK, ReportStatus
    <3>2. \/ JobWaiting(a) \/ JobToCome(a)
          \/ \E v \in Workers : Holds(v, r) \/ Loads(v, a)
      BY <2>2, <3>1 DEF WorkInv, NoLostWork, Loads, Holds
    <3>3. ~Holds(w, r) /\ ~Loads(w, a)
      BY <2>1 DEF Holds, Runs, Loads
    <3>4. \A v \in Workers : Holds(v, r) \/ Loads(v, a) => worker[v].analysis = a
      BY <3>1 DEF WorkInv, Holding, Holds, Runs, Loads
    <3> QED
      BY <1>0, <2>1, <3>2, <3>3, <3>4 DEF Busy, JobWaiting, JobToCome
  <2>3. ASSUME NEW a \in Analyses, a # worker[w].analysis, Busy(a) PROVE Busy(a)'
    BY <1>0, <2>1, <2>3 DEF Busy, JobWaiting
  <2> QED
    BY <1>0, <1>b, <2>1, <2>2, <2>3
<1>4. CASE CompleteAnalysis(w) \/ FailAnalysis(w)
  <2>1. \A a \in Analyses \ {worker[w].analysis} : Busy(a) => Busy(a)'
    BY <1>0, <1>4, AfterEnd DEF Busy, JobWaiting
  <2> QED
    BY <1>4, <1>b, <2>1, AfterEnd
<1>5. CASE ~Unharmed'
  BY <1>5, <1>b
<1>6. CASE \E d \in worker[w].todo : StartReport(w, d)
  BY <1>2, <1>6, AfterStart
<1> QED
  BY <1>1, <1>2, <1>3, <1>4, <1>5, <1>6, AfterLoad, AfterRun, AfterPush, AfterSettle,
     AfterJobFails, AfterStartFails, AfterApplyFails DEF WorkerStep, WorkerFailure

(***************************************************************************)
(* Where create and regenerate are not used, a RUNNING analysis is being   *)
(* worked on, by any number of requests and workers.                       *)
(***************************************************************************)
THEOREM RunningIsTrue ==
  ASSUME JobFirst
  PROVE  Spec => []RunningIsBusy
<1>1. Init => BusyInv
  BY DEF Init, BusyInv, RunningIsBusy, NoMark, Idle
<1>2. IInv /\ WorkInv /\ BusyInv /\ [Next]_vars => BusyInv'
  <2> SUFFICES ASSUME IInv, WorkInv, BusyInv, [Next]_vars PROVE BusyInv'
    OBVIOUS
  <2>1. CASE UNCHANGED vars
    BY <2>1 DEF vars, BusyInv, RunningIsBusy, NoMark, Unharmed, JobWaiting
  <2> QED
    BY <2>1, RequestsBusy, WorkersBusy DEF Next
<1>3. BusyInv => RunningIsBusy
  BY DEF BusyInv
<1> QED
  BY <1>1, <1>2, <1>3, AlwaysIInv, AlwaysWorkInv, PTL DEF Spec

-------------------------------------------------------------------------------
(***************************************************************************)
(* A sole worker lists reports that are QUEUED, each once.  What it has    *)
(* listed is not finished, and what it runs is not either until the catch  *)
(* block may have it answered a second time.                               *)
(***************************************************************************)
Listed(w) == \A d \in worker[w].todo : d.status = "queued" /\ reportStatus[d.id] \notin Finished

InRun(w) ==
  worker[w].doc # None =>
    /\ worker[w].doc.status = "queued" /\ worker[w].doc \notin worker[w].todo
    /\ (worker[w].caught /\ worker[w].pc # "run") \/ reportStatus[worker[w].doc.id] \notin Finished

ListInv == \A w \in Workers : Listed(w) /\ InRun(w)

\* The handlers open reports and finish none.
LEMMA RequestsOpen ==
  ASSUME IInv, NewRequest \/ \E c \in Callers : RequestStep(c) \/ RequestFails(c)
  PROVE  /\ worker' = worker
         /\ \A r \in Reports : reportStatus'[r] \in {reportStatus[r], "queued"}
<1>1. reportStatus \in [Reports -> ReportStatus]
  BY DEF IInv, TypeOK
<1> QED
  BY <1>1 DEF NewRequest, CreateAnalysis, CreateStandalone, BeginRegenerate,
         BeginRerun, Begin, SoftDelete, RequestStep, RequestFails, CreateReportDoc,
         ResetReport, RequeueReport, WroteReport, Enqueue, MarkRunning

\* The documents a worker has listed or runs are of reports that exist, and two
\* of them that were both QUEUED are of two reports.
LEMMA Documents ==
  ASSUME IInv, NEW w \in Workers
  PROVE  /\ \A d \in worker[w].todo : d.id \in Reports
         /\ worker[w].doc # None => worker[w].doc.id \in Reports
         /\ \A d \in worker[w].todo, e \in worker[w].todo \cup {worker[w].doc} :
              e # None /\ d.status = e.status /\ d.id = e.id => d = e
<1>1. worker[w].todo \subseteq Doc /\ worker[w].doc \in Doc \cup {None}
  BY DEF IInv, TypeOK, WorkerState
<1> QED
  BY <1>1 DEF Doc

LEMMA RequestsList ==
  ASSUME IInv, ListInv, NewRequest \/ \E c \in Callers : RequestStep(c) \/ RequestFails(c)
  PROVE  ListInv'
<1>1. /\ worker' = worker
      /\ \A r \in Reports : reportStatus[r] \notin Finished => reportStatus'[r] \notin Finished
  BY RequestsOpen DEF Finished
<1> QED
  BY <1>1, Documents DEF ListInv, Listed, InRun

\* The answer to a report finishes that one and no other.
LEMMA RecordList ==
  ASSUME IInv, ListInv, NEW w \in Workers, worker[w].pc = "push", RecordTry(w),
         worker'[w].todo = worker[w].todo
  PROVE  Listed(w)'
<1>1. worker[w].doc # None /\ \A d \in worker[w].todo : d.id # worker[w].doc.id
  BY AfterRecord, Documents DEF ListInv, Listed, InRun
<1> QED
  BY <1>1, AfterRecord, Documents DEF ListInv, Listed

LEMMA WorkersList ==
  ASSUME \A v, w \in Workers : v = w, IInv, WorkInv, ListInv,
         NEW w \in Workers, WorkerStep(w) \/ WorkerFailure(w)
  PROVE  ListInv'
<1>h. Holding(w) /\ Listed(w) /\ InRun(w)
  BY DEF WorkInv, ListInv
<1>w. Waiting.doc = None /\ Waiting.todo = {}
  BY DEF Waiting
<1>a. Listed(w)' /\ InRun(w)' => ListInv'
  BY DEF ListInv
<1>1. CASE TakeJob(w)
  BY <1>1, <1>a, AfterTake DEF Listed, InRun
<1>2. CASE LoadQueued(w)
  <2>1. worker[w].doc = None
    BY <1>2, <1>h, AfterLoad DEF Holding
  <2> QED
    BY <1>2, <1>a, <2>1, AfterLoad DEF Listed, InRun, Finished
<1>3. ASSUME NEW d \in worker[w].todo, StartReport(w, d) PROVE ListInv'
  <2>0. /\ worker'[w].pc = "run" /\ worker'[w].doc = d
        /\ worker'[w].todo = worker[w].todo \ {d} /\ d # None
        /\ reportStatus'[d.id] = "generating"
        /\ \A r \in Reports \ {d.id} : reportStatus'[r] = reportStatus[r]
    BY <1>3, AfterStart
  <2>1. \A e \in worker[w].todo : reportStatus'[e.id] \notin Finished
    BY <1>h, <2>0, Documents DEF Listed, Finished
  <2> QED
    BY <1>a, <1>h, <2>0, <2>1 DEF Listed, InRun, Finished
<1>4. CASE RunFlow(w) \/ ReadTries(w)
  BY <1>4, <1>a, <1>h, AfterRun DEF Listed, InRun
<1>5. CASE PushTry(w)
  <2>1. worker[w].pc = "push" /\ RecordTry(w)
    BY <1>5 DEF PushTry
  <2>2. Listed(w)'
    BY <1>5, <2>1, AfterPush, RecordList
  <2> QED
    BY <1>5, <1>a, <2>2, AfterPush DEF InRun
<1>6. CASE Settle(w)
  <2>1. worker'[w].doc = None /\ worker'[w].todo = {}
    BY <1>6, <1>h, <1>w, AfterSettle DEF Holding
  <2> QED
    BY <1>a, <2>1 DEF Listed, InRun
<1>7. CASE CompleteAnalysis(w) \/ FailAnalysis(w)
  BY <1>7, <1>a, <1>w, AfterEnd DEF Listed, InRun
<1>8. CASE JobCallFails(w) \/ Crash(w)
  <2>1. worker'[w].doc = None /\ worker'[w].todo \subseteq worker[w].todo
        /\ reportStatus' = reportStatus
    BY <1>8, <1>h, <1>w, AfterJobFails DEF Holding
  <2> QED
    BY <1>a, <1>h, <2>1 DEF Listed, InRun
<1>9. ASSUME NEW d \in worker[w].todo, StartFails(w, d) PROVE ListInv'
  <2>0. /\ worker'[w].doc = d /\ worker'[w].todo = worker[w].todo \ {d}
        /\ reportStatus' = reportStatus
    BY <1>9, AfterStartFails
  <2> QED
    BY <1>a, <1>h, <2>0 DEF Listed, InRun
<1>10. CASE ApplyFails(w)
  <2>1. InRun(w)'
    BY <1>10, <1>h, AfterApplyFails DEF InRun
  <2>2. CASE UNCHANGED reportStatus
    BY <1>10, <1>a, <1>h, <2>1, <2>2, AfterApplyFails DEF Listed
  <2>3. CASE worker[w].pc = "push" /\ RecordTry(w)
    BY <1>10, <1>a, <2>1, <2>3, AfterApplyFails, RecordList
  <2> QED
    BY <1>10, <2>2, <2>3, AfterApplyFails
<1> QED
  BY <1>1, <1>2, <1>3, <1>4, <1>5, <1>6, <1>7, <1>8, <1>9, <1>10 DEF WorkerStep, WorkerFailure

(***************************************************************************)
(* With one worker process only a request re-opens a finished report: no   *)
(* run of the processor touches an answer that has been given since, but   *)
(* for the catch block of the run that gave it.                            *)
(***************************************************************************)
THEOREM AnswersStand ==
  ASSUME \A v, w \in Workers : v = w
  PROVE  Spec => FinishedStays
<1>1. Init => ListInv
  BY DEF Init, ListInv, Listed, InRun, Waiting
<1>2. IInv /\ WorkInv /\ ListInv /\ [Next]_vars => ListInv'
  <2> SUFFICES ASSUME IInv, WorkInv, ListInv, [Next]_vars PROVE ListInv'
    OBVIOUS
  <2>1. CASE UNCHANGED vars
    BY <2>1 DEF vars, ListInv, Listed, InRun
  <2> QED
    BY <2>1, RequestsList, WorkersList DEF Next
<1>3. IInv /\ ListInv /\ [Next]_vars =>
        \A r \in Reports : reportStatus[r] \in Finished /\ reportStatus'[r] # reportStatus[r] =>
          \/ reportStatus'[r] = "queued"
          \/ \E w \in Workers : Runs(w, r) /\ worker[w].caught
  <2> SUFFICES ASSUME IInv, ListInv, [Next]_vars, NEW r \in Reports,
                      reportStatus[r] \in Finished, reportStatus'[r] # reportStatus[r]
               PROVE  \/ reportStatus'[r] = "queued"
                      \/ \E w \in Workers : Runs(w, r) /\ worker[w].caught
    OBVIOUS
  <2>1. CASE NewRequest \/ \E c \in Callers : RequestStep(c) \/ RequestFails(c)
    BY <2>1, RequestsOpen
  <2>2. ASSUME NEW w \in Workers, NEW d \in worker[w].todo, StartReport(w, d)
        PROVE  FALSE
    <3>1. \A q \in Reports \ {d.id} : reportStatus'[q] = reportStatus[q]
      BY <2>2, AfterStart
    <3> QED
      BY <2>2, <3>1 DEF ListInv, Listed
  <2>3. ASSUME NEW w \in Workers, worker[w].pc = "push", RecordTry(w)
        PROVE  Runs(w, r) /\ worker[w].caught
    BY <2>3, AfterRecord DEF ListInv, InRun, Runs
  <2>4. ASSUME NEW w \in Workers, WorkerStep(w) \/ WorkerFailure(w)
        PROVE  \E v \in Workers : Runs(v, r) /\ worker[v].caught
    BY <2>2, <2>3, <2>4 DEF WorkerStep, WorkerFailure, TakeJob, LoadQueued, RunFlow, ReadTries,
         PushTry, Settle, CompleteAnalysis, FailAnalysis, JobCallFails, StartFails,
         ApplyFails, Crash
  <2> QED
    BY <2>1, <2>4 DEF Next, vars
<1> QED
  BY <1>1, <1>2, <1>3, AlwaysIInv, AlwaysWorkInv, PTL DEF Spec, FinishedStays

===============================================================================
