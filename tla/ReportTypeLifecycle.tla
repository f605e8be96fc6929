------------------------- MODULE ReportTypeLifecycle -------------------------
(***************************************************************************)
(* Report types and their versions: the handlers of ReportTypesService that*)
(* create, edit, publish, archive, duplicate and remove a report type, and *)
(* the run of an analysis that follows its pointer to the published        *)
(* version.                                                                *)
(*                                                                         *)
(* A handler reads the report type once, then works on that copy; every    *)
(* write is a step of its own.  A Mongoose save() writes only the fields   *)
(* that were assigned a new value, and throws if the document is gone.     *)
(***************************************************************************)
EXTENDS Naturals, Sequences, FiniteSets

CONSTANTS
  Types,        \* identities of report types
  Callers,      \* requests and runs that can be in progress at once
  Publishers,   \* the callers that may publish
  Flows,        \* flows that the builder may save
  Valid,        \* the flows without blocking errors
  Empty,        \* the flow without nodes
  None,         \* no flow, no type
  MaxRequests,  \* bound: requests in a behaviour
  MaxFailures   \* bound: requests that die between two steps

ASSUME LifecycleAssumption ==
  /\ Publishers \subseteq Callers
  /\ Valid \subseteq Flows
  /\ Empty \notin Flows
  /\ None \notin Types \cup Flows \cup {Empty}
  /\ MaxRequests \in Nat /\ MaxFailures \in Nat

VARIABLES
  types,      \* the report type documents
  versions,   \* the version documents ever created, in that order
  request,    \* the handler each caller is in
  used        \* what has been used of the two bounds

vars == <<types, versions, request, used>>

Status  == {"draft", "published", "archived"}
Content == Flows \cup {Empty}

\* draftVersionId and currentPublishedVersionId are indices of `versions`; 0
\* is undefined.
Type == [life : {"unborn", "alive", "dead"}, status : Status, draft : Nat, current : Nat]

Version ==
  [there : BOOLEAN, type : Types, number : Nat, status : Status,
   flow : Content, snapshot : Content \cup {None}]

RequestState ==
  [pc : {"idle", "version", "pointer", "count", "draft", "update", "read",
         "snapshot", "publish", "archive", "retire", "check", "versions",
         "type", "copy", "source", "load", "running"},
   op : {"none", "create", "save", "publish", "archive", "remove", "duplicate", "run"},
   type : Types \cup {None},
   doc : Type,                      \* the type as the handler read it
   version : Nat, number : Nat, flow : Content \cup {None},
   status : Status]                 \* of the draft as publish read it

NoType == [life |-> "unborn", status |-> "draft", draft |-> 0, current |-> 0]

Idle == [pc |-> "idle", op |-> "none", type |-> None, doc |-> NoType,
         version |-> 0, number |-> 0, flow |-> None, status |-> "draft"]

Init ==
  /\ types = [t \in Types |-> NoType]
  /\ versions = <<>>
  /\ request = [c \in Callers |-> Idle]
  /\ used = [requests |-> 0, failures |-> 0]

-------------------------------------------------------------------------------
Alive(t) == types[t].life = "alive"

There(v) == v \in DOMAIN versions /\ versions[v].there

VersionsOf(t) == {v \in DOMAIN versions : versions[v].there /\ versions[v].type = t}

\* Caller c goes on to step pc, or is done.
Goto(c, pc) == request' = [request EXCEPT ![c].pc = pc]

Done(c) == request' = [request EXCEPT ![c] = Idle]

\* Caller c takes up operation op on type t and reads its document.
Begin(c, op, t, pc, flow) ==
  /\ request[c].pc = "idle"
  /\ used.requests < MaxRequests
  /\ used' = [used EXCEPT !.requests = @ + 1]
  /\ request' = [request EXCEPT ![c] =
       [Idle EXCEPT !.pc = pc, !.op = op, !.type = t, !.doc = types[t], !.flow = flow]]

\* create: the type is inserted without versions.
BeginCreate(c, t) ==
  /\ types[t].life = "unborn"
  /\ types' = [types EXCEPT ![t].life = "alive"]
  /\ Begin(c, "create", t, "version", Empty)
  /\ UNCHANGED versions

\* saveReportFlow works on the draft; without one it makes a new version from
\* the published one or, without that either, version 1.
BeginSave(c, t, flow) ==
  /\ Alive(t)
  /\ Begin(c, "save", t,
           IF types[t].draft # 0 THEN "update"
           ELSE IF types[t].current # 0 THEN "count" ELSE "version", flow)
  /\ UNCHANGED <<types, versions>>

\* publish refuses a type without a draft.
BeginPublish(c, t) ==
  /\ c \in Publishers
  /\ Alive(t)
  /\ types[t].draft # 0
  /\ Begin(c, "publish", t, "read", None)
  /\ UNCHANGED <<types, versions>>

BeginOther(c, t) ==
  /\ Alive(t)
  /\ \/ Begin(c, "archive", t, "archive", None)
     \/ Begin(c, "remove", t, "check", None)
     \/ Begin(c, "duplicate", t, "copy", None)
     \/ types[t].current # 0 /\ Begin(c, "run", t, "load", None)
  /\ UNCHANGED <<types, versions>>

-------------------------------------------------------------------------------
(***************************************************************************)
(* New versions.                                                           *)
(***************************************************************************)

\* The unique index on type and number refuses a second version of a number.
CreateVersion(c, number, snapshot, pc) ==
  LET k == request[c] IN
  IF \E v \in VersionsOf(k.type) : versions[v].number = number
    THEN Done(c) /\ UNCHANGED versions
    ELSE /\ versions' = Append(versions,
              [there |-> TRUE, type |-> k.type, number |-> number,
               status |-> "draft", flow |-> k.flow, snapshot |-> snapshot])
         /\ request' = [request EXCEPT ![c].pc = pc, ![c].version = Len(versions) + 1]

\* Mutant of FirstVersion: the version is inserted and nothing points to it.
FirstVersionOnly(c) ==
  /\ request[c].pc = "version"
  /\ CreateVersion(c, 1, None, "idle")
  /\ UNCHANGED <<types, used>>

\* Version 1, of create, of duplicate and of a save that found no version.
FirstVersion(c) ==
  /\ request[c].pc = "version"
  /\ CreateVersion(c, 1, None, "pointer")
  /\ UNCHANGED <<types, used>>

\* A save after a publish counts the versions ...
CountVersions(c) ==
  /\ request[c].pc = "count"
  /\ request' = [request EXCEPT
       ![c].pc = "draft", ![c].number = Cardinality(VersionsOf(request[c].type)) + 1]
  /\ UNCHANGED <<types, versions, used>>

\* ... and inserts the next one with what the published one has, its snapshot
\* included, but for the flow.
NextVersion(c) ==
  LET k == request[c] IN
  /\ k.pc = "draft"
  /\ CreateVersion(c, k.number,
       IF There(k.doc.current) THEN versions[k.doc.current].snapshot ELSE None, "pointer")
  /\ UNCHANGED <<types, used>>

\* The save() that makes the new version the draft of its type; a save after a
\* publish then updates that version.
SavePointer(c) ==
  LET k == request[c] IN
  /\ k.pc = "pointer"
  /\ IF Alive(k.type)
       THEN /\ types' = [types EXCEPT ![k.type].draft = k.version]
            /\ IF k.number = 0 THEN Done(c)
               ELSE request' = [request EXCEPT ![c].pc = "update",
                                               ![c].doc.draft = k.version]
       ELSE Done(c) /\ UNCHANGED types
  /\ UNCHANGED <<versions, used>>

\* The draft the handler found gets the flow, whatever its status is by now.
UpdateDraft(c) ==
  LET k == request[c] IN
  /\ k.pc = "update"
  /\ versions' = IF There(k.doc.draft)
                   THEN [versions EXCEPT ![k.doc.draft].flow = k.flow] ELSE versions
  /\ Done(c)
  /\ UNCHANGED <<types, used>>

-------------------------------------------------------------------------------
(***************************************************************************)
(* publish, archive and remove.                                            *)
(***************************************************************************)

\* The draft is read and validated; a bad or empty one ends the request.
ReadDraft(c) ==
  LET k == request[c] IN
  /\ k.pc = "read"
  /\ IF There(k.doc.draft) /\ versions[k.doc.draft].flow \in Valid
       THEN request' = [request EXCEPT ![c].pc = "snapshot",
                                       ![c].flow = versions[k.doc.draft].flow,
                                       ![c].status = versions[k.doc.draft].status]
       ELSE Done(c)
  /\ UNCHANGED <<types, versions, used>>

\* Mutant of SaveSnapshot: the snapshot is not marked as modified.
SaveStatusOnly(c) ==
  LET k == request[c] IN
  /\ k.pc = "snapshot"
  /\ IF There(k.doc.draft)
       THEN /\ versions' = [versions EXCEPT ![k.doc.draft].status = "published"]
            /\ Goto(c, "publish")
       ELSE Done(c) /\ UNCHANGED versions
  /\ UNCHANGED <<types, used>>

\* The version is published, with a snapshot of the flow that was read.
SaveSnapshot(c) ==
  LET k == request[c] IN
  /\ k.pc = "snapshot"
  /\ IF There(k.doc.draft)
       THEN /\ versions' = [versions EXCEPT
                 ![k.doc.draft].status = IF k.status = "published" THEN @ ELSE "published",
                 ![k.doc.draft].snapshot = k.flow]
            /\ Goto(c, "publish")
       ELSE Done(c) /\ UNCHANGED versions
  /\ UNCHANGED <<types, used>>

\* Mutant of PublishType: the type keeps its draft pointer.
PublishTypeKeepDraft(c) ==
  LET k == request[c] IN
  /\ k.pc = "publish"
  /\ types' = IF Alive(k.type)
                THEN [types EXCEPT ![k.type].current = k.doc.draft,
                                   ![k.type].status = "published"]
                ELSE types
  /\ Done(c)
  /\ UNCHANGED <<versions, used>>

\* The type points to it.  Its status is written only if it was another when
\* it was read.
PublishType(c) ==
  LET k == request[c] IN
  /\ k.pc = "publish"
  /\ types' = IF Alive(k.type)
                THEN [types EXCEPT
                       ![k.type].current = k.doc.draft, ![k.type].draft = 0,
                       ![k.type].status = IF k.doc.status = "published" THEN @ ELSE "published"]
                ELSE types
  /\ Done(c)
  /\ UNCHANGED <<versions, used>>

ArchiveType(c) ==
  LET k == request[c] IN
  /\ k.pc = "archive"
  /\ IF Alive(k.type)
       THEN /\ types' = [types EXCEPT ![k.type].status =
                           IF k.doc.status = "archived" THEN @ ELSE "archived"]
            /\ IF k.doc.current # 0 THEN Goto(c, "retire") ELSE Done(c)
       ELSE Done(c) /\ UNCHANGED types
  /\ UNCHANGED <<versions, used>>

RetireVersion(c) ==
  LET k == request[c] IN
  /\ k.pc = "retire"
  /\ versions' = IF There(k.doc.current)
                   THEN [versions EXCEPT ![k.doc.current].status = "archived"] ELSE versions
  /\ Done(c)
  /\ UNCHANGED <<types, used>>

\* remove is refused while an analysis type refers to the report type.
CheckUsage(c) ==
  /\ request[c].pc = "check"
  /\ Goto(c, "versions") \/ Done(c)
  /\ UNCHANGED <<types, versions, used>>

RemoveVersions(c) ==
  /\ request[c].pc = "versions"
  /\ versions' = [v \in DOMAIN versions |->
       IF v \in VersionsOf(request[c].type)
         THEN [versions[v] EXCEPT !.there = FALSE] ELSE versions[v]]
  /\ Goto(c, "type")
  /\ UNCHANGED <<types, used>>

RemoveType(c) ==
  /\ request[c].pc = "type"
  /\ types' = [types EXCEPT ![request[c].type].life = "dead"]
  /\ Done(c)
  /\ UNCHANGED <<versions, used>>

-------------------------------------------------------------------------------
(***************************************************************************)
(* duplicate, and the run of an analysis.                                  *)
(***************************************************************************)

\* The copy is inserted without versions, under a slug that is not taken.
CopyType(c, t) ==
  /\ request[c].pc = "copy"
  /\ types[t].life = "unborn"
  /\ types' = [types EXCEPT ![t].life = "alive"]
  /\ request' = [request EXCEPT ![c].pc = "source", ![c].type = t]
  /\ UNCHANGED <<versions, used>>

\* Mutant of CopyFlow: the flow is taken from the snapshot of the source.
CopySnapshot(c) ==
  LET k == request[c]
      source == IF k.doc.draft # 0 THEN k.doc.draft ELSE k.doc.current IN
  /\ k.pc = "source"
  /\ IF There(source)
       THEN request' = [request EXCEPT ![c].pc = "version",
                                       ![c].flow = versions[source].snapshot]
       ELSE Done(c)
  /\ UNCHANGED <<types, versions, used>>

\* Its version 1 gets the flow of the draft or, without one, of the published
\* version; if that version is gone, the copy has none.
CopyFlow(c) ==
  LET k == request[c]
      source == IF k.doc.draft # 0 THEN k.doc.draft ELSE k.doc.current IN
  /\ k.pc = "source"
  /\ IF There(source)
       THEN request' = [request EXCEPT ![c].pc = "version",
                                       ![c].flow = versions[source].flow]
       ELSE Done(c)
  /\ UNCHANGED <<types, versions, used>>

\* runPublishedFlow loads the version the type pointed to and keeps its
\* snapshot; it throws if there is none.
LoadSnapshot(c) ==
  LET k == request[c] IN
  /\ k.pc = "load"
  /\ IF There(k.doc.current) /\ versions[k.doc.current].snapshot # None
       THEN request' = [request EXCEPT ![c].pc = "running",
                                       ![c].flow = versions[k.doc.current].snapshot]
       ELSE Done(c)
  /\ UNCHANGED <<types, versions, used>>

EndRun(c) ==
  /\ request[c].pc = "running"
  /\ Done(c)
  /\ UNCHANGED <<types, versions, used>>

\* A call to the database throws, or the process dies, between two steps.
Fail(c) ==
  /\ request[c].pc # "idle"
  /\ used.failures < MaxFailures
  /\ used' = [used EXCEPT !.failures = @ + 1]
  /\ Done(c)
  /\ UNCHANGED <<types, versions>>

Step(c) ==
  \/ FirstVersion(c) \/ CountVersions(c) \/ NextVersion(c) \/ SavePointer(c)
  \/ UpdateDraft(c)
  \/ ReadDraft(c) \/ SaveSnapshot(c) \/ PublishType(c)
  \/ ArchiveType(c) \/ RetireVersion(c)
  \/ CheckUsage(c) \/ RemoveVersions(c) \/ RemoveType(c)
  \/ \E t \in Types : CopyType(c, t)
  \/ CopyFlow(c) \/ LoadSnapshot(c) \/ EndRun(c)

Next ==
  \E c \in Callers :
    \/ \E t \in Types :
         \/ BeginCreate(c, t) \/ BeginPublish(c, t) \/ BeginOther(c, t)
         \/ \E flow \in Content : BeginSave(c, t, flow)
    \/ Step(c) \/ Fail(c)

Spec == Init /\ [][Next]_vars

-------------------------------------------------------------------------------
TypeOK ==
  /\ types \in [Types -> Type]
  /\ versions \in Seq(Version)
  /\ request \in [Callers -> RequestState]
  /\ used \in [requests : Nat, failures : Nat]

\* The versions of type t are being deleted, or were by a request that died.
Removing(t) ==
  \/ \E c \in Callers : request[c].pc = "type" /\ request[c].type = t
  \/ used.failures > 0

\* The preconditions of runPublishedFlow: what a PUBLISHED type points to, and
\* what a run has been pointed to, is a version with a snapshot of a flow that
\* passed validation, whatever has been saved, published or archived since.
PublishedRunnable ==
  LET runnable(v, t) ==
        IF There(v) THEN versions[v].snapshot \in Valid
        ELSE v # 0 /\ (Removing(t) \/ ~Alive(t))
  IN  /\ \A t \in Types :
           Alive(t) /\ types[t].status = "published" => runnable(types[t].current, t)
      /\ \A c \in Callers : request[c].pc = "load" =>
           runnable(request[c].doc.current, request[c].type)

\* 'Save Draft' always helps, the answer of publish to a type without a draft:
\* unless a request has died, a type that nobody is at work on has a draft or a
\* published version, or no version in the way of version 1.
NeverStuck ==
  used.failures = 0 => \A t \in Types :
    Alive(t) /\ types[t].draft = 0 /\ types[t].current = 0 =>
      \/ VersionsOf(t) = {}
      \/ \E c \in Callers : request[c].type = t

\* 'Immutable copy taken at publish time': as long as one publish runs at a
\* time, no save, archive or failed publish changes the snapshot of the version
\* a type points to.
CurrentSnapshotStays ==
  [][\A t \in Types : There(types[t].current) =>
       versions'[types[t].current].snapshot = versions[types[t].current].snapshot]_vars

\* 'A versioned, immutable-once-published specification': the flow of a version
\* that has been published does not change any more.
PublishedImmutable ==
  [][\A v \in DOMAIN versions :
       There(v) /\ There(v)' /\ versions[v].status # "draft" =>
         versions'[v].flow = versions[v].flow]_vars

===============================================================================
