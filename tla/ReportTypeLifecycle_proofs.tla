---------------------- MODULE ReportTypeLifecycle_proofs ----------------------
(***************************************************************************)
(* Proofs about ReportTypeLifecycle, for any sets of types, callers and    *)
(* flows and any bounds.                                                   *)
(***************************************************************************)
EXTENDS ReportTypeLifecycle, SequenceTheorems, FiniteSetTheorems, TLAPS

\* Version v is one of the versions ever created for type t.
OfType(v, t) == v \in DOMAIN versions /\ versions[v].type = t

\* Version v can be the published one: it has a snapshot.
Frozen(v) == versions[v].snapshot # None

(***************************************************************************)
(* Type t points to versions of its own, the published one has a snapshot, *)
(* and a type that does not exist yet has no versions.                     *)
(***************************************************************************)
Pointers(t) ==
  /\ types[t].draft # 0 => OfType(types[t].draft, t)
  /\ types[t].current # 0 => OfType(types[t].current, t) /\ Frozen(types[t].current)
  /\ types[t].status = "published" => types[t].current # 0
  /\ types[t].life = "unborn" => \A v \in DOMAIN versions : versions[v].type # t

\* A snapshot is of a flow that passed validation, and a version is deleted
\* only with its type.
VersionInv(v) ==
  /\ versions[v].snapshot \in Valid \cup {None}
  /\ ~versions[v].there => Removing(versions[v].type) \/ ~Alive(versions[v].type)

Saving     == {"version", "count", "draft", "pointer", "update"}
Publishing == {"read", "snapshot", "publish"}

\* What the handler of caller c holds on to is what its later steps rely on.
RequestInv(c) ==
  LET k == request[c] IN
  /\ k.pc # "idle" => k.type \in Types /\ types[k.type].life # "unborn"
  /\ k.pc \in Saving => k.flow \in Content
  /\ k.pc \in {"count", "draft"} => types[k.type].current # 0
  /\ k.pc = "pointer" => k.version # 0 /\ OfType(k.version, k.type)
  /\ k.pc \in Publishing => k.doc.draft # 0 /\ OfType(k.doc.draft, k.type)
  /\ k.pc = "snapshot" => k.flow \in Valid
  /\ k.pc = "publish" => Frozen(k.doc.draft)
  /\ k.pc = "load" =>
       k.doc.current # 0 /\ OfType(k.doc.current, k.type) /\ Frozen(k.doc.current)

\* A type with versions and no pointer is about to get one.
PointerComing(t) ==
  used.failures = 0 /\ Alive(t) /\ types[t].draft = 0 /\ types[t].current = 0
    /\ VersionsOf(t) # {} =>
       \E c \in Callers : request[c].pc = "pointer" /\ request[c].type = t

IInv ==
  /\ TypeOK
  /\ \A t \in Types : Pointers(t) /\ PointerComing(t)
  /\ \A v \in DOMAIN versions : VersionInv(v)
  /\ \A c \in Callers : RequestInv(c)

\* The versions that a type points to as its published one.
Published == {types[t].current : t \in Types}

(***************************************************************************)
(* With one publisher: what is a draft, about to become one or about to be *)
(* published is not published, and no two callers bring in one version.    *)
(***************************************************************************)
DraftInv ==
  /\ \A t \in Types : types[t].draft # 0 => types[t].draft \notin Published
  /\ \A c \in Callers : request[c].pc \in Publishing =>
       c \in Publishers /\ request[c].doc.draft \notin Published
  /\ \A c \in Callers : request[c].pc = "pointer" =>
       /\ request[c].version \notin Published
       /\ \A t \in Types : types[t].draft # request[c].version
       /\ \A b \in Callers :
            /\ request[b].pc \in Publishing => request[b].doc.draft # request[c].version
            /\ b # c /\ request[b].pc = "pointer" => request[b].version # request[c].version

-------------------------------------------------------------------------------
Pcs == {"idle", "version", "pointer", "count", "draft", "update", "read", "snapshot",
        "publish", "archive", "retire", "check", "versions", "type", "copy", "source",
        "load", "running"}

Ops == {"none", "create", "save", "publish", "archive", "remove", "duplicate", "run"}

\* The requests' states, with names for the sets of steps and of operations.
LEMMA RequestShape ==
  RequestState = [pc : Pcs, op : Ops, type : Types \cup {None}, doc : Type, version : Nat,
                  number : Nat, flow : Content \cup {None}, status : Status]
BY DEF RequestState, Pcs, Ops

\* The versions are a sequence of version documents.
LEMMA VersionsTyped ==
  ASSUME TypeOK
  PROVE  /\ Len(versions) \in Nat /\ DOMAIN versions = 1..Len(versions)
         /\ versions \in [1..Len(versions) -> Version]
         /\ 0 \notin DOMAIN versions
<1>1. versions \in Seq(Version)
  BY DEF TypeOK
<1>2. Len(versions) \in Nat /\ versions \in [1..Len(versions) -> Version]
  BY <1>1, LenProperties
<1> QED
  BY <1>2

\* What a caller and a type look like.
LEMMA Fields ==
  ASSUME TypeOK
  PROVE  /\ \A c \in Callers :
              /\ request[c] \in RequestState /\ request[c].pc \in Pcs
              /\ request[c].doc \in Type
              /\ request[c].doc.draft \in Nat /\ request[c].doc.current \in Nat
              /\ request[c].version \in Nat /\ request[c].number \in Nat
         /\ \A t \in Types : types[t] \in Type /\ types[t].draft \in Nat
                              /\ types[t].current \in Nat
         /\ \A v \in DOMAIN versions :
              /\ versions[v].type \in Types /\ versions[v].there \in BOOLEAN
              /\ versions[v].flow \in Content /\ versions[v].snapshot \in Content \cup {None}
BY VersionsTyped DEF TypeOK, RequestState, Type, Version, Pcs

\* The flow None is no flow, and a valid flow is a flow.
LEMMA Flowing == None \notin Valid /\ Valid \subseteq Content
BY LifecycleAssumption DEF Content

\* A request that is done is idle.
LEMMA DoneStep ==
  ASSUME TypeOK, NEW c \in Callers, Done(c)
  PROVE  /\ request' \in [Callers -> RequestState] /\ request'[c] = Idle
         /\ \A b \in Callers \ {c} : request'[b] = request[b]
         /\ RequestInv(c)' /\ request'[c].pc = "idle" /\ request'[c].type = None
<1>1. Idle \in RequestState /\ Idle.pc = "idle" /\ Idle.type = None
  BY DEF Idle, RequestState, NoType, Type, Status
<1>2. /\ request' \in [Callers -> RequestState] /\ request'[c] = Idle
      /\ \A b \in Callers \ {c} : request'[b] = request[b]
  BY <1>1 DEF Done, TypeOK
<1>3. /\ request'[c].pc = "idle" /\ "idle" \notin Saving /\ "idle" \notin Publishing
      /\ "idle" \notin {"count", "draft"}
  BY <1>1, <1>2 DEF Saving, Publishing
<1>4. RequestInv(c)'
  BY <1>3 DEF RequestInv
<1> QED
  BY <1>1, <1>2, <1>4

\* A request that goes on to step pc keeps what else it holds.
LEMMA GotoStep ==
  ASSUME TypeOK, NEW c \in Callers, NEW pc \in Pcs, Goto(c, pc)
  PROVE  /\ request' \in [Callers -> RequestState] /\ request'[c].pc = pc
         /\ request'[c].type = request[c].type /\ request'[c].doc = request[c].doc
         /\ request'[c].flow = request[c].flow /\ request'[c].version = request[c].version
         /\ \A b \in Callers \ {c} : request'[b] = request[b]
<1> DEFINE q == [request[c] EXCEPT !.pc = pc]
<1>1. request[c] \in RequestState /\ request' = [request EXCEPT ![c] = q]
  BY DEF Goto, TypeOK
<1>2. /\ q \in RequestState /\ q.pc = pc /\ q.type = request[c].type
      /\ q.doc = request[c].doc /\ q.flow = request[c].flow
      /\ q.version = request[c].version
  BY <1>1 DEF RequestState, Pcs
<1> HIDE DEF q
<1> QED
  BY <1>1, <1>2 DEF TypeOK

(***************************************************************************)
(* What a step of one caller leaves true.                                  *)
(***************************************************************************)
\* Versions are only added, and keep their type and the fact of a snapshot.
Grown ==
  \A v \in DOMAIN versions :
    v \in DOMAIN versions' /\ versions'[v].type = versions[v].type
      /\ (versions[v].snapshot # None => versions'[v].snapshot # None)

\* Types are not unborn again and keep having a published version.
Lived ==
  \A t \in Types :
    /\ types[t].life # "unborn" => types'[t].life # "unborn"
    /\ types[t].current # 0 => types'[t].current # 0

\* A step of caller c leaves the other requests and what they hold on to alone.
LEMMA OthersKept ==
  ASSUME IInv, NEW c \in Callers, \A b \in Callers \ {c} : request'[b] = request[b],
         Grown, Lived, NEW b \in Callers \ {c}
  PROVE  RequestInv(b)'
<1>1. RequestInv(b) /\ request'[b] = request[b]
  BY DEF IInv
<1>2. \A v, t : OfType(v, t) => OfType(v, t)'
  BY DEF Grown, OfType
<1>3. \A v \in DOMAIN versions : Frozen(v) => Frozen(v)'
  BY DEF Grown, Frozen
<1>4. \A v, t : OfType(v, t) => v \in DOMAIN versions
  BY DEF OfType
<1>5. "publish" \in Publishing /\ "idle" \notin {"count", "draft"}
  BY DEF Publishing
<1> QED
  BY <1>1, <1>2, <1>3, <1>4, <1>5 DEF RequestInv, Lived

\* A step that leaves the types alone keeps what they point to.
LEMMA PointersKept ==
  ASSUME IInv, types' = types, Grown,
         \A v \in DOMAIN versions' :
           v \in DOMAIN versions \/ types[versions'[v].type].life # "unborn",
         NEW t \in Types
  PROVE  Pointers(t)'
<1>1. Pointers(t)
  BY DEF IInv
<1>2. \A v : OfType(v, t) => OfType(v, t)'
  BY DEF Grown, OfType
<1>3. \A v : OfType(v, t) /\ Frozen(v) => Frozen(v)'
  BY DEF Grown, Frozen, OfType
<1>4. ASSUME types[t].life = "unborn" PROVE \A v \in DOMAIN versions' : versions'[v].type # t
  BY <1>1, <1>4 DEF Pointers, Grown
<1> QED
  BY <1>1, <1>2, <1>3, <1>4 DEF Pointers

\* The removal of a type's versions stays noticed unless the type goes as well.
LEMMA RemovingKept ==
  ASSUME NEW c \in Callers, \A b \in Callers \ {c} : request'[b] = request[b],
         used.failures > 0 => used'.failures > 0, NEW t, Removing(t),
         request[c].pc # "type" \/ request[c].type # t \/ used'.failures > 0
  PROVE  Removing(t)'
BY DEF Removing

\* A step that keeps the versions and does not bring a type back to life keeps
\* what is known of them.
LEMMA VersionsKept ==
  ASSUME IInv, versions' = versions, NEW c \in Callers,
         \A b \in Callers \ {c} : request'[b] = request[b],
         used.failures > 0 => used'.failures > 0,
         request[c].pc # "type" \/ used'.failures > 0,
         \A t \in Types : types[t].life = "alive" \/ types'[t].life # "alive"
                           \/ \A v \in DOMAIN versions : versions[v].type # t,
         NEW v \in DOMAIN versions'
  PROVE  VersionInv(v)'
<1>1. VersionInv(v) /\ versions[v].type \in Types
  BY Fields DEF IInv
<1>2. PICK t \in Types : t = versions[v].type
  BY <1>1
<1>3. Removing(t) => Removing(t)'
  BY RemovingKept
<1>4. ~Alive(t) => ~Alive(t)'
  BY <1>1, <1>2 DEF Alive
<1>5. versions[v].there => versions'[v].there
  OBVIOUS
<1> QED
  BY <1>1, <1>2, <1>3, <1>4, <1>5 DEF VersionInv

\* A type keeps waiting for its pointer, unless the caller that brings it does so.
LEMMA ComingKept ==
  ASSUME IInv, NEW c \in Callers, NEW t \in Types, types'[t] = types[t],
         \A b \in Callers \ {c} : request'[b] = request[b],
         used'.failures = 0 =>
           used.failures = 0 /\ (request[c].pc # "pointer" \/ request[c].type # t),
         VersionsOf(t)' # {} => VersionsOf(t) # {}
  PROVE  PointerComing(t)'
<1>1. PointerComing(t)
  BY DEF IInv
<1> QED
  BY <1>1 DEF PointerComing, Alive

(***************************************************************************)
(* Steps that change neither types nor versions: caller c goes on with what*)
(* it has read, or is done.                                                *)
(***************************************************************************)
LEMMA QuietStep ==
  ASSUME IInv, NEW c \in Callers, UNCHANGED <<types, versions>>,
         request' \in [Callers -> RequestState],
         \A b \in Callers \ {c} : request'[b] = request[b],
         used' \in [requests : Nat, failures : Nat],
         used.failures > 0 => used'.failures > 0,
         request[c].pc \notin {"type", "pointer"} \/ used'.failures > 0,
         RequestInv(c)'
  PROVE  IInv'
<1>1. Grown /\ Lived
  BY DEF Grown, Lived
<1>2. TypeOK'
  BY DEF IInv, TypeOK
<1>3. \A b \in Callers : RequestInv(b)'
  BY <1>1, OthersKept
<1>4. \A t \in Types : Pointers(t)'
  BY <1>1, PointersKept
<1>5. used'.failures = 0 => used.failures = 0
  BY DEF IInv, TypeOK
<1>6. ASSUME NEW t \in Types PROVE PointerComing(t)'
  <2>1. VersionsOf(t)' = VersionsOf(t)
    BY DEF VersionsOf
  <2> QED
    BY <1>5, <2>1, ComingKept
<1>7. ASSUME NEW v \in DOMAIN versions' PROVE VersionInv(v)'
  <2>1. \A t \in Types : types[t].life = "alive" \/ types'[t].life # "alive"
    OBVIOUS
  <2> QED
    BY <2>1, VersionsKept
<1> QED
  BY <1>2, <1>3, <1>4, <1>6, <1>7 DEF IInv

\* Counting a request or a failure leaves the bounds counted.
LEMMA UsedStep ==
  ASSUME TypeOK,
         \/ used' = [used EXCEPT !.requests = @ + 1]
         \/ used' = [used EXCEPT !.failures = @ + 1]
  PROVE  /\ used' \in [requests : Nat, failures : Nat]
         /\ used.failures > 0 => used'.failures > 0
BY DEF TypeOK

\* A new request holds the type it is for and the document of it.
LEMMA BeginStep ==
  ASSUME TypeOK, NEW c \in Callers, NEW t \in Types, NEW pc \in Pcs, NEW op \in Ops,
         NEW flow \in Content \cup {None}, Begin(c, op, t, pc, flow)
  PROVE  /\ request' \in [Callers -> RequestState] /\ request'[c].pc = pc
         /\ request'[c].type = t /\ request'[c].doc = types[t] /\ request'[c].flow = flow
         /\ \A b \in Callers \ {c} : request'[b] = request[b]
         /\ request[c].pc = "idle"
         /\ used' \in [requests : Nat, failures : Nat]
         /\ used'.failures = used.failures
<1> DEFINE q == [Idle EXCEPT !.pc = pc, !.op = op, !.type = t, !.doc = types[t], !.flow = flow]
<1>1. request' = [request EXCEPT ![c] = q] /\ types[t] \in Type
  BY DEF Begin, TypeOK
<1>2. /\ q \in RequestState /\ q.pc = pc /\ q.type = t /\ q.doc = types[t] /\ q.flow = flow
  <2>1. Idle \in RequestState
    BY DEF Idle, RequestState, NoType, Type, Status
  <2> QED
    BY <1>1, <2>1, RequestShape
<1>3. used' \in [requests : Nat, failures : Nat] /\ used'.failures = used.failures
  BY DEF Begin, TypeOK
<1> HIDE DEF q
<1> QED
  BY <1>1, <1>2, <1>3 DEF TypeOK, Begin

LEMMA BeginSaveIInv ==
  ASSUME IInv, NEW c \in Callers, NEW t \in Types, NEW flow \in Content, BeginSave(c, t, flow)
  PROVE  IInv'
<1>1. PICK pc \in {"update", "count", "version"} :
        /\ Begin(c, "save", t, pc, flow)
        /\ pc = "count" => types[t].current # 0
  BY DEF BeginSave
<1>2. Alive(t) /\ UNCHANGED <<types, versions>> /\ TypeOK
  BY DEF BeginSave, IInv
<1>3. pc \in Pcs /\ flow \in Content \cup {None}
  BY <1>1 DEF Pcs
<1>4. /\ request' \in [Callers -> RequestState] /\ request'[c].pc = pc
      /\ request'[c].type = t /\ request'[c].flow = flow
      /\ \A b \in Callers \ {c} : request'[b] = request[b]
      /\ request[c].pc = "idle"
      /\ used' \in [requests : Nat, failures : Nat] /\ used'.failures = used.failures
  BY <1>1, <1>2, <1>3, BeginStep DEF Ops
<1>5. RequestInv(c)'
  BY <1>1, <1>2, <1>4 DEF RequestInv, Alive, Saving, Publishing
<1> QED
  BY <1>2, <1>4, <1>5, QuietStep

LEMMA BeginPublishIInv ==
  ASSUME IInv, NEW c \in Callers, NEW t \in Types, BeginPublish(c, t)
  PROVE  IInv'
<1>1. /\ Begin(c, "publish", t, "read", None) /\ Alive(t) /\ types[t].draft # 0
      /\ UNCHANGED <<types, versions>> /\ TypeOK
  BY DEF BeginPublish, IInv
<1> "read" \in Pcs /\ "publish" \in Ops /\ None \in Content \cup {None}
  BY DEF Pcs, Ops
<1>2. /\ request' \in [Callers -> RequestState] /\ request'[c].pc = "read"
      /\ request'[c].type = t /\ request'[c].doc = types[t]
      /\ \A b \in Callers \ {c} : request'[b] = request[b]
      /\ request[c].pc = "idle"
      /\ used' \in [requests : Nat, failures : Nat] /\ used'.failures = used.failures
  BY <1>1, BeginStep
<1>3. OfType(types[t].draft, t)
  BY <1>1 DEF IInv, Pointers
<1>4. RequestInv(c)'
  BY <1>1, <1>2, <1>3 DEF RequestInv, Alive, Saving, Publishing, OfType
<1> QED
  BY <1>1, <1>2, <1>4, QuietStep

LEMMA BeginOtherIInv ==
  ASSUME IInv, NEW c \in Callers, NEW t \in Types, BeginOther(c, t)
  PROVE  IInv'
<1>1. PICK op \in {"archive", "remove", "duplicate", "run"},
           pc \in {"archive", "check", "copy", "load"} :
        /\ Begin(c, op, t, pc, None)
        /\ pc = "load" => types[t].current # 0
  BY DEF BeginOther
<1>2. Alive(t) /\ UNCHANGED <<types, versions>> /\ TypeOK
  BY DEF BeginOther, IInv
<1>3. pc \in Pcs /\ op \in Ops
  BY <1>1 DEF Pcs, Ops
<1>4. /\ request' \in [Callers -> RequestState] /\ request'[c].pc = pc
      /\ request'[c].type = t /\ request'[c].doc = types[t]
      /\ \A b \in Callers \ {c} : request'[b] = request[b]
      /\ request[c].pc = "idle"
      /\ used' \in [requests : Nat, failures : Nat] /\ used'.failures = used.failures
  BY <1>1, <1>2, <1>3, BeginStep
<1>5. types[t].current # 0 => OfType(types[t].current, t) /\ Frozen(types[t].current)
  BY DEF IInv, Pointers
<1>6. RequestInv(c)'
  BY <1>1, <1>2, <1>4, <1>5 DEF RequestInv, Alive, Saving, Publishing, OfType, Frozen
<1> QED
  BY <1>2, <1>4, <1>6, QuietStep

\* A request that ends without having written anything: refused, done or dead.
LEMMA DoneIInv ==
  ASSUME IInv, NEW c \in Callers, Done(c), UNCHANGED <<types, versions>>,
         \/ used' = used /\ request[c].pc \notin {"type", "pointer"}
         \/ used' = [used EXCEPT !.failures = @ + 1]
  PROVE  IInv'
<1>1. /\ used' \in [requests : Nat, failures : Nat]
      /\ used.failures > 0 => used'.failures > 0
      /\ request[c].pc \notin {"type", "pointer"} \/ used'.failures > 0
  BY DEF IInv, TypeOK
<1> QED
  BY <1>1, DoneStep, QuietStep DEF IInv

LEMMA CountVersionsIInv ==
  ASSUME IInv, NEW c \in Callers, CountVersions(c)
  PROVE  IInv'
<1> DEFINE n == Cardinality(VersionsOf(request[c].type)) + 1
           q == [request[c] EXCEPT !.pc = "draft", !.number = n]
<1>1. /\ request[c].pc = "count" /\ request' = [request EXCEPT ![c] = q]
      /\ UNCHANGED <<types, versions, used>> /\ request[c] \in RequestState
  BY DEF CountVersions, IInv, TypeOK
<1>2. n \in Nat
  <2>1. IsFiniteSet(DOMAIN versions) /\ VersionsOf(request[c].type) \subseteq DOMAIN versions
    BY VersionsTyped, FS_Interval DEF IInv, VersionsOf
  <2> QED
    BY <2>1, FS_Subset, FS_CardinalityType
<1> HIDE DEF n
<1>3. /\ q \in RequestState /\ q.pc = "draft" /\ q.type = request[c].type
      /\ q.flow = request[c].flow
  BY <1>1, <1>2 DEF RequestState
<1> HIDE DEF q
<1>4. /\ request' \in [Callers -> RequestState] /\ request'[c] = q
      /\ \A b \in Callers \ {c} : request'[b] = request[b]
  BY <1>1, <1>3 DEF IInv, TypeOK
<1>5. RequestInv(c)'
  <2>1. RequestInv(c)
    BY DEF IInv
  <2> QED
    BY <1>1, <1>3, <1>4, <2>1 DEF RequestInv, Saving, Publishing
<1> QED
  BY <1>1, <1>4, <1>5, QuietStep DEF IInv, TypeOK

LEMMA ReadDraftIInv ==
  ASSUME IInv, NEW c \in Callers, ReadDraft(c)
  PROVE  IInv'
<1> DEFINE d == request[c].doc.draft
           q == [request[c] EXCEPT !.pc = "snapshot", !.flow = versions[d].flow,
                                   !.status = versions[d].status]
<1>1. /\ request[c].pc = "read" /\ UNCHANGED <<types, versions, used>>
      /\ request[c] \in RequestState
  BY DEF ReadDraft, IInv, TypeOK
<1>2. CASE Done(c)
  BY <1>1, <1>2, DoneIInv
<1>3. CASE There(d) /\ versions[d].flow \in Valid /\ request' = [request EXCEPT ![c] = q]
  <2>1. versions[d].flow \in Content /\ versions[d].status \in Status
    BY <1>3, VersionsTyped DEF IInv, There, Version
  <2>2. /\ q \in RequestState /\ q.pc = "snapshot" /\ q.type = request[c].type
        /\ q.flow = versions[d].flow /\ q.doc = request[c].doc
    BY <1>1, <2>1 DEF RequestState
  <2> HIDE DEF q
  <2>3. /\ request' \in [Callers -> RequestState] /\ request'[c] = q
        /\ \A b \in Callers \ {c} : request'[b] = request[b]
    BY <1>3, <2>2 DEF IInv, TypeOK
  <2>4. RequestInv(c)'
    <3>1. RequestInv(c)
      BY DEF IInv
    <3> QED
      BY <1>1, <1>3, <2>2, <2>3, <3>1 DEF RequestInv, Saving, Publishing, OfType
  <2> QED
    BY <1>1, <2>3, <2>4, QuietStep DEF IInv, TypeOK
<1> QED
  BY <1>2, <1>3 DEF ReadDraft

LEMMA CheckUsageIInv ==
  ASSUME IInv, NEW c \in Callers, CheckUsage(c)
  PROVE  IInv'
<1>1. request[c].pc = "check" /\ UNCHANGED <<types, versions, used>> /\ TypeOK
  BY DEF CheckUsage, IInv
<1>2. CASE Done(c)
  BY <1>1, <1>2, DoneIInv
<1>3. CASE Goto(c, "versions")
  <2>1. /\ request' \in [Callers -> RequestState] /\ request'[c].pc = "versions"
        /\ request'[c].type = request[c].type
        /\ \A b \in Callers \ {c} : request'[b] = request[b]
    BY <1>1, <1>3, GotoStep DEF Pcs
  <2>2. RequestInv(c)'
    <3>1. RequestInv(c)
      BY DEF IInv
    <3> QED
      BY <1>1, <2>1, <3>1 DEF RequestInv, Saving, Publishing
  <2> QED
    BY <1>1, <2>1, <2>2, QuietStep DEF TypeOK
<1> QED
  BY <1>2, <1>3 DEF CheckUsage

LEMMA CopyFlowIInv ==
  ASSUME IInv, NEW c \in Callers, CopyFlow(c)
  PROVE  IInv'
<1>1. /\ request[c].pc = "source" /\ UNCHANGED <<types, versions, used>>
      /\ request[c] \in RequestState
  BY DEF CopyFlow, IInv, TypeOK
<1>2. CASE Done(c)
  BY <1>1, <1>2, DoneIInv
<1>3. ASSUME NEW s \in DOMAIN versions,
             request' = [request EXCEPT ![c].pc = "version", ![c].flow = versions[s].flow]
      PROVE  IInv'
  <2> DEFINE q == [request[c] EXCEPT !.pc = "version", !.flow = versions[s].flow]
  <2>1. versions[s].flow \in Content
    BY <1>3, VersionsTyped DEF IInv, Version
  <2>2. /\ q \in RequestState /\ q.pc = "version" /\ q.type = request[c].type
        /\ q.flow = versions[s].flow /\ request' = [request EXCEPT ![c] = q]
    BY <1>1, <1>3, <2>1 DEF RequestState
  <2> HIDE DEF q
  <2>3. /\ request' \in [Callers -> RequestState] /\ request'[c] = q
        /\ \A b \in Callers \ {c} : request'[b] = request[b]
    BY <2>2 DEF IInv, TypeOK
  <2>4. RequestInv(c)'
    <3>1. RequestInv(c)
      BY DEF IInv
    <3> QED
      BY <1>1, <2>1, <2>2, <2>3, <3>1 DEF RequestInv, Saving, Publishing
  <2> QED
    BY <1>1, <2>3, <2>4, QuietStep DEF IInv, TypeOK
<1> QED
  BY <1>2, <1>3 DEF CopyFlow, There

LEMMA LoadSnapshotIInv ==
  ASSUME IInv, NEW c \in Callers, LoadSnapshot(c)
  PROVE  IInv'
<1> DEFINE v == request[c].doc.current
           q == [request[c] EXCEPT !.pc = "running", !.flow = versions[v].snapshot]
<1>1. /\ request[c].pc = "load" /\ UNCHANGED <<types, versions, used>>
      /\ request[c] \in RequestState
  BY DEF LoadSnapshot, IInv, TypeOK
<1>2. CASE Done(c)
  BY <1>1, <1>2, DoneIInv
<1>3. CASE There(v) /\ request' = [request EXCEPT ![c] = q]
  <2>1. versions[v].snapshot \in Content \cup {None}
    BY <1>3, Fields DEF IInv, There
  <2>2. q \in RequestState /\ q.pc = "running" /\ q.type = request[c].type
    BY <1>1, <2>1 DEF RequestState
  <2> HIDE DEF q
  <2>3. /\ request' \in [Callers -> RequestState] /\ request'[c] = q
        /\ \A b \in Callers \ {c} : request'[b] = request[b]
    BY <1>3, <2>2 DEF IInv, TypeOK
  <2>4. RequestInv(c)'
    <3>1. RequestInv(c)
      BY DEF IInv
    <3> QED
      BY <1>1, <2>2, <2>3, <3>1 DEF RequestInv, Saving, Publishing
  <2> QED
    BY <1>1, <2>3, <2>4, QuietStep DEF IInv, TypeOK
<1> QED
  BY <1>2, <1>3 DEF LoadSnapshot

(***************************************************************************)
(* Steps that write versions.                                              *)
(***************************************************************************)
\* The types stay, the versions grow or keep what is known of them.
LEMMA VersionStep ==
  ASSUME IInv, NEW c \in Callers, types' = types, used' = used,
         versions' \in Seq(Version), Grown,
         \A v \in DOMAIN versions' :
           v \in DOMAIN versions \/ types[versions'[v].type].life # "unborn",
         \A v \in DOMAIN versions' : VersionInv(v)',
         request' \in [Callers -> RequestState],
         \A b \in Callers \ {c} : request'[b] = request[b],
         \A t \in Types : PointerComing(t)',
         RequestInv(c)'
  PROVE  IInv'
<1>1. TypeOK'
  BY DEF IInv, TypeOK
<1>2. Lived
  BY DEF Lived
<1>3. \A b \in Callers : RequestInv(b)'
  BY <1>2, OthersKept
<1>4. \A t \in Types : Pointers(t)'
  BY PointersKept
<1> QED
  BY <1>1, <1>3, <1>4 DEF IInv

\* One version gets other fields, and caller c goes on.
LEMMA Rewritten ==
  ASSUME IInv, NEW c \in Callers, types' = types, used' = used,
         NEW v \in DOMAIN versions, NEW w \in Version,
         versions' = [versions EXCEPT ![v] = w],
         w.type = versions[v].type, w.there = versions[v].there,
         w.snapshot \in Valid \cup {None},
         versions[v].snapshot # None => w.snapshot # None,
         request' \in [Callers -> RequestState],
         \A b \in Callers \ {c} : request'[b] = request[b],
         request[c].pc \notin {"type", "pointer"},
         RequestInv(c)'
  PROVE  IInv'
<1>1. versions' \in Seq(Version) /\ DOMAIN versions' = DOMAIN versions
  BY VersionsTyped, ExceptSeq DEF IInv, TypeOK
<1>2. versions'[v] = w /\ \A u \in DOMAIN versions \ {v} : versions'[u] = versions[u]
  BY VersionsTyped DEF IInv
<1>3. Grown
  BY <1>1, <1>2 DEF Grown
<1>4. ASSUME NEW u \in DOMAIN versions' PROVE VersionInv(u)'
  <2>1. /\ versions'[u].type = versions[u].type /\ versions'[u].there = versions[u].there
        /\ versions'[u].snapshot \in Valid \cup {None}
    BY <1>1, <1>2 DEF IInv, VersionInv
  <2>2. PICK t : t = versions[u].type
    OBVIOUS
  <2>3. Removing(t) => Removing(t)'
    BY RemovingKept
  <2>4. VersionInv(u)
    BY <1>1 DEF IInv
  <2> QED
    BY <2>1, <2>2, <2>3, <2>4 DEF VersionInv, Alive
<1>5. ASSUME NEW t \in Types PROVE PointerComing(t)'
  <2>1. VersionsOf(t)' = VersionsOf(t)
    BY <1>1, <1>2 DEF VersionsOf
  <2> QED
    BY <2>1, ComingKept
<1> QED
  BY <1>1, <1>3, <1>4, <1>5, VersionStep

LEMMA UpdateDraftIInv ==
  ASSUME IInv, NEW c \in Callers, UpdateDraft(c)
  PROVE  IInv'
<1> DEFINE d == request[c].doc.draft
           w == [versions[d] EXCEPT !.flow = request[c].flow]
<1>1. /\ request[c].pc = "update" /\ Done(c) /\ UNCHANGED <<types, used>> /\ TypeOK
      /\ request[c].flow \in Content
  BY DEF UpdateDraft, IInv, RequestInv, Saving
<1>2. CASE There(d)
  <2>1. /\ d \in DOMAIN versions /\ versions[d] \in Version
        /\ versions' = [versions EXCEPT ![d] = w] /\ VersionInv(d)
    BY <1>2, VersionsTyped DEF UpdateDraft, There, IInv
  <2>2. /\ w \in Version /\ w.type = versions[d].type /\ w.there = versions[d].there
        /\ w.snapshot = versions[d].snapshot
    BY <1>1, <2>1 DEF Version
  <2> HIDE DEF w
  <2> QED
    BY <1>1, <2>1, <2>2, DoneStep, Rewritten DEF VersionInv
<1>3. CASE ~There(d)
  BY <1>1, <1>3, DoneIInv DEF UpdateDraft
<1> QED
  BY <1>2, <1>3

LEMMA SaveSnapshotIInv ==
  ASSUME IInv, NEW c \in Callers, SaveSnapshot(c)
  PROVE  IInv'
<1> DEFINE k == request[c]
           d == k.doc.draft
           st == IF k.status = "published" THEN versions[d].status ELSE "published"
           w == [versions[d] EXCEPT !.status = st, !.snapshot = k.flow]
<1>1. /\ k.pc = "snapshot" /\ UNCHANGED <<types, used>> /\ TypeOK /\ RequestInv(c)
      /\ k.flow \in Valid
  BY DEF SaveSnapshot, IInv, RequestInv
<1>2. CASE There(d)
  <2>1. /\ d \in DOMAIN versions /\ versions[d] \in Version
        /\ versions' = [versions EXCEPT ![d] = w] /\ Goto(c, "publish")
    BY <1>2, VersionsTyped DEF SaveSnapshot, There, IInv
  <2>2. st \in Status
    BY <2>1 DEF Version, Status
  <2> HIDE DEF st
  <2>3. /\ w \in Version /\ w.type = versions[d].type /\ w.there = versions[d].there
        /\ w.snapshot = k.flow /\ k.flow # None
    BY <1>1, <2>1, <2>2, Flowing DEF Version
  <2> HIDE DEF w
  <2>4. /\ request' \in [Callers -> RequestState] /\ request'[c].pc = "publish"
        /\ request'[c].type = k.type /\ request'[c].doc = k.doc
        /\ \A b \in Callers \ {c} : request'[b] = request[b]
    BY <1>1, <2>1, GotoStep DEF Pcs
  <2>5. /\ d \in DOMAIN versions' /\ versions'[d] = w
    BY <2>1, VersionsTyped DEF IInv
  <2>6. RequestInv(c)'
    BY <1>1, <2>3, <2>4, <2>5 DEF RequestInv, Saving, Publishing, OfType, Frozen
  <2> QED
    BY <1>1, <2>1, <2>3, <2>4, <2>6, Rewritten
<1>3. CASE ~There(d)
  BY <1>1, <1>3, DoneIInv DEF SaveSnapshot
<1> QED
  BY <1>2, <1>3

LEMMA RetireVersionIInv ==
  ASSUME IInv, NEW c \in Callers, RetireVersion(c)
  PROVE  IInv'
<1> DEFINE v == request[c].doc.current
           w == [versions[v] EXCEPT !.status = "archived"]
<1>1. /\ request[c].pc = "retire" /\ Done(c) /\ UNCHANGED <<types, used>> /\ TypeOK
  BY DEF RetireVersion, IInv
<1>2. CASE There(v)
  <2>1. /\ v \in DOMAIN versions /\ versions[v] \in Version
        /\ versions' = [versions EXCEPT ![v] = w] /\ VersionInv(v)
    BY <1>2, VersionsTyped DEF RetireVersion, There, IInv
  <2>2. /\ w \in Version /\ w.type = versions[v].type /\ w.there = versions[v].there
        /\ w.snapshot = versions[v].snapshot
    BY <1>1, <2>1 DEF Version, Status
  <2> HIDE DEF w
  <2> QED
    BY <1>1, <2>1, <2>2, DoneStep, Rewritten DEF VersionInv
<1>3. CASE ~There(v)
  BY <1>1, <1>3, DoneIInv DEF RetireVersion
<1> QED
  BY <1>2, <1>3

\* The versions of a type are deleted while the request goes on to the type.
LEMMA RemoveVersionsIInv ==
  ASSUME IInv, NEW c \in Callers, RemoveVersions(c)
  PROVE  IInv'
<1> DEFINE t == request[c].type
<1>1. /\ request[c].pc = "versions" /\ UNCHANGED <<types, used>> /\ TypeOK
      /\ Goto(c, "type") /\ t \in Types /\ RequestInv(c)
  BY DEF RemoveVersions, IInv, RequestInv
<1>2. /\ request' \in [Callers -> RequestState] /\ request'[c].pc = "type"
      /\ request'[c].type = t
      /\ \A b \in Callers \ {c} : request'[b] = request[b]
  BY <1>1, GotoStep DEF Pcs
<1>3. /\ DOMAIN versions' = DOMAIN versions
      /\ \A v \in DOMAIN versions :
           IF v \in VersionsOf(t) THEN versions'[v] = [versions[v] EXCEPT !.there = FALSE]
           ELSE versions'[v] = versions[v]
  BY DEF RemoveVersions
<1>4. \A v \in DOMAIN versions :
        /\ versions'[v] \in Version /\ versions'[v].type = versions[v].type
        /\ versions'[v].snapshot = versions[v].snapshot
        /\ versions'[v].there => versions[v].there
        /\ ~versions'[v].there => ~versions[v].there \/ versions[v].type = t
  <2> SUFFICES ASSUME NEW v \in DOMAIN versions
               PROVE  /\ versions'[v] \in Version /\ versions'[v].type = versions[v].type
                      /\ versions'[v].snapshot = versions[v].snapshot
                      /\ versions'[v].there => versions[v].there
                      /\ ~versions'[v].there => ~versions[v].there \/ versions[v].type = t
    OBVIOUS
  <2>1. versions[v] \in Version
    BY <1>1, VersionsTyped
  <2> QED
    BY <1>3, <2>1 DEF Version, VersionsOf
<1>5. versions' \in Seq(Version)
  <2>1. DOMAIN versions' = 1..Len(versions) /\ Len(versions) \in Nat
    BY <1>1, <1>3, VersionsTyped
  <2>2. versions' \in [1..Len(versions) -> Version]
    BY <1>3, <1>4, <2>1 DEF RemoveVersions
  <2> QED
    BY <2>1, <2>2, SeqDef
<1>6. Grown
  BY <1>3, <1>4 DEF Grown
<1>7. ASSUME NEW v \in DOMAIN versions' PROVE VersionInv(v)'
  <2>1. v \in DOMAIN versions /\ VersionInv(v)
    BY <1>3 DEF IInv
  <2>2. PICK u : u = versions[v].type
    OBVIOUS
  <2>3. Removing(u) => Removing(u)'
    BY <1>1, <1>2, RemovingKept
  <2>4. u = t => Removing(u)'
    BY <1>2 DEF Removing
  <2> QED
    BY <1>1, <1>4, <2>1, <2>2, <2>3, <2>4 DEF VersionInv, Alive
<1>8. ASSUME NEW u \in Types PROVE PointerComing(u)'
  <2>1. VersionsOf(u)' # {} => VersionsOf(u) # {}
    BY <1>3, <1>4 DEF VersionsOf
  <2> QED
    BY <1>1, <1>2, <2>1, ComingKept
<1>9. RequestInv(c)'
  BY <1>1, <1>2 DEF RequestInv, Saving, Publishing
<1> QED
  BY <1>1, <1>2, <1>3, <1>5, <1>6, <1>7, <1>8, <1>9, VersionStep

\* A new version, of a type that is there and gets a pointer to it next.
LEMMA CreateVersionIInv ==
  ASSUME IInv, NEW c \in Callers, NEW number \in Nat, NEW snapshot \in Valid \cup {None},
         CreateVersion(c, number, snapshot, "pointer"), UNCHANGED <<types, used>>,
         request[c].pc \in {"version", "draft"}
  PROVE  IInv'
<1> DEFINE k == request[c]
           n == Len(versions) + 1
           w == [there |-> TRUE, type |-> k.type, number |-> number,
                 status |-> "draft", flow |-> k.flow, snapshot |-> snapshot]
           q == [k EXCEPT !.pc = "pointer", !.version = n]
<1>1. /\ TypeOK /\ k.type \in Types /\ types[k.type].life # "unborn"
      /\ k.flow \in Content /\ k \in RequestState /\ Len(versions) \in Nat
  BY VersionsTyped DEF IInv, RequestInv, Saving, TypeOK
<1>2. CASE Done(c) /\ UNCHANGED versions
  BY <1>2, DoneIInv
<1>3. CASE versions' = Append(versions, w) /\ request' = [request EXCEPT ![c] = q]
  <2>1. w \in Version /\ w.type = k.type /\ w.there = TRUE /\ w.snapshot = snapshot
    BY <1>1, Flowing DEF Version, Status
  <2> HIDE DEF w
  <2>2. /\ q \in RequestState /\ q.pc = "pointer" /\ q.version = n /\ q.type = k.type
        /\ q.flow = k.flow
    <3>1. n \in Nat /\ "pointer" \in Pcs
      BY <1>1 DEF Pcs
    <3> HIDE DEF n
    <3> QED
      BY <1>1, <3>1, RequestShape
  <2> HIDE DEF q
  <2>3. /\ request' \in [Callers -> RequestState] /\ request'[c] = q
        /\ \A b \in Callers \ {c} : request'[b] = request[b]
    BY <1>1, <1>3, <2>2 DEF TypeOK
  <2>4. /\ versions' \in Seq(Version) /\ DOMAIN versions' = (DOMAIN versions) \cup {n}
        /\ \A v \in DOMAIN versions : versions'[v] = versions[v]
        /\ versions'[n] = w /\ n # 0
    <3>1. /\ versions \in Seq(Version) /\ DOMAIN versions = 1..Len(versions)
      BY <1>1, VersionsTyped DEF TypeOK
    <3>2. /\ versions' \in Seq(Version) /\ Len(versions') = n
          /\ \A v \in 1..Len(versions) : versions'[v] = versions[v]
          /\ versions'[n] = w
      BY <1>3, <2>1, <3>1, AppendProperties
    <3>3. DOMAIN versions' = 1..n
      BY <3>2, LenProperties
    <3> QED
      BY <1>1, <3>1, <3>2, <3>3
  <2> HIDE DEF n
  <2>5. Grown
    BY <2>4 DEF Grown
  <2>6. ASSUME NEW v \in DOMAIN versions' PROVE VersionInv(v)'
    <3>1. CASE v = n
      BY <2>1, <2>4, <3>1 DEF VersionInv
    <3>2. CASE v \in DOMAIN versions
      <4>1. VersionInv(v) /\ versions'[v] = versions[v]
        BY <2>4, <3>2 DEF IInv
      <4>2. PICK u : u = versions[v].type
        OBVIOUS
      <4>3. Removing(u) => Removing(u)'
        BY <2>3, RemovingKept
      <4> QED
        BY <4>1, <4>2, <4>3 DEF VersionInv, Alive
    <3> QED
      BY <2>4, <3>1, <3>2
  <2>7. ASSUME NEW u \in Types PROVE PointerComing(u)'
    <3>1. CASE u = k.type
      BY <2>2, <2>3, <3>1 DEF PointerComing
    <3>2. CASE u # k.type
      <4>1. VersionsOf(u)' # {} => VersionsOf(u) # {}
        BY <2>1, <2>4, <3>2 DEF VersionsOf
      <4> QED
        BY <2>3, <4>1, ComingKept
    <3> QED
      BY <3>1, <3>2
  <2>8. RequestInv(c)'
    BY <1>1, <2>1, <2>2, <2>3, <2>4 DEF RequestInv, Saving, Publishing, OfType
  <2>9. \A v \in DOMAIN versions' :
          v \in DOMAIN versions \/ types[versions'[v].type].life # "unborn"
    BY <1>1, <2>1, <2>4
  <2> QED
    BY <2>3, <2>4, <2>5, <2>6, <2>7, <2>8, <2>9, VersionStep
<1> QED
  BY <1>2, <1>3 DEF CreateVersion

LEMMA FirstVersionIInv ==
  ASSUME IInv, NEW c \in Callers, FirstVersion(c)
  PROVE  IInv'
BY CreateVersionIInv DEF FirstVersion

LEMMA NextVersionIInv ==
  ASSUME IInv, NEW c \in Callers, NextVersion(c)
  PROVE  IInv'
<1> DEFINE k == request[c]
           snapshot == IF There(k.doc.current) THEN versions[k.doc.current].snapshot ELSE None
<1>1. /\ k.pc = "draft" /\ CreateVersion(c, k.number, snapshot, "pointer")
      /\ UNCHANGED <<types, used>>
  BY DEF NextVersion
<1>2. k.number \in Nat
  BY Fields DEF IInv
<1>3. snapshot \in Valid \cup {None}
  BY DEF IInv, There, VersionInv
<1> HIDE DEF snapshot
<1> QED
  BY <1>1, <1>2, <1>3, CreateVersionIInv

(***************************************************************************)
(* Steps that write a type.                                                *)
(***************************************************************************)
\* One type changes, the versions stay, and caller c goes on.
LEMMA TypeStep ==
  ASSUME IInv, NEW c \in Callers, versions' = versions,
         NEW t \in Types, NEW d \in Type, types' = [types EXCEPT ![t] = d],
         request' \in [Callers -> RequestState],
         \A b \in Callers \ {c} : request'[b] = request[b],
         used' \in [requests : Nat, failures : Nat], used'.failures = used.failures,
         types[t].life # "unborn" => d.life # "unborn",
         types[t].current # 0 => d.current # 0,
         d.life = "alive" => types[t].life # "dead",
         request[c].pc # "type" \/ (request[c].type = t /\ d.life # "alive"),
         request[c].pc # "pointer" \/ request[c].type = t,
         Pointers(t)', PointerComing(t)', RequestInv(c)'
  PROVE  IInv'
<1>1. /\ types' \in [Types -> Type] /\ types'[t] = d
      /\ \A u \in Types \ {t} : types'[u] = types[u]
  BY DEF IInv, TypeOK
<1>2. TypeOK'
  BY <1>1 DEF IInv, TypeOK
<1>3. Grown /\ Lived
  BY <1>1 DEF Grown, Lived
<1>4. \A b \in Callers : RequestInv(b)'
  BY <1>3, OthersKept
<1>5. ASSUME NEW u \in Types PROVE Pointers(u)'
  <2>1. CASE u # t
    <3>1. Pointers(u)
      BY DEF IInv
    <3> QED
      BY <1>1, <2>1, <3>1 DEF Pointers, OfType, Frozen
  <2> QED
    BY <2>1
<1>6. ASSUME NEW u \in Types PROVE PointerComing(u)'
  <2>1. CASE u # t
    <3>1. VersionsOf(u)' = VersionsOf(u)
      BY DEF VersionsOf
    <3> QED
      BY <1>1, <2>1, <3>1, ComingKept
  <2> QED
    BY <2>1
<1>7. ASSUME NEW v \in DOMAIN versions' PROVE VersionInv(v)'
  <2>1. VersionInv(v) /\ versions[v].type \in Types
    BY Fields DEF IInv
  <2>2. PICK u \in Types : u = versions[v].type
    BY <2>1
  <2>3. CASE u # t
    <3>1. Removing(u) => Removing(u)'
      BY <2>3, RemovingKept
    <3> QED
      BY <1>1, <2>1, <2>2, <2>3, <3>1 DEF VersionInv, Alive
  <2>4. CASE u = t /\ d.life = "alive"
    <3>1. Removing(u) => Removing(u)'
      BY <2>4, RemovingKept
    <3>2. types[t].life = "alive"
      BY <2>2, <2>4 DEF IInv, Pointers, TypeOK, Type
    <3> QED
      BY <1>1, <2>1, <2>2, <2>4, <3>1, <3>2 DEF VersionInv, Alive
  <2>5. CASE u = t /\ d.life # "alive"
    BY <1>1, <2>1, <2>2, <2>5 DEF VersionInv, Alive
  <2> QED
    BY <2>3, <2>4, <2>5
<1> QED
  BY <1>2, <1>4, <1>5, <1>6, <1>7 DEF IInv

\* A type is born without versions, by create or by duplicate.
LEMMA Born ==
  ASSUME IInv, NEW c \in Callers, NEW t \in Types, types[t].life = "unborn",
         types' = [types EXCEPT ![t].life = "alive"], versions' = versions,
         request' \in [Callers -> RequestState], request[c].pc \notin {"type", "pointer"},
         \A b \in Callers \ {c} : request'[b] = request[b],
         used' \in [requests : Nat, failures : Nat], used'.failures = used.failures,
         RequestInv(c)'
  PROVE  IInv'
<1> DEFINE d == [types[t] EXCEPT !.life = "alive"]
<1>1. types[t] \in Type /\ types' = [types EXCEPT ![t] = d] /\ types \in [Types -> Type]
  BY DEF IInv, TypeOK
<1>2. /\ d \in Type /\ d.life = "alive" /\ d.draft = types[t].draft
      /\ d.current = types[t].current /\ d.status = types[t].status
  BY <1>1 DEF Type
<1> HIDE DEF d
<1>3. types'[t] = d
  BY <1>1
<1>4. Pointers(t) /\ \A v \in DOMAIN versions : versions[v].type # t
  BY DEF IInv, Pointers
<1>5. Pointers(t)'
  BY <1>2, <1>3, <1>4 DEF Pointers, OfType, Frozen
<1>6. PointerComing(t)'
  <2>1. VersionsOf(t)' = {}
    BY <1>4 DEF VersionsOf
  <2> QED
    BY <2>1 DEF PointerComing
<1> QED
  BY <1>1, <1>2, <1>5, <1>6, TypeStep

LEMMA BeginCreateIInv ==
  ASSUME IInv, NEW c \in Callers, NEW t \in Types, BeginCreate(c, t)
  PROVE  IInv'
<1>1. /\ types[t].life = "unborn" /\ types' = [types EXCEPT ![t].life = "alive"]
      /\ versions' = versions /\ Begin(c, "create", t, "version", Empty) /\ TypeOK
  BY DEF BeginCreate, IInv
<1> "version" \in Pcs /\ "create" \in Ops /\ Empty \in Content
  BY DEF Pcs, Ops, Content
<1>2. /\ request' \in [Callers -> RequestState] /\ request'[c].pc = "version"
      /\ request'[c].type = t /\ request'[c].flow = Empty
      /\ \A b \in Callers \ {c} : request'[b] = request[b]
      /\ request[c].pc = "idle"
      /\ used' \in [requests : Nat, failures : Nat] /\ used'.failures = used.failures
  BY <1>1, BeginStep
<1>3. types'[t].life = "alive"
  BY <1>1 DEF TypeOK, Type
<1>4. RequestInv(c)'
  BY <1>2, <1>3 DEF RequestInv, Saving, Publishing
<1> QED
  BY <1>1, <1>2, <1>4, Born

LEMMA CopyTypeIInv ==
  ASSUME IInv, NEW c \in Callers, NEW t \in Types, CopyType(c, t)
  PROVE  IInv'
<1> DEFINE q == [request[c] EXCEPT !.pc = "source", !.type = t]
<1>1. /\ request[c].pc = "copy" /\ types[t].life = "unborn"
      /\ types' = [types EXCEPT ![t].life = "alive"] /\ UNCHANGED <<versions, used>>
      /\ request' = [request EXCEPT ![c] = q] /\ request[c] \in RequestState /\ TypeOK
  BY DEF CopyType, IInv, TypeOK
<1> "source" \in Pcs
  BY DEF Pcs
<1>2. q \in RequestState /\ q.pc = "source" /\ q.type = t
  BY <1>1, RequestShape
<1> HIDE DEF q
<1>3. /\ request' \in [Callers -> RequestState] /\ request'[c] = q
      /\ \A b \in Callers \ {c} : request'[b] = request[b]
  BY <1>1, <1>2 DEF TypeOK
<1>4. types'[t].life = "alive"
  BY <1>1 DEF TypeOK, Type
<1>5. RequestInv(c)'
  BY <1>2, <1>3, <1>4 DEF RequestInv, Saving, Publishing
<1> QED
  BY <1>1, <1>3, <1>5, Born DEF TypeOK

LEMMA SavePointerIInv ==
  ASSUME IInv, NEW c \in Callers, SavePointer(c)
  PROVE  IInv'
<1> DEFINE k == request[c]
<1>0. PICK t \in Types : t = k.type
  BY DEF SavePointer, IInv, RequestInv
<1> DEFINE d == [types[t] EXCEPT !.draft = k.version]
<1>1. /\ k.pc = "pointer" /\ UNCHANGED <<versions, used>> /\ TypeOK /\ t \in Types
      /\ k.version # 0 /\ OfType(k.version, t) /\ k.version \in Nat /\ k.flow \in Content
      /\ types[t] \in Type /\ k \in RequestState
  BY <1>0, Fields DEF SavePointer, IInv, RequestInv, Saving
<1>2. CASE Alive(t)
  <2>1. types' = [types EXCEPT ![t] = d] /\ types[t].life = "alive"
    BY <1>0, <1>1, <1>2 DEF SavePointer, Alive, TypeOK
  <2>2. /\ d \in Type /\ d.life = "alive" /\ d.draft = k.version
        /\ d.current = types[t].current /\ d.status = types[t].status
    BY <1>1, <2>1 DEF Type
  <2> HIDE DEF d
  <2>3. types'[t] = d
    BY <1>1, <2>1 DEF TypeOK
  <2>4. Pointers(t)'
    <3>1. Pointers(t)
      BY <1>1 DEF IInv
    <3> QED
      BY <1>1, <2>2, <2>3, <3>1 DEF Pointers, OfType, Frozen
  <2>5. PointerComing(t)'
    BY <1>1, <2>2, <2>3 DEF PointerComing
  <2>6. CASE Done(c)
    <3>1. /\ request' \in [Callers -> RequestState] /\ RequestInv(c)'
          /\ \A b \in Callers \ {c} : request'[b] = request[b]
      BY <1>1, <2>6, DoneStep
    <3> QED
      BY <1>0, <1>1, <2>1, <2>2, <2>4, <2>5, <3>1, TypeStep DEF TypeOK
  <2>7. CASE request' = [request EXCEPT ![c].pc = "update", ![c].doc.draft = k.version]
    <3> DEFINE e == [k.doc EXCEPT !.draft = k.version]
               q == [k EXCEPT !.pc = "update", !.doc = e]
    <3>1. e \in Type
      BY <1>1, Fields DEF Type
    <3>2. request' = [request EXCEPT ![c] = q]
      BY <1>1, <2>7 DEF TypeOK, RequestState
    <3> HIDE DEF e
    <3> "update" \in Pcs
      BY DEF Pcs
    <3>3. q \in RequestState /\ q.pc = "update" /\ q.type = t /\ q.flow = k.flow
      BY <1>0, <1>1, <3>1, RequestShape
    <3> HIDE DEF q
    <3>4. /\ request' \in [Callers -> RequestState] /\ request'[c] = q
          /\ \A b \in Callers \ {c} : request'[b] = request[b]
      BY <1>1, <3>2, <3>3 DEF TypeOK
    <3>5. RequestInv(c)'
      BY <1>1, <2>2, <2>3, <3>3, <3>4 DEF RequestInv, Saving, Publishing
    <3> QED
      BY <1>0, <1>1, <2>1, <2>2, <2>4, <2>5, <3>4, <3>5, TypeStep DEF TypeOK
  <2> QED
    BY <1>0, <1>1, <1>2, <2>6, <2>7 DEF SavePointer
<1>3. CASE ~Alive(t)
  <2>1. Done(c) /\ types' = types
    BY <1>0, <1>3 DEF SavePointer
  <2>2. /\ request' \in [Callers -> RequestState] /\ RequestInv(c)'
        /\ \A b \in Callers \ {c} : request'[b] = request[b]
    BY <1>1, <2>1, DoneStep
  <2>3. types' = [types EXCEPT ![t] = types[t]]
    BY <1>1, <2>1 DEF TypeOK
  <2>4. Pointers(t)' /\ PointerComing(t)'
    <3>1. Pointers(t)
      BY <1>1 DEF IInv
    <3> QED
      BY <1>1, <1>3, <2>1, <3>1 DEF Pointers, OfType, Frozen, PointerComing, Alive
  <2> QED
    BY <1>0, <1>1, <1>3, <2>2, <2>3, <2>4, TypeStep DEF TypeOK, Alive
<1> QED
  BY <1>2, <1>3

\* An update of a type that is there by a request that then is done or goes on.
LEMMA TypeUpdated ==
  ASSUME IInv, NEW c \in Callers, UNCHANGED <<versions, used>>,
         NEW t \in Types, NEW d \in Type, types' = [types EXCEPT ![t] = d],
         d.life = types[t].life, types[t].current # 0 => d.current # 0,
         d.draft # types[t].draft => d.draft = 0 /\ d.current # 0,
         d.current # types[t].current => OfType(d.current, t) /\ Frozen(d.current),
         d.status = "published" => d.current # 0,
         request' \in [Callers -> RequestState],
         \A b \in Callers \ {c} : request'[b] = request[b],
         request[c].pc \notin {"type", "pointer"}, RequestInv(c)'
  PROVE  IInv'
<1>1. /\ types'[t] = d /\ Pointers(t) /\ PointerComing(t)
  BY DEF IInv, TypeOK
<1>2. Pointers(t)'
  BY <1>1 DEF Pointers, OfType, Frozen
<1>3. PointerComing(t)'
  <2>1. VersionsOf(t)' = VersionsOf(t)
    BY DEF VersionsOf
  <2> QED
    BY <1>1, <2>1 DEF PointerComing, Alive
<1> QED
  BY <1>2, <1>3, TypeStep DEF IInv, TypeOK

LEMMA PublishTypeIInv ==
  ASSUME IInv, NEW c \in Callers, PublishType(c)
  PROVE  IInv'
<1> DEFINE k == request[c]
           t == k.type
           st == IF k.doc.status = "published" THEN types[t].status ELSE "published"
           d == [types[t] EXCEPT !.current = k.doc.draft, !.draft = 0, !.status = st]
<1>1. /\ k.pc = "publish" /\ UNCHANGED <<versions, used>> /\ TypeOK /\ t \in Types
      /\ k.doc.draft # 0 /\ OfType(k.doc.draft, t) /\ Frozen(k.doc.draft)
      /\ k.doc.draft \in Nat /\ types[t] \in Type /\ Done(c)
  BY Fields DEF PublishType, IInv, RequestInv, Publishing
<1>2. /\ request' \in [Callers -> RequestState] /\ RequestInv(c)'
      /\ \A b \in Callers \ {c} : request'[b] = request[b]
  BY <1>1, DoneStep
<1>3. CASE Alive(t)
  <2>1. types' = [types EXCEPT ![t] = d]
    BY <1>1, <1>3 DEF PublishType, TypeOK
  <2>2. st \in Status
    BY <1>1 DEF Status, Type
  <2> HIDE DEF st
  <2>3. /\ d \in Type /\ d.life = types[t].life /\ d.draft = 0
        /\ d.current = k.doc.draft
    BY <1>1, <2>2 DEF Type
  <2> HIDE DEF d
  <2> QED
    BY <1>1, <1>2, <2>1, <2>3, TypeUpdated
<1>4. CASE ~Alive(t)
  BY <1>1, <1>4, DoneIInv DEF PublishType
<1> QED
  BY <1>3, <1>4

LEMMA ArchiveTypeIInv ==
  ASSUME IInv, NEW c \in Callers, ArchiveType(c)
  PROVE  IInv'
<1> DEFINE k == request[c]
           t == k.type
           st == IF k.doc.status = "archived" THEN types[t].status ELSE "archived"
           d == [types[t] EXCEPT !.status = st]
<1>1. /\ k.pc = "archive" /\ UNCHANGED <<versions, used>> /\ TypeOK /\ t \in Types
      /\ types[t] \in Type /\ RequestInv(c) /\ Pointers(t)
  BY Fields DEF ArchiveType, IInv, RequestInv
<1>2. CASE Alive(t)
  <2>1. types' = [types EXCEPT ![t] = d]
    BY <1>1, <1>2 DEF ArchiveType, TypeOK
  <2>2. st \in Status /\ (st = "published" => types[t].current # 0)
    BY <1>1 DEF Status, Type, Pointers
  <2> HIDE DEF st
  <2>3. /\ d \in Type /\ d.life = types[t].life /\ d.draft = types[t].draft
        /\ d.current = types[t].current /\ d.status = st
    BY <1>1, <2>2 DEF Type
  <2> HIDE DEF d
  <2>4. types'[t].life = types[t].life
    BY <1>1, <2>1, <2>3 DEF TypeOK
  <2>5. /\ request' \in [Callers -> RequestState] /\ RequestInv(c)'
        /\ \A b \in Callers \ {c} : request'[b] = request[b]
    <3>1. CASE Done(c)
      BY <1>1, <3>1, DoneStep
    <3>2. CASE Goto(c, "retire")
      <4>1. /\ request' \in [Callers -> RequestState] /\ request'[c].pc = "retire"
            /\ request'[c].type = t
            /\ \A b \in Callers \ {c} : request'[b] = request[b]
        BY <1>1, <3>2, GotoStep DEF Pcs
      <4>2. RequestInv(c)'
        BY <1>1, <2>4, <4>1 DEF RequestInv, Saving, Publishing
      <4> QED
        BY <4>1, <4>2
    <3> QED
      BY <1>2, <3>1, <3>2 DEF ArchiveType
  <2> QED
    BY <1>1, <2>1, <2>2, <2>3, <2>5, TypeUpdated
<1>3. CASE ~Alive(t)
  BY <1>1, <1>3, DoneIInv DEF ArchiveType
<1> QED
  BY <1>2, <1>3

LEMMA RemoveTypeIInv ==
  ASSUME IInv, NEW c \in Callers, RemoveType(c)
  PROVE  IInv'
<1>0. PICK t \in Types : t = request[c].type
  BY DEF RemoveType, IInv, RequestInv
<1> DEFINE d == [types[t] EXCEPT !.life = "dead"]
<1>1. /\ request[c].pc = "type" /\ UNCHANGED <<versions, used>> /\ TypeOK /\ t \in Types
      /\ types[t] \in Type /\ Done(c) /\ types' = [types EXCEPT ![t] = d] /\ Pointers(t)
      /\ types[t].life # "unborn"
  BY <1>0, Fields DEF RemoveType, IInv, RequestInv, TypeOK
<1>2. /\ d \in Type /\ d.life = "dead" /\ d.draft = types[t].draft
      /\ d.current = types[t].current /\ d.status = types[t].status
  BY <1>1 DEF Type
<1> HIDE DEF d
<1>3. types'[t] = d
  BY <1>1 DEF TypeOK
<1>4. /\ request' \in [Callers -> RequestState] /\ RequestInv(c)'
      /\ \A b \in Callers \ {c} : request'[b] = request[b]
  BY <1>1, DoneStep
<1>5. Pointers(t)' /\ PointerComing(t)'
  BY <1>1, <1>2, <1>3 DEF Pointers, OfType, Frozen, PointerComing, Alive
<1> QED
  BY <1>0, <1>1, <1>2, <1>4, <1>5, TypeStep DEF TypeOK

-------------------------------------------------------------------------------
\* At the start there is nothing.
LEMMA InitIInv == Init => IInv
<1> SUFFICES ASSUME Init PROVE IInv
  OBVIOUS
<1>1. NoType \in Type /\ Idle \in RequestState /\ Idle.pc = "idle"
  BY DEF NoType, Type, Status, Idle, RequestState
<1>2. TypeOK
  BY <1>1, EmptySeq DEF Init, TypeOK
<1>3. DOMAIN versions = {}
  BY DEF Init
<1>4. \A t \in Types : Pointers(t) /\ PointerComing(t)
  BY <1>3 DEF Init, NoType, Pointers, PointerComing, Alive
<1>5. \A c \in Callers : RequestInv(c)
  BY <1>1 DEF Init, RequestInv, Saving, Publishing
<1> QED
  BY <1>2, <1>3, <1>4, <1>5 DEF IInv

\* Every step keeps the invariant.
LEMMA NextIInv == IInv /\ [Next]_vars => IInv'
<1> SUFFICES ASSUME IInv, [Next]_vars PROVE IInv'
  OBVIOUS
<1>1. ASSUME NEW c \in Callers, NEW t \in Types,
             \/ BeginCreate(c, t) \/ BeginPublish(c, t) \/ BeginOther(c, t)
             \/ \E flow \in Content : BeginSave(c, t, flow)
      PROVE  IInv'
  BY <1>1, BeginCreateIInv, BeginPublishIInv, BeginOtherIInv, BeginSaveIInv
<1>2. ASSUME NEW c \in Callers, Step(c) PROVE IInv'
  <2>1. CASE FirstVersion(c) \/ CountVersions(c) \/ NextVersion(c) \/ SavePointer(c)
             \/ UpdateDraft(c)
    BY <2>1, FirstVersionIInv, CountVersionsIInv, NextVersionIInv, SavePointerIInv,
       UpdateDraftIInv
  <2>2. CASE ReadDraft(c) \/ SaveSnapshot(c) \/ PublishType(c)
    BY <2>2, ReadDraftIInv, SaveSnapshotIInv, PublishTypeIInv
  <2>3. CASE ArchiveType(c) \/ RetireVersion(c)
    BY <2>3, ArchiveTypeIInv, RetireVersionIInv
  <2>4. CASE CheckUsage(c) \/ RemoveVersions(c) \/ RemoveType(c)
    BY <2>4, CheckUsageIInv, RemoveVersionsIInv, RemoveTypeIInv
  <2>5. ASSUME NEW t \in Types, CopyType(c, t) PROVE IInv'
    BY <2>5, CopyTypeIInv
  <2>6. CASE CopyFlow(c) \/ LoadSnapshot(c)
    BY <2>6, CopyFlowIInv, LoadSnapshotIInv
  <2>7. CASE EndRun(c)
    BY <2>7, DoneIInv DEF EndRun
  <2> QED
    BY <1>2, <2>1, <2>2, <2>3, <2>4, <2>5, <2>6, <2>7 DEF Step
<1>3. ASSUME NEW c \in Callers, Fail(c) PROVE IInv'
  BY <1>3, DoneIInv DEF Fail
<1>4. CASE UNCHANGED vars
  <2>1. \A t \in Types : Pointers(t)' /\ PointerComing(t)'
    BY <1>4 DEF vars, IInv, Pointers, PointerComing, OfType, Frozen, Alive, VersionsOf
  <2>2. \A v \in DOMAIN versions : VersionInv(v)'
    BY <1>4 DEF vars, IInv, VersionInv, Removing, Alive
  <2>3. \A c \in Callers : RequestInv(c)'
    BY <1>4 DEF vars, IInv, RequestInv, OfType, Frozen
  <2> QED
    BY <1>4, <2>1, <2>2, <2>3 DEF vars, IInv, TypeOK
<1> QED
  BY <1>1, <1>2, <1>3, <1>4 DEF Next

LEMMA Invariance == Spec => []IInv
BY InitIInv, NextIInv, PTL DEF Spec

\* Each part of the state keeps its type.
THEOREM Typed == Spec => []TypeOK
<1>1. IInv => TypeOK
  BY DEF IInv
<1> QED
  BY <1>1, Invariance, PTL

(***************************************************************************)
(* A published type, and a run, is pointed to a version with the snapshot  *)
(* of a flow that passed validation: runPublishedFlow finds what it needs. *)
(***************************************************************************)
THEOREM PublishedCanRun == Spec => []PublishedRunnable
<1>1. IInv => PublishedRunnable
  <2> SUFFICES ASSUME IInv PROVE PublishedRunnable
    OBVIOUS
  <2>1. ASSUME NEW v, NEW t \in Types, v # 0, OfType(v, t), Frozen(v)
        PROVE  IF There(v) THEN versions[v].snapshot \in Valid
               ELSE v # 0 /\ (Removing(t) \/ ~Alive(t))
    BY <2>1 DEF IInv, OfType, Frozen, There, VersionInv
  <2>2. ASSUME NEW t \in Types, types[t].status = "published"
        PROVE  /\ types[t].current # 0 /\ OfType(types[t].current, t)
               /\ Frozen(types[t].current)
    BY <2>2 DEF IInv, Pointers
  <2>3. ASSUME NEW c \in Callers, request[c].pc = "load"
        PROVE  /\ request[c].doc.current # 0
               /\ OfType(request[c].doc.current, request[c].type)
               /\ Frozen(request[c].doc.current) /\ request[c].type \in Types
    BY <2>3 DEF IInv, RequestInv
  <2> QED
    BY <2>1, <2>2, <2>3 DEF PublishedRunnable
<1> QED
  BY <1>1, Invariance, PTL

\* 'Save Draft' always helps: a type nobody is at work on has a version that it
\* points to or none at all, unless a request has died.
THEOREM DraftsAreReachable == Spec => []NeverStuck
<1>1. IInv => NeverStuck
  BY DEF IInv, NeverStuck, PointerComing
<1> QED
  BY <1>1, Invariance, PTL

-------------------------------------------------------------------------------
(***************************************************************************)
(* With one publisher, the snapshot of a published version stays.          *)
(***************************************************************************)
\* A step changes no snapshot that a type points to.
SnapshotsKept ==
  \A v \in DOMAIN versions : v \in Published => versions'[v].snapshot = versions[v].snapshot

\* The pointers stay, and caller c brings in no version and takes up no draft.
LEMMA DraftKept ==
  ASSUME DraftInv, NEW c \in Callers,
         \A t \in Types : /\ types'[t].draft = types[t].draft
                          /\ types'[t].current = types[t].current,
         \A b \in Callers \ {c} : request'[b] = request[b],
         request'[c].pc # "pointer",
         request'[c].pc \in Publishing =>
           request[c].pc \in Publishing /\ request'[c].doc.draft = request[c].doc.draft
  PROVE  DraftInv'
<1>1. Published' = Published
  BY DEF Published
<1>2. \A t \in Types : types'[t].draft # 0 => types'[t].draft \notin Published'
  BY <1>1 DEF DraftInv
<1>3. \A b \in Callers : request'[b].pc \in Publishing =>
        /\ b \in Publishers /\ request'[b].doc.draft \notin Published'
        /\ request[b].pc \in Publishing /\ request'[b].doc.draft = request[b].doc.draft
  BY <1>1 DEF DraftInv
<1>4. \A b \in Callers : request'[b].pc = "pointer" => b # c /\ request'[b] = request[b]
  OBVIOUS
<1>5. ASSUME NEW b \in Callers, request'[b].pc = "pointer"
      PROVE  /\ request'[b].version \notin Published'
             /\ \A t \in Types : types'[t].draft # request'[b].version
             /\ \A a \in Callers :
                  /\ request'[a].pc \in Publishing =>
                       request'[a].doc.draft # request'[b].version
                  /\ a # b /\ request'[a].pc = "pointer" =>
                       request'[a].version # request'[b].version
  <2>1. request[b].pc = "pointer" /\ request'[b] = request[b]
    BY <1>4, <1>5
  <2>2. request[b].version \notin Published
    BY <2>1 DEF DraftInv
  <2>3. request'[b].version \notin Published'
    BY <1>1, <2>1, <2>2
  <2>4. \A t \in Types : types'[t].draft # request'[b].version
    BY <2>1 DEF DraftInv
  <2> QED
    BY <1>3, <1>4, <2>1, <2>3, <2>4 DEF DraftInv
<1> QED
  BY <1>2, <1>3, <1>5 DEF DraftInv

\* A request that ends.
LEMMA DoneDraft ==
  ASSUME IInv, DraftInv, NEW c \in Callers, Done(c),
         \A t \in Types : /\ types'[t].draft = types[t].draft
                          /\ types'[t].current = types[t].current
  PROVE  DraftInv'
<1>1. /\ request'[c].pc = "idle" /\ \A b \in Callers \ {c} : request'[b] = request[b]
  BY DoneStep DEF IInv
<1> QED
  BY <1>1, DraftKept DEF Publishing

\* What is used as a version exists, and 0 is none.
LEMMA VersionsInUse ==
  ASSUME IInv
  PROVE  /\ \A t \in Types : types[t].draft \in DOMAIN versions \cup {0}
         /\ \A t \in Types : types[t].current \in DOMAIN versions \cup {0}
         /\ \A c \in Callers : request[c].pc \in Publishing =>
              request[c].doc.draft \in DOMAIN versions
         /\ \A c \in Callers : request[c].pc = "pointer" =>
              request[c].version \in DOMAIN versions
BY DEF IInv, Pointers, RequestInv, OfType

\* The steps that bring in a version and that make it a draft.
LEMMA CreateVersionDraft ==
  ASSUME IInv, DraftInv, NEW c \in Callers, NEW number, NEW snapshot,
         CreateVersion(c, number, snapshot, "pointer"), UNCHANGED types
  PROVE  DraftInv'
<1> DEFINE n == Len(versions) + 1
<1>1. CASE Done(c)
  BY <1>1, DoneDraft
<1>2. CASE request' = [request EXCEPT ![c].pc = "pointer", ![c].version = n]
  <2>1. /\ request'[c].pc = "pointer" /\ request'[c].version = n
        /\ \A b \in Callers \ {c} : request'[b] = request[b]
    BY <1>2 DEF IInv, TypeOK, RequestState
  <2>2. n \notin DOMAIN versions \cup {0}
    BY VersionsTyped DEF IInv
  <2> HIDE DEF n
  <2>3. PICK m : m = n
    OBVIOUS
  <2>4. /\ \A t \in Types : types[t].draft # m /\ types[t].current # m
        /\ \A b \in Callers : request[b].pc \in Publishing => request[b].doc.draft # m
        /\ \A b \in Callers : request[b].pc = "pointer" => request[b].version # m
    BY <2>2, <2>3, VersionsInUse
  <2>5. Published' = Published
    BY DEF Published
  <2>6. m \notin Published
    BY <2>4 DEF Published
  <2>7. \A t \in Types : types'[t].draft # 0 => types'[t].draft \notin Published'
    BY <2>5 DEF DraftInv
  <2>8. \A b \in Callers : request'[b].pc \in Publishing =>
          b # c /\ b \in Publishers /\ request'[b].doc.draft \notin Published'
    BY <2>1, <2>5 DEF DraftInv, Publishing
  <2>9. ASSUME NEW b \in Callers, request'[b].pc = "pointer"
        PROVE  /\ request'[b].version \notin Published'
               /\ \A t \in Types : types'[t].draft # request'[b].version
               /\ \A a \in Callers :
                    /\ request'[a].pc \in Publishing =>
                         request'[a].doc.draft # request'[b].version
                    /\ a # b /\ request'[a].pc = "pointer" =>
                         request'[a].version # request'[b].version
    <3>1. CASE b = c
      BY <2>1, <2>3, <2>4, <2>5, <2>6, <2>8, <3>1
    <3>2. CASE b # c
      <4>1. request'[b].version \notin Published'
        BY <2>1, <2>5, <2>9, <3>2 DEF DraftInv
      <4> QED
        BY <2>1, <2>3, <2>4, <2>8, <2>9, <3>2, <4>1 DEF DraftInv
    <3> QED
      BY <3>1, <3>2
  <2> QED
    BY <2>7, <2>8, <2>9 DEF DraftInv
<1> QED
  BY <1>1, <1>2 DEF CreateVersion

LEMMA SavePointerDraft ==
  ASSUME IInv, DraftInv, NEW c \in Callers, SavePointer(c)
  PROVE  DraftInv'
<1>0. PICK t \in Types, n \in Nat :
        t = request[c].type /\ n = request[c].version /\ request[c].pc = "pointer"
  BY Fields DEF SavePointer, IInv, RequestInv
<1>1. CASE Done(c) /\ types' = types
  BY <1>1, DoneDraft
<1>2. CASE types' = [types EXCEPT ![t].draft = n]
  <2>1. request'[c].pc \in {"idle", "update"} /\ \A b \in Callers \ {c} : request'[b] = request[b]
    <3>1. CASE Done(c)
      BY <3>1, DoneStep DEF IInv
    <3>2. CASE request' = [request EXCEPT ![c].pc = "update", ![c].doc.draft = n]
      BY <3>2 DEF IInv, TypeOK, RequestState
    <3> QED
      BY <1>0, <3>1, <3>2 DEF SavePointer
  <2>2. /\ \A u \in Types : types'[u].current = types[u].current
        /\ \A u \in Types \ {t} : types'[u].draft = types[u].draft
        /\ types'[t].draft = n
    BY <1>2 DEF IInv, TypeOK, Type
  <2>3. Published' = Published
    BY <2>2 DEF Published
  <2>4. n \notin Published
    BY <1>0 DEF DraftInv
  <2>5. ASSUME NEW u \in Types, types'[u].draft # 0 PROVE types'[u].draft \notin Published'
    <3>1. CASE u = t
      BY <2>2, <2>3, <2>4, <3>1
    <3>2. CASE u # t
      BY <2>2, <2>3, <2>5, <3>2 DEF DraftInv
    <3> QED
      BY <3>1, <3>2
  <2>6. \A b \in Callers : request'[b].pc \in Publishing \/ request'[b].pc = "pointer" =>
          b # c /\ request'[b] = request[b]
    BY <2>1 DEF Publishing
  <2>7. ASSUME NEW b \in Callers, request'[b].pc \in Publishing
        PROVE  b \in Publishers /\ request'[b].doc.draft \notin Published'
    BY <2>3, <2>6, <2>7 DEF DraftInv
  <2>8. ASSUME NEW b \in Callers, request'[b].pc = "pointer"
        PROVE  /\ request'[b].version \notin Published'
               /\ \A u \in Types : types'[u].draft # request'[b].version
               /\ \A a \in Callers :
                    /\ request'[a].pc \in Publishing =>
                         request'[a].doc.draft # request'[b].version
                    /\ a # b /\ request'[a].pc = "pointer" =>
                         request'[a].version # request'[b].version
    <3>1. b # c /\ request'[b] = request[b] /\ request[b].pc = "pointer"
      BY <2>6, <2>8
    <3>2. request'[b].version \notin Published'
      BY <2>3, <3>1 DEF DraftInv
    <3>3. request[b].version # n
      BY <1>0, <3>1 DEF DraftInv
    <3>4. \A u \in Types : types'[u].draft # request'[b].version
      BY <2>2, <3>1, <3>3 DEF DraftInv
    <3> QED
      BY <2>6, <3>1, <3>2, <3>4 DEF DraftInv
  <2> QED
    BY <2>5, <2>7, <2>8 DEF DraftInv
<1> QED
  BY <1>0, <1>1, <1>2 DEF SavePointer

\* The draft that is published was nobody else's.
LEMMA PublishTypeDraft ==
  ASSUME IInv, DraftInv, NEW c \in Callers, PublishType(c), \A a, b \in Publishers : a = b
  PROVE  DraftInv'
<1>0. PICK t \in Types, d \in Nat : t = request[c].type /\ d = request[c].doc.draft
  BY Fields DEF PublishType, IInv, RequestInv
<1>1. request[c].pc = "publish" /\ Done(c) /\ OfType(d, t)
  BY <1>0 DEF PublishType, IInv, RequestInv, Publishing
<1>2. CASE types' = types
  BY <1>1, <1>2, DoneDraft
<1>3. ASSUME NEW st, types' = [types EXCEPT ![t].current = d, ![t].draft = 0, ![t].status = st]
      PROVE  DraftInv'
  <2>1. request'[c].pc = "idle" /\ \A b \in Callers \ {c} : request'[b] = request[b]
    BY <1>1, DoneStep DEF IInv
  <2>2. /\ \A u \in Types \ {t} : types'[u] = types[u]
        /\ types'[t].current = d /\ types'[t].draft = 0
    BY <1>3 DEF IInv, TypeOK, Type
  <2>3. Published' \subseteq Published \cup {d}
    BY <2>2 DEF Published
  <2>4. ASSUME NEW u \in Types, types'[u].draft # 0 PROVE types'[u].draft \notin Published'
    <3>1. u # t /\ types'[u].draft = types[u].draft
      BY <2>2, <2>4
    <3>2. OfType(types[u].draft, u)
      BY <2>4, <3>1 DEF IInv, Pointers
    <3>3. types[u].draft # d
      BY <1>1, <3>1, <3>2 DEF OfType
    <3>4. types[u].draft \notin Published
      BY <2>4, <3>1 DEF DraftInv
    <3> QED
      BY <2>3, <3>1, <3>3, <3>4
  <2>5. \A b \in Callers : request'[b].pc \notin Publishing
    BY <1>1, <2>1 DEF DraftInv, Publishing
  <2>6. ASSUME NEW b \in Callers, request'[b].pc = "pointer"
        PROVE  /\ request'[b].version \notin Published'
               /\ \A u \in Types : types'[u].draft # request'[b].version
               /\ \A a \in Callers :
                    a # b /\ request'[a].pc = "pointer" =>
                      request'[a].version # request'[b].version
    <3>1. b # c /\ request'[b] = request[b] /\ request[b].pc = "pointer"
      BY <2>1, <2>6
    <3>2. request[b].version # d /\ request[b].version \notin Published
      BY <1>0, <1>1, <3>1 DEF DraftInv, Publishing
    <3>3. request'[b].version \notin Published'
      BY <2>3, <3>1, <3>2
    <3>4. request[b].version # 0
      BY <3>1 DEF IInv, RequestInv
    <3>5. \A u \in Types : types'[u].draft # request'[b].version
      BY <2>2, <3>1, <3>4 DEF DraftInv
    <3> QED
      BY <2>1, <2>6, <3>1, <3>3, <3>5 DEF DraftInv
  <2> QED
    BY <2>4, <2>5, <2>6 DEF DraftInv
<1> QED
  BY <1>0, <1>2, <1>3 DEF PublishType

LEMMA BeginPublishDraft ==
  ASSUME IInv, DraftInv, NEW c \in Callers, NEW t \in Types, BeginPublish(c, t)
  PROVE  DraftInv'
<1>1. /\ Begin(c, "publish", t, "read", None) /\ types[t].draft # 0 /\ c \in Publishers
      /\ UNCHANGED <<types, versions>> /\ TypeOK
  BY DEF BeginPublish, IInv
<1> "read" \in Pcs /\ "publish" \in Ops /\ None \in Content \cup {None}
  BY DEF Pcs, Ops
<1>2. /\ request'[c].pc = "read" /\ request'[c].doc = types[t]
      /\ \A b \in Callers \ {c} : request'[b] = request[b]
  BY <1>1, BeginStep
<1>3. Published' = Published
  BY <1>1 DEF Published
<1>4. \A u \in Types : types'[u].draft # 0 => types'[u].draft \notin Published'
  BY <1>1, <1>3 DEF DraftInv
<1>5. ASSUME NEW b \in Callers, request'[b].pc \in Publishing
      PROVE  b \in Publishers /\ request'[b].doc.draft \notin Published'
  <2>1. CASE b = c
    BY <1>1, <1>2, <1>3, <2>1 DEF DraftInv
  <2>2. CASE b # c
    BY <1>2, <1>3, <1>5, <2>2 DEF DraftInv
  <2> QED
    BY <2>1, <2>2
<1>6. ASSUME NEW b \in Callers, request'[b].pc = "pointer"
      PROVE  /\ request'[b].version \notin Published'
             /\ \A u \in Types : types'[u].draft # request'[b].version
             /\ \A a \in Callers :
                  /\ request'[a].pc \in Publishing =>
                       request'[a].doc.draft # request'[b].version
                  /\ a # b /\ request'[a].pc = "pointer" =>
                       request'[a].version # request'[b].version
  <2>1. b # c /\ request'[b] = request[b] /\ request[b].pc = "pointer"
    BY <1>2, <1>6
  <2>2. request'[b].version \notin Published'
    BY <1>3, <2>1 DEF DraftInv
  <2> QED
    BY <1>1, <1>2, <2>1, <2>2 DEF DraftInv
<1> QED
  BY <1>4, <1>5, <1>6 DEF DraftInv

\* A request that begins and is no publish.
LEMMA BeginDraft ==
  ASSUME IInv, DraftInv, NEW c \in Callers, NEW t \in Types,
         \/ BeginCreate(c, t) \/ BeginOther(c, t) \/ \E flow \in Content : BeginSave(c, t, flow)
  PROVE  DraftInv'
<1>1. PICK pc \in {"version", "update", "count", "archive", "check", "copy", "load"},
           op \in Ops, flow \in Content \cup {None} : Begin(c, op, t, pc, flow)
  BY DEF BeginCreate, BeginOther, BeginSave, Ops, Content
<1>2. pc \in Pcs /\ pc \notin Publishing \cup {"pointer"}
  BY <1>1 DEF Pcs, Publishing
<1>3. request'[c].pc = pc /\ \A b \in Callers \ {c} : request'[b] = request[b]
  BY <1>1, <1>2, BeginStep DEF IInv
<1>4. \A u \in Types : types'[u].draft = types[u].draft /\ types'[u].current = types[u].current
  <2>1. CASE BeginCreate(c, t)
    BY <2>1 DEF BeginCreate, IInv, TypeOK, Type
  <2> QED
    BY <2>1 DEF BeginOther, BeginSave
<1> QED
  BY <1>2, <1>3, <1>4, DraftKept

\* The other steps of a request neither bring in a version nor take up a draft.
LEMMA OtherDraft ==
  ASSUME IInv, DraftInv, NEW c \in Callers,
         \/ CountVersions(c) \/ UpdateDraft(c) \/ ReadDraft(c) \/ SaveSnapshot(c)
         \/ ArchiveType(c) \/ RetireVersion(c) \/ CheckUsage(c) \/ RemoveVersions(c)
         \/ RemoveType(c) \/ (\E t \in Types : CopyType(c, t))
         \/ CopyFlow(c) \/ LoadSnapshot(c) \/ EndRun(c) \/ Fail(c)
  PROVE  DraftInv'
<1>1. \A u \in Types : types'[u].draft = types[u].draft /\ types'[u].current = types[u].current
  <2> DEFINE kept == \A u \in Types : /\ types'[u].draft = types[u].draft
                                      /\ types'[u].current = types[u].current
  <2>1. ASSUME NEW t, NEW st, types' = [types EXCEPT ![t].status = st] PROVE kept
    BY <2>1 DEF IInv, TypeOK, Type
  <2>2. ASSUME NEW t, NEW life, types' = [types EXCEPT ![t].life = life] PROVE kept
    BY <2>2 DEF IInv, TypeOK, Type
  <2>3. CASE types' = types
    BY <2>3
  <2>4. CASE ArchiveType(c)
    BY <2>1, <2>3, <2>4 DEF ArchiveType
  <2>5. CASE RemoveType(c)
    BY <2>2, <2>5 DEF RemoveType
  <2>6. CASE \E t \in Types : CopyType(c, t)
    BY <2>2, <2>6 DEF CopyType
  <2> QED
    BY <2>3, <2>4, <2>5, <2>6
       DEF CountVersions, UpdateDraft, ReadDraft, SaveSnapshot, RetireVersion, CheckUsage,
           RemoveVersions, CopyFlow, LoadSnapshot, EndRun, Fail
<1>2. CASE Done(c)
  BY <1>1, <1>2, DoneDraft
<1>3. ASSUME NEW pc \in Pcs \ {"pointer"}, Goto(c, pc), pc \in Publishing => request[c].pc \in Publishing
      PROVE  DraftInv'
  BY <1>1, <1>3, GotoStep, DraftKept DEF IInv
<1>4. CASE CountVersions(c)
  <2>1. request'[c].pc = "draft" /\ \A b \in Callers \ {c} : request'[b] = request[b]
    BY <1>4 DEF CountVersions, IInv, TypeOK, RequestState
  <2> QED
    BY <1>1, <2>1, DraftKept DEF Publishing
<1>5. CASE ReadDraft(c) /\ ~Done(c)
  <2>1. PICK flow, st :
          request' = [request EXCEPT ![c].pc = "snapshot", ![c].flow = flow, ![c].status = st]
    BY <1>5 DEF ReadDraft
  <2>2. /\ request[c].pc = "read"
        /\ request'[c].pc = "snapshot" /\ request'[c].doc = request[c].doc
        /\ \A b \in Callers \ {c} : request'[b] = request[b]
    BY <1>5, <2>1, RequestShape DEF ReadDraft, IInv, TypeOK
  <2> QED
    BY <1>1, <2>2, DraftKept DEF Publishing
<1>6. CASE SaveSnapshot(c) /\ Goto(c, "publish")
  BY <1>3, <1>6 DEF SaveSnapshot, Pcs, Publishing
<1>7. CASE ArchiveType(c) /\ Goto(c, "retire")
  BY <1>3, <1>7 DEF Pcs, Publishing
<1>8. CASE (CheckUsage(c) /\ Goto(c, "versions")) \/ RemoveVersions(c)
  BY <1>3, <1>8 DEF RemoveVersions, Pcs, Publishing
<1>9. CASE \E t \in Types : CopyType(c, t)
  <2>1. PICK t \in Types : request' = [request EXCEPT ![c].pc = "source", ![c].type = t]
    BY <1>9 DEF CopyType
  <2>2. request'[c].pc = "source" /\ \A b \in Callers \ {c} : request'[b] = request[b]
    BY <2>1, RequestShape DEF IInv, TypeOK
  <2> QED
    BY <1>1, <2>2, DraftKept DEF Publishing
<1>10. CASE (CopyFlow(c) \/ LoadSnapshot(c)) /\ ~Done(c)
  <2>1. /\ request'[c].pc \in {"version", "running"}
        /\ \A b \in Callers \ {c} : request'[b] = request[b]
    BY <1>10 DEF CopyFlow, LoadSnapshot, IInv, TypeOK, RequestState
  <2> QED
    BY <1>1, <2>1, DraftKept DEF Publishing
<1> QED
  BY <1>2, <1>4, <1>5, <1>6, <1>7, <1>8, <1>9, <1>10
     DEF UpdateDraft, SaveSnapshot, ArchiveType, RetireVersion, CheckUsage, RemoveType, EndRun, Fail

\* A snapshot is only written into a version of which publish read the pointer,
\* and that one is a draft.
LEMMA SnapshotsStay ==
  ASSUME IInv, DraftInv, [Next]_vars
  PROVE  SnapshotsKept
<1>1. CASE UNCHANGED versions
  BY <1>1 DEF SnapshotsKept
<1>2. ASSUME NEW c \in Callers, FirstVersion(c) \/ NextVersion(c), versions' # versions
      PROVE  SnapshotsKept
  <2>1. PICK w : versions' = Append(versions, w)
    BY <1>2 DEF FirstVersion, NextVersion, CreateVersion
  <2>2. \A v \in DOMAIN versions : versions'[v] = versions[v]
    BY <2>1, VersionsTyped DEF IInv, TypeOK
  <2> QED
    BY <2>2 DEF SnapshotsKept
<1>3. ASSUME NEW c \in Callers, UpdateDraft(c) PROVE SnapshotsKept
  BY <1>3, VersionsTyped DEF UpdateDraft, SnapshotsKept, IInv, Version
<1>4. ASSUME NEW c \in Callers, SaveSnapshot(c) PROVE SnapshotsKept
  <2>1. request[c].doc.draft \notin Published
    BY <1>4 DEF SaveSnapshot, DraftInv, Publishing
  <2>2. \A v \in DOMAIN versions : v # request[c].doc.draft => versions'[v] = versions[v]
    BY <1>4, VersionsTyped DEF SaveSnapshot, IInv
  <2> QED
    BY <2>1, <2>2 DEF SnapshotsKept
<1>5. ASSUME NEW c \in Callers, RetireVersion(c) PROVE SnapshotsKept
  BY <1>5, VersionsTyped DEF RetireVersion, SnapshotsKept, IInv, Version
<1>6. ASSUME NEW c \in Callers, RemoveVersions(c) PROVE SnapshotsKept
  BY <1>6, VersionsTyped DEF RemoveVersions, SnapshotsKept, IInv, Version
<1>7. ASSUME NEW c \in Callers, Step(c) PROVE SnapshotsKept
  BY <1>1, <1>2, <1>3, <1>4, <1>5, <1>6, <1>7
     DEF Step, CountVersions, SavePointer, ReadDraft, PublishType, ArchiveType, CheckUsage,
         RemoveType, CopyType, CopyFlow, LoadSnapshot, EndRun
<1> QED
  BY <1>1, <1>7 DEF Next, BeginCreate, BeginPublish, BeginOther, BeginSave, Fail, vars

(***************************************************************************)
(* As long as one caller at a time publishes, the snapshot a type points to*)
(* is the one taken at publish time.                                       *)
(***************************************************************************)
THEOREM SnapshotsAreImmutable ==
  ASSUME \A c, d \in Publishers : c = d
  PROVE  Spec => CurrentSnapshotStays
<1>1. Init => DraftInv
  BY DEF Init, DraftInv, NoType, Idle, Publishing
<1>2. IInv /\ DraftInv /\ [Next]_vars => DraftInv'
  <2> SUFFICES ASSUME IInv, DraftInv, [Next]_vars PROVE DraftInv'
    OBVIOUS
  <2>1. ASSUME NEW c \in Callers, Step(c) PROVE DraftInv'
    <3>1. CASE FirstVersion(c) \/ NextVersion(c)
      BY <3>1, CreateVersionDraft DEF FirstVersion, NextVersion
    <3>2. CASE SavePointer(c) \/ PublishType(c)
      BY <3>2, SavePointerDraft, PublishTypeDraft
    <3> QED
      BY <2>1, <3>1, <3>2, OtherDraft DEF Step
  <2>2. CASE UNCHANGED vars
    BY <2>2 DEF vars, DraftInv, Published
  <2> QED
    BY <2>1, <2>2, BeginDraft, BeginPublishDraft, OtherDraft DEF Next
<1>3. IInv /\ DraftInv /\ [Next]_vars =>
        \A t \in Types : There(types[t].current) =>
          versions'[types[t].current].snapshot = versions[types[t].current].snapshot
  BY SnapshotsStay DEF SnapshotsKept, Published, There
<1> QED
  BY <1>1, <1>2, <1>3, Invariance, PTL DEF Spec, CurrentSnapshotStays

===============================================================================
