---------------------------- MODULE AnalysisTypes ----------------------------
(***************************************************************************)
(* Analysis types, AnalysisTypesService: they attach published report      *)
(* types, are published themselves, and are removed when no analysis       *)
(* refers to them.  This is the last of the catalogues, beside those of    *)
(* DataSources and BuilderAssets.                                          *)
(***************************************************************************)
EXTENDS BuilderAssets

CONSTANTS
  Types,        \* the analysis types there may be at first
  NewRefs,      \* attached report types in the bodies of create
  TypeChanges,  \* bodies of update, as functions from fields
  MaxAnalyses   \* bound: analyses

Attachment == [report : Nat, version : Nat, order : Int]

\* What is there at first has not been published, and bodies are finite.
ASSUME TypeAssumption ==
  /\ Types \subseteq Seq([status : {"draft"}, refs : SUBSET Attachment])
  /\ \A seeds \in Types : \A t \in DOMAIN seeds : IsFiniteSet(seeds[t].refs)
  /\ \A refs \in NewRefs : IsFiniteSet(refs)
  /\ \A dto \in TypeChanges : "refs" \in DOMAIN dto => IsFiniteSet(dto.refs)
  /\ MaxAnalyses \in Nat

VARIABLES
  types,     \* analysis types: id -> status and the set of attached report types
  analyses,  \* analyses: sequence of their type and whether they are RUNNING
  told       \* history: of each type when it was set, what its publisher
             \* had seen, and which analyses did not keep it from removal

typeVars == <<types, analyses, told>>
vars == <<sourceVars, builderVars, typeVars>>

Untold == [set |-> 0, read |-> 0, checked |-> 0, spared |-> {}]

Init ==
  /\ SourceInit
  /\ connections = <<>>
  /\ BuilderInit
  /\ types \in Types
  /\ analyses = <<>>
  /\ told = [t \in DOMAIN types |-> Untold]

Asks(e, to) == Starts(e, to) /\ UNCHANGED typeVars
Sees(e, from, to) == edit[e].pc = from /\ Looks(e, from, to) /\ UNCHANGED typeVars

-------------------------------------------------------------------------------
\* Neither create nor update looks at the report types.
CreateType ==
  \E refs \in NewRefs :
    LET t == Cardinality(DOMAIN told) + 1
    IN /\ AtOnce
       /\ types' = Add(types, t, [status |-> "draft", refs |-> refs])
       /\ told' = Add(told, t, [Untold EXCEPT !.set = edits])
       /\ UNCHANGED <<builderVars, analyses>>

UpdateType ==
  \E t \in DOMAIN types, dto \in TypeChanges :
    /\ AtOnce
    /\ types' = [types EXCEPT ![t] = Merged(dto, @)]
    /\ told' = [told EXCEPT ![t].set = edits]
    /\ UNCHANGED <<builderVars, analyses>>

PublishType(e) ==
  \E t \in DOMAIN types :
    Asks(e, [pc |-> "attached", id |-> t, refs |-> types[t].refs, read |-> edits])

\* Mutant of Attachable: a pinned version may be any.
AttachableUnpinned(ref) ==
  ref.report \in DOMAIN reports /\ reports[ref.report].status = "published" /\ reports[ref.report].current # 0

Attachable(ref) ==
  LET report == reports[ref.report]
  IN /\ ref.report \in DOMAIN reports
     /\ report.status = "published" /\ report.current # 0
     /\ ref.version \in {0, report.current}

\* validateForPublish, of what was read with the type.
Orderly(refs) ==
  /\ refs # {}
  /\ \A ref \in refs : ref.order >= 1
  /\ \A r, s \in refs : r # s => r.order # s.order

CheckAttached(e) ==
  /\ edit[e].pc = "attached"
  /\ LET good == Orderly(edit[e].refs) /\ \A ref \in edit[e].refs : Attachable(ref)
     IN Sees(e, "attached", IF good THEN Add([edit[e] EXCEPT !.pc = "publish"], "checked", edits) ELSE Idle)

\* save writes the status alone, and fails if the type is gone.
SaveStatus(e, from, status, seen) ==
  LET t == edit[e].id
  IN /\ Writes(e, from, Idle)
     /\ IF t \in DOMAIN types
          THEN /\ types' = [types EXCEPT ![t].status = status]
               /\ told' = [told EXCEPT ![t] = seen]
          ELSE UNCHANGED <<types, told>>
     /\ UNCHANGED <<builderVars, analyses>>

SavePublished(e) ==
  /\ edit[e].pc = "publish"
  /\ SaveStatus(e, "publish", "published",
                [told[edit[e].id] EXCEPT !.read = edit[e].read, !.checked = edit[e].checked])

UnpublishType(e) ==
  \E t \in DOMAIN types : Asks(e, [pc |-> "unpublish", id |-> t])

SaveUnpublished(e) ==
  edit[e].pc = "unpublish" /\ SaveStatus(e, "unpublish", "draft", told[edit[e].id])

RemoveType(e) ==
  \E t \in DOMAIN types : Asks(e, [pc |-> "count", id |-> t])

\* Mutant of Counted: analyses that were never started do not count either.
CountedDone(t) == {a \in DOMAIN analyses : analyses[a].type = t /\ analyses[a].status = "done"}

\* Analyses that are RUNNING do not count.
Counted(t) == {a \in DOMAIN analyses : analyses[a].type = t /\ analyses[a].status # "running"}

CountAnalyses(e) ==
  LET t == edit[e].id
      running == {a \in DOMAIN analyses : analyses[a].type = t /\ analyses[a].status = "running"}
  IN /\ edit[e].pc = "count"
     /\ Sees(e, "count", IF Counted(t) = {} THEN [pc |-> "remove", id |-> t, counted |-> Len(analyses), running |-> running]
                         ELSE Idle)

DeleteType(e) ==
  LET t == edit[e].id
  IN /\ edit[e].pc = "remove"
     /\ Writes(e, "remove", Idle)
     /\ types' = Without(types, t)
     /\ told' = IF t \notin DOMAIN types THEN told
                ELSE [told EXCEPT ![t].spared = edit[e].running \cup ((edit[e].counted + 1)..MaxAnalyses)]
     /\ UNCHANGED <<builderVars, analyses>>

\* AnalysesService creates analyses without a look at their types, and they
\* start to run, come to an end, and run again as AnalysisPipeline says.
CreateAnalysis ==
  \E t \in DOMAIN told :
    /\ AtOnce
    /\ Len(analyses) < MaxAnalyses
    /\ analyses' = Append(analyses, [type |-> t, status |-> "draft"])
    /\ UNCHANGED <<builderVars, types, told>>

TurnAnalysis ==
  \E a \in DOMAIN analyses :
    /\ AtOnce
    /\ analyses' = [analyses EXCEPT ![a].status = IF @ = "running" THEN "done" ELSE "running"]
    /\ UNCHANGED <<builderVars, types, told>>

Next ==
  \/ BuilderNext /\ UNCHANGED typeVars
  \/ CreateType \/ UpdateType \/ CreateAnalysis \/ TurnAnalysis
  \/ \E e \in Editors :
       \/ PublishType(e) \/ CheckAttached(e) \/ SavePublished(e)
       \/ UnpublishType(e) \/ SaveUnpublished(e)
       \/ RemoveType(e) \/ CountAnalyses(e) \/ DeleteType(e)

Spec == Init /\ [][Next]_vars

-------------------------------------------------------------------------------
\* "Only published report types can be attached", and "Attached version must
\* match the current published report version": so it is with a published type,
\* unless the type was updated after its publisher had read it, for update
\* takes any report types and any status, or the report type was changed after
\* it had been looked at.
PublishedAttached ==
  \A t \in DOMAIN types :
    types[t].status = "published" =>
      \/ told[t].set > told[t].read
      \/ /\ types[t].refs # {}
         /\ Cardinality({ref.order : ref \in types[t].refs}) = Cardinality(types[t].refs)
         /\ \A ref \in types[t].refs :
              \/ /\ reports[ref.report].status = "published"
                 /\ ref.version \in {0, reports[ref.report].current}
              \/ past.report[ref.report] > told[t].checked

\* "Cannot delete: N analysis run(s) reference this analysis type": an analysis
\* is left without its type only if it was RUNNING when they were counted
\* (analysis-types.service:115), or made later.
RemovedUnused ==
  \A a \in DOMAIN analyses :
    analyses[a].type \in DOMAIN types \/ a \in told[analyses[a].type].spared

\* What one document of the catalogues says of another is so, or has an edit
\* to explain it.
ReferencesExplained ==
  ArchivedUnused /\ KeysBelong /\ PortsMatch /\ PublishedAttached /\ RemovedUnused

\* What an edit does not name stays, in both catalogues that write back whole
\* documents.
EditsKept == NothingReverted /\ DefinitionsKept

===============================================================================
