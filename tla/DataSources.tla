----------------------------- MODULE DataSources -----------------------------
(***************************************************************************)
(* The catalogue of data sources, DataSourcesService: rows are created and *)
(* edited in two ways, plainly and as rows of the builder catalogue, and   *)
(* are removed when nothing refers to them.                                *)
(*                                                                         *)
(* Between the awaited queries of a handler other handlers run.  A request *)
(* that is refused has changed nothing and just ends.                      *)
(***************************************************************************)
EXTENDS Integers, Sequences, FiniteSets, TLC

CONSTANTS
  Editors,         \* requests to the catalogue that can be in progress at once
  Seeds,           \* the rows there may be at first
  NewRows,         \* bodies of create, completed by normalize
  NewCatalogRows,  \* bodies of createCatalogBuilder: key, implClass ("" without)
                   \* and isEnabled, which is true without
  Changes,         \* bodies of update, as functions from fields; like those of
                   \* create they are trimmed, and name nothing by an empty name
  CatalogChanges,  \* bodies of updateCatalogRow
  Integrable,      \* data sources that service integrations may refer to
  Lower,           \* toLowerCase on the names in use
  Dashed,          \* toLowerCase().replace(/_/g, '-') on the keys in use
  MaxEdits         \* bound: steps of edits before the last edit begins

Fields == {"slug", "provider", "providerSlug", "providerKey", "isActive", "catalogSource", "oauth"}

\* `oauth` is the OAuth client in oauthConfig, "none" without one.  No request
\* sets it: it comes with the seed.
Row ==
  [slug : STRING, provider : STRING, providerSlug : STRING, providerKey : STRING,
   isActive : BOOLEAN, catalogSource : {"", "oauth", "builder"}, oauth : STRING]

\* What createCatalogBuilder makes of a body.
CatalogRow(dto) ==
  [slug |-> "catalog-" \o dto.key,
   provider |-> IF dto.implClass # "" THEN dto.implClass ELSE dto.key,
   providerSlug |-> Dashed[dto.key], providerKey |-> dto.key, isActive |-> dto.isEnabled,
   catalogSource |-> "builder", oauth |-> "none"]

\* The types of fields, of rows and of the bodies that set them.
TypeOf(field) ==
  IF field = "isActive" THEN BOOLEAN
  ELSE IF field = "catalogSource" THEN {"", "oauth", "builder"} ELSE STRING

Typed(dto) == \A field \in Fields \cap DOMAIN dto : dto[field] \in TypeOf(field)

\* A body of the builder catalogue has no provider.
ASSUME CatalogueAssumption ==
  /\ Seeds \subseteq Seq(Row)
  /\ NewRows \subseteq Row
  /\ \A dto \in NewCatalogRows : CatalogRow(dto) \in Row
  /\ \A dto \in Changes \cup CatalogChanges : Typed(dto)
  /\ \A dto \in CatalogChanges :
       /\ "provider" \notin DOMAIN dto
       /\ "providerKey" \in DOMAIN dto => Dashed[dto.providerKey] \in STRING

VARIABLES
  rows,          \* the data sources: id -> row; ids are never used again
  integrations,  \* ids that service integrations refer to
  connections,   \* the connections: id -> connection, with its dataSourceId
  edit,          \* the request each editor is in
  edits,         \* how many edits there have been
  stamp          \* history: id -> when the row was last changed, when its
                 \* provider was written, when that name was last checked, and
                 \* every name a slug has matched the row by

sourceVars == <<rows, integrations, connections, edit, edits, stamp>>

Idle == [pc |-> "idle"]

\* Time is the number of steps of edits.
Unchecked == 0

NamesOf(row) == {row.providerSlug, row.providerKey}

Stamp(changed, named, checked, names) ==
  [changed |-> changed, named |-> named, checked |-> checked, names |-> names]

SourceInit ==
  /\ rows \in Seeds
  /\ integrations = {}
  /\ edit = [e \in Editors |-> Idle]
  /\ edits = 1
  /\ stamp = [id \in DOMAIN rows |-> Stamp(1, 1, Unchecked, NamesOf(rows[id]))]

Add(f, id, value) == [i \in DOMAIN f \cup {id} |-> IF i = id THEN value ELSE f[i]]
Without(f, id) == [i \in DOMAIN f \ {id} |-> f[i]]

Born == IF stamp = <<>> THEN 0 ELSE CHOOSE id \in DOMAIN stamp : \A i \in DOMAIN stamp : i <= id

Begins(e, to) ==
  /\ edit[e] = Idle
  /\ edits <= MaxEdits
  /\ edits' = edits + 1
  /\ edit' = [edit EXCEPT ![e] = to]
  /\ UNCHANGED <<rows, integrations, connections, stamp>>

Step(e, from, to) ==
  /\ edit[e].pc = from
  /\ edits' = edits + 1
  /\ edit' = [edit EXCEPT ![e] = to]

Continues(e, from, to) ==
  Step(e, from, to) /\ UNCHANGED <<rows, integrations, connections, stamp>>

\* Mutant of Named: rows that are not active have no name.
NamedActive(provider, others) == \E id \in others : rows[id].isActive /\ rows[id].provider = provider

Named(provider, others) == \E id \in others : rows[id].provider = provider

\* The unique indexes on slug and, sparse, on providerKey.
Indexed(row, others) ==
  \A id \in others :
    /\ rows[id].slug # row.slug
    /\ row.providerKey # "" => rows[id].providerKey # row.providerKey

-------------------------------------------------------------------------------
CheckProvider(e) ==
  \E row \in NewRows :
    /\ ~Named(row.provider, DOMAIN rows)
    /\ Begins(e, [pc |-> "insert", row |-> row, checked |-> edits])

\* Neither look-up of createCatalogBuilder is for the slug or the providerSlug
\* that the row will have.
CheckCatalogKey(e) ==
  \E dto \in NewCatalogRows :
    /\ \A id \in DOMAIN rows :
         /\ rows[id].providerKey # dto.key /\ rows[id].slug # dto.key
         /\ rows[id].providerSlug # Lower[dto.key]
    /\ Begins(e, [pc |-> IF dto.implClass # "" THEN "impl" ELSE "insert",
                  row |-> CatalogRow(dto), checked |-> Unchecked])

CheckImpl(e) ==
  /\ edit[e].pc = "impl"
  /\ ~Named(edit[e].row.provider, DOMAIN rows)
  /\ Continues(e, "impl", [edit[e] EXCEPT !.pc = "insert", !.checked = edits])

Insert(e) ==
  /\ edit[e].pc = "insert"
  /\ Step(e, "insert", Idle)
  /\ IF Indexed(edit[e].row, DOMAIN rows)
       THEN /\ rows' = Add(rows, Born + 1, edit[e].row)
            /\ stamp' = Add(stamp, Born + 1,
                            Stamp(edits, edits, edit[e].checked, NamesOf(edit[e].row)))
       ELSE UNCHANGED <<rows, stamp>>
  /\ UNCHANGED <<integrations, connections>>

\* Mutant of Merged: as for a new row, isActive is true unless the body says
\* otherwise.
MergedAsNew(dto, row) == dto @@ [row EXCEPT !.isActive = TRUE]

\* What an update writes is the row as it was when it was read, but for the body.
Merged(dto, row) == [field \in DOMAIN row |-> IF field \in DOMAIN dto THEN dto[field] ELSE row[field]]

\* A provider that is not to change has the check that gave it to the row.
ReadForUpdate(e) ==
  \E id \in DOMAIN rows, dto \in Changes :
    LET row == Merged(dto, rows[id])
    IN Begins(e, [pc |-> IF row.provider # rows[id].provider THEN "collision" ELSE "write",
                  id |-> id, row |-> row, body |-> DOMAIN dto, read |-> edits, checked |-> stamp[id].checked])

CheckCollision(e) ==
  /\ edit[e].pc = "collision"
  /\ ~Named(edit[e].row.provider, DOMAIN rows \ {edit[e].id})
  /\ Continues(e, "collision", [edit[e] EXCEPT !.pc = "write", !.checked = edits])

Write(e, from, row) ==
  LET id == edit[e].id
  IN /\ Step(e, from, Idle)
     /\ IF id \in DOMAIN rows /\ Indexed(row, DOMAIN rows \ {id})
          THEN /\ rows' = [rows EXCEPT ![id] = row]
               /\ stamp' = [stamp EXCEPT ![id] =
                    LET same == row.provider = rows[id].provider
                    IN Stamp(edits, IF same THEN @.named ELSE edits,
                             IF same THEN @.checked ELSE edit[e].checked, @.names \cup NamesOf(row))]
          ELSE UNCHANGED <<rows, stamp>>
     /\ UNCHANGED <<integrations, connections>>

\* A providerKey or a catalogSource that neither the row had nor the body has is
\* undefined, and is not written; nor is oauthConfig.
WriteUpdate(e) ==
  /\ edit[e].pc = "write" /\ edit[e].id \in DOMAIN rows
  /\ LET now == rows[edit[e].id]
     IN Write(e, "write",
              [edit[e].row EXCEPT !.oauth = now.oauth,
                                  !.providerKey = IF @ = "" THEN now.providerKey ELSE @,
                                  !.catalogSource = IF @ = "" THEN now.catalogSource ELSE @])

\* isProtectedOauthSeed; every row has a slug.
Protected(row) == row.catalogSource = "oauth" \/ row.providerKey = ""

ReadCatalogRow(e) ==
  \E id \in DOMAIN rows, dto \in CatalogChanges :
    /\ ~Protected(rows[id])
    /\ Begins(e, [pc |-> IF "providerKey" \in DOMAIN dto /\ dto.providerKey # rows[id].providerKey
                           THEN "key" ELSE "set",
                  id |-> id, body |-> DOMAIN dto, dto |-> dto, read |-> edits, checked |-> Unchecked])

CheckKey(e) ==
  /\ edit[e].pc = "key"
  /\ \A id \in DOMAIN rows \ {edit[e].id} : rows[id].providerKey # edit[e].dto.providerKey
  /\ Continues(e, "key", [edit[e] EXCEPT !.pc = "set"])

\* A new providerKey brings its providerSlug; the provider stays.
WriteCatalogRow(e) ==
  /\ edit[e].pc = "set" /\ edit[e].id \in DOMAIN rows
  /\ LET dto == edit[e].dto
         slug == IF "providerKey" \in DOMAIN dto THEN [providerSlug |-> Dashed[dto.providerKey]] ELSE <<>>
     IN Write(e, "set", Merged(dto, Merged(slug, rows[edit[e].id])))

-------------------------------------------------------------------------------
\* Mutant of CountConnections: it is enough that there are no integrations.
CountNothing(e) ==
  /\ edit[e].pc = "connections"
  /\ Continues(e, "connections", [edit[e] EXCEPT !.pc = "delete"])

CountIntegrations(e) ==
  \E id \in DOMAIN rows :
    /\ id \notin integrations
    /\ Begins(e, [pc |-> "connections", id |-> id, protected |-> FALSE])

ReadForRemoval(e) ==
  \E id \in DOMAIN rows :
    Begins(e, [pc |-> "connections", id |-> id,
               protected |-> Protected(rows[id])])

\* ensureNoConnectionsReference; then a protected row of the catalogue stays.
CountConnections(e) ==
  /\ edit[e].pc = "connections"
  /\ \A c \in DOMAIN connections : connections[c].dataSourceId # edit[e].id
  /\ ~edit[e].protected
  /\ Continues(e, "connections", [edit[e] EXCEPT !.pc = "delete"])

Delete(e) ==
  /\ edit[e].pc = "delete"
  /\ Step(e, "delete", Idle)
  /\ rows' = Without(rows, edit[e].id)
  /\ UNCHANGED <<integrations, connections, stamp>>

\* A request that is refused or fails.
Refused(e) ==
  /\ \/ edit[e].pc = "impl" /\ Named(edit[e].row.provider, DOMAIN rows)
     \/ edit[e].pc = "collision" /\ Named(edit[e].row.provider, DOMAIN rows \ {edit[e].id})
     \/ edit[e].pc = "key" /\ \E id \in DOMAIN rows \ {edit[e].id} :
                                rows[id].providerKey = edit[e].dto.providerKey
     \/ edit[e].pc \in {"write", "set"} /\ edit[e].id \notin DOMAIN rows
     \/ edit[e].pc = "connections"
        /\ (edit[e].protected \/ \E c \in DOMAIN connections : connections[c].dataSourceId = edit[e].id)
  /\ Continues(e, edit[e].pc, Idle)

\* ServiceIntegrationsService refers to a data source without looking for it.
Integrate(id) ==
  /\ edits <= MaxEdits /\ edits' = edits + 1
  /\ integrations' = integrations \cup {id}
  /\ UNCHANGED <<rows, connections, edit, stamp>>

Disintegrate(id) ==
  /\ edits <= MaxEdits /\ edits' = edits + 1
  /\ integrations' = integrations \ {id}
  /\ UNCHANGED <<rows, connections, edit, stamp>>

SourceNext ==
  \/ \E e \in Editors :
       \/ CheckProvider(e) \/ CheckCatalogKey(e) \/ CheckImpl(e) \/ Insert(e)
       \/ ReadForUpdate(e) \/ CheckCollision(e) \/ WriteUpdate(e)
       \/ ReadCatalogRow(e) \/ CheckKey(e) \/ WriteCatalogRow(e)
       \/ CountIntegrations(e) \/ ReadForRemoval(e) \/ CountConnections(e) \/ Delete(e)
       \/ Refused(e)
  \/ \E id \in Integrable \cap DOMAIN stamp :
       \/ id \notin integrations /\ Integrate(id)
       \/ id \in integrations /\ Disintegrate(id)

-------------------------------------------------------------------------------
\* "A DataSource with provider X already exists": two rows have the same
\* provider only if the later one took the name after a check that came before
\* the other had it, or is of createCatalogBuilder without implClass, which
\* takes the key for the name and does not look whether a row has that.  The
\* check of a name that update puts back is the one that the row had it by.
ProviderUnique ==
  \A r, s \in DOMAIN rows :
    r # s /\ rows[r].provider = rows[s].provider /\ stamp[r].named <= stamp[s].named
      => stamp[s].checked < stamp[r].named

\* An edit changes what its body names, or what follows from it, and nothing
\* else; unless the row was changed by another after it was read: update then
\* puts back what it read.
NothingReverted ==
  [][\A id \in DOMAIN rows \cap DOMAIN rows' : \A field \in Fields :
       rows'[id][field] # rows[id][field] =>
         \E e \in Editors :
           /\ edit[e].pc \in {"write", "set"} /\ edit[e].id = id /\ edit'[e] = Idle
           /\ \/ field \in edit[e].body
              \/ field = "providerSlug" /\ edit[e].pc = "set" /\ "providerKey" \in edit[e].body
              \/ edit[e].pc = "write" /\ edit[e].read < stamp[id].changed
    ]_rows

===============================================================================
