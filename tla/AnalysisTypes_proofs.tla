------------------------- MODULE AnalysisTypes_proofs -------------------------
(***************************************************************************)
(* Proofs about the catalogues, for any number of editors and documents.   *)
(* IInv is about the data sources, with RowsInv; BuilderInv about the node *)
(* definitions, FlowInv about the versions that name them, and TypesInv    *)
(* about analysis types.                                                   *)
(***************************************************************************)
EXTENDS AnalysisTypes, TLAPS, FiniteSetTheorems, SequenceTheorems

(***************************************************************************)
(* The inductive invariant.  That two names are equal only by a race is    *)
(* the outcome of writes whose checks are earlier steps, so it has to be   *)
(* said of the rows that editors are about to write, too.                  *)
(***************************************************************************)
EditShape ==
  /\ edit = [e \in Editors |-> edit[e]]
  /\ \A e \in Editors : "pc" \in DOMAIN edit[e]

\* Every row has a provider, which was written after it had been checked.
RowShape ==
  /\ edits \in Nat \ {0}
  /\ DOMAIN rows \subseteq DOMAIN stamp
  /\ \A id \in DOMAIN rows :
       /\ "provider" \in DOMAIN rows[id]
       /\ stamp[id].named \in Nat /\ stamp[id].checked \in Nat
       /\ stamp[id].checked < stamp[id].named /\ stamp[id].named <= edits

\* The request is about to write edit[e].row.
Writing(e) == edit[e].pc \in {"impl", "insert", "collision", "write"}
\* It has looked for other rows with the provider, or will not any more.
Cleared(e) == edit[e].pc \in {"insert", "write"}
Others(e) == IF edit[e].pc = "insert" THEN DOMAIN rows ELSE DOMAIN rows \ {edit[e].id}

Announced(e) ==
  /\ DOMAIN edit[e] = IF edit[e].pc \in {"impl", "insert"} THEN {"pc", "row", "checked"}
                      ELSE {"pc", "id", "row", "body", "read", "checked"}
  /\ "provider" \in DOMAIN edit[e].row
  /\ Cleared(e) =>
       /\ edit[e].checked \in Nat /\ edit[e].checked < edits
       /\ \A r \in Others(e) :
            rows[r].provider = edit[e].row.provider => edit[e].checked < stamp[r].named

Pending == \A e \in Editors : Writing(e) => Announced(e)

\* An update of a catalogue row does not touch the provider.
CatalogPending ==
  \A e \in Editors : edit[e].pc \in {"key", "set"} =>
    /\ DOMAIN edit[e] = {"pc", "id", "body", "dto", "read", "checked"}
    /\ edit[e].dto \in CatalogChanges

\* Of two rows with one provider, each was checked before the other had it.
CheckedApart ==
  \A r, s \in DOMAIN rows :
    r # s /\ rows[r].provider = rows[s].provider => stamp[s].checked < stamp[r].named

IInv == EditShape /\ RowShape /\ Pending /\ CatalogPending /\ CheckedApart

LEMMA Implied == IInv => ProviderUnique
BY DEF IInv, CheckedApart, ProviderUnique

(***************************************************************************)
(* What a step can do to the rows.                                         *)
(***************************************************************************)
\* Time passes, and an editor takes up or goes on with something else.
LEMMA ElsewhereStep ==
  ASSUME IInv, rows' = rows, stamp' = stamp, edits' \in Nat, edits <= edits',
         edit' = [e \in Editors |-> edit'[e]],
         \A e \in Editors :
           /\ "pc" \in DOMAIN edit'[e]
           /\ edit'[e].pc \in {"impl", "insert", "collision", "write", "key", "set"} =>
                edit'[e] = edit[e]
  PROVE  IInv'
<1>1. EditShape' /\ RowShape' /\ CheckedApart' /\ CatalogPending'
  BY DEF IInv, EditShape, RowShape, CheckedApart, CatalogPending
<1>2. ASSUME NEW e \in Editors, Writing(e)'
      PROVE  Announced(e)'
  <2>1. edit'[e] = edit[e] /\ Announced(e)
    BY <1>2 DEF IInv, Pending, Writing
  <2> QED
    BY <2>1 DEF IInv, RowShape, Announced, Cleared, Others
<1>3. Pending'
  BY <1>2 DEF Pending
<1> QED
  BY <1>1, <1>3 DEF IInv

\* The same when one editor moves.
LEMMA ElsewhereMove ==
  ASSUME IInv, rows' = rows, stamp' = stamp, edits' = edits + 1,
         NEW e \in Editors, NEW to, edit' = [edit EXCEPT ![e] = to], "pc" \in DOMAIN to,
         to.pc \notin {"impl", "insert", "collision", "write", "key", "set"}
  PROVE  IInv'
<1>1. edit' = [d \in Editors |-> IF d = e THEN to ELSE edit[d]]
  BY DEF IInv, EditShape
<1>2. \A d \in Editors :
        /\ "pc" \in DOMAIN edit'[d]
        /\ edit'[d].pc \in {"impl", "insert", "collision", "write", "key", "set"} =>
             edit'[d] = edit[d]
  BY <1>1 DEF IInv, EditShape
<1>3. edits' \in Nat /\ edits <= edits'
  BY DEF IInv, RowShape
<1>4. edit' = [d \in Editors |-> edit'[d]]
  BY <1>1
<1> QED
  BY <1>2, <1>3, <1>4, ElsewhereStep

\* An editor prepares a write.
LEMMA PrepareStep ==
  ASSUME IInv, rows' = rows, stamp' = stamp, edits' = edits + 1,
         NEW e \in Editors, NEW to, edit' = [edit EXCEPT ![e] = to], "pc" \in DOMAIN to,
         Writing(e)' => Announced(e)',
         to.pc \in {"key", "set"} =>
           /\ DOMAIN to = {"pc", "id", "body", "dto", "read", "checked"}
           /\ to.dto \in CatalogChanges
  PROVE  IInv'
<1>1. edit' = [d \in Editors |-> IF d = e THEN to ELSE edit[d]]
  BY DEF IInv, EditShape
<1>2. EditShape' /\ RowShape' /\ CheckedApart' /\ CatalogPending'
  BY <1>1 DEF IInv, EditShape, RowShape, CheckedApart, CatalogPending
<1>3. ASSUME NEW d \in Editors, Writing(d)', d # e
      PROVE  Announced(d)'
  <2>1. edit'[d] = edit[d] /\ Announced(d)
    BY <1>1, <1>3 DEF IInv, Pending, Writing
  <2> QED
    BY <2>1 DEF IInv, RowShape, Announced, Cleared, Others
<1>4. Pending'
  BY <1>3 DEF Pending
<1> QED
  BY <1>2, <1>4 DEF IInv

\* An editor writes row id: with a provider that was checked before anyone else
\* had it, or with the one that the row has.
Settled(id, row, named, checked) ==
  \/ /\ named = edits /\ checked \in Nat /\ checked < edits
     /\ \A r \in DOMAIN rows \ {id} : rows[r].provider = row.provider => checked < stamp[r].named
  \/ /\ id \in DOMAIN rows /\ row.provider = rows[id].provider
     /\ named = stamp[id].named /\ checked = stamp[id].checked

LEMMA WriteStep ==
  ASSUME IInv, NEW e \in Editors, NEW id, NEW row, "provider" \in DOMAIN row,
         edits' = edits + 1, edit' = [edit EXCEPT ![e] = Idle],
         DOMAIN rows' = DOMAIN rows \cup {id}, rows'[id] = row,
         \A r \in DOMAIN rows \ {id} : rows'[r] = rows[r],
         DOMAIN stamp' = DOMAIN stamp \cup {id},
         \A r \in DOMAIN stamp \ {id} : stamp'[r] = stamp[r],
         Settled(id, row, stamp'[id].named, stamp'[id].checked)
  PROVE  IInv'
<1>1. edit' = [d \in Editors |-> IF d = e THEN Idle ELSE edit[d]]
  BY DEF IInv, EditShape
<1>2. "pc" \in DOMAIN Idle /\ Idle.pc = "idle"
  BY DEF Idle
<1>3. EditShape' /\ CatalogPending'
  BY <1>1, <1>2 DEF IInv, EditShape, CatalogPending
<1>4. RowShape'
  BY DEF IInv, RowShape, Settled
<1>5. CheckedApart'
  <2> SUFFICES ASSUME NEW r \in DOMAIN rows', NEW s \in DOMAIN rows',
                      r # s, rows'[r].provider = rows'[s].provider
               PROVE  stamp'[s].checked < stamp'[r].named
    BY DEF CheckedApart
  <2>1. CASE r # id /\ s # id
    BY <2>1 DEF IInv, RowShape, CheckedApart
  <2>2. CASE r = id
    BY <2>2 DEF IInv, RowShape, CheckedApart, Settled
  <2>3. CASE s = id
    BY <2>3 DEF IInv, RowShape, CheckedApart, Settled
  <2> QED
    BY <2>1, <2>2, <2>3
<1>6. ASSUME NEW d \in Editors, Writing(d)'
      PROVE  Announced(d)'
  <2>1. d # e /\ edit'[d] = edit[d] /\ Announced(d)
    BY <1>1, <1>2, <1>6 DEF IInv, Pending, Writing
  <2>2. ASSUME Cleared(d), NEW r \in Others(d)', rows'[r].provider = edit[d].row.provider
        PROVE  edit[d].checked < stamp'[r].named
    <3>1. CASE r # id
      BY <3>1, <2>1, <2>2 DEF IInv, RowShape, Announced, Cleared, Others
    <3>2. CASE r = id
      BY <3>2, <2>1, <2>2 DEF IInv, RowShape, Announced, Cleared, Others, Settled
    <3> QED
      BY <3>1, <3>2
  <2> QED
    BY <2>1, <2>2 DEF IInv, RowShape, Announced, Cleared
<1>7. Pending'
  BY <1>6 DEF Pending
<1> QED
  BY <1>3, <1>4, <1>5, <1>7 DEF IInv

\* An editor removes a row, or ends without having written.
LEMMA EndStep ==
  ASSUME IInv, NEW e \in Editors, edits' = edits + 1, edit' = [edit EXCEPT ![e] = Idle],
         DOMAIN rows' \subseteq DOMAIN rows, \A r \in DOMAIN rows' : rows'[r] = rows[r],
         stamp' = stamp
  PROVE  IInv'
<1>1. edit' = [d \in Editors |-> IF d = e THEN Idle ELSE edit[d]]
  BY DEF IInv, EditShape
<1>2. "pc" \in DOMAIN Idle /\ Idle.pc = "idle"
  BY DEF Idle
<1>3. EditShape' /\ CatalogPending'
  BY <1>1, <1>2 DEF IInv, EditShape, CatalogPending
<1>4. RowShape' /\ CheckedApart'
  BY DEF IInv, RowShape, CheckedApart
<1>5. ASSUME NEW d \in Editors, Writing(d)'
      PROVE  Announced(d)'
  <2>1. edit'[d] = edit[d] /\ Announced(d)
    BY <1>1, <1>2, <1>5 DEF IInv, Pending, Writing
  <2> QED
    BY <2>1 DEF IInv, RowShape, Announced, Cleared, Others
<1>6. Pending'
  BY <1>5 DEF Pending
<1> QED
  BY <1>3, <1>4, <1>6 DEF IInv

(***************************************************************************)
(* The edits of data sources.                                              *)
(***************************************************************************)
\* What Begins and Continues have in common.
LEMMA Turning ==
  ASSUME NEW e, NEW to, NEW from, Begins(e, to) \/ Continues(e, from, to)
  PROVE  /\ edits' = edits + 1 /\ edit' = [edit EXCEPT ![e] = to]
         /\ rows' = rows /\ stamp' = stamp
BY DEF Begins, Continues, Step

\* The entry of an editor that moves.
LEMMA Moved ==
  ASSUME IInv, NEW e \in Editors, NEW to, edit' = [edit EXCEPT ![e] = to]
  PROVE  edit'[e] = to
BY DEF IInv, EditShape

LEMMA CheckProviderStep ==
  ASSUME IInv, NEW e \in Editors, CheckProvider(e)
  PROVE  IInv'
<1>1. PICK row \in NewRows :
        /\ ~Named(row.provider, DOMAIN rows)
        /\ Begins(e, [pc |-> "insert", row |-> row, checked |-> edits])
  BY DEF CheckProvider
<1> DEFINE to == [pc |-> "insert", row |-> row, checked |-> edits]
<1>2. "provider" \in DOMAIN row
  BY CatalogueAssumption DEF CatalogueAssumption, Row
<1>3. DOMAIN to = {"pc", "row", "checked"} /\ to.pc = "insert" /\ to.row = row /\ to.checked = edits
  OBVIOUS
<1> HIDE DEF to
<1>4. /\ edits' = edits + 1 /\ edit' = [edit EXCEPT ![e] = to] /\ rows' = rows /\ stamp' = stamp
  BY <1>1, Turning DEF to
<1>5. edit'[e] = to
  BY <1>4, Moved
<1>6. Announced(e)'
  BY <1>1, <1>2, <1>3, <1>4, <1>5 DEF Announced, Cleared, Others, Named, IInv, RowShape
<1> QED
  BY <1>3, <1>4, <1>6, PrepareStep

LEMMA CheckCatalogKeyStep ==
  ASSUME IInv, NEW e \in Editors, CheckCatalogKey(e)
  PROVE  IInv'
<1>1. PICK dto \in NewCatalogRows :
        Begins(e, [pc |-> IF dto.implClass # "" THEN "impl" ELSE "insert",
                   row |-> CatalogRow(dto), checked |-> Unchecked])
  BY DEF CheckCatalogKey
<1> DEFINE to == [pc |-> IF dto.implClass # "" THEN "impl" ELSE "insert",
                  row |-> CatalogRow(dto), checked |-> Unchecked]
<1>2. "provider" \in DOMAIN CatalogRow(dto)
  BY DEF CatalogRow
<1>3. /\ DOMAIN to = {"pc", "row", "checked"} /\ to.pc \in {"impl", "insert"}
      /\ to.row = CatalogRow(dto) /\ to.checked = 0
  BY DEF Unchecked
<1> HIDE DEF to
<1>4. /\ edits' = edits + 1 /\ edit' = [edit EXCEPT ![e] = to] /\ rows' = rows /\ stamp' = stamp
  BY <1>1, Turning DEF to
<1>5. edit'[e] = to
  BY <1>4, Moved
<1>6. \A r \in DOMAIN rows : 0 < stamp[r].named
  BY DEF IInv, RowShape
<1>7. Announced(e)'
  BY <1>2, <1>3, <1>4, <1>5, <1>6 DEF Announced, Cleared, Others, IInv, RowShape
<1> QED
  BY <1>3, <1>4, <1>7, PrepareStep

LEMMA CheckImplStep ==
  ASSUME IInv, NEW e \in Editors, CheckImpl(e)
  PROVE  IInv'
<1> DEFINE to == [edit[e] EXCEPT !.pc = "insert", !.checked = edits]
<1>1. Announced(e) /\ edit[e].pc = "impl" /\ ~Named(edit[e].row.provider, DOMAIN rows)
  BY DEF CheckImpl, IInv, Pending, Writing
<1>2. DOMAIN to = {"pc", "row", "checked"} /\ to.pc = "insert" /\ to.row = edit[e].row /\ to.checked = edits
  BY <1>1 DEF Announced
<1>3. Continues(e, "impl", to)
  BY DEF CheckImpl
<1> HIDE DEF to
<1>4. /\ edits' = edits + 1 /\ edit' = [edit EXCEPT ![e] = to] /\ rows' = rows /\ stamp' = stamp
  BY <1>3, Turning
<1>5. edit'[e] = to
  BY <1>4, Moved
<1>6. Announced(e)'
  BY <1>1, <1>2, <1>4, <1>5 DEF Announced, Cleared, Others, Named, IInv, RowShape
<1> QED
  BY <1>2, <1>4, <1>6, PrepareStep

LEMMA InsertStep ==
  ASSUME IInv, NEW e \in Editors, Insert(e)
  PROVE  IInv'
<1> DEFINE id == Born + 1
           row == edit[e].row
           new == Stamp(edits, edits, edit[e].checked, NamesOf(row))
<1>1. Announced(e) /\ edit[e].pc = "insert"
  BY DEF Insert, IInv, Pending, Writing
<1>2. edits' = edits + 1 /\ edit' = [edit EXCEPT ![e] = Idle]
  BY DEF Insert, Step
<1>3. CASE rows' = Add(rows, id, row) /\ stamp' = Add(stamp, id, new)
  <2>1. new.named = edits /\ new.checked = edit[e].checked
    BY DEF Stamp
  <2> HIDE DEF new, id
  <2>2. /\ DOMAIN rows' = DOMAIN rows \cup {id} /\ rows'[id] = row
        /\ \A r \in DOMAIN rows \ {id} : rows'[r] = rows[r]
        /\ DOMAIN stamp' = DOMAIN stamp \cup {id} /\ stamp'[id] = new
        /\ \A r \in DOMAIN stamp \ {id} : stamp'[r] = stamp[r]
    BY <1>3 DEF Add
  <2>3. "provider" \in DOMAIN row /\ Settled(id, row, new.named, new.checked)
    BY <1>1, <2>1 DEF Announced, Cleared, Others, Settled
  <2> HIDE DEF row
  <2> QED
    BY <1>2, <2>2, <2>3, WriteStep
<1>4. CASE UNCHANGED <<rows, stamp>>
  BY <1>2, <1>4, EndStep
<1> QED
  BY <1>3, <1>4 DEF Insert

LEMMA ReadForUpdateStep ==
  ASSUME IInv, NEW e \in Editors, ReadForUpdate(e)
  PROVE  IInv'
<1>1. PICK id \in DOMAIN rows, dto \in Changes :
        LET row == Merged(dto, rows[id])
        IN Begins(e, [pc |-> IF row.provider # rows[id].provider THEN "collision" ELSE "write",
                      id |-> id, row |-> row, body |-> DOMAIN dto, read |-> edits,
                      checked |-> stamp[id].checked])
  BY DEF ReadForUpdate
<1> DEFINE row == Merged(dto, rows[id])
           to == [pc |-> IF row.provider # rows[id].provider THEN "collision" ELSE "write",
                  id |-> id, row |-> row, body |-> DOMAIN dto, read |-> edits,
                  checked |-> stamp[id].checked]
<1>2. "provider" \in DOMAIN row
  BY DEF IInv, RowShape, Merged
<1> HIDE DEF row
<1>3. /\ DOMAIN to = {"pc", "id", "row", "body", "read", "checked"}
      /\ to.pc \in {"collision", "write"} /\ to.id = id /\ to.row = row
      /\ to.checked = stamp[id].checked
      /\ to.pc = "write" => row.provider = rows[id].provider
  OBVIOUS
<1>4. Begins(e, to)
  BY <1>1 DEF row
<1> HIDE DEF to
<1>5. /\ edits' = edits + 1 /\ edit' = [edit EXCEPT ![e] = to] /\ rows' = rows /\ stamp' = stamp
  BY <1>4, Turning
<1>6. edit'[e] = to
  BY <1>5, Moved
<1>7. stamp[id].checked \in Nat /\ stamp[id].checked < edits + 1
  BY DEF IInv, RowShape
<1>8. \A r \in DOMAIN rows \ {id} :
        rows[r].provider = rows[id].provider => stamp[id].checked < stamp[r].named
  BY DEF IInv, CheckedApart
<1>9. Announced(e)'
  BY <1>2, <1>3, <1>5, <1>6, <1>7, <1>8 DEF Announced, Cleared, Others
<1> QED
  BY <1>3, <1>5, <1>9, PrepareStep

LEMMA CheckCollisionStep ==
  ASSUME IInv, NEW e \in Editors, CheckCollision(e)
  PROVE  IInv'
<1> DEFINE to == [edit[e] EXCEPT !.pc = "write", !.checked = edits]
<1>1. /\ Announced(e) /\ edit[e].pc = "collision"
      /\ ~Named(edit[e].row.provider, DOMAIN rows \ {edit[e].id})
  BY DEF CheckCollision, IInv, Pending, Writing
<1>2. /\ DOMAIN to = {"pc", "id", "row", "body", "read", "checked"}
      /\ to.pc = "write" /\ to.row = edit[e].row /\ to.checked = edits /\ to.id = edit[e].id
  BY <1>1 DEF Announced
<1>3. Continues(e, "collision", to)
  BY DEF CheckCollision
<1> HIDE DEF to
<1>4. /\ edits' = edits + 1 /\ edit' = [edit EXCEPT ![e] = to] /\ rows' = rows /\ stamp' = stamp
  BY <1>3, Turning
<1>5. edit'[e] = to
  BY <1>4, Moved
<1>6. Announced(e)'
  BY <1>1, <1>2, <1>4, <1>5 DEF Announced, Cleared, Others, Named, IInv, RowShape
<1> QED
  BY <1>2, <1>4, <1>6, PrepareStep

\* Both updates write a row that is there.
LEMMA WrittenStep ==
  ASSUME IInv, NEW e \in Editors, NEW from, NEW row, "provider" \in DOMAIN row,
         Write(e, from, row),
         row.provider = rows[edit[e].id].provider
           \/ /\ edit[e].checked \in Nat /\ edit[e].checked < edits
              /\ \A r \in DOMAIN rows \ {edit[e].id} :
                   rows[r].provider = row.provider => edit[e].checked < stamp[r].named
  PROVE  IInv'
<1> DEFINE id == edit[e].id
           same == row.provider = rows[id].provider
           new == Stamp(edits, IF same THEN stamp[id].named ELSE edits,
                        IF same THEN stamp[id].checked ELSE edit[e].checked,
                        stamp[id].names \cup NamesOf(row))
<1>1. edits' = edits + 1 /\ edit' = [edit EXCEPT ![e] = Idle]
  BY DEF Write, Step
<1>2. CASE /\ id \in DOMAIN rows
           /\ rows' = [rows EXCEPT ![id] = row] /\ stamp' = [stamp EXCEPT ![id] = new]
  <2>1. /\ new.named = IF same THEN stamp[id].named ELSE edits
        /\ new.checked = IF same THEN stamp[id].checked ELSE edit[e].checked
    BY DEF Stamp
  <2>2. Settled(id, row, new.named, new.checked)
    BY <1>2, <2>1 DEF Settled
  <2> HIDE DEF new, id
  <2>3. id \in DOMAIN stamp
    BY <1>2 DEF IInv, RowShape
  <2>4. /\ DOMAIN rows' = DOMAIN rows \cup {id} /\ rows'[id] = row
        /\ \A r \in DOMAIN rows \ {id} : rows'[r] = rows[r]
        /\ DOMAIN stamp' = DOMAIN stamp \cup {id} /\ stamp'[id] = new
        /\ \A r \in DOMAIN stamp \ {id} : stamp'[r] = stamp[r]
    BY <1>2, <2>3
  <2> QED
    BY <1>1, <2>2, <2>4, WriteStep
<1>3. CASE UNCHANGED <<rows, stamp>>
  BY <1>1, <1>3, EndStep
<1> QED
  BY <1>2, <1>3 DEF Write

LEMMA WriteUpdateStep ==
  ASSUME IInv, NEW e \in Editors, WriteUpdate(e)
  PROVE  IInv'
<1> DEFINE now == rows[edit[e].id]
           row == [edit[e].row EXCEPT !.oauth = now.oauth,
                                      !.providerKey = IF @ = "" THEN now.providerKey ELSE @,
                                      !.catalogSource = IF @ = "" THEN now.catalogSource ELSE @]
<1>1. Announced(e) /\ edit[e].pc = "write"
  BY DEF WriteUpdate, IInv, Pending, Writing
<1>2. "provider" \in DOMAIN row /\ row.provider = edit[e].row.provider
  BY <1>1 DEF Announced
<1>3. Write(e, "write", row)
  BY DEF WriteUpdate
<1> HIDE DEF row
<1>4. /\ edit[e].checked \in Nat /\ edit[e].checked < edits
      /\ \A r \in DOMAIN rows \ {edit[e].id} :
           rows[r].provider = row.provider => edit[e].checked < stamp[r].named
  BY <1>1, <1>2 DEF Announced, Cleared, Others
<1> QED
  BY <1>2, <1>3, <1>4, WrittenStep

LEMMA ReadCatalogRowStep ==
  ASSUME IInv, NEW e \in Editors, ReadCatalogRow(e)
  PROVE  IInv'
<1>1. PICK id \in DOMAIN rows, dto \in CatalogChanges, pc \in {"key", "set"} :
        Begins(e, [pc |-> pc, id |-> id, body |-> DOMAIN dto, dto |-> dto, read |-> edits,
                   checked |-> Unchecked])
  BY DEF ReadCatalogRow
<1> DEFINE to == [pc |-> pc, id |-> id, body |-> DOMAIN dto, dto |-> dto, read |-> edits,
                  checked |-> Unchecked]
<1>2. DOMAIN to = {"pc", "id", "body", "dto", "read", "checked"} /\ to.pc = pc /\ to.dto = dto
  OBVIOUS
<1> HIDE DEF to
<1>3. /\ edits' = edits + 1 /\ edit' = [edit EXCEPT ![e] = to] /\ rows' = rows /\ stamp' = stamp
  BY <1>1, Turning DEF to
<1>4. edit'[e] = to
  BY <1>3, Moved
<1>5. ~Writing(e)'
  BY <1>2, <1>4 DEF Writing
<1> QED
  BY <1>2, <1>3, <1>5, PrepareStep

LEMMA CheckKeyStep ==
  ASSUME IInv, NEW e \in Editors, CheckKey(e)
  PROVE  IInv'
<1> DEFINE to == [edit[e] EXCEPT !.pc = "set"]
<1>1. /\ DOMAIN edit[e] = {"pc", "id", "body", "dto", "read", "checked"}
      /\ edit[e].dto \in CatalogChanges
  BY DEF CheckKey, IInv, CatalogPending
<1>2. /\ DOMAIN to = {"pc", "id", "body", "dto", "read", "checked"}
      /\ to.pc = "set" /\ to.dto = edit[e].dto
  BY <1>1
<1>3. Continues(e, "key", to)
  BY DEF CheckKey
<1> HIDE DEF to
<1>4. /\ edits' = edits + 1 /\ edit' = [edit EXCEPT ![e] = to] /\ rows' = rows /\ stamp' = stamp
  BY <1>3, Turning
<1>5. edit'[e] = to
  BY <1>4, Moved
<1>6. ~Writing(e)'
  BY <1>2, <1>5 DEF Writing
<1> QED
  BY <1>1, <1>2, <1>4, <1>6, PrepareStep

LEMMA WriteCatalogRowStep ==
  ASSUME IInv, NEW e \in Editors, WriteCatalogRow(e)
  PROVE  IInv'
<1> DEFINE now == rows[edit[e].id]
           dto == edit[e].dto
           slug == IF "providerKey" \in DOMAIN dto THEN [providerSlug |-> Dashed[dto.providerKey]] ELSE <<>>
           row == Merged(dto, Merged(slug, now))
<1>1. dto \in CatalogChanges /\ edit[e].id \in DOMAIN rows /\ Write(e, "set", row)
  BY DEF WriteCatalogRow, IInv, CatalogPending
<1>2. "provider" \notin DOMAIN dto /\ "provider" \in DOMAIN now
  BY <1>1, CatalogueAssumption DEF CatalogueAssumption, IInv, RowShape
<1>3. "provider" \notin DOMAIN slug
  OBVIOUS
<1> HIDE DEF dto, slug, now
<1>4. "provider" \in DOMAIN row /\ row.provider = now.provider
  BY <1>2, <1>3 DEF Merged
<1> HIDE DEF row
<1> QED
  BY <1>1, <1>4, WrittenStep DEF now

LEMMA SourceStep ==
  ASSUME IInv, SourceNext
  PROVE  IInv'
<1>1. ASSUME NEW e \in Editors,
             CountIntegrations(e) \/ ReadForRemoval(e) \/ CountConnections(e) \/ Refused(e)
      PROVE  IInv'
  <2>1. PICK to, from : /\ Begins(e, to) \/ Continues(e, from, to)
                        /\ "pc" \in DOMAIN to /\ to.pc \in {"connections", "delete", "idle"}
    <3>1. CASE CountIntegrations(e)
      BY <3>1 DEF CountIntegrations
    <3>2. CASE ReadForRemoval(e)
      BY <3>2 DEF ReadForRemoval
    <3>3. CASE CountConnections(e)
      BY <3>3 DEF CountConnections, IInv, EditShape
    <3>4. CASE Refused(e)
      BY <3>4 DEF Refused, Idle
    <3> QED
      BY <1>1, <3>1, <3>2, <3>3, <3>4
  <2>2. /\ edits' = edits + 1 /\ edit' = [edit EXCEPT ![e] = to] /\ rows' = rows /\ stamp' = stamp
    BY <2>1, Turning
  <2> QED
    BY <2>1, <2>2, ElsewhereMove
<1>2. ASSUME NEW e \in Editors, Delete(e)
      PROVE  IInv'
  BY <1>2, EndStep DEF Delete, Step, Without
<1>3. ASSUME NEW id, Integrate(id) \/ Disintegrate(id)
      PROVE  IInv'
  <2>1. rows' = rows /\ stamp' = stamp /\ edit' = edit /\ edits' = edits + 1
    BY <1>3 DEF Integrate, Disintegrate
  <2> QED
    BY <2>1, ElsewhereStep DEF IInv, EditShape, RowShape
<1> QED
  BY <1>1, <1>2, <1>3, CheckProviderStep, CheckCatalogKeyStep, CheckImplStep, InsertStep,
     ReadForUpdateStep, CheckCollisionStep, WriteUpdateStep, ReadCatalogRowStep, CheckKeyStep,
     WriteCatalogRowStep DEF SourceNext

(***************************************************************************)
(* The other catalogues leave the rows alone.                              *)
(***************************************************************************)
Elsewhere(to) ==
  "pc" \in DOMAIN to /\ to.pc \notin {"impl", "insert", "collision", "write", "key", "set"}

LEMMA BuilderMove ==
  ASSUME IInv, NEW e \in Editors, NEW from, NEW to, Elsewhere(to),
         Starts(e, to) \/ Looks(e, from, to) \/ Writes(e, from, to)
  PROVE  IInv'
<1>1. /\ edits' = edits + 1 /\ edit' = [edit EXCEPT ![e] = to]
      /\ rows' = rows /\ stamp' = stamp
  BY Turning DEF Starts, Looks, Writes, Step, sourceDocs
<1> QED
  BY <1>1, ElsewhereMove DEF Elsewhere

LEMMA BuilderAtOnce ==
  ASSUME IInv, AtOnce
  PROVE  IInv'
<1>1. rows' = rows /\ stamp' = stamp /\ edit' = edit /\ edits' = edits + 1
  BY DEF AtOnce, sourceDocs
<1> QED
  BY <1>1, ElsewhereStep DEF IInv, EditShape, RowShape

\* The states of the requests to each of the catalogues.
SourcePcs == {"idle", "impl", "insert", "collision", "write", "key", "set", "connections", "delete"}
DefinitionPcs == {"idle", "usage", "category", "type", "definition"}
ReportPcs == {"idle", "copy", "point", "flow", "draft", "check", "snapshot", "current", "archive"}
TypePcs == {"idle", "attached", "publish", "unpublish", "count", "remove"}

Among(to, pcs) == "pc" \in DOMAIN to /\ to.pc \in pcs

LEMMA ElsewhereAll ==
  ASSUME NEW to, Among(to, DefinitionPcs) \/ Among(to, ReportPcs) \/ Among(to, TypePcs)
  PROVE  Elsewhere(to)
BY DEF Among, DefinitionPcs, ReportPcs, TypePcs, Elsewhere

\* What an editor of the builder's documents can go on with.
LEMMA Staying ==
  ASSUME IInv, NEW e \in Editors
  PROVE  "pc" \in DOMAIN edit[e] /\ Among(Idle, DefinitionPcs) /\ Among(Idle, ReportPcs) /\ Among(Idle, TypePcs)
BY DEF IInv, EditShape, Idle, Among, DefinitionPcs, ReportPcs, TypePcs

LEMMA DefinitionTurns ==
  ASSUME IInv, NEW e \in Editors,
         \/ CreateDefinition(e) \/ ReadDefinition(e) \/ Usage(e) \/ ResolveCategory(e)
         \/ ResolveType(e) \/ WriteDefinition(e)
  PROVE  \E from, to : /\ Starts(e, to) \/ Looks(e, from, to) \/ Writes(e, from, to)
                       /\ Among(to, DefinitionPcs)
<1>1. CASE CreateDefinition(e)
  BY <1>1 DEF CreateDefinition, Among, DefinitionPcs
<1>2. CASE ReadDefinition(e)
  BY <1>2 DEF ReadDefinition, Among, DefinitionPcs
<1>3. CASE Usage(e)
  <2> DEFINE to == [edit[e] EXCEPT !.pc = "category", !.seen.unused = edits]
  <2>1. Looks(e, "usage", to) \/ Looks(e, "usage", Idle)
    BY <1>3 DEF Usage
  <2>2. Among(to, DefinitionPcs)
    BY Staying DEF Among, DefinitionPcs
  <2> HIDE DEF to
  <2> QED
    BY <2>1, <2>2, Staying
<1>4. CASE ResolveCategory(e)
  <2> DEFINE pc == IF edit[e].next.type = "" THEN "definition" ELSE "type"
             To(c) == [edit[e] EXCEPT !.pc = pc, !.next.category = categories[c].key,
                                      !.seen.category = c, !.seen.at = edits,
                                      !.seen.type = 0, !.seen.typeAt = edits]
  <2>1. pc \in {"definition", "type"}
    OBVIOUS
  <2>2. \/ Looks(e, "category", Idle)
        \/ \E c : Looks(e, "category", To(c))
    BY <1>4 DEF ResolveCategory
  <2> HIDE DEF pc
  <2>3. \A c : Among(To(c), DefinitionPcs)
    BY <2>1, Staying DEF Among, DefinitionPcs
  <2> HIDE DEF To
  <2> QED
    BY <2>2, <2>3, Staying
<1>5. CASE ResolveType(e)
  <2> DEFINE To(t) == [edit[e] EXCEPT !.pc = "definition", !.next.type = nodeTypes[t].key,
                                      !.seen.type = t, !.seen.typeAt = edits]
  <2>1. \/ Looks(e, "type", Idle)
        \/ \E t : Looks(e, "type", To(t))
    BY <1>5 DEF ResolveType
  <2>2. \A t : Among(To(t), DefinitionPcs)
    BY Staying DEF Among, DefinitionPcs
  <2> HIDE DEF To
  <2> QED
    BY <2>1, <2>2, Staying
<1>6. CASE WriteDefinition(e)
  BY <1>6, Staying DEF WriteDefinition
<1> QED
  BY <1>1, <1>2, <1>3, <1>4, <1>5, <1>6

LEMMA DefinitionStep ==
  ASSUME IInv, NEW e \in Editors,
         \/ CreateDefinition(e) \/ ReadDefinition(e) \/ Usage(e) \/ ResolveCategory(e)
         \/ ResolveType(e) \/ WriteDefinition(e)
  PROVE  IInv'
BY DefinitionTurns, ElsewhereAll, BuilderMove

LEMMA ReportTurns ==
  ASSUME IInv, NEW e \in Editors,
         \/ SaveFlow(e) \/ CopyVersion(e) \/ PointDraft(e) \/ WriteFlow(e)
         \/ Publish(e) \/ ReadDraft(e) \/ CheckFlow(e) \/ WriteSnapshot(e) \/ WriteCurrent(e)
         \/ Archive(e) \/ WriteArchived(e)
  PROVE  \E from, to : /\ Starts(e, to) \/ Looks(e, from, to) \/ Writes(e, from, to)
                       /\ Among(to, ReportPcs)
<1>1. CASE SaveFlow(e)
  BY <1>1 DEF SaveFlow, Among, ReportPcs
<1>2. CASE CopyVersion(e)
  <2> DEFINE to == [edit[e] EXCEPT !.pc = "point", !.version = Fresh(versions)]
  <2>1. Writes(e, "copy", to)
    BY <1>2 DEF CopyVersion
  <2>2. Among(to, ReportPcs)
    BY Staying DEF Among, ReportPcs
  <2> HIDE DEF to
  <2> QED
    BY <2>1, <2>2
<1>3. CASE PointDraft(e)
  BY <1>3, Staying DEF PointDraft, Reported, Among, ReportPcs
<1>4. CASE WriteFlow(e)
  BY <1>4, Staying DEF WriteFlow
<1>5. CASE Publish(e)
  BY <1>5 DEF Publish, Among, ReportPcs
<1>6. CASE ReadDraft(e)
  BY <1>6, Staying DEF ReadDraft, Add, Among, ReportPcs
<1>7. CASE CheckFlow(e)
  BY <1>7, Staying DEF CheckFlow, Among, ReportPcs
<1>8. CASE WriteSnapshot(e)
  BY <1>8, Staying DEF WriteSnapshot, Among, ReportPcs
<1>9. CASE WriteCurrent(e)
  BY <1>9, Staying DEF WriteCurrent, Reported
<1>10. CASE Archive(e)
  BY <1>10 DEF Archive, Among, ReportPcs
<1>11. CASE WriteArchived(e)
  BY <1>11, Staying DEF WriteArchived, Reported
<1> QED
  BY <1>1, <1>2, <1>3, <1>4, <1>5, <1>6, <1>7, <1>8, <1>9, <1>10, <1>11

LEMMA ReportStep ==
  ASSUME IInv, NEW e \in Editors,
         \/ SaveFlow(e) \/ CopyVersion(e) \/ PointDraft(e) \/ WriteFlow(e)
         \/ Publish(e) \/ ReadDraft(e) \/ CheckFlow(e) \/ WriteSnapshot(e) \/ WriteCurrent(e)
         \/ Archive(e) \/ WriteArchived(e)
  PROVE  IInv'
BY ReportTurns, ElsewhereAll, BuilderMove

LEMMA TypeTurns ==
  ASSUME IInv, NEW e \in Editors,
         \/ PublishType(e) \/ CheckAttached(e) \/ SavePublished(e)
         \/ UnpublishType(e) \/ SaveUnpublished(e)
         \/ RemoveType(e) \/ CountAnalyses(e) \/ DeleteType(e)
  PROVE  \E from, to : /\ Starts(e, to) \/ Looks(e, from, to) \/ Writes(e, from, to)
                       /\ Among(to, TypePcs)
<1>1. CASE PublishType(e)
  BY <1>1 DEF PublishType, Asks, Among, TypePcs
<1>2. CASE CheckAttached(e)
  BY <1>2, Staying DEF CheckAttached, Sees, Add, Among, TypePcs
<1>3. CASE SavePublished(e)
  BY <1>3, Staying DEF SavePublished, SaveStatus
<1>4. CASE UnpublishType(e)
  BY <1>4 DEF UnpublishType, Asks, Among, TypePcs
<1>5. CASE SaveUnpublished(e)
  BY <1>5, Staying DEF SaveUnpublished, SaveStatus
<1>6. CASE RemoveType(e)
  BY <1>6 DEF RemoveType, Asks, Among, TypePcs
<1>7. CASE CountAnalyses(e)
  BY <1>7, Staying DEF CountAnalyses, Sees, Among, TypePcs
<1>8. CASE DeleteType(e)
  BY <1>8, Staying DEF DeleteType
<1> QED
  BY <1>1, <1>2, <1>3, <1>4, <1>5, <1>6, <1>7, <1>8

LEMMA TypeStep ==
  ASSUME IInv, NEW e \in Editors,
         \/ PublishType(e) \/ CheckAttached(e) \/ SavePublished(e)
         \/ UnpublishType(e) \/ SaveUnpublished(e)
         \/ RemoveType(e) \/ CountAnalyses(e) \/ DeleteType(e)
  PROVE  IInv'
BY TypeTurns, ElsewhereAll, BuilderMove

LEMMA Kept == IInv /\ [Next]_vars => IInv'
<1> SUFFICES ASSUME IInv, [Next]_vars PROVE IInv'
  OBVIOUS
<1>1. CASE SourceNext
  BY <1>1, SourceStep
<1>2. CASE CreateNodeType \/ UpdateNodeType \/ UpdateCategory \/ CreateAsset \/ UpdateAsset
  BY <1>2, BuilderAtOnce DEF CreateNodeType, UpdateNodeType, UpdateCategory, CreateAsset,
                             UpdateAsset
<1>3. CASE CreateType \/ UpdateType \/ CreateAnalysis \/ TurnAnalysis
  BY <1>3, BuilderAtOnce DEF CreateType, UpdateType, CreateAnalysis, TurnAnalysis
<1>4. CASE UNCHANGED vars
  <2>1. rows' = rows /\ stamp' = stamp /\ edit' = edit /\ edits' = edits
    BY <1>4 DEF vars, sourceVars
  <2> QED
    BY <2>1, ElsewhereStep DEF IInv, EditShape, RowShape
<1> QED
  BY <1>1, <1>2, <1>3, <1>4, DefinitionStep, ReportStep, TypeStep DEF Next, BuilderNext

LEMMA Begun == Init => IInv
<1> SUFFICES ASSUME Init PROVE IInv
  OBVIOUS
<1>1. /\ rows \in Seeds /\ edit = [e \in Editors |-> Idle] /\ edits = 1
      /\ stamp = [id \in DOMAIN rows |-> Stamp(1, 1, Unchecked, NamesOf(rows[id]))]
  BY DEF Init, SourceInit
<1>2. \A e \in Editors : "pc" \in DOMAIN edit[e] /\ edit[e].pc = "idle"
  BY <1>1 DEF Idle
<1>3. \A id \in DOMAIN rows : stamp[id].named = 1 /\ stamp[id].checked = 0
  BY <1>1 DEF Stamp, Unchecked
<1>4. \A id \in DOMAIN rows : "provider" \in DOMAIN rows[id]
  <2>1. rows \in Seq(Row)
    BY <1>1, CatalogueAssumption DEF CatalogueAssumption
  <2>2. \A id \in DOMAIN rows : rows[id] \in Row
    BY <2>1
  <2> QED
    BY <2>2 DEF Row
<1> QED
  BY <1>1, <1>2, <1>3, <1>4 DEF IInv, EditShape, RowShape, Pending, Writing, CatalogPending,
                                CheckedApart

\* "A DataSource with provider X already exists": two rows of one provider are
\* there only if the later name was checked before the other was written, for
\* any number of editors and rows and whatever else they edit.
THEOREM ProvidersAreUnique == Spec => []ProviderUnique
<1>1. Init => IInv
  BY Begun
<1>2. IInv /\ [Next]_vars => IInv'
  BY Kept
<1>3. IInv => ProviderUnique
  BY Implied
<1> QED
  BY <1>1, <1>2, <1>3, PTL DEF Spec

(***************************************************************************)
(* Node definitions.  What is known of a definition is known of the one    *)
(* that a request is about to write, too, as far as the request has come;  *)
(* what a document is said to be holds until the document is changed, and  *)
(* the change has a time.                                                  *)
(***************************************************************************)
LEMMA FreshId ==
  ASSUME NEW docs, NEW n \in Nat, DOMAIN docs = 1..n
  PROVE  Fresh(docs) = n + 1 /\ Fresh(docs) \notin DOMAIN docs /\ Fresh(docs) # 0
         /\ DOMAIN docs \cup {Fresh(docs)} = 1..(n + 1)
<1>1. Cardinality(1..n) = n
  BY FS_Interval
<1> QED
  BY <1>1 DEF Fresh

SeenFields == {"changed", "unused", "category", "type", "at", "typeAt"}

SeenGood(s) ==
  /\ s = [f \in SeenFields |-> s[f]]
  /\ \A f \in SeenFields : s[f] \in Nat
  /\ s.unused < edits /\ s.at < edits /\ s.typeAt < edits /\ s.changed < edits

DefinitionGood(def) ==
  /\ def = [f \in AssetFields |-> def[f]]
  /\ def.provider \in DOMAIN Contract => def.ports = Contract[def.provider]

\* The keys of the category and of the type that were found.
CategoryGood(def, s) ==
  /\ s.category \in DOMAIN categories
  /\ def.category = categories[s.category].key \/ past.category[s.category] > s.at

TypeGood(def, s) ==
  def.type # "" =>
    /\ s.type \in DOMAIN nodeTypes /\ s.type # 0
    /\ \/ def.type = nodeTypes[s.type].key /\ def.category = nodeTypes[s.type].category
       \/ past.type[s.type] > s.typeAt

DefinitionInv(d) ==
  \E def, s :
    /\ def = definitions[d] /\ s = past.definition[d]
    /\ SeenGood(s) /\ def = [f \in AssetFields |-> def[f]]
    /\ s.category # 0 => CategoryGood(def, s) /\ TypeGood(def, s) /\ DefinitionGood(def)

\* A field that the body does not name is as it was read, unless it is a key
\* that has been looked up since.
Faithful(x, field) ==
  LET now == definitions[x.id][field]
      c == x.seen.category
      t == x.seen.type
  IN \/ x.next[field] = now
     \/ field \in x.body
     \/ field = "ports" /\ x.next.provider \in DOMAIN Contract
     \/ /\ field = "category" /\ x.pc \in {"type", "definition"}
        /\ now \in {categories[c].key, categories[c].slug} \/ x.read < past.category[c]
     \/ /\ field = "type" /\ x.pc = "definition" /\ t # 0
        /\ now \in {nodeTypes[t].key, nodeTypes[t].slug} \/ x.read < past.type[t]

Request(x) ==
  /\ x = [f \in {"pc", "id", "next", "body", "read", "seen"} |-> x[f]]
  /\ DefinitionGood(x.next) /\ SeenGood(x.seen)
  /\ x.read \in Nat /\ x.read < edits
  /\ x.pc \in {"type", "definition"} => x.seen.category # 0 /\ CategoryGood(x.next, x.seen)
  /\ x.pc = "definition" =>
       /\ TypeGood(x.next, x.seen)
       /\ x.seen.type = 0 \/ x.seen.type \in DOMAIN nodeTypes
  /\ x.id # 0 =>
       /\ x.id \in DOMAIN definitions
       /\ \/ x.read < past.definition[x.id].changed
          \/ \A field \in AssetFields : Faithful(x, field)

Asking(e) == edit[e].pc \in {"usage", "category", "type", "definition"}

RequestInv(e) == Asking(e) => \E x : x = edit[e] /\ Request(x)

Dated(times, docs) ==
  /\ times = [i \in DOMAIN docs |-> times[i]]
  /\ \A i \in DOMAIN docs : times[i] \in Nat

PastFields == {"category", "type", "report", "definition"}

BuilderShape ==
  /\ past = [f \in PastFields |-> past[f]]
  /\ Dated(past.category, categories) /\ Dated(past.type, nodeTypes) /\ Dated(past.report, reports)
  /\ past.definition = [d \in DOMAIN definitions |-> past.definition[d]]
  /\ \E n \in Nat : DOMAIN nodeTypes = 1..n
  /\ \E n \in Nat : DOMAIN definitions = 1..n
  /\ \A c \in DOMAIN categories : c \in Nat \ {0}

BuilderInv ==
  /\ BuilderShape
  /\ \A d \in DOMAIN definitions : DefinitionInv(d)
  /\ \A e \in Editors : RequestInv(e)

\* A document stays as it is, or gets a date.
CategoriesDated ==
  \A c \in DOMAIN categories :
    /\ c \in DOMAIN categories'
    /\ \/ categories'[c] = categories[c] /\ past'.category[c] = past.category[c]
       \/ past'.category[c] = edits

NodeTypesDated ==
  \A t \in DOMAIN nodeTypes :
    /\ t \in DOMAIN nodeTypes'
    /\ \/ nodeTypes'[t] = nodeTypes[t] /\ past'.type[t] = past.type[t]
       \/ past'.type[t] = edits

DefinitionsDated ==
  \A d \in DOMAIN definitions :
    /\ d \in DOMAIN definitions'
    /\ \/ definitions'[d] = definitions[d] /\ past'.definition[d] = past.definition[d]
       \/ past'.definition[d].changed = edits

DocsDated ==
  CategoriesDated /\ NodeTypesDated /\ DefinitionsDated /\ edits \in Nat /\ edits' = edits + 1

LEMMA SeenStays ==
  ASSUME NEW s, SeenGood(s), edits \in Nat, edits' = edits + 1
  PROVE  SeenGood(s)'
BY DEF SeenGood, SeenFields

LEMMA KeysStay ==
  ASSUME NEW def, NEW s, SeenGood(s), DocsDated
  PROVE  /\ CategoryGood(def, s) => CategoryGood(def, s)'
         /\ TypeGood(def, s) => TypeGood(def, s)'
<1>1. s.at \in Nat /\ s.typeAt \in Nat /\ s.at < edits /\ s.typeAt < edits
  BY DEF SeenGood, SeenFields
<1>2. ASSUME CategoryGood(def, s) PROVE CategoryGood(def, s)'
  <2>1. PICK c : c = s.category
    OBVIOUS
  <2>2. c \in DOMAIN categories /\ (def.category = categories[c].key \/ past.category[c] > s.at)
    BY <1>2, <2>1 DEF CategoryGood
  <2>3. c \in DOMAIN categories' /\ (def.category = categories'[c].key \/ past'.category[c] > s.at)
    BY <1>1, <2>2 DEF DocsDated, CategoriesDated
  <2> QED
    BY <2>1, <2>3 DEF CategoryGood
<1>3. ASSUME TypeGood(def, s), def.type # "" PROVE TypeGood(def, s)'
  <2>1. PICK t : t = s.type
    OBVIOUS
  <2>2. /\ t \in DOMAIN nodeTypes /\ t # 0
        /\ \/ def.type = nodeTypes[t].key /\ def.category = nodeTypes[t].category
           \/ past.type[t] > s.typeAt
    BY <1>3, <2>1 DEF TypeGood
  <2>3. /\ t \in DOMAIN nodeTypes' /\ t # 0
        /\ \/ def.type = nodeTypes'[t].key /\ def.category = nodeTypes'[t].category
           \/ past'.type[t] > s.typeAt
    BY <1>1, <2>2 DEF DocsDated, NodeTypesDated
  <2> QED
    BY <2>1, <2>3 DEF TypeGood
<1>4. def.type = "" => TypeGood(def, s)'
  BY DEF TypeGood
<1> QED
  BY <1>2, <1>3, <1>4

LEMMA DefinitionStays ==
  ASSUME DocsDated, NEW d, DefinitionInv(d),
         definitions'[d] = definitions[d], past'.definition[d] = past.definition[d]
  PROVE  DefinitionInv(d)'
<1>1. PICK def, s :
        /\ def = definitions[d] /\ s = past.definition[d]
        /\ SeenGood(s) /\ def = [f \in AssetFields |-> def[f]]
        /\ s.category # 0 => CategoryGood(def, s) /\ TypeGood(def, s) /\ DefinitionGood(def)
  BY DEF DefinitionInv
<1>2. SeenGood(s)'
  BY <1>1, SeenStays DEF DocsDated
<1>3. s.category # 0 => CategoryGood(def, s)' /\ TypeGood(def, s)' /\ DefinitionGood(def)
  BY <1>1, KeysStay
<1>4. DefinitionGood(def)' <=> DefinitionGood(def)
  BY DEF DefinitionGood
<1> QED
  BY <1>1, <1>2, <1>3, <1>4 DEF DefinitionInv

LEMMA FaithfulStays ==
  ASSUME DocsDated, NEW x, Request(x), NEW field \in AssetFields, x.id \in DOMAIN definitions,
         definitions'[x.id] = definitions[x.id], Faithful(x, field)
  PROVE  Faithful(x, field)'
<1>1. x.read \in Nat /\ x.read < edits
  BY DEF Request
<1>2. x.pc \in {"type", "definition"} => x.seen.category \in DOMAIN categories
  BY DEF Request, CategoryGood
<1>3. PICK c, t, id : c = x.seen.category /\ t = x.seen.type /\ id = x.id
  OBVIOUS
<1>4. CASE x.next[field] = definitions[id][field] \/ field \in x.body
           \/ (field = "ports" /\ x.next.provider \in DOMAIN Contract)
  BY <1>3, <1>4 DEF Faithful
<1>5. CASE /\ field = "category" /\ x.pc \in {"type", "definition"}
           /\ definitions[id][field] \in {categories[c].key, categories[c].slug} \/ x.read < past.category[c]
  <2>1. definitions'[id][field] \in {categories'[c].key, categories'[c].slug} \/ x.read < past'.category[c]
    BY <1>1, <1>2, <1>3, <1>5 DEF DocsDated, CategoriesDated
  <2> QED
    BY <1>3, <1>5, <2>1 DEF Faithful
<1>6. CASE /\ field = "type" /\ x.pc = "definition" /\ t # 0
           /\ definitions[id][field] \in {nodeTypes[t].key, nodeTypes[t].slug} \/ x.read < past.type[t]
  <2>1. t \in DOMAIN nodeTypes
    BY <1>3, <1>6 DEF Request
  <2>2. definitions'[id][field] \in {nodeTypes'[t].key, nodeTypes'[t].slug} \/ x.read < past'.type[t]
    BY <1>1, <1>3, <1>6, <2>1 DEF DocsDated, NodeTypesDated
  <2> QED
    BY <1>3, <1>6, <2>2 DEF Faithful
<1> QED
  BY <1>3, <1>4, <1>5, <1>6 DEF Faithful

\* What is known of a request holds until the request goes on.
LEMMA RequestStays ==
  ASSUME DocsDated, NEW x, Request(x)
  PROVE  Request(x)'
<1>1. PICK next, seen, id : next = x.next /\ seen = x.seen /\ id = x.id
  OBVIOUS
<1>2. DefinitionGood(next)' /\ SeenGood(seen)'
  <2>1. DefinitionGood(next) /\ SeenGood(seen)
    BY <1>1 DEF Request
  <2> QED
    BY <2>1, SeenStays DEF DocsDated, DefinitionGood
<1>3. x.pc \in {"type", "definition"} => seen.category # 0 /\ CategoryGood(next, seen)'
  BY <1>1, KeysStay DEF Request
<1>4. x.pc = "definition" =>
        /\ TypeGood(next, seen)'
        /\ seen.type = 0 \/ seen.type \in DOMAIN nodeTypes'
  <2>1. x.pc = "definition" => TypeGood(next, seen)'
    BY <1>1, KeysStay DEF Request
  <2>2. x.pc = "definition" => seen.type = 0 \/ seen.type \in DOMAIN nodeTypes'
    BY <1>1 DEF Request, DocsDated, NodeTypesDated
  <2> QED
    BY <2>1, <2>2
<1>5. x.read \in Nat /\ x.read < edits'
  BY DEF Request, DocsDated
<1>6. ASSUME id # 0
      PROVE  /\ id \in DOMAIN definitions'
             /\ \/ x.read < past'.definition[id].changed
                \/ \A field \in AssetFields : Faithful(x, field)'
  <2>1. /\ id \in DOMAIN definitions /\ x.read < edits
        /\ \/ x.read < past.definition[id].changed
           \/ \A field \in AssetFields : Faithful(x, field)
    BY <1>1, <1>6 DEF Request
  <2>2. /\ id \in DOMAIN definitions'
        /\ \/ definitions'[id] = definitions[id] /\ past'.definition[id] = past.definition[id]
           \/ past'.definition[id].changed = edits
    BY <2>1 DEF DocsDated, DefinitionsDated
  <2>3. CASE past'.definition[id].changed = edits
    BY <2>1, <2>2, <2>3
  <2>4. CASE definitions'[id] = definitions[id] /\ past'.definition[id] = past.definition[id]
    <3>1. CASE x.read < past.definition[id].changed
      BY <2>2, <2>4, <3>1
    <3>2. CASE \A field \in AssetFields : Faithful(x, field)
      <4>1. ASSUME NEW field \in AssetFields PROVE Faithful(x, field)'
        BY <1>1, <2>1, <2>4, <3>2, FaithfulStays
      <4> QED
        BY <2>2, <4>1
    <3> QED
      BY <2>1, <3>1, <3>2
  <2> QED
    BY <2>2, <2>3, <2>4
<1>7. x = [f \in {"pc", "id", "next", "body", "read", "seen"} |-> x[f]]
  BY DEF Request
<1> QED
  BY <1>1, <1>2, <1>3, <1>4, <1>5, <1>6, <1>7 DEF Request

(***************************************************************************)
(* What a step can do to the builder's documents.                          *)
(***************************************************************************)
DefinitionSame(d) ==
  /\ d \in DOMAIN definitions
  /\ definitions'[d] = definitions[d] /\ past'.definition[d] = past.definition[d]

LEMMA BuilderStep ==
  ASSUME BuilderInv, DocsDated, BuilderShape',
         \A d \in DOMAIN definitions' : DefinitionSame(d) \/ DefinitionInv(d)',
         \A e \in Editors : Asking(e)' => edit'[e] = edit[e] \/ RequestInv(e)'
  PROVE  BuilderInv'
<1>1. ASSUME NEW d \in DOMAIN definitions' PROVE DefinitionInv(d)'
  <2>1. DefinitionSame(d) => DefinitionInv(d)'
    BY DefinitionStays DEF BuilderInv, DefinitionSame
  <2> QED
    BY <2>1
<1>2. ASSUME NEW e \in Editors, Asking(e)', edit'[e] = edit[e] PROVE RequestInv(e)'
  <2>1. PICK x : x = edit[e] /\ Request(x)
    BY <1>2 DEF BuilderInv, Asking, RequestInv
  <2>2. Request(x)'
    BY <2>1, RequestStays
  <2> QED
    BY <1>2, <2>1, <2>2 DEF RequestInv
<1>3. \A e \in Editors : RequestInv(e)'
  BY <1>2 DEF RequestInv
<1> QED
  BY <1>1, <1>3 DEF BuilderInv

\* The definitions, their categories and types stay as they are.
LEMMA DocsStay ==
  ASSUME BuilderInv, edits \in Nat, edits' = edits + 1,
         UNCHANGED <<categories, nodeTypes, definitions>>,
         past' = [past EXCEPT !.report = past'.report], Dated(past.report, reports)',
         \A e \in Editors : Asking(e)' => edit'[e] = edit[e] \/ RequestInv(e)'
  PROVE  BuilderInv'
<1>1. /\ past' = [f \in PastFields |-> past'[f]]
      /\ past'.category = past.category /\ past'.type = past.type /\ past'.definition = past.definition
  BY DEF BuilderInv, BuilderShape, PastFields
<1>2. BuilderShape'
  BY <1>1 DEF BuilderInv, BuilderShape, Dated
<1>3. DocsDated
  BY <1>1 DEF DocsDated, CategoriesDated, NodeTypesDated, DefinitionsDated
<1>4. \A d \in DOMAIN definitions' : DefinitionSame(d)
  BY <1>1 DEF DefinitionSame
<1> QED
  BY <1>2, <1>3, <1>4, BuilderStep

\* An editor goes on with a request about a definition.
LEMMA Resolve ==
  ASSUME BuilderInv, edits \in Nat, edits' = edits + 1, edit = [f \in Editors |-> edit[f]],
         UNCHANGED <<categories, nodeTypes, definitions, reports, past>>,
         NEW e \in Editors, NEW to, edit' = [edit EXCEPT ![e] = to],
         to = Idle \/ Request(to)'
  PROVE  BuilderInv'
<1>1. edit' = [f \in Editors |-> IF f = e THEN to ELSE edit[f]]
  OBVIOUS
<1>2. Asking(e)' => RequestInv(e)'
  BY <1>1 DEF Asking, RequestInv, Idle
<1>3. \A f \in Editors : Asking(f)' => edit'[f] = edit[f] \/ RequestInv(f)'
  BY <1>1, <1>2
<1>4. past' = [past EXCEPT !.report = past'.report]
  BY DEF BuilderInv, BuilderShape, PastFields
<1>5. Dated(past.report, reports)'
  BY DEF BuilderInv, BuilderShape, Dated
<1> QED
  BY <1>3, <1>4, <1>5, DocsStay

(***************************************************************************)
(* The actions of a request about a definition.                            *)
(***************************************************************************)
LEMMA PortsAreGiven ==
  ASSUME NEW dto, dto = [f \in AssetFields |-> dto[f]]
  PROVE  /\ DefinitionGood(Ported(dto))
         /\ \A f \in AssetFields : \/ Ported(dto)[f] = dto[f]
                                   \/ f = "ports" /\ Ported(dto).provider \in DOMAIN Contract
<1>1. CASE dto.provider \in DOMAIN Contract
  <2> DEFINE to == [dto EXCEPT !.ports = Contract[dto.provider]]
  <2>1. /\ to = [f \in AssetFields |-> to[f]]
        /\ to.provider = dto.provider /\ to.ports = Contract[dto.provider]
        /\ \A f \in AssetFields : f # "ports" => to[f] = dto[f]
    BY DEF AssetFields
  <2>2. Ported(dto) = to
    BY <1>1 DEF Ported
  <2> QED
    BY <1>1, <2>1, <2>2 DEF DefinitionGood
<1>2. CASE dto.provider \notin DOMAIN Contract
  BY <1>2 DEF Ported, DefinitionGood
<1> QED
  BY <1>1, <1>2

LEMMA NextIsGood ==
  ASSUME NEW def, def = [f \in AssetFields |-> def[f]], NEW dto
  PROVE  /\ DefinitionGood(NextDefinition(dto, def))
         /\ \A f \in AssetFields :
              \/ NextDefinition(dto, def)[f] = def[f]
              \/ f \in DOMAIN dto
              \/ f = "ports" /\ NextDefinition(dto, def).provider \in DOMAIN Contract
<1> DEFINE new == Merged(dto, def)
<1>1. /\ new = [f \in AssetFields |-> new[f]]
      /\ \A f \in AssetFields : new[f] = def[f] \/ f \in DOMAIN dto
  BY DEF Merged
<1>2. NextDefinition(dto, def) = Ported(new)
  BY DEF NextDefinition
<1> HIDE DEF new
<1> QED
  BY <1>1, <1>2, PortsAreGiven

LEMMA UnseenIsGood ==
  ASSUME edits \in Nat \ {0}
  PROVE  SeenGood(Unseen)
<1>1. /\ Unseen = [f \in SeenFields |-> Unseen[f]]
      /\ \A f \in SeenFields : Unseen[f] = 0
      /\ Unseen.unused = 0 /\ Unseen.at = 0 /\ Unseen.typeAt = 0 /\ Unseen.changed = 0
  BY DEF Unseen, SeenFields
<1> HIDE DEF Unseen
<1> QED
  BY <1>1 DEF SeenGood

LEMMA Clock ==
  ASSUME IInv
  PROVE  /\ edits \in Nat \ {0}
         /\ edit = [e \in Editors |-> edit[e]]
BY DEF IInv, RowShape, EditShape

LEMMA CreateDefinitionStep ==
  ASSUME IInv, BuilderInv, NEW e \in Editors, CreateDefinition(e), UNCHANGED <<reports, versions>>
  PROVE  BuilderInv'
<1>1. PICK dto \in NewDefinitions :
        Starts(e, [pc |-> "category", id |-> 0, next |-> Ported(dto), body |-> AssetFields,
                   read |-> edits, seen |-> [Unseen EXCEPT !.unused = edits]])
  BY DEF CreateDefinition
<1>2. PICK next, seen : next = Ported(dto) /\ seen = [Unseen EXCEPT !.unused = edits]
  OBVIOUS
<1>0. PICK to : to = [pc |-> "category", id |-> 0, next |-> next, body |-> AssetFields,
                      read |-> edits, seen |-> seen]
  OBVIOUS
<1>3. /\ edits' = edits + 1 /\ edit' = [edit EXCEPT ![e] = to]
      /\ UNCHANGED builderVars
  BY <1>0, <1>1, <1>2 DEF Starts, Begins
<1>4. DefinitionGood(next)
  <2>1. dto = [f \in AssetFields |-> dto[f]]
    BY BuilderAssumption DEF BuilderAssumption
  <2> QED
    BY <1>2, <2>1, PortsAreGiven
<1>5. SeenGood(seen)'
  BY <1>2, <1>3, Clock DEF SeenGood, SeenFields, Unseen
<1>6. Request(to)'
  <2>1. /\ to = [f \in {"pc", "id", "next", "body", "read", "seen"} |-> to[f]]
        /\ to.pc = "category" /\ to.id = 0 /\ to.next = next /\ to.seen = seen /\ to.read = edits
    BY <1>0
  <2>2. DefinitionGood(next)'
    BY <1>4 DEF DefinitionGood
  <2> QED
    BY <1>3, <1>5, <2>1, <2>2, Clock DEF Request
<1> QED
  BY <1>3, <1>6, Resolve, Clock DEF builderVars

LEMMA ReadDefinitionStep ==
  ASSUME IInv, BuilderInv, NEW e \in Editors, ReadDefinition(e)
  PROVE  BuilderInv'
<1>1. PICK d \in DOMAIN definitions, dto \in DefinitionChanges, pc \in {"usage", "category"} :
        Starts(e, [pc |-> pc, id |-> d, next |-> NextDefinition(dto, definitions[d]),
                   body |-> DOMAIN dto, read |-> edits, seen |-> past.definition[d]])
  BY DEF ReadDefinition
<1>2. PICK def, seen, next, body : /\ def = definitions[d] /\ seen = past.definition[d]
                                   /\ next = NextDefinition(dto, def) /\ body = DOMAIN dto
  OBVIOUS
<1>3. SeenGood(seen) /\ def = [f \in AssetFields |-> def[f]]
  <2>1. PICK a, s : a = definitions[d] /\ s = past.definition[d] /\ SeenGood(s)
                    /\ a = [f \in AssetFields |-> a[f]]
    BY DEF BuilderInv, DefinitionInv
  <2> QED
    BY <1>2, <2>1
<1>0. PICK to : to = [pc |-> pc, id |-> d, next |-> next, body |-> body, read |-> edits, seen |-> seen]
  OBVIOUS
<1>4. /\ edits' = edits + 1 /\ edit' = [edit EXCEPT ![e] = to]
      /\ UNCHANGED builderVars
  BY <1>0, <1>1, <1>2 DEF Starts, Begins
<1>5. /\ DefinitionGood(next)
      /\ \A f \in AssetFields :
              next[f] = def[f] \/ f \in body \/ (f = "ports" /\ next.provider \in DOMAIN Contract)
  BY <1>2, <1>3, NextIsGood
<1>6. SeenGood(seen)'
  BY <1>3, <1>4, SeenStays, Clock
<1>7. Request(to)'
  <2>1. /\ to = [f \in {"pc", "id", "next", "body", "read", "seen"} |-> to[f]]
        /\ to.pc \notin {"type", "definition"} /\ to.id = d /\ to.next = next /\ to.seen = seen
        /\ to.read = edits /\ to.body = body
    BY <1>0
  <2>2. DefinitionGood(next)'
    BY <1>5 DEF DefinitionGood
  <2>3. ASSUME NEW f \in AssetFields PROVE Faithful(to, f)'
    BY <1>2, <1>4, <1>5, <2>1 DEF Faithful, builderVars
  <2>4. d \in DOMAIN definitions'
    BY <1>4 DEF builderVars
  <2> QED
    BY <1>4, <1>6, <2>1, <2>2, <2>3, <2>4, Clock DEF Request
<1> QED
  BY <1>4, <1>7, Resolve, Clock DEF builderVars

\* What a look leaves a request at.
LEMMA Looked ==
  ASSUME NEW e, NEW from, NEW to, Looks(e, from, to)
  PROVE  edits' = edits + 1 /\ edit' = [edit EXCEPT ![e] = to] /\ UNCHANGED builderVars
BY DEF Looks, Continues, Step

LEMMA UsageStep ==
  ASSUME IInv, BuilderInv, NEW e \in Editors, Usage(e)
  PROVE  BuilderInv'
<1>1. PICK x : x = edit[e] /\ Request(x) /\ x.pc = "usage"
  BY DEF Usage, BuilderInv, RequestInv, Asking
<1>0. PICK to : to = [x EXCEPT !.pc = "category", !.seen.unused = edits]
  OBVIOUS
<1>2. Looks(e, "usage", to) \/ Looks(e, "usage", Idle)
  BY <1>0, <1>1 DEF Usage
<1>3. ASSUME Looks(e, "usage", to) PROVE Request(to)'
  <2>1. /\ to = [f \in {"pc", "id", "next", "body", "read", "seen"} |-> to[f]]
        /\ to.pc = "category" /\ to.id = x.id /\ to.next = x.next /\ to.body = x.body
        /\ to.read = x.read /\ to.seen = [x.seen EXCEPT !.unused = edits]
    BY <1>0, <1>1 DEF Request
  <2>2. edits' = edits + 1 /\ UNCHANGED builderVars
    BY <1>3, Looked
  <2>3. PICK seen, next, id : seen = to.seen /\ next = x.next /\ id = x.id
    OBVIOUS
  <2>4. SeenGood(seen)'
    BY <1>1, <2>1, <2>2, <2>3, Clock DEF Request, SeenGood, SeenFields
  <2>5. DefinitionGood(next)'
    BY <1>1, <2>3 DEF Request, DefinitionGood
  <2>6. ASSUME id # 0
        PROVE  /\ id \in DOMAIN definitions'
               /\ \/ to.read < past'.definition[id].changed
                  \/ \A field \in AssetFields : Faithful(to, field)'
    <3>1. /\ id \in DOMAIN definitions
          /\ \/ x.read < past.definition[id].changed
             \/ \A field \in AssetFields : Faithful(x, field)
      BY <1>1, <2>3, <2>6 DEF Request
    <3>2. ASSUME NEW field \in AssetFields, Faithful(x, field) PROVE Faithful(to, field)'
      BY <1>1, <2>1, <2>2, <3>2 DEF Faithful, builderVars
    <3> QED
      BY <2>1, <2>2, <3>1, <3>2 DEF builderVars
  <2> QED
    BY <1>1, <2>1, <2>2, <2>3, <2>4, <2>5, <2>6, Clock DEF Request
<1>4. CASE Looks(e, "usage", to)
  BY <1>3, <1>4, Looked, Resolve, Clock DEF builderVars
<1>5. CASE Looks(e, "usage", Idle)
  BY <1>5, Looked, Resolve, Clock DEF builderVars
<1> QED
  BY <1>2, <1>4, <1>5

LEMMA ResolveCategoryStep ==
  ASSUME IInv, BuilderInv, NEW e \in Editors, ResolveCategory(e)
  PROVE  BuilderInv'
<1>1. PICK x : x = edit[e] /\ Request(x) /\ x.pc = "category"
  BY DEF ResolveCategory, BuilderInv, RequestInv, Asking
<1>2. CASE Looks(e, "category", Idle)
  BY <1>2, Looked, Resolve, Clock DEF builderVars
<1>3. ASSUME NEW c \in Called(x.next.category, categories), NEW pc,
             pc = IF x.next.type = "" THEN "definition" ELSE "type",
             Looks(e, "category",
                   [x EXCEPT !.pc = pc, !.next.category = categories[c].key,
                             !.seen.category = c, !.seen.at = edits,
                             !.seen.type = 0, !.seen.typeAt = edits])
      PROVE  BuilderInv'
  <2>0. PICK to, key, now : /\ key = categories[c].key /\ now = edits
                            /\ to = [x EXCEPT !.pc = pc, !.next.category = key,
                                              !.seen.category = c, !.seen.at = now,
                                              !.seen.type = 0, !.seen.typeAt = now]
    OBVIOUS
  <2>1. edits' = now + 1 /\ edit' = [edit EXCEPT ![e] = to] /\ UNCHANGED builderVars
    BY <1>3, <2>0, Looked
  <2>2. PICK next, seen, id : next = to.next /\ seen = to.seen /\ id = x.id
    OBVIOUS
  <2>3. /\ x.next = [f \in AssetFields |-> x.next[f]]
        /\ x.seen = [f \in SeenFields |-> x.seen[f]]
        /\ x = [f \in {"pc", "id", "next", "body", "read", "seen"} |-> x[f]]
    BY <1>1 DEF Request, DefinitionGood, SeenGood
  <2>4. /\ to = [f \in {"pc", "id", "next", "body", "read", "seen"} |-> to[f]]
        /\ to.pc = pc /\ to.id = id /\ to.body = x.body /\ to.read = x.read
        /\ next = [x.next EXCEPT !.category = key]
        /\ seen = [x.seen EXCEPT !.category = c, !.at = now, !.type = 0, !.typeAt = now]
    BY <2>0, <2>2, <2>3
  <2>5. /\ next = [f \in AssetFields |-> next[f]] /\ next.category = key
        /\ \A f \in AssetFields : f # "category" => next[f] = x.next[f]
    BY <2>3, <2>4 DEF AssetFields
  <2>6. /\ seen = [f \in SeenFields |-> seen[f]] /\ seen.category = c /\ seen.at = now
        /\ seen.type = 0 /\ seen.typeAt = now /\ seen.changed = x.seen.changed
        /\ seen.unused = x.seen.unused
    BY <2>3, <2>4 DEF SeenFields
  <2>7. c \in DOMAIN categories /\ c \in Nat \ {0} /\ x.next.category \in {key, categories[c].slug}
    BY <1>3, <2>0 DEF Called, BuilderInv, BuilderShape
  <2>8. DefinitionGood(next)'
    BY <1>1, <2>5 DEF Request, DefinitionGood, AssetFields
  <2>9. SeenGood(seen)'
    BY <1>1, <2>0, <2>1, <2>6, <2>7, Clock DEF Request, SeenGood, SeenFields
  <2>10. seen.category # 0 /\ CategoryGood(next, seen)'
    BY <2>0, <2>1, <2>5, <2>6, <2>7 DEF CategoryGood, builderVars
  <2>11. pc = "definition" => TypeGood(next, seen)'
    BY <1>3, <2>5 DEF TypeGood, AssetFields
  <2>12. ASSUME id # 0
         PROVE  /\ id \in DOMAIN definitions'
                /\ \/ to.read < past'.definition[id].changed
                   \/ \A field \in AssetFields : Faithful(to, field)'
    <3>1. /\ id \in DOMAIN definitions
          /\ \/ x.read < past.definition[id].changed
             \/ \A field \in AssetFields : Faithful(x, field)
      BY <1>1, <2>2, <2>12 DEF Request
    <3>2. ASSUME NEW field \in AssetFields, Faithful(x, field) PROVE Faithful(to, field)'
      <4>1. CASE field # "category"
        <5>1. to.next[field] = x.next[field] /\ to.next.provider = x.next.provider
          BY <2>2, <2>5, <4>1 DEF AssetFields
        <5> QED
          BY <1>1, <2>1, <2>2, <2>4, <3>2, <4>1, <5>1 DEF Faithful, builderVars
      <4>2. CASE field = "category"
        <5>1. x.next.category = definitions[id].category \/ "category" \in x.body
          BY <1>1, <2>2, <3>2, <4>2 DEF Faithful
        <5>2. to.pc \in {"type", "definition"}
          BY <1>3, <2>4
        <5> QED
          BY <2>0, <2>1, <2>2, <2>4, <2>6, <2>7, <4>2, <5>1, <5>2 DEF Faithful, builderVars
      <4> QED
        BY <4>1, <4>2
    <3> QED
      BY <2>1, <2>4, <3>1, <3>2 DEF builderVars
  <2>13. to.read \in Nat /\ to.read < edits'
    BY <1>1, <2>0, <2>1, <2>4, Clock DEF Request
  <2>14. to.pc = "definition" => TypeGood(next, seen)' /\ seen.type = 0
    BY <2>4, <2>6, <2>11
  <2>15. Request(to)'
    BY <2>2, <2>4, <2>14, <2>8, <2>9, <2>10, <2>12, <2>13 DEF Request
  <2> QED
    BY <2>0, <2>1, <2>15, Resolve, Clock DEF builderVars
<1> QED
  BY <1>1, <1>2, <1>3 DEF ResolveCategory

LEMMA ResolveTypeStep ==
  ASSUME IInv, BuilderInv, NEW e \in Editors, ResolveType(e)
  PROVE  BuilderInv'
<1>1. PICK x : x = edit[e] /\ Request(x) /\ x.pc = "type"
  BY DEF ResolveType, BuilderInv, RequestInv, Asking
<1>2. CASE Looks(e, "type", Idle)
  BY <1>2, Looked, Resolve, Clock DEF builderVars
<1>3. ASSUME NEW t \in Called(x.next.type, nodeTypes), Belongs(t, x.next),
             Looks(e, "type",
                   [x EXCEPT !.pc = "definition", !.next.type = nodeTypes[t].key,
                             !.seen.type = t, !.seen.typeAt = edits])
      PROVE  BuilderInv'
  <2>0. PICK to, key, now : /\ key = nodeTypes[t].key /\ now = edits
                            /\ to = [x EXCEPT !.pc = "definition", !.next.type = key,
                                              !.seen.type = t, !.seen.typeAt = now]
    OBVIOUS
  <2>1. edits' = now + 1 /\ edit' = [edit EXCEPT ![e] = to] /\ UNCHANGED builderVars
    BY <1>3, <2>0, Looked
  <2>2. PICK next, seen, id : next = to.next /\ seen = to.seen /\ id = x.id
    OBVIOUS
  <2>3. /\ x.next = [f \in AssetFields |-> x.next[f]]
        /\ x.seen = [f \in SeenFields |-> x.seen[f]]
        /\ x = [f \in {"pc", "id", "next", "body", "read", "seen"} |-> x[f]]
    BY <1>1 DEF Request, DefinitionGood, SeenGood
  <2>4. /\ to = [f \in {"pc", "id", "next", "body", "read", "seen"} |-> to[f]]
        /\ to.pc = "definition" /\ to.id = id /\ to.body = x.body /\ to.read = x.read
        /\ next = [x.next EXCEPT !.type = key]
        /\ seen = [x.seen EXCEPT !.type = t, !.typeAt = now]
    BY <2>0, <2>2, <2>3
  <2>5. /\ next = [f \in AssetFields |-> next[f]] /\ next.type = key
        /\ \A f \in AssetFields : f # "type" => next[f] = x.next[f]
    BY <2>3, <2>4 DEF AssetFields
  <2>6. /\ seen = [f \in SeenFields |-> seen[f]] /\ seen.category = x.seen.category
        /\ seen.at = x.seen.at /\ seen.type = t /\ seen.typeAt = now
        /\ seen.changed = x.seen.changed /\ seen.unused = x.seen.unused
    BY <2>3, <2>4 DEF SeenFields
  <2>7. t \in DOMAIN nodeTypes /\ t \in Nat \ {0} /\ x.next.type \in {key, nodeTypes[t].slug}
    BY <1>3, <2>0 DEF Called, BuilderInv, BuilderShape
  <2>8. DefinitionGood(next)'
    BY <1>1, <2>5 DEF Request, DefinitionGood, AssetFields
  <2>9. SeenGood(seen)'
    BY <1>1, <2>0, <2>1, <2>6, <2>7, Clock DEF Request, SeenGood, SeenFields
  <2>10. seen.category # 0 /\ CategoryGood(next, seen)'
    <3>1. next.category = x.next.category
      BY <2>5 DEF AssetFields
    <3> QED
      BY <1>1, <2>1, <2>6, <3>1 DEF Request, CategoryGood, builderVars
  <2>11. TypeGood(next, seen)' /\ seen.type \in DOMAIN nodeTypes'
    <3>1. next.category = nodeTypes[t].category
      BY <1>3, <2>5 DEF Belongs, AssetFields
    <3> QED
      BY <2>0, <2>1, <2>5, <2>6, <2>7, <3>1 DEF TypeGood, builderVars
  <2>12. ASSUME id # 0
         PROVE  /\ id \in DOMAIN definitions'
                /\ \/ to.read < past'.definition[id].changed
                   \/ \A field \in AssetFields : Faithful(to, field)'
    <3>1. /\ id \in DOMAIN definitions
          /\ \/ x.read < past.definition[id].changed
             \/ \A field \in AssetFields : Faithful(x, field)
      BY <1>1, <2>2, <2>12 DEF Request
    <3>2. ASSUME NEW field \in AssetFields, Faithful(x, field) PROVE Faithful(to, field)'
      <4>1. CASE field # "type"
        <5>1. to.next[field] = x.next[field] /\ to.next.provider = x.next.provider
          BY <2>2, <2>5, <4>1 DEF AssetFields
        <5>2. to.seen.category = x.seen.category
          BY <2>2, <2>6
        <5> QED
          BY <1>1, <2>1, <2>2, <2>4, <3>2, <4>1, <5>1, <5>2 DEF Faithful, builderVars
      <4>2. CASE field = "type"
        <5>1. x.next.type = definitions[id].type \/ "type" \in x.body
          BY <1>1, <2>2, <3>2, <4>2 DEF Faithful
        <5> QED
          BY <2>0, <2>1, <2>2, <2>4, <2>6, <2>7, <4>2, <5>1 DEF Faithful, builderVars
      <4> QED
        BY <4>1, <4>2
    <3> QED
      BY <2>1, <2>4, <3>1, <3>2 DEF builderVars
  <2>13. to.read \in Nat /\ to.read < edits'
    BY <1>1, <2>0, <2>1, <2>4, Clock DEF Request
  <2>14. Request(to)'
    BY <2>2, <2>4, <2>8, <2>9, <2>10, <2>11, <2>12, <2>13 DEF Request
  <2> QED
    BY <2>0, <2>1, <2>14, Resolve, Clock DEF builderVars
<1> QED
  BY <1>1, <1>2, <1>3 DEF ResolveType

\* A definition is added or written, by a request that ends or at once.
LEMMA DefinitionWritten ==
  ASSUME IInv, BuilderInv, edits' = edits + 1, UNCHANGED <<categories, nodeTypes, reports, versions>>,
         NEW id, id \in DOMAIN definitions \/ id = Fresh(definitions),
         DOMAIN definitions' = DOMAIN definitions \cup {id},
         \A d \in DOMAIN definitions \ {id} : definitions'[d] = definitions[d],
         NEW known, known = [d \in DOMAIN definitions \cup {id} |-> known[d]],
         past' = [past EXCEPT !.definition = known],
         \A d \in DOMAIN definitions \ {id} : known[d] = past.definition[d],
         id \in DOMAIN definitions => known[id].changed = edits,
         DefinitionInv(id)',
         \A e \in Editors : Asking(e)' => edit'[e] = edit[e]
  PROVE  BuilderInv'
<1>1. PICK n \in Nat : DOMAIN definitions = 1..n
  BY DEF BuilderInv, BuilderShape
<1>2. past = [f \in PastFields |-> past[f]]
  BY DEF BuilderInv, BuilderShape
<1>3. /\ past' = [f \in PastFields |-> past'[f]]
      /\ past'.category = past.category /\ past'.type = past.type /\ past'.report = past.report
      /\ past'.definition = known
  BY <1>2 DEF PastFields
<1>4. \E m \in Nat : DOMAIN definitions' = 1..m
  BY <1>1, FreshId
<1>5. BuilderShape'
  BY <1>3, <1>4 DEF BuilderInv, BuilderShape, Dated
<1>6. DocsDated
  BY <1>3, Clock DEF DocsDated, CategoriesDated, NodeTypesDated, DefinitionsDated
<1>7. \A d \in DOMAIN definitions' : DefinitionSame(d) \/ DefinitionInv(d)'
  BY <1>3 DEF DefinitionSame
<1> QED
  BY <1>5, <1>6, <1>7, BuilderStep

LEMMA WriteDefinitionStep ==
  ASSUME IInv, BuilderInv, NEW e \in Editors, WriteDefinition(e)
  PROVE  BuilderInv'
<1>1. PICK x : x = edit[e] /\ Request(x) /\ x.pc = "definition"
  BY DEF WriteDefinition, BuilderInv, RequestInv, Asking
<1>2. PICK id, def, seen, now : /\ id = IF x.id = 0 THEN Fresh(definitions) ELSE x.id
                                /\ def = x.next /\ now = edits /\ seen = [x.seen EXCEPT !.changed = now]
  OBVIOUS
<1>3. /\ edits' = edits + 1 /\ edit' = [edit EXCEPT ![e] = Idle]
      /\ definitions' = Add(definitions, id, def)
      /\ past' = [past EXCEPT !.definition = Add(@, id, seen)]
      /\ UNCHANGED <<categories, nodeTypes, reports, versions>>
  BY <1>1, <1>2 DEF WriteDefinition, Writes, Step
<1>4. /\ seen = [f \in SeenFields |-> seen[f]] /\ seen.changed = now
      /\ \A f \in SeenFields : f # "changed" => seen[f] = x.seen[f]
  BY <1>1, <1>2 DEF Request, SeenGood, SeenFields
<1>5. SeenGood(seen)'
  BY <1>1, <1>2, <1>3, <1>4, Clock DEF Request, SeenGood, SeenFields
<1>6. seen.category = x.seen.category /\ seen.type = x.seen.type
      /\ seen.at = x.seen.at /\ seen.typeAt = x.seen.typeAt
  BY <1>4 DEF SeenFields
<1>7. PICK n \in Nat : DOMAIN definitions = 1..n
  BY DEF BuilderInv, BuilderShape
<1>8. past'.category = past.category /\ past'.type = past.type /\ past'.definition = Add(past.definition, id, seen)
  BY <1>3 DEF BuilderInv, BuilderShape, PastFields
<1>9. CategoryGood(def, seen)' /\ TypeGood(def, seen)' /\ DefinitionGood(def)
  <2>1. CategoryGood(def, x.seen) /\ TypeGood(def, x.seen) /\ DefinitionGood(def)
    BY <1>1, <1>2 DEF Request
  <2>2. CategoryGood(def, seen)'
    BY <1>3, <1>6, <1>8, <2>1 DEF CategoryGood
  <2>3. TypeGood(def, seen)'
    BY <1>3, <1>6, <1>8, <2>1 DEF TypeGood
  <2> QED
    BY <2>1, <2>2, <2>3
<1>10. definitions'[id] = def /\ past'.definition[id] = seen
  BY <1>3, <1>8 DEF Add
<1>11. DefinitionInv(id)'
  <2>1. DefinitionGood(def)'
    BY <1>9 DEF DefinitionGood
  <2> QED
    BY <1>5, <1>9, <1>10, <2>1 DEF DefinitionInv, DefinitionGood
<1>12. \A f \in Editors : Asking(f)' => edit'[f] = edit[f]
  <2>1. edit' = [f \in Editors |-> IF f = e THEN Idle ELSE edit[f]]
    BY <1>3, Clock
  <2> QED
    BY <2>1 DEF Asking, Idle
<1>13. id \in DOMAIN definitions \/ id = Fresh(definitions)
  BY <1>1, <1>2 DEF Request
<1>14. PICK known : known = Add(past.definition, id, seen)
  OBVIOUS
<1>15. /\ known = [d \in DOMAIN definitions \cup {id} |-> known[d]] /\ known[id].changed = edits
       /\ \A d \in DOMAIN definitions \ {id} : known[d] = past.definition[d]
  <2>1. DOMAIN past.definition = DOMAIN definitions
    BY DEF BuilderInv, BuilderShape
  <2> QED
    BY <1>2, <1>4, <1>14, <2>1 DEF Add
<1>16. /\ DOMAIN definitions' = DOMAIN definitions \cup {id}
       /\ \A d \in DOMAIN definitions \ {id} : definitions'[d] = definitions[d]
       /\ past' = [past EXCEPT !.definition = known]
  BY <1>3, <1>14 DEF Add
<1> QED
  BY <1>3, <1>11, <1>12, <1>13, <1>15, <1>16, DefinitionWritten

LEMMA CreateAssetStep ==
  ASSUME IInv, BuilderInv, CreateAsset, UNCHANGED edit
  PROVE  BuilderInv'
<1>1. PICK dto, id, seen :
        /\ dto \in NewDefinitions
        /\ AtOnce /\ id = Fresh(definitions) /\ seen = Unseen
        /\ definitions' = Add(definitions, id, dto)
        /\ past' = [past EXCEPT !.definition = Add(@, id, seen)]
        /\ UNCHANGED <<categories, nodeTypes, reports, versions>>
  BY DEF CreateAsset
<1>2. edits' = edits + 1
  BY <1>1 DEF AtOnce
<1>3. SeenGood(seen)'
  <2>1. SeenGood(seen)
    BY <1>1, UnseenIsGood, Clock
  <2> QED
    BY <1>2, <2>1, SeenStays, Clock
<1>4. id \notin DOMAIN definitions
  BY <1>1, FreshId DEF BuilderInv, BuilderShape
<1>5. DefinitionInv(id)'
  <2>1. definitions'[id] = dto /\ dto = [f \in AssetFields |-> dto[f]]
    BY <1>1, BuilderAssumption DEF Add, BuilderAssumption
  <2>2. past'.definition[id] = seen /\ seen.category = 0
    BY <1>1 DEF Add, Unseen, BuilderInv, BuilderShape, PastFields
  <2> QED
    BY <1>3, <2>1, <2>2 DEF DefinitionInv
<1>6. PICK known : known = Add(past.definition, id, seen)
  OBVIOUS
<1>7. /\ known = [d \in DOMAIN definitions \cup {id} |-> known[d]]
      /\ \A d \in DOMAIN definitions \ {id} : known[d] = past.definition[d]
  <2>1. DOMAIN past.definition = DOMAIN definitions
    BY DEF BuilderInv, BuilderShape
  <2> QED
    BY <1>6, <2>1 DEF Add
<1>8. /\ DOMAIN definitions' = DOMAIN definitions \cup {id}
      /\ \A d \in DOMAIN definitions \ {id} : definitions'[d] = definitions[d]
      /\ past' = [past EXCEPT !.definition = known]
  BY <1>1, <1>6 DEF Add
<1>9. \A e \in Editors : Asking(e)' => edit'[e] = edit[e]
  OBVIOUS
<1> QED
  BY <1>1, <1>2, <1>4, <1>5, <1>7, <1>8, <1>9, DefinitionWritten

LEMMA UpdateAssetStep ==
  ASSUME IInv, BuilderInv, UpdateAsset
  PROVE  BuilderInv'
<1>0. PICK d \in DOMAIN definitions, dto \in AssetChanges :
        /\ AtOnce
        /\ definitions' = [definitions EXCEPT ![d] = Merged(dto, @)]
        /\ past' = [past EXCEPT !.definition[d] = Overwritten(@, DOMAIN dto)]
        /\ UNCHANGED <<categories, nodeTypes, reports, versions>>
  BY DEF UpdateAsset
<1>1. PICK now, def, old : now = edits /\ def = Merged(dto, definitions[d]) /\ old = past.definition[d]
  OBVIOUS
<1>2. PICK u, k : /\ u = (IF "status" \in DOMAIN dto THEN 0 ELSE old.unused)
                  /\ k = (IF DOMAIN dto \subseteq {"status"} THEN old.category ELSE 0)
  OBVIOUS
<1>3. PICK seen : seen = [old EXCEPT !.changed = now, !.unused = u, !.category = k]
  OBVIOUS
<1>4. /\ now = edits
      /\ u = (IF "status" \in DOMAIN dto THEN 0 ELSE past.definition[d].unused)
      /\ k = (IF DOMAIN dto \subseteq {"status"} THEN past.definition[d].category ELSE 0)
      /\ def = Merged(dto, definitions[d]) /\ old = past.definition[d]
      /\ seen = [old EXCEPT !.changed = now, !.unused = u, !.category = k]
  BY <1>1, <1>2, <1>3
<1>5. seen = Overwritten(old, DOMAIN dto)
  BY <1>1, <1>2, <1>3 DEF Overwritten
<1>6. edits' = edits + 1 /\ UNCHANGED edit
  BY <1>0 DEF AtOnce
<1>7. PICK before : /\ before = definitions[d] /\ SeenGood(old) /\ before = [f \in AssetFields |-> before[f]]
                    /\ old.category # 0 => /\ CategoryGood(before, old) /\ TypeGood(before, old)
                                           /\ DefinitionGood(before)
  BY <1>4 DEF BuilderInv, DefinitionInv
<1>8. /\ seen = [f \in SeenFields |-> seen[f]] /\ seen.changed = now /\ seen.unused = u /\ seen.category = k
      /\ seen.at = old.at /\ seen.type = old.type /\ seen.typeAt = old.typeAt
  BY <1>4, <1>7 DEF SeenGood, SeenFields
<1>9. u \in Nat /\ u < edits /\ k \in Nat
  BY <1>4, <1>7, Clock DEF SeenGood, SeenFields
<1>10. SeenGood(seen)'
  <2>1. /\ old.at \in Nat /\ old.type \in Nat /\ old.typeAt \in Nat
        /\ old.at < edits /\ old.typeAt < edits
    BY <1>7 DEF SeenGood, SeenFields
  <2>2. \A f \in SeenFields : seen[f] \in Nat
    BY <1>4, <1>8, <1>9, <2>1, Clock DEF SeenFields
  <2>3. edits' \in Nat /\ edits < edits' /\ seen.unused < edits /\ seen.changed < edits'
    <3>1. edits' = edits + 1 /\ now = edits /\ edits \in Nat
      BY <1>6, <1>1, Clock
    <3>2. seen.unused = u /\ seen.changed = now
      BY <1>8
    <3> QED
      BY <1>9, <3>1, <3>2
  <2>4. seen.at < edits' /\ seen.typeAt < edits' /\ seen.unused < edits'
    BY <1>8, <1>9, <2>1, <2>3, Clock
  <2> QED
    BY <1>8, <2>2, <2>3, <2>4 DEF SeenGood
<1>11. /\ def = [f \in AssetFields |-> def[f]]
       /\ k # 0 => k = old.category /\ \A f \in AssetFields : f # "status" => def[f] = before[f]
  BY <1>4, <1>7 DEF Merged
<1>12. /\ past'.category = past.category /\ past'.type = past.type
       /\ past'.definition = [past.definition EXCEPT ![d] = seen]
  <2>1. past = [f \in PastFields |-> past[f]]
    BY DEF BuilderInv, BuilderShape
  <2>2. past' = [past EXCEPT !.definition[d] = seen]
    BY <1>0, <1>4, <1>5
  <2> QED
    BY <2>1, <2>2 DEF PastFields
<1>13. ASSUME k # 0
       PROVE  CategoryGood(def, seen)' /\ TypeGood(def, seen)' /\ DefinitionGood(def)'
  <2>1. def.category = before.category /\ def.type = before.type
        /\ def.provider = before.provider /\ def.ports = before.ports
    BY <1>11, <1>13 DEF AssetFields
  <2>2. CategoryGood(before, old) /\ TypeGood(before, old) /\ DefinitionGood(before)
    BY <1>7, <1>11, <1>13
  <2>3. CategoryGood(def, seen)'
    BY <1>0, <1>8, <1>11, <1>12, <1>13, <2>1, <2>2 DEF CategoryGood
  <2>4. TypeGood(def, seen)'
    BY <1>0, <1>8, <1>12, <2>1, <2>2 DEF TypeGood
  <2>5. DefinitionGood(def)'
    BY <1>11, <2>1, <2>2 DEF DefinitionGood
  <2> QED
    BY <2>3, <2>4, <2>5
<1>14. past.definition = [i \in DOMAIN definitions |-> past.definition[i]]
  BY DEF BuilderInv, BuilderShape
<1>15. definitions'[d] = def /\ past'.definition[d] = seen
  BY <1>0, <1>4, <1>12, <1>14
<1>16. DefinitionInv(d)'
  BY <1>8, <1>10, <1>11, <1>13, <1>15 DEF DefinitionInv
<1>17. PICK known : known = [past.definition EXCEPT ![d] = seen]
  OBVIOUS
<1>18. /\ known = [i \in DOMAIN definitions \cup {d} |-> known[i]] /\ known[d].changed = edits
       /\ \A i \in DOMAIN definitions \ {d} : known[i] = past.definition[i]
  <2>1. DOMAIN known = DOMAIN definitions /\ known[d] = seen
    BY <1>14, <1>17
  <2>2. known = [i \in DOMAIN definitions |-> known[i]]
    BY <1>17, <1>14
  <2>3. seen.changed = edits
    BY <1>4, <1>8
  <2>4. DOMAIN definitions \cup {d} = DOMAIN definitions
    OBVIOUS
  <2> QED
    BY <1>14, <1>17, <2>1, <2>2, <2>3, <2>4
<1>19. /\ DOMAIN definitions' = DOMAIN definitions \cup {d}
       /\ \A i \in DOMAIN definitions \ {d} : definitions'[i] = definitions[i]
  BY <1>0
<1>20. past' = [past EXCEPT !.definition = known]
  BY <1>0, <1>4, <1>17, <1>5
<1>21. \A e \in Editors : Asking(e)' => edit'[e] = edit[e]
  BY <1>6
<1> QED
  BY <1>0, <1>6, <1>16, <1>18, <1>19, <1>20, <1>21, DefinitionWritten

(***************************************************************************)
(* Categories, node types, and the steps of others.                        *)
(***************************************************************************)
LEMMA CreateNodeTypeStep ==
  ASSUME IInv, BuilderInv, CreateNodeType
  PROVE  BuilderInv'
<1>1. PICK doc, t :
        /\ doc \in NewNodeTypes
        /\ t = Fresh(nodeTypes) /\ AtOnce
        /\ nodeTypes' = Add(nodeTypes, t, doc)
        /\ past' = [past EXCEPT !.type = Add(@, t, edits)]
        /\ UNCHANGED <<categories, definitions, reports, versions>>
  BY DEF CreateNodeType
<1>2. edits' = edits + 1 /\ UNCHANGED edit
  BY <1>1 DEF AtOnce
<1>3. PICK n \in Nat : DOMAIN nodeTypes = 1..n
  BY DEF BuilderInv, BuilderShape
<1>4. t \notin DOMAIN nodeTypes /\ DOMAIN nodeTypes \cup {t} = 1..(n + 1)
  BY <1>1, <1>3, FreshId
<1>5. /\ past' = [f \in PastFields |-> past'[f]]
      /\ past'.category = past.category /\ past'.report = past.report
      /\ past'.definition = past.definition /\ past'.type = Add(past.type, t, edits)
  <2>1. past = [f \in PastFields |-> past[f]]
    BY DEF BuilderInv, BuilderShape
  <2> QED
    BY <1>1, <2>1 DEF PastFields
<1>6. /\ DOMAIN nodeTypes' = 1..(n + 1) /\ Dated(past.type, nodeTypes)'
      /\ \A i \in DOMAIN nodeTypes : nodeTypes'[i] = nodeTypes[i] /\ past'.type[i] = past.type[i]
  <2>1. Dated(past.type, nodeTypes)
    BY DEF BuilderInv, BuilderShape
  <2> QED
    BY <1>1, <1>4, <1>5, <2>1, Clock DEF Add, Dated
<1>7. BuilderShape'
  <2>1. \E m \in Nat : DOMAIN nodeTypes' = 1..m
    BY <1>6
  <2> QED
    BY <1>1, <1>5, <1>6, <2>1 DEF BuilderInv, BuilderShape, Dated
<1>8. DocsDated
  BY <1>1, <1>2, <1>3, <1>4, <1>5, <1>6, Clock DEF DocsDated, CategoriesDated, NodeTypesDated, DefinitionsDated
<1>9. \A d \in DOMAIN definitions' : DefinitionSame(d)
  BY <1>1, <1>5 DEF DefinitionSame
<1> QED
  BY <1>2, <1>7, <1>8, <1>9, BuilderStep

LEMMA UpdateNodeTypeStep ==
  ASSUME IInv, BuilderInv, UpdateNodeType
  PROVE  BuilderInv'
<1>1. PICK t, new :
        /\ t \in DOMAIN nodeTypes
        /\ AtOnce
        /\ nodeTypes' = [nodeTypes EXCEPT ![t] = new]
        /\ past' = [past EXCEPT !.type[t] = edits]
        /\ UNCHANGED <<categories, definitions, reports, versions>>
  BY DEF UpdateNodeType
<1>2. edits' = edits + 1 /\ UNCHANGED edit
  BY <1>1 DEF AtOnce
<1>3. /\ past' = [f \in PastFields |-> past'[f]]
      /\ past'.category = past.category /\ past'.report = past.report
      /\ past'.definition = past.definition /\ past'.type = [past.type EXCEPT ![t] = edits]
  <2>1. past = [f \in PastFields |-> past[f]]
    BY DEF BuilderInv, BuilderShape
  <2> QED
    BY <1>1, <2>1 DEF PastFields
<1>4. /\ DOMAIN nodeTypes' = DOMAIN nodeTypes /\ Dated(past.type, nodeTypes)' /\ past'.type[t] = edits
      /\ \A i \in DOMAIN nodeTypes \ {t} : nodeTypes'[i] = nodeTypes[i] /\ past'.type[i] = past.type[i]
  <2>1. Dated(past.type, nodeTypes)
    BY DEF BuilderInv, BuilderShape
  <2> QED
    BY <1>1, <1>3, <2>1, Clock DEF Dated
<1>5. BuilderShape'
  BY <1>1, <1>3, <1>4 DEF BuilderInv, BuilderShape, Dated
<1>6. DocsDated
  BY <1>1, <1>2, <1>3, <1>4, Clock DEF DocsDated, CategoriesDated, NodeTypesDated, DefinitionsDated
<1>7. \A d \in DOMAIN definitions' : DefinitionSame(d)
  BY <1>1, <1>3 DEF DefinitionSame
<1> QED
  BY <1>2, <1>5, <1>6, <1>7, BuilderStep

LEMMA UpdateCategoryStep ==
  ASSUME IInv, BuilderInv, UpdateCategory
  PROVE  BuilderInv'
<1>1. PICK c, new :
        /\ c \in DOMAIN categories
        /\ AtOnce
        /\ categories' = [categories EXCEPT ![c] = new]
        /\ past' = [past EXCEPT !.category[c] = edits]
        /\ UNCHANGED <<nodeTypes, definitions, reports, versions>>
  BY DEF UpdateCategory
<1>2. edits' = edits + 1 /\ UNCHANGED edit
  BY <1>1 DEF AtOnce
<1>3. /\ past' = [f \in PastFields |-> past'[f]]
      /\ past'.type = past.type /\ past'.report = past.report
      /\ past'.definition = past.definition /\ past'.category = [past.category EXCEPT ![c] = edits]
  <2>1. past = [f \in PastFields |-> past[f]]
    BY DEF BuilderInv, BuilderShape
  <2> QED
    BY <1>1, <2>1 DEF PastFields
<1>4. /\ DOMAIN categories' = DOMAIN categories /\ Dated(past.category, categories)' /\ past'.category[c] = edits
      /\ \A i \in DOMAIN categories \ {c} : categories'[i] = categories[i] /\ past'.category[i] = past.category[i]
  <2>1. Dated(past.category, categories)
    BY DEF BuilderInv, BuilderShape
  <2> QED
    BY <1>1, <1>3, <2>1, Clock DEF Dated
<1>5. BuilderShape'
  BY <1>1, <1>3, <1>4 DEF BuilderInv, BuilderShape, Dated
<1>6. DocsDated
  BY <1>1, <1>2, <1>3, <1>4, Clock DEF DocsDated, CategoriesDated, NodeTypesDated, DefinitionsDated
<1>7. \A d \in DOMAIN definitions' : DefinitionSame(d)
  BY <1>1, <1>3 DEF DefinitionSame
<1> QED
  BY <1>2, <1>5, <1>6, <1>7, BuilderStep

\* A step of an editor that leaves the requests for definitions alone.
Turns(pcs) ==
  /\ edits' = edits + 1
  /\ \/ edit' = edit
     \/ \E e \in Editors : \E to : Among(to, pcs) /\ edit' = [edit EXCEPT ![e] = to]

LEMMA TurnsFrom ==
  ASSUME NEW e \in Editors, NEW from, NEW to, NEW pcs, Among(to, pcs),
         \/ Begins(e, to) \/ Continues(e, from, to) \/ Step(e, from, to)
         \/ Starts(e, to) \/ Looks(e, from, to) \/ Writes(e, from, to)
  PROVE  Turns(pcs)
BY DEF Turns, Begins, Continues, Step, Starts, Looks, Writes

LEMMA SourceTurns ==
  ASSUME IInv, SourceNext
  PROVE  Turns(SourcePcs)
<1>1. ASSUME NEW id, Integrate(id) \/ Disintegrate(id) PROVE Turns(SourcePcs)
  BY <1>1 DEF Integrate, Disintegrate, Turns
<1>2. ASSUME NEW e \in Editors,
             \/ CheckProvider(e) \/ CheckCatalogKey(e) \/ CheckImpl(e) \/ Insert(e)
             \/ ReadForUpdate(e) \/ CheckCollision(e) \/ WriteUpdate(e)
             \/ ReadCatalogRow(e) \/ CheckKey(e) \/ WriteCatalogRow(e)
             \/ CountIntegrations(e) \/ ReadForRemoval(e) \/ CountConnections(e) \/ Delete(e)
             \/ Refused(e)
      PROVE  Turns(SourcePcs)
  <2>1. Among(Idle, SourcePcs) /\ "pc" \in DOMAIN edit[e]
    BY DEF Idle, SourcePcs, Among, IInv, EditShape
  <2>2. PICK from, to : Among(to, SourcePcs) /\ (Begins(e, to) \/ Continues(e, from, to) \/ Step(e, from, to))
    <3>1. CASE CheckProvider(e)
      BY <3>1 DEF CheckProvider, Among, SourcePcs
    <3>2. CASE CheckCatalogKey(e)
      <4>1. PICK pc \in {"impl", "insert"} : \E row : Begins(e, [pc |-> pc, row |-> row, checked |-> Unchecked])
        BY <3>2 DEF CheckCatalogKey
      <4>2. \A row : Among([pc |-> pc, row |-> row, checked |-> Unchecked], SourcePcs)
        BY <4>1 DEF Among, SourcePcs
      <4> QED
        BY <4>1, <4>2
    <3>3. CASE CheckImpl(e)
      <4>1. Among([edit[e] EXCEPT !.pc = "insert", !.checked = edits], SourcePcs)
        BY <2>1 DEF Among, SourcePcs
      <4> QED
        BY <3>3, <4>1 DEF CheckImpl
    <3>4. CASE Insert(e)
      BY <2>1, <3>4 DEF Insert
    <3>5. CASE ReadForUpdate(e)
      BY <3>5 DEF ReadForUpdate, Among, SourcePcs
    <3>6. CASE CheckCollision(e)
      <4>1. Among([edit[e] EXCEPT !.pc = "write", !.checked = edits], SourcePcs)
        BY <2>1 DEF Among, SourcePcs
      <4> QED
        BY <3>6, <4>1 DEF CheckCollision
    <3>7. CASE WriteUpdate(e)
      BY <2>1, <3>7 DEF WriteUpdate, Write
    <3>8. CASE ReadCatalogRow(e)
      BY <3>8 DEF ReadCatalogRow, Among, SourcePcs
    <3>9. CASE CheckKey(e)
      BY <2>1, <3>9 DEF CheckKey, Among, SourcePcs
    <3>10. CASE WriteCatalogRow(e)
      BY <2>1, <3>10 DEF WriteCatalogRow, Write
    <3>11. CASE CountIntegrations(e)
      BY <3>11 DEF CountIntegrations, Among, SourcePcs
    <3>12. CASE ReadForRemoval(e)
      BY <3>12 DEF ReadForRemoval, Among, SourcePcs
    <3>13. CASE CountConnections(e)
      BY <2>1, <3>13 DEF CountConnections, Among, SourcePcs
    <3>14. CASE Delete(e)
      BY <2>1, <3>14 DEF Delete
    <3>15. CASE Refused(e)
      BY <2>1, <3>15 DEF Refused
    <3> QED
      BY <1>2, <3>1, <3>2, <3>3, <3>4, <3>5, <3>6, <3>7, <3>8, <3>9, <3>10, <3>11, <3>12, <3>13, <3>14, <3>15
  <2> QED
    BY <2>2, TurnsFrom
<1> QED
  BY <1>1, <1>2 DEF SourceNext

OtherTurn == Turns(SourcePcs) \/ Turns(ReportPcs) \/ Turns(TypePcs)

LEMMA NotAsking ==
  ASSUME IInv, OtherTurn
  PROVE  /\ edits' = edits + 1
         /\ \A e \in Editors : Asking(e)' => edit'[e] = edit[e]
<1>1. CASE edit' = edit
  BY <1>1 DEF OtherTurn, Turns
<1>2. ASSUME NEW e \in Editors, NEW to, edit' = [edit EXCEPT ![e] = to],
             Among(to, SourcePcs) \/ Among(to, ReportPcs) \/ Among(to, TypePcs)
      PROVE  \A f \in Editors : Asking(f)' => edit'[f] = edit[f]
  <2>1. edit' = [f \in Editors |-> IF f = e THEN to ELSE edit[f]]
    BY <1>2, Clock
  <2>2. to.pc \notin {"usage", "category", "type", "definition"}
    BY <1>2 DEF Among, SourcePcs, ReportPcs, TypePcs
  <2> QED
    BY <2>1, <2>2 DEF Asking
<1> QED
  BY <1>1, <1>2 DEF OtherTurn, Turns

\* A step of the reports, the sources or the types.
LEMMA OtherStep ==
  ASSUME IInv, BuilderInv, OtherTurn,
         UNCHANGED <<categories, nodeTypes, definitions>>,
         \/ UNCHANGED <<reports, past>>
         \/ \E r, report : /\ reports' = [reports EXCEPT ![r] = report]
                           /\ past' = [past EXCEPT !.report[r] = edits]
  PROVE  BuilderInv'
<1>1. past = [f \in PastFields |-> past[f]] /\ Dated(past.report, reports)
  BY DEF BuilderInv, BuilderShape
<1>2. past' = [past EXCEPT !.report = past'.report] /\ Dated(past.report, reports)'
  <2>1. CASE UNCHANGED <<reports, past>>
    BY <1>1, <2>1 DEF PastFields, Dated
  <2>2. ASSUME NEW r, NEW report, reports' = [reports EXCEPT ![r] = report],
               past' = [past EXCEPT !.report[r] = edits]
        PROVE  past' = [past EXCEPT !.report = past'.report] /\ Dated(past.report, reports)'
    <3>1. past'.report = [past.report EXCEPT ![r] = edits] /\ past' = [past EXCEPT !.report = past'.report]
      BY <1>1, <2>2 DEF PastFields
    <3>2. Dated(past.report, reports)'
      <4>1. PICK times, now : times = past.report /\ now = edits /\ now \in Nat
        BY Clock
      <4>2. past'.report = [times EXCEPT ![r] = now] /\ DOMAIN reports' = DOMAIN reports
        BY <2>2, <3>1, <4>1
      <4>3. times = [i \in DOMAIN reports |-> times[i]] /\ \A i \in DOMAIN reports : times[i] \in Nat
        BY <1>1, <4>1 DEF Dated
      <4> QED
        BY <4>1, <4>2, <4>3 DEF Dated
    <3> QED
      BY <3>1, <3>2
  <2> QED
    BY <2>1, <2>2
<1> QED
  BY <1>2, NotAsking, DocsStay, Clock

LEMMA ReportsTurn ==
  ASSUME IInv, NEW e \in Editors,
         \/ SaveFlow(e) \/ CopyVersion(e) \/ PointDraft(e) \/ WriteFlow(e)
         \/ Publish(e) \/ ReadDraft(e) \/ CheckFlow(e) \/ WriteSnapshot(e) \/ WriteCurrent(e)
         \/ Archive(e) \/ WriteArchived(e)
  PROVE  Turns(ReportPcs)
BY ReportTurns, TurnsFrom

LEMMA TypesTurn ==
  ASSUME IInv, NEW e \in Editors,
         \/ PublishType(e) \/ CheckAttached(e) \/ SavePublished(e)
         \/ UnpublishType(e) \/ SaveUnpublished(e)
         \/ RemoveType(e) \/ CountAnalyses(e) \/ DeleteType(e)
  PROVE  Turns(TypePcs) /\ UNCHANGED builderVars
<1>1. Turns(TypePcs)
  BY TypeTurns, TurnsFrom
<1>2. UNCHANGED builderVars
  <2>1. CASE PublishType(e) \/ UnpublishType(e) \/ RemoveType(e)
    BY <2>1 DEF PublishType, UnpublishType, RemoveType, Asks, Starts
  <2>2. CASE CheckAttached(e) \/ CountAnalyses(e)
    BY <2>2 DEF CheckAttached, CountAnalyses, Sees, Looks
  <2>3. CASE SavePublished(e) \/ SaveUnpublished(e) \/ DeleteType(e)
    BY <2>3 DEF SavePublished, SaveUnpublished, SaveStatus, DeleteType
  <2> QED
    BY <2>1, <2>2, <2>3
<1> QED
  BY <1>1, <1>2

LEMMA ReportsWrite ==
  ASSUME NEW e \in Editors,
         \/ SaveFlow(e) \/ CopyVersion(e) \/ PointDraft(e) \/ WriteFlow(e)
         \/ Publish(e) \/ ReadDraft(e) \/ CheckFlow(e) \/ WriteSnapshot(e) \/ WriteCurrent(e)
         \/ Archive(e) \/ WriteArchived(e)
  PROVE  /\ UNCHANGED <<categories, nodeTypes, definitions>>
         /\ \/ UNCHANGED <<reports, past>>
            \/ \E r, report : /\ reports' = [reports EXCEPT ![r] = report]
                              /\ past' = [past EXCEPT !.report[r] = edits]
<1>1. CASE SaveFlow(e) \/ Publish(e) \/ Archive(e)
  BY <1>1 DEF SaveFlow, Publish, Archive, Starts, builderVars
<1>2. CASE ReadDraft(e) \/ CheckFlow(e)
  BY <1>2 DEF ReadDraft, CheckFlow, Looks, builderVars
<1>3. CASE CopyVersion(e) \/ WriteFlow(e) \/ WriteSnapshot(e)
  BY <1>3 DEF CopyVersion, WriteFlow, WriteSnapshot
<1>4. CASE PointDraft(e) \/ WriteCurrent(e) \/ WriteArchived(e)
  BY <1>4 DEF PointDraft, WriteCurrent, WriteArchived, Reported
<1> QED
  BY <1>1, <1>2, <1>3, <1>4

LEMMA BuilderKept == IInv /\ BuilderInv /\ [Next]_vars => BuilderInv'
<1> SUFFICES ASSUME IInv, BuilderInv, [Next]_vars PROVE BuilderInv'
  OBVIOUS
<1>1. CASE SourceNext /\ UNCHANGED builderVars
  BY <1>1, SourceTurns, OtherStep DEF OtherTurn, builderVars
<1>2. CASE CreateNodeType \/ UpdateNodeType \/ UpdateCategory \/ CreateAsset \/ UpdateAsset
  BY <1>2, CreateNodeTypeStep, UpdateNodeTypeStep, UpdateCategoryStep, CreateAssetStep,
     UpdateAssetStep DEF CreateAsset, AtOnce
<1>3. ASSUME NEW e \in Editors,
             \/ CreateDefinition(e) \/ ReadDefinition(e) \/ Usage(e) \/ ResolveCategory(e)
             \/ ResolveType(e) \/ WriteDefinition(e)
      PROVE  BuilderInv'
  BY <1>3, CreateDefinitionStep, ReadDefinitionStep, UsageStep, ResolveCategoryStep,
     ResolveTypeStep, WriteDefinitionStep DEF CreateDefinition, Starts, builderVars
<1>4. ASSUME NEW e \in Editors,
         \/ SaveFlow(e) \/ CopyVersion(e) \/ PointDraft(e) \/ WriteFlow(e)
         \/ Publish(e) \/ ReadDraft(e) \/ CheckFlow(e) \/ WriteSnapshot(e) \/ WriteCurrent(e)
         \/ Archive(e) \/ WriteArchived(e)
      PROVE  BuilderInv'
  BY <1>4, ReportsTurn, ReportsWrite, OtherStep DEF OtherTurn
<1>5. ASSUME NEW e \in Editors,
         \/ PublishType(e) \/ CheckAttached(e) \/ SavePublished(e)
         \/ UnpublishType(e) \/ SaveUnpublished(e)
         \/ RemoveType(e) \/ CountAnalyses(e) \/ DeleteType(e)
      PROVE  BuilderInv'
  BY <1>5, TypesTurn, OtherStep DEF OtherTurn, builderVars
<1>6. CASE CreateType \/ UpdateType \/ CreateAnalysis \/ TurnAnalysis
  <2>1. AtOnce /\ UNCHANGED builderVars
    BY <1>6 DEF CreateType, UpdateType, CreateAnalysis, TurnAnalysis
  <2>2. OtherTurn
    BY <2>1 DEF OtherTurn, Turns, AtOnce
  <2> QED
    BY <2>1, <2>2, OtherStep DEF builderVars
<1>7. CASE UNCHANGED vars
  <2>1. UNCHANGED <<categories, nodeTypes, definitions, reports, versions, past, edit, edits>>
    BY <1>7 DEF vars, builderVars, sourceVars
  <2>2. BuilderShape'
    BY <2>1 DEF BuilderInv, BuilderShape, Dated
  <2>3. ASSUME NEW d \in DOMAIN definitions' PROVE DefinitionInv(d)'
    <3>1. DefinitionInv(d)
      BY <2>1 DEF BuilderInv
    <3> QED
      BY <2>1, <3>1 DEF DefinitionInv, SeenGood, CategoryGood, TypeGood, DefinitionGood
  <2>4. ASSUME NEW e \in Editors PROVE RequestInv(e)'
    <3>1. RequestInv(e)
      BY DEF BuilderInv
    <3>2. ASSUME NEW x, Request(x) PROVE Request(x)'
      BY <2>1, <3>2 DEF Request, Faithful, SeenGood, CategoryGood, TypeGood, DefinitionGood
    <3> QED
      BY <2>1, <3>1, <3>2 DEF RequestInv, Asking
  <2> QED
    BY <2>2, <2>3, <2>4 DEF BuilderInv
<1> QED
  BY <1>1, <1>2, <1>3, <1>4, <1>5, <1>6, <1>7 DEF Next, BuilderNext

LEMMA BuilderBegun == Init => BuilderInv
<1> SUFFICES ASSUME Init PROVE BuilderInv
  OBVIOUS
<1>1. PICK b \in Builders :
        /\ categories = b.categories /\ nodeTypes = b.nodeTypes
        /\ definitions = b.definitions /\ reports = b.reports /\ versions = b.versions
        /\ past = [category |-> [c \in DOMAIN categories |-> 0],
                   type |-> [t \in DOMAIN nodeTypes |-> 0],
                   report |-> [r \in DOMAIN reports |-> 0],
                   definition |-> [d \in DOMAIN definitions |-> Unseen]]
  BY DEF Init, BuilderInit
<1>2. edits = 1 /\ edit = [e \in Editors |-> Idle]
  BY DEF Init, SourceInit
<1>3. /\ categories \in Seq([key : STRING, slug : STRING])
      /\ nodeTypes \in Seq([key : STRING, slug : STRING, category : STRING])
      /\ definitions \in Seq([AssetFields -> STRING])
  BY <1>1, BuilderAssumption DEF BuilderAssumption
<1>4. /\ DOMAIN nodeTypes = 1..Len(nodeTypes) /\ Len(nodeTypes) \in Nat
      /\ DOMAIN definitions = 1..Len(definitions) /\ Len(definitions) \in Nat
      /\ \A c \in DOMAIN categories : c \in Nat \ {0}
      /\ \A d \in DOMAIN definitions : definitions[d] \in [AssetFields -> STRING]
  BY <1>3
<1>5. BuilderShape
  BY <1>1, <1>4 DEF BuilderShape, Dated, PastFields
<1>6. ASSUME NEW d \in DOMAIN definitions PROVE DefinitionInv(d)
  <2>1. past.definition[d] = Unseen /\ Unseen.category = 0
    BY <1>1 DEF Unseen
  <2>2. SeenGood(Unseen)
    BY <1>2, UnseenIsGood
  <2> QED
    BY <1>4, <2>1, <2>2 DEF DefinitionInv
<1>7. \A e \in Editors : RequestInv(e)
  BY <1>2 DEF RequestInv, Asking, Idle
<1> QED
  BY <1>5, <1>6, <1>7 DEF BuilderInv

LEMMA KeysAndPorts == BuilderInv => KeysBelong /\ PortsMatch
<1> SUFFICES ASSUME BuilderInv, NEW d \in DOMAIN definitions, past.definition[d].category # 0
             PROVE  /\ LET seen == past.definition[d]
                           def == definitions[d]
                       IN /\ def.category = categories[seen.category].key \/ past.category[seen.category] > seen.at
                          /\ def.type # "" =>
                               /\ seen.type # 0
                               /\ \/ /\ def.type = nodeTypes[seen.type].key
                                     /\ def.category = nodeTypes[seen.type].category
                                  \/ past.type[seen.type] > seen.typeAt
                    /\ definitions[d].provider \in DOMAIN Contract =>
                         definitions[d].ports = Contract[definitions[d].provider]
  BY DEF KeysBelong, PortsMatch
<1>1. PICK def, s : /\ def = definitions[d] /\ s = past.definition[d]
                    /\ CategoryGood(def, s) /\ TypeGood(def, s) /\ DefinitionGood(def)
  BY DEF BuilderInv, DefinitionInv
<1> QED
  BY <1>1 DEF CategoryGood, TypeGood, DefinitionGood

\* What a step may change of a definition.
EditExplained(d, field) ==
  \/ edit' = edit
  \/ \E e \in Editors :
       /\ edit[e].pc = "definition" /\ edit[e].id = d
       /\ \/ field \in edit[e].body
          \/ field = "ports" /\ edit[e].next.provider \in DOMAIN Contract
          \/ field = "category" /\ LET c == edit[e].seen.category
                                   IN \/ definitions[d].category \in {categories[c].key, categories[c].slug}
                                      \/ edit[e].read < past.category[c]
          \/ field = "type" /\ LET t == edit[e].seen.type
                               IN t # 0 /\ \/ definitions[d].type \in {nodeTypes[t].key, nodeTypes[t].slug}
                                           \/ edit[e].read < past.type[t]
          \/ edit[e].read < past.definition[d].changed

LEMMA EditsExplained ==
  ASSUME IInv, BuilderInv, [Next]_vars
  PROVE  [\A d \in DOMAIN definitions, field \in AssetFields :
            definitions'[d][field] # definitions[d][field] => EditExplained(d, field)]_definitions
<1> SUFFICES ASSUME NEW d \in DOMAIN definitions, NEW field \in AssetFields,
                    definitions'[d][field] # definitions[d][field]
             PROVE  EditExplained(d, field)
  OBVIOUS
<1>1. CASE edit' = edit
  BY <1>1 DEF EditExplained
<1>2. ASSUME NEW e \in Editors, WriteDefinition(e) PROVE EditExplained(d, field)
  <2>1. PICK x : x = edit[e] /\ Request(x) /\ x.pc = "definition"
    BY <1>2 DEF WriteDefinition, BuilderInv, RequestInv, Asking
  <2>2. PICK id : /\ id = (IF x.id = 0 THEN Fresh(definitions) ELSE x.id)
                  /\ definitions' = Add(definitions, id, x.next)
    BY <1>2, <2>1 DEF WriteDefinition
  <2>3. id = d
    BY <2>2 DEF Add
  <2>4. x.id = d
    <3>1. Fresh(definitions) \notin DOMAIN definitions
      BY FreshId DEF BuilderInv, BuilderShape
    <3> QED
      BY <2>2, <2>3, <3>1
  <2>5. x.next[field] # definitions[d][field]
    BY <2>2, <2>3 DEF Add
  <2>6. d # 0
    BY DEF BuilderInv, BuilderShape
  <2>7. x.read < past.definition[d].changed \/ Faithful(x, field)
    BY <2>1, <2>4, <2>6 DEF Request
  <2> QED
    BY <2>1, <2>4, <2>5, <2>7 DEF EditExplained, Faithful
<1>3. CASE SourceNext /\ UNCHANGED builderVars
  BY <1>3 DEF builderVars
<1>4. CASE CreateNodeType \/ UpdateNodeType \/ UpdateCategory \/ CreateAsset \/ UpdateAsset
  BY <1>4, <1>1 DEF CreateNodeType, UpdateNodeType, UpdateCategory, CreateAsset, UpdateAsset, AtOnce
<1>5. ASSUME NEW e \in Editors,
             \/ CreateDefinition(e) \/ ReadDefinition(e) \/ Usage(e) \/ ResolveCategory(e) \/ ResolveType(e)
      PROVE  EditExplained(d, field)
  BY <1>5 DEF CreateDefinition, ReadDefinition, Usage, ResolveCategory, ResolveType, Starts, Looks, builderVars
<1>6. ASSUME NEW e \in Editors,
         \/ SaveFlow(e) \/ CopyVersion(e) \/ PointDraft(e) \/ WriteFlow(e)
         \/ Publish(e) \/ ReadDraft(e) \/ CheckFlow(e) \/ WriteSnapshot(e) \/ WriteCurrent(e)
         \/ Archive(e) \/ WriteArchived(e)
      PROVE  EditExplained(d, field)
  BY <1>6, ReportsWrite
<1>7. ASSUME NEW e \in Editors,
         \/ PublishType(e) \/ CheckAttached(e) \/ SavePublished(e)
         \/ UnpublishType(e) \/ SaveUnpublished(e)
         \/ RemoveType(e) \/ CountAnalyses(e) \/ DeleteType(e)
      PROVE  EditExplained(d, field)
  BY <1>7, TypesTurn DEF builderVars
<1>8. CASE CreateType \/ UpdateType \/ CreateAnalysis \/ TurnAnalysis
  BY <1>8 DEF CreateType, UpdateType, CreateAnalysis, TurnAnalysis, builderVars
<1>9. CASE UNCHANGED vars
  BY <1>9 DEF vars, builderVars
<1> QED
  BY <1>2, <1>3, <1>4, <1>5, <1>6, <1>7, <1>8, <1>9 DEF Next, BuilderNext

(***************************************************************************)
(* What an update puts back.  The row that it is about to write is the one *)
(* that is there, but for the body, or the row has changed since it was    *)
(* read.                                                                   *)
(***************************************************************************)
Full(row) == row = [f \in Fields |-> row[f]]

RowRequest(x) ==
  /\ x.pc \in {"impl", "insert", "collision", "write"} => Full(x.row)
  /\ x.pc \in {"key", "set"} => x.body = DOMAIN x.dto
  /\ x.pc \in {"collision", "write"} =>
       /\ x.id \in DOMAIN stamp /\ x.read \in Nat /\ x.read < edits
       /\ x.id \in DOMAIN rows =>
            \/ x.read < stamp[x.id].changed
            \/ \A f \in Fields : x.row[f] = rows[x.id][f] \/ f \in x.body

RowsInv ==
  /\ stamp = [i \in DOMAIN stamp |-> stamp[i]] /\ \E n \in Nat : DOMAIN stamp = 1..n
  /\ \A id \in DOMAIN rows : \E row : row = rows[id] /\ Full(row)
  /\ \A e \in Editors : \E x : x = edit[e] /\ RowRequest(x)

\* A row stays, or is new, or gets a date.
RowKept(id) ==
  /\ id \in DOMAIN rows
  /\ rows'[id] = rows[id] /\ stamp'[id] = stamp[id]

RowWritten(id) ==
  /\ id \in DOMAIN stamp => id \in DOMAIN rows
  /\ stamp'[id].changed = edits
  /\ \E row : row = rows'[id] /\ Full(row)

LEMMA RowsStep ==
  ASSUME IInv, RowsInv, edits' = edits + 1,
         stamp' = [i \in DOMAIN stamp' |-> stamp'[i]], \E n \in Nat : DOMAIN stamp' = 1..n,
         DOMAIN stamp \subseteq DOMAIN stamp',
         \A id \in DOMAIN rows' : RowKept(id) \/ RowWritten(id),
         \A e \in Editors : edit'[e] = edit[e] \/ \E x : x = edit'[e] /\ RowRequest(x)'
  PROVE  RowsInv'
<1>1. \A id \in DOMAIN rows' : \E row : row = rows'[id] /\ Full(row)
  BY DEF RowsInv, RowKept, RowWritten
<1>2. ASSUME NEW x, RowRequest(x) PROVE RowRequest(x)'
  <2>1. ASSUME NEW id, id = x.id, x.pc \in {"collision", "write"}
        PROVE  /\ id \in DOMAIN stamp' /\ x.read \in Nat /\ x.read < edits'
               /\ id \in DOMAIN rows' =>
                    \/ x.read < stamp'[id].changed
                    \/ \A f \in Fields : x.row[f] = rows'[id][f] \/ f \in x.body
    <3>1. /\ id \in DOMAIN stamp /\ x.read \in Nat /\ x.read < edits
          /\ id \in DOMAIN rows =>
               \/ x.read < stamp[id].changed
               \/ \A f \in Fields : x.row[f] = rows[id][f] \/ f \in x.body
      BY <1>2, <2>1 DEF RowRequest
    <3>2. x.read < edits'
      BY <3>1, Clock
    <3>3. ASSUME id \in DOMAIN rows'
          PROVE  \/ x.read < stamp'[id].changed
                 \/ \A f \in Fields : x.row[f] = rows'[id][f] \/ f \in x.body
      BY <3>1, <3>3 DEF RowKept, RowWritten
    <3> QED
      BY <3>1, <3>2, <3>3
  <2>2. x.pc \in {"impl", "insert", "collision", "write"} => Full(x.row)
    BY <1>2 DEF RowRequest
  <2>3. x.pc \in {"key", "set"} => x.body = DOMAIN x.dto
    BY <1>2 DEF RowRequest
  <2> QED
    BY <2>1, <2>2, <2>3 DEF RowRequest, Full
<1>3. ASSUME NEW e \in Editors PROVE \E x : x = edit'[e] /\ RowRequest(x)'
  BY <1>2 DEF RowsInv
<1>4. RowsInv'
  BY <1>1, <1>3 DEF RowsInv, Full
<1> QED
  BY <1>4

\* An editor goes on and no row is written.
LEMMA RowsTurn ==
  ASSUME IInv, RowsInv, edits' = edits + 1, UNCHANGED stamp,
         DOMAIN rows' \subseteq DOMAIN rows, \A id \in DOMAIN rows' : rows'[id] = rows[id],
         NEW e \in Editors, NEW to, edit' = [edit EXCEPT ![e] = to], RowRequest(to)'
  PROVE  RowsInv'
<1>1. edit' = [f \in Editors |-> IF f = e THEN to ELSE edit[f]]
  BY Clock
<1>2. \A f \in Editors : edit'[f] = edit[f] \/ \E x : x = edit'[f] /\ RowRequest(x)'
  BY <1>1
<1>3. \A id \in DOMAIN rows' : RowKept(id)
  BY DEF RowKept
<1>4. stamp' = [i \in DOMAIN stamp' |-> stamp'[i]] /\ \E n \in Nat : DOMAIN stamp' = 1..n
  BY DEF RowsInv
<1> QED
  BY <1>2, <1>3, <1>4, RowsStep

LEMMA RowsElsewhere ==
  ASSUME IInv, RowsInv, OtherTurn \/ Turns(DefinitionPcs), UNCHANGED <<rows, stamp>>,
         \A e \in Editors : edit'[e] = edit[e]
                            \/ edit'[e].pc \notin {"impl", "insert", "collision", "write", "key", "set"}
  PROVE  RowsInv'
<1>1. edits' = edits + 1
  BY DEF OtherTurn, Turns
<1>2. ASSUME NEW x, x.pc \notin {"impl", "insert", "collision", "write", "key", "set"}
      PROVE  RowRequest(x)'
  BY <1>2 DEF RowRequest
<1>3. \A id \in DOMAIN rows' : RowKept(id)
  BY DEF RowKept
<1>4. stamp' = [i \in DOMAIN stamp' |-> stamp'[i]] /\ \E n \in Nat : DOMAIN stamp' = 1..n
  BY DEF RowsInv
<1> QED
  BY <1>1, <1>2, <1>3, <1>4, RowsStep

\* The numbers of rows.
LEMMA NextId ==
  ASSUME RowsInv, NEW n \in Nat, DOMAIN stamp = 1..n
  PROVE  Born = n
<1>1. CASE n = 0
  <2>1. stamp = <<>>
    <3>1. stamp \in [1..0 -> {}]
      BY <1>1 DEF RowsInv
    <3>2. stamp \in Seq({})
      BY <3>1, SeqDef
    <3>3. Len(stamp) = 0
      BY <3>1, <3>2, LenProperties
    <3> QED
      BY <3>2, <3>3, EmptySeq
  <2> QED
    BY <1>1, <2>1 DEF Born
<1>2. CASE n # 0
  <2>1. n \in DOMAIN stamp /\ \A i \in DOMAIN stamp : i <= n
    BY <1>2
  <2>2. stamp # <<>>
    BY <2>1
  <2>3. \A m \in DOMAIN stamp : (\A i \in DOMAIN stamp : i <= m) => m = n
    BY <2>1
  <2> QED
    BY <2>1, <2>2, <2>3 DEF Born
<1> QED
  BY <1>1, <1>2

LEMMA MergedFull ==
  ASSUME NEW row, Full(row), NEW dto
  PROVE  /\ Full(Merged(dto, row))
         /\ \A f \in Fields : f \notin DOMAIN dto => Merged(dto, row)[f] = row[f]
BY DEF Full, Merged

LEMMA RowIsFull ==
  ASSUME NEW row \in Row
  PROVE  Full(row)
BY DEF Row, Full, Fields

LEMMA RowsInsert ==
  ASSUME IInv, RowsInv, NEW e \in Editors, Insert(e)
  PROVE  RowsInv'
<1>1. PICK x : x = edit[e] /\ RowRequest(x) /\ x.pc = "insert"
  BY DEF RowsInv, Insert
<1>2. PICK row : row = x.row /\ Full(row)
  BY <1>1 DEF RowRequest
<1>3. edits' = edits + 1 /\ edit' = [edit EXCEPT ![e] = Idle]
  BY DEF Insert, Step
<1>4. PICK n \in Nat : DOMAIN stamp = 1..n
  BY DEF RowsInv
<1>5. CASE UNCHANGED <<rows, stamp>>
  <2>1. PICK to : to = Idle
    OBVIOUS
  <2>2. RowRequest(to)'
    BY <2>1 DEF RowRequest, Idle
  <2> QED
    BY <1>3, <1>5, <2>1, <2>2, RowsTurn
<1>6. ASSUME NEW id, NEW new, id = n + 1, new.changed = edits,
             rows' = Add(rows, id, row), stamp' = Add(stamp, id, new)
      PROVE  RowsInv'
  <2>1. id \notin DOMAIN stamp /\ DOMAIN rows \subseteq DOMAIN stamp
    BY <1>4, <1>6 DEF IInv, RowShape
  <2>2. stamp' = [i \in DOMAIN stamp' |-> stamp'[i]] /\ DOMAIN stamp' = 1..(n + 1)
    BY <1>4, <1>6 DEF Add
  <2>3. \A r \in DOMAIN rows' : RowKept(r) \/ RowWritten(r)
    BY <1>2, <1>6, <2>1 DEF Add, RowKept, RowWritten
  <2>4. \A f \in Editors : edit'[f] = edit[f] \/ \E y : y = edit'[f] /\ RowRequest(y)'
    <3>1. edit' = [f \in Editors |-> IF f = e THEN Idle ELSE edit[f]]
      BY <1>3, Clock
    <3>2. ASSUME NEW y, y = Idle PROVE RowRequest(y)'
      BY <3>2 DEF RowRequest, Idle
    <3> QED
      BY <3>1, <3>2
  <2>5. DOMAIN stamp \subseteq DOMAIN stamp' /\ \E m \in Nat : DOMAIN stamp' = 1..m
    BY <1>4, <2>2
  <2> QED
    BY <1>3, <2>2, <2>3, <2>4, <2>5, RowsStep
<1>7. Born + 1 = n + 1
  BY <1>4, NextId
<1>8. ASSUME rows' = Add(rows, Born + 1, row),
             stamp' = Add(stamp, Born + 1, Stamp(edits, edits, edit[e].checked, NamesOf(row)))
      PROVE  RowsInv'
  <2>1. PICK new : new = Stamp(edits, edits, edit[e].checked, NamesOf(row))
    OBVIOUS
  <2>2. new.changed = edits
    BY <2>1 DEF Stamp
  <2> QED
    BY <1>6, <1>7, <1>8, <2>1, <2>2
<1> QED
  BY <1>1, <1>2, <1>5, <1>8 DEF Insert

\* An update writes a whole row, if the row is there.
LEMMA RowsWrite ==
  ASSUME IInv, RowsInv, NEW e \in Editors, NEW from, NEW row, Full(row), Write(e, from, row)
  PROVE  RowsInv'
<1>1. edits' = edits + 1 /\ edit' = [edit EXCEPT ![e] = Idle]
  BY DEF Write, Step
<1>2. CASE UNCHANGED <<rows, stamp>>
  <2>1. PICK to : to = Idle
    OBVIOUS
  <2>2. RowRequest(to)'
    BY <2>1 DEF RowRequest, Idle
  <2> QED
    BY <1>1, <1>2, <2>1, <2>2, RowsTurn
<1>3. ASSUME NEW id \in DOMAIN rows, NEW new, new.changed = edits,
             rows' = [rows EXCEPT ![id] = row], stamp' = [stamp EXCEPT ![id] = new]
      PROVE  RowsInv'
  <2>1. id \in DOMAIN stamp
    BY DEF IInv, RowShape
  <2>2. \A r \in DOMAIN rows' : RowKept(r) \/ RowWritten(r)
    BY <1>3, <2>1 DEF RowKept, RowWritten
  <2>3. \A f \in Editors : edit'[f] = edit[f] \/ \E y : y = edit'[f] /\ RowRequest(y)'
    <3>1. edit' = [f \in Editors |-> IF f = e THEN Idle ELSE edit[f]]
      BY <1>1, Clock
    <3>2. ASSUME NEW y, y = Idle PROVE RowRequest(y)'
      BY <3>2 DEF RowRequest, Idle
    <3> QED
      BY <3>1, <3>2
  <2>4. stamp' = [i \in DOMAIN stamp' |-> stamp'[i]] /\ DOMAIN stamp' = DOMAIN stamp
    BY <1>3 DEF RowsInv
  <2>5. \E n \in Nat : DOMAIN stamp' = 1..n
    BY <2>4 DEF RowsInv
  <2> QED
    BY <1>1, <2>2, <2>3, <2>4, <2>5, RowsStep
<1>4. PICK id, same, old, names : /\ id = edit[e].id /\ same = (row.provider = rows[id].provider)
                                  /\ old = stamp[id] /\ names = old.names \cup NamesOf(row)
  OBVIOUS
<1>5. PICK new : new = Stamp(edits, IF same THEN old.named ELSE edits,
                             IF same THEN old.checked ELSE edit[e].checked, names)
  OBVIOUS
<1>6. new.changed = edits
  BY <1>5 DEF Stamp
<1>7. ASSUME id \in DOMAIN rows, rows' = [rows EXCEPT ![id] = row],
             stamp' = [stamp EXCEPT ![id] = new]
      PROVE  RowsInv'
  BY <1>3, <1>6, <1>7
<1> QED
  BY <1>2, <1>4, <1>5, <1>7 DEF Write

LEMMA RowsUpdate ==
  ASSUME IInv, RowsInv, NEW e \in Editors, WriteUpdate(e)
  PROVE  RowsInv'
<1>1. PICK x, now : x = edit[e] /\ RowRequest(x) /\ x.pc = "write" /\ now = rows[x.id]
  BY DEF RowsInv, WriteUpdate
<1>2. PICK row, key, from :
        /\ key = (IF x.row.providerKey = "" THEN now.providerKey ELSE x.row.providerKey)
        /\ from = (IF x.row.catalogSource = "" THEN now.catalogSource ELSE x.row.catalogSource)
        /\ row = [x.row EXCEPT !.oauth = now.oauth, !.providerKey = key, !.catalogSource = from]
  OBVIOUS
<1>3. Full(row)
  BY <1>1, <1>2 DEF RowRequest, Full
<1>4. Write(e, "write", row)
  BY <1>1, <1>2 DEF WriteUpdate
<1> QED
  BY <1>3, <1>4, RowsWrite

LEMMA CatalogRowsFull ==
  ASSUME NEW now, Full(now), NEW dto, NEW slug,
         slug = IF "providerKey" \in DOMAIN dto THEN [providerSlug |-> Dashed[dto.providerKey]] ELSE <<>>
  PROVE  /\ Full(Merged(dto, Merged(slug, now)))
         /\ \A f \in Fields :
              f \notin DOMAIN dto /\ (f = "providerSlug" => "providerKey" \notin DOMAIN dto) =>
                Merged(dto, Merged(slug, now))[f] = now[f]
<1>1. \A f \in Fields : (f = "providerSlug" => "providerKey" \notin DOMAIN dto) => f \notin DOMAIN slug
  OBVIOUS
<1> QED
  BY <1>1, MergedFull

LEMMA RowsCatalogWrite ==
  ASSUME IInv, RowsInv, NEW e \in Editors, WriteCatalogRow(e)
  PROVE  RowsInv'
<1>1. PICK dto, slug, now :
        /\ edit[e].id \in DOMAIN rows /\ now = rows[edit[e].id]
        /\ slug = IF "providerKey" \in DOMAIN dto THEN [providerSlug |-> Dashed[dto.providerKey]] ELSE <<>>
        /\ Write(e, "set", Merged(dto, Merged(slug, now)))
  BY DEF WriteCatalogRow
<1>2. Full(now)
  BY <1>1 DEF RowsInv
<1>3. PICK row : row = Merged(dto, Merged(slug, now))
  OBVIOUS
<1>4. Full(row)
  BY <1>1, <1>2, <1>3, CatalogRowsFull
<1> QED
  BY <1>1, <1>3, <1>4, RowsWrite

LEMMA RowsRead ==
  ASSUME IInv, RowsInv, NEW e \in Editors, ReadForUpdate(e)
  PROVE  RowsInv'
<1>1. PICK id, dto, pc, checked, row :
        /\ id \in DOMAIN rows /\ dto \in Changes /\ pc \in {"collision", "write"}
        /\ row = Merged(dto, rows[id])
        /\ Begins(e, [pc |-> pc, id |-> id, row |-> row, body |-> DOMAIN dto, read |-> edits, checked |-> checked])
  BY DEF ReadForUpdate
<1>2. PICK to : to = [pc |-> pc, id |-> id, row |-> row, body |-> DOMAIN dto, read |-> edits, checked |-> checked]
  OBVIOUS
<1>3. /\ to.pc = pc /\ to.id = id /\ to.row = row /\ to.body = DOMAIN dto /\ to.read = edits
  BY <1>2
<1>4. edits' = edits + 1 /\ edit' = [edit EXCEPT ![e] = to] /\ UNCHANGED <<rows, stamp>>
  BY <1>1, <1>2 DEF Begins
<1>5. Full(row) /\ \A f \in Fields : f \notin DOMAIN dto => row[f] = rows[id][f]
  BY <1>1, MergedFull DEF RowsInv
<1>6. id \in DOMAIN stamp
  BY <1>1 DEF IInv, RowShape
<1>7. RowRequest(to)'
  <2>1. Full(row)'
    BY <1>5 DEF Full
  <2> QED
    BY <1>1, <1>3, <1>4, <1>5, <1>6, <2>1, Clock DEF RowRequest
<1> QED
  BY <1>4, <1>7, RowsTurn

LEMMA RowsContinue ==
  ASSUME IInv, RowsInv, NEW e \in Editors, CheckImpl(e) \/ CheckCollision(e) \/ CheckKey(e)
  PROVE  RowsInv'
<1>1. PICK x, pc, now, to, from :
        /\ x = edit[e] /\ RowRequest(x) /\ now = edits
        /\ to = [x EXCEPT !.pc = pc, !.checked = now] \/ to = [x EXCEPT !.pc = pc]
        /\ \/ x.pc = "impl" /\ pc = "insert"
           \/ x.pc = "collision" /\ pc = "write"
           \/ x.pc = "key" /\ pc = "set"
        /\ Continues(e, from, to)
  <2>1. PICK x : x = edit[e] /\ RowRequest(x)
    BY DEF RowsInv
  <2>2. CASE CheckImpl(e)
    BY <2>1, <2>2 DEF CheckImpl
  <2>3. CASE CheckCollision(e)
    BY <2>1, <2>3 DEF CheckCollision
  <2>4. CASE CheckKey(e)
    BY <2>1, <2>4 DEF CheckKey
  <2> QED
    BY <2>2, <2>3, <2>4
<1>2. edits' = edits + 1 /\ edit' = [edit EXCEPT ![e] = to] /\ UNCHANGED <<rows, stamp>>
  BY <1>1 DEF Continues, Step
<1>3. /\ "pc" \in DOMAIN x
      /\ x.pc = "impl" => "row" \in DOMAIN x
      /\ x.pc = "collision" => {"id", "row", "body", "read"} \subseteq DOMAIN x
      /\ x.pc = "key" => {"body", "dto"} \subseteq DOMAIN x
  BY <1>1 DEF IInv, EditShape, Pending, Writing, Announced, CatalogPending
<1>4. /\ to.pc = pc
      /\ x.pc = "impl" => to.row = x.row
      /\ x.pc = "collision" => to.row = x.row /\ to.id = x.id /\ to.body = x.body /\ to.read = x.read
      /\ x.pc = "key" => to.body = x.body /\ to.dto = x.dto
  BY <1>1, <1>3
<1>5. RowRequest(to)
  BY <1>1, <1>4 DEF RowRequest, Full
<1>6. RowRequest(to)'
  BY <1>2, <1>5, Clock DEF RowRequest, Full
<1> QED
  BY <1>2, <1>6, RowsTurn

LEMMA RowsBegin ==
  ASSUME IInv, RowsInv, NEW e \in Editors,
         \/ CheckProvider(e) \/ CheckCatalogKey(e) \/ ReadCatalogRow(e)
         \/ CountIntegrations(e) \/ ReadForRemoval(e) \/ CountConnections(e) \/ Refused(e)
  PROVE  RowsInv'
<1>1. PICK to, from : /\ Begins(e, to) \/ Continues(e, from, to)
                      /\ \/ to.pc \in {"impl", "insert"} /\ to.row \in Row
                         \/ to.pc \in {"key", "set"} /\ to.body = DOMAIN to.dto
                         \/ to.pc \in {"connections", "delete", "idle"}
  <2>1. CASE CheckProvider(e)
    BY <2>1, CatalogueAssumption DEF CheckProvider, CatalogueAssumption
  <2>2. CASE CheckCatalogKey(e)
    <3>1. PICK dto, pc, row :
            /\ dto \in NewCatalogRows /\ pc \in {"impl", "insert"} /\ row = CatalogRow(dto)
            /\ Begins(e, [pc |-> pc, row |-> row, checked |-> Unchecked])
      BY <2>2 DEF CheckCatalogKey
    <3>2. row \in Row
      BY <3>1, CatalogueAssumption DEF CatalogueAssumption
    <3> QED
      BY <3>1, <3>2
  <2>3. CASE ReadCatalogRow(e)
    <3>1. PICK id \in DOMAIN rows, dto \in CatalogChanges, pc \in {"key", "set"} :
            Begins(e, [pc |-> pc, id |-> id, body |-> DOMAIN dto, dto |-> dto, read |-> edits,
                       checked |-> Unchecked])
      <4>1. PICK id \in DOMAIN rows, dto \in CatalogChanges :
              Begins(e, [pc |-> IF "providerKey" \in DOMAIN dto /\ dto.providerKey # rows[id].providerKey
                                  THEN "key" ELSE "set",
                         id |-> id, body |-> DOMAIN dto, dto |-> dto, read |-> edits, checked |-> Unchecked])
        BY <2>3 DEF ReadCatalogRow
      <4>2. PICK pc \in {"key", "set"} :
              pc = IF "providerKey" \in DOMAIN dto /\ dto.providerKey # rows[id].providerKey
                     THEN "key" ELSE "set"
        OBVIOUS
      <4>3. Begins(e, [pc |-> pc, id |-> id, body |-> DOMAIN dto, dto |-> dto, read |-> edits,
                       checked |-> Unchecked])
        BY <4>1, <4>2
      <4> QED
        BY <4>3
    <3> QED
      BY <3>1
  <2>4. CASE CountIntegrations(e)
    BY <2>4 DEF CountIntegrations
  <2>5. CASE ReadForRemoval(e)
    BY <2>5 DEF ReadForRemoval
  <2>6. CASE CountConnections(e)
    BY <2>6 DEF CountConnections, IInv, EditShape
  <2>7. CASE Refused(e)
    BY <2>7 DEF Refused, Idle
  <2> QED
    BY <2>1, <2>2, <2>3, <2>4, <2>5, <2>6, <2>7
<1>2. edits' = edits + 1 /\ edit' = [edit EXCEPT ![e] = to] /\ UNCHANGED <<rows, stamp>>
  BY <1>1 DEF Begins, Continues, Step
<1>3. RowRequest(to)'
  <2>1. PICK row : row = to.row
    OBVIOUS
  <2>2. row \in Row => Full(row)'
    BY RowIsFull DEF Full
  <2> QED
    BY <1>1, <2>1, <2>2 DEF RowRequest
<1> QED
  BY <1>2, <1>3, RowsTurn

LEMMA RowsKept == IInv /\ RowsInv /\ [Next]_vars => RowsInv'
<1> SUFFICES ASSUME IInv, RowsInv, [Next]_vars PROVE RowsInv'
  OBVIOUS
<1>1. ASSUME NEW e \in Editors, Delete(e) PROVE RowsInv'
  <2>1. PICK to : to = Idle
    OBVIOUS
  <2>2. RowRequest(to)'
    BY <2>1 DEF RowRequest, Idle
  <2> QED
    BY <1>1, <2>1, <2>2, RowsTurn DEF Delete, Step, Without
<1>2. CASE SourceNext
  <2>1. ASSUME NEW id, Integrate(id) \/ Disintegrate(id)
        PROVE  RowsInv'
    <3>1. OtherTurn /\ UNCHANGED <<rows, stamp, edit>>
      BY <2>1 DEF Integrate, Disintegrate, OtherTurn, Turns
    <3> QED
      BY <3>1, RowsElsewhere
  <2> QED
    BY <1>1, <1>2, <2>1, RowsInsert, RowsUpdate, RowsCatalogWrite, RowsRead, RowsContinue, RowsBegin DEF SourceNext
<1>3. ASSUME NEW e \in Editors, NEW from, NEW to, NEW pcs,
             Among(to, pcs), pcs \in {DefinitionPcs, ReportPcs, TypePcs},
             Starts(e, to) \/ Looks(e, from, to) \/ Writes(e, from, to)
      PROVE  RowsInv'
  <2>1. Turns(pcs)
    BY <1>3, TurnsFrom
  <2>2. edit' = [edit EXCEPT ![e] = to] /\ UNCHANGED <<rows, stamp>>
    BY <1>3, Turning DEF Starts, Looks, Writes, Step, sourceDocs
  <2>3. edit' = [f \in Editors |-> IF f = e THEN to ELSE edit[f]]
    BY <2>2, Clock
  <2>4. to.pc \notin {"impl", "insert", "collision", "write", "key", "set"}
    BY <1>3 DEF Among, DefinitionPcs, ReportPcs, TypePcs
  <2> QED
    BY <1>3, <2>1, <2>2, <2>3, <2>4, RowsElsewhere DEF OtherTurn
<1>4. ASSUME AtOnce PROVE RowsInv'
  <2>1. OtherTurn /\ UNCHANGED <<rows, stamp, edit>>
    BY <1>4 DEF AtOnce, sourceDocs, OtherTurn, Turns
  <2> QED
    BY <2>1, RowsElsewhere
<1>5. CASE UNCHANGED vars
  <2>1. UNCHANGED <<rows, stamp, edit, edits>>
    BY <1>5 DEF vars, sourceVars
  <2> QED
    BY <2>1 DEF RowsInv, RowRequest, Full
<1>6. CASE CreateNodeType \/ UpdateNodeType \/ UpdateCategory \/ CreateAsset \/ UpdateAsset
  BY <1>4, <1>6 DEF CreateNodeType, UpdateNodeType, UpdateCategory, CreateAsset, UpdateAsset
<1>7. CASE CreateType \/ UpdateType \/ CreateAnalysis \/ TurnAnalysis
  BY <1>4, <1>7 DEF CreateType, UpdateType, CreateAnalysis, TurnAnalysis
<1> QED
  BY <1>2, <1>3, <1>5, <1>6, <1>7, DefinitionTurns, ReportTurns, TypeTurns DEF Next, BuilderNext

LEMMA RowsBegun == Init => RowsInv
<1> SUFFICES ASSUME Init PROVE RowsInv
  OBVIOUS
<1>1. /\ rows \in Seq(Row) /\ edit = [e \in Editors |-> Idle]
      /\ stamp = [id \in DOMAIN rows |-> Stamp(1, 1, Unchecked, NamesOf(rows[id]))]
  BY CatalogueAssumption DEF Init, SourceInit, CatalogueAssumption
<1>2. /\ DOMAIN rows = 1..Len(rows) /\ Len(rows) \in Nat
      /\ \A id \in DOMAIN rows : rows[id] \in Row
  BY <1>1
<1>3. stamp = [i \in DOMAIN stamp |-> stamp[i]] /\ \E n \in Nat : DOMAIN stamp = 1..n
  BY <1>1, <1>2
<1>4. \A x : x = Idle => RowRequest(x)
  BY DEF Idle, RowRequest
<1>5. \A e \in Editors : \E x : x = edit[e] /\ RowRequest(x)
  BY <1>1, <1>4
<1>6. \A id \in DOMAIN rows : \E row : row = rows[id] /\ Full(row)
  BY <1>2, RowIsFull
<1> QED
  BY <1>3, <1>5, <1>6 DEF RowsInv

\* What a step may change of a row.
RowExplained(id, field) ==
  \E e \in Editors :
    /\ edit[e].pc \in {"write", "set"} /\ edit[e].id = id /\ edit'[e] = Idle
    /\ \/ field \in edit[e].body
       \/ field = "providerSlug" /\ edit[e].pc = "set" /\ "providerKey" \in edit[e].body
       \/ edit[e].pc = "write" /\ edit[e].read < stamp[id].changed

LEMMA RowsExplained ==
  ASSUME IInv, RowsInv, [Next]_vars
  PROVE  [\A id \in DOMAIN rows \cap DOMAIN rows' : \A field \in Fields :
            rows'[id][field] # rows[id][field] => RowExplained(id, field)]_rows
<1> SUFFICES ASSUME NEW id \in DOMAIN rows, id \in DOMAIN rows', NEW field \in Fields,
                    rows'[id][field] # rows[id][field]
             PROVE  RowExplained(id, field)
  OBVIOUS
<1>1. ASSUME NEW e \in Editors, Insert(e) PROVE FALSE
  <2>1. PICK n \in Nat : DOMAIN stamp = 1..n
    BY DEF RowsInv
  <2>2. Born + 1 = n + 1 /\ id \in 1..n
    BY <2>1, NextId DEF IInv, RowShape
  <2> QED
    BY <1>1, <2>2 DEF Insert, Add
<1>2. ASSUME NEW e \in Editors, NEW from, NEW row, Write(e, from, row)
      PROVE  edit[e].id = id /\ edit[e].pc = from /\ edit'[e] = Idle /\ row[field] # rows[id][field]
  BY <1>2, Clock DEF Write, Step
<1>3. ASSUME NEW e \in Editors, WriteUpdate(e) PROVE RowExplained(id, field)
  <2>1. PICK x, now : x = edit[e] /\ RowRequest(x) /\ x.pc = "write" /\ now = rows[x.id]
    BY <1>3 DEF RowsInv, WriteUpdate
  <2>2. PICK row, key, from :
          /\ key = (IF x.row.providerKey = "" THEN now.providerKey ELSE x.row.providerKey)
          /\ from = (IF x.row.catalogSource = "" THEN now.catalogSource ELSE x.row.catalogSource)
          /\ row = [x.row EXCEPT !.oauth = now.oauth, !.providerKey = key, !.catalogSource = from]
    OBVIOUS
  <2>3. Write(e, "write", row)
    BY <1>3, <2>1, <2>2 DEF WriteUpdate
  <2>4. x.id = id /\ edit'[e] = Idle /\ row[field] # now[field]
    BY <1>2, <2>1, <2>3
  <2>5. Full(x.row)
    BY <2>1 DEF RowRequest
  <2>6. row[field] \in {x.row[field], now[field]}
    BY <2>2, <2>5 DEF Full
  <2>7. x.read < stamp[id].changed \/ field \in x.body
    BY <2>1, <2>4, <2>6 DEF RowRequest
  <2> QED
    BY <2>1, <2>4, <2>7 DEF RowExplained
<1>4. ASSUME NEW e \in Editors, WriteCatalogRow(e) PROVE RowExplained(id, field)
  <2>1. PICK x, dto, slug, now :
          /\ x = edit[e] /\ RowRequest(x) /\ x.pc = "set" /\ dto = x.dto
          /\ now = rows[x.id]
          /\ slug = IF "providerKey" \in DOMAIN dto THEN [providerSlug |-> Dashed[dto.providerKey]] ELSE <<>>
          /\ Write(e, "set", Merged(dto, Merged(slug, now)))
    BY <1>4 DEF RowsInv, WriteCatalogRow
  <2>2. PICK row : row = Merged(dto, Merged(slug, now))
    OBVIOUS
  <2>3. x.id = id /\ edit'[e] = Idle /\ row[field] # now[field]
    BY <1>2, <2>1, <2>2
  <2>4. Full(now)
    BY <2>1, <2>3 DEF RowsInv
  <2>5. field \in DOMAIN dto \/ (field = "providerSlug" /\ "providerKey" \in DOMAIN dto)
    BY <2>1, <2>2, <2>3, <2>4, CatalogRowsFull
  <2>6. x.body = DOMAIN dto
    BY <2>1 DEF RowRequest
  <2> QED
    BY <2>1, <2>3, <2>5, <2>6 DEF RowExplained
<1>5. ASSUME NEW e \in Editors, Delete(e) PROVE FALSE
  BY <1>5 DEF Delete, Without
<1>6. ASSUME NEW e \in Editors,
         \/ CheckProvider(e) \/ CheckCatalogKey(e) \/ CheckImpl(e)
         \/ ReadForUpdate(e) \/ CheckCollision(e) \/ ReadCatalogRow(e) \/ CheckKey(e)
         \/ CountIntegrations(e) \/ ReadForRemoval(e) \/ CountConnections(e) \/ Refused(e)
      PROVE FALSE
  BY <1>6 DEF CheckProvider, CheckCatalogKey, CheckImpl, ReadForUpdate, CheckCollision,
    ReadCatalogRow, CheckKey, CountIntegrations, ReadForRemoval, CountConnections, Refused, Begins, Continues
<1>7. ASSUME NEW i, Integrate(i) \/ Disintegrate(i) PROVE FALSE
  BY <1>7 DEF Integrate, Disintegrate
<1>8. CASE SourceNext
  BY <1>1, <1>3, <1>4, <1>5, <1>6, <1>7, <1>8 DEF SourceNext
<1>9. ASSUME NEW e \in Editors, NEW from, NEW to, Starts(e, to) \/ Looks(e, from, to) \/ Writes(e, from, to)
      PROVE  FALSE
  BY <1>9 DEF Starts, Looks, Writes, Begins, Continues, sourceDocs
<1>10. CASE AtOnce
  BY <1>10 DEF AtOnce, sourceDocs
<1>11. CASE CreateNodeType \/ UpdateNodeType \/ UpdateCategory \/ CreateAsset \/ UpdateAsset
  BY <1>10, <1>11 DEF CreateNodeType, UpdateNodeType, UpdateCategory, CreateAsset, UpdateAsset
<1>12. CASE CreateType \/ UpdateType \/ CreateAnalysis \/ TurnAnalysis
  BY <1>10, <1>12 DEF CreateType, UpdateType, CreateAnalysis, TurnAnalysis
<1>13. CASE UNCHANGED vars
  BY <1>13 DEF vars, sourceVars
<1> QED
  BY <1>8, <1>9, <1>11, <1>12, <1>13, DefinitionTurns, ReportTurns, TypeTurns DEF Next, BuilderNext

\* What an edit does not name stays, in both catalogues that write back whole
\* documents, or an edit in between explains it, for any number of editors.
THEOREM UnnamedStays == Spec => EditsKept
<1>1. Init => IInv /\ BuilderInv /\ RowsInv
  BY Begun, BuilderBegun, RowsBegun
<1>2. IInv /\ BuilderInv /\ RowsInv /\ [Next]_vars => IInv' /\ BuilderInv' /\ RowsInv'
  BY Kept, BuilderKept, RowsKept
<1>3. IInv /\ RowsInv /\ [Next]_vars =>
        [\A id \in DOMAIN rows \cap DOMAIN rows' : \A field \in Fields :
            rows'[id][field] # rows[id][field] => RowExplained(id, field)]_rows
  BY RowsExplained
<1>4. IInv /\ BuilderInv /\ [Next]_vars =>
        [\A d \in DOMAIN definitions, field \in AssetFields :
            definitions'[d][field] # definitions[d][field] => EditExplained(d, field)]_definitions
  BY EditsExplained
<1> QED
  BY <1>1, <1>2, <1>3, <1>4, PTL DEF Spec, EditsKept, NothingReverted, DefinitionsKept, RowExplained, EditExplained

(***************************************************************************)
(* Versions.  They name definitions that are there, and one that was found *)
(* to be unused only since then.                                           *)
(***************************************************************************)
VersionFields == {"flow", "flowAt", "snapshot", "snapshotAt"}

VersionInv(v) ==
  \E version :
    /\ version = versions[v] /\ version = [f \in VersionFields |-> version[f]]
    /\ version.flow \subseteq DOMAIN definitions /\ version.snapshot \subseteq DOMAIN definitions

Pointer(v) == v = 0 \/ v \in DOMAIN versions

ReportInv(r) ==
  \E report :
    /\ report = reports[r] /\ report = [f \in {"status", "current", "draft"} |-> report[f]]
    /\ Pointer(report.current) /\ Pointer(report.draft)

\* A request to save a flow or to publish it.
FlowRequest(x) ==
  /\ x.pc \in {"copy", "point", "flow", "check", "snapshot"} =>
       "flow" \in DOMAIN x /\ x.flow \subseteq DOMAIN definitions
  /\ x.pc \in {"point", "flow", "draft", "check", "snapshot", "current"} =>
       "version" \in DOMAIN x /\ x.version \in DOMAIN versions
  /\ x.pc \in {"copy", "point", "flow", "draft", "check", "snapshot", "current", "archive"} =>
       "id" \in DOMAIN x /\ x.id \in DOMAIN reports
  /\ x.pc = "copy" => x.from \in DOMAIN versions /\ "version" \in DOMAIN x

Unreferenced(d, looked) ==
  \A v \in DOMAIN versions :
    /\ d \in versions[v].flow => versions[v].flowAt > looked
    /\ d \in versions[v].snapshot => versions[v].snapshotAt > looked

\* The definition will be archived, and has been looked for.
ArchiveRequest(x) ==
  x.pc \in {"category", "type", "definition"} /\ x.id # 0 /\ x.next.status = "archived" /\ x.seen.unused # 0 =>
    Unreferenced(x.id, x.seen.unused)

Archived(d) ==
  \E looked : /\ looked = past.definition[d].unused
              /\ definitions[d].status = "archived" /\ looked # 0 => Unreferenced(d, looked)

FlowInv ==
  /\ reports = [r \in DOMAIN reports |-> reports[r]]
  /\ \E n \in Nat : DOMAIN versions = 1..n
  /\ \A v \in DOMAIN versions : VersionInv(v)
  /\ \A r \in DOMAIN reports : ReportInv(r)
  /\ \A e \in Editors : \E x : x = edit[e] /\ FlowRequest(x) /\ ArchiveRequest(x)
  /\ \A d \in DOMAIN definitions : Archived(d)

LEMMA NothingArchivedInUse == FlowInv => ArchivedUnused
BY DEF FlowInv, Archived, Unreferenced, ArchivedUnused

\* A version is as it was, or has a part that was written now.
VersionKept(v) ==
  /\ v \in DOMAIN versions =>
       /\ \/ versions'[v].flow = versions[v].flow /\ versions'[v].flowAt = versions[v].flowAt
          \/ versions'[v].flowAt = edits
       /\ \/ versions'[v].snapshot = versions[v].snapshot /\ versions'[v].snapshotAt = versions[v].snapshotAt
          \/ versions'[v].snapshotAt = edits
  /\ v \notin DOMAIN versions => versions'[v].flowAt = edits /\ versions'[v].snapshotAt = edits

VersionsDated ==
  /\ DOMAIN versions \subseteq DOMAIN versions'
  /\ \A v \in DOMAIN versions' : VersionKept(v)

LEMMA UnreferencedStays ==
  ASSUME VersionsDated, NEW d, NEW looked \in Nat, looked < edits, Unreferenced(d, looked)
  PROVE  Unreferenced(d, looked)'
BY DEF VersionsDated, VersionKept, Unreferenced

\* What is known of the requests that do not move.
LEMMA FlowRequestStays ==
  ASSUME NEW x, FlowRequest(x), DOMAIN definitions \subseteq DOMAIN definitions',
         DOMAIN versions \subseteq DOMAIN versions', DOMAIN reports = DOMAIN reports'
  PROVE  FlowRequest(x)'
BY DEF FlowRequest

LEMMA ArchiveRequestStays ==
  ASSUME NEW x, VersionsDated,
         x.pc \in {"category", "type", "definition"} => x.seen.unused \in Nat /\ x.seen.unused < edits,
         ArchiveRequest(x)
  PROVE  ArchiveRequest(x)'
<1>1. PICK id, looked : id = x.id /\ looked = x.seen.unused
  OBVIOUS
<1>2. ASSUME x.pc \in {"category", "type", "definition"}, x.id # 0, x.next.status = "archived", x.seen.unused # 0
      PROVE  Unreferenced(id, looked)'
  BY <1>1, <1>2, UnreferencedStays DEF ArchiveRequest
<1> QED
  BY <1>1, <1>2 DEF ArchiveRequest

LEMMA PointerStays ==
  ASSUME NEW r, ReportInv(r), reports'[r] = reports[r], DOMAIN versions \subseteq DOMAIN versions'
  PROVE  ReportInv(r)'
BY DEF ReportInv, Pointer

LEMMA VersionStays ==
  ASSUME NEW v, VersionInv(v), versions'[v] = versions[v], DOMAIN definitions \subseteq DOMAIN definitions'
  PROVE  VersionInv(v)'
BY DEF VersionInv

DefinitionKept(d) ==
  /\ d \in DOMAIN definitions
  /\ definitions'[d].status = definitions[d].status
  /\ past'.definition[d].unused = past.definition[d].unused

LEMMA ArchivedStays ==
  ASSUME BuilderInv, VersionsDated, NEW d, Archived(d), DefinitionKept(d)
  PROVE  Archived(d)'
<1>1. PICK looked : looked = past.definition[d].unused
  OBVIOUS
<1>2. looked \in Nat /\ looked < edits
  <2>1. PICK s : s = past.definition[d] /\ SeenGood(s)
    BY DEF BuilderInv, DefinitionInv, DefinitionKept
  <2> QED
    BY <1>1, <2>1 DEF SeenGood, SeenFields
<1>3. definitions[d].status = "archived" /\ looked # 0 => Unreferenced(d, looked)'
  BY <1>1, <1>2, UnreferencedStays DEF Archived
<1> QED
  BY <1>1, <1>3 DEF Archived, DefinitionKept

\* What a step can do to the versions and to the definitions they name.
LEMMA FlowStep ==
  ASSUME IInv, BuilderInv, FlowInv, edits' = edits + 1, VersionsDated,
         DOMAIN definitions \subseteq DOMAIN definitions', DOMAIN reports' = DOMAIN reports,
         reports' = [r \in DOMAIN reports' |-> reports'[r]],
         \E n \in Nat : DOMAIN versions' = 1..n,
         \A v \in DOMAIN versions' : (v \in DOMAIN versions /\ versions'[v] = versions[v]) \/ VersionInv(v)',
         \A r \in DOMAIN reports : reports'[r] = reports[r] \/ ReportInv(r)',
         \A d \in DOMAIN definitions' : DefinitionKept(d) \/ Archived(d)',
         \A e \in Editors : edit'[e] = edit[e] \/ \E x : x = edit'[e] /\ FlowRequest(x)' /\ ArchiveRequest(x)'
  PROVE  FlowInv'
<1>1. ASSUME NEW v \in DOMAIN versions' PROVE VersionInv(v)'
  BY VersionStays DEF FlowInv
<1>2. ASSUME NEW r \in DOMAIN reports' PROVE ReportInv(r)'
  BY PointerStays DEF FlowInv, VersionsDated
<1>3. ASSUME NEW d \in DOMAIN definitions' PROVE Archived(d)'
  BY ArchivedStays DEF FlowInv, DefinitionKept
<1>4. ASSUME NEW e \in Editors, edit'[e] = edit[e]
      PROVE  \E x : x = edit'[e] /\ FlowRequest(x)' /\ ArchiveRequest(x)'
  <2>1. PICK x : x = edit[e] /\ FlowRequest(x) /\ ArchiveRequest(x)
    BY DEF FlowInv
  <2>2. FlowRequest(x)'
    BY <2>1, FlowRequestStays DEF VersionsDated
  <2>3. x.pc \in {"category", "type", "definition"} => x.seen.unused \in Nat /\ x.seen.unused < edits
    <3>1. ASSUME x.pc \in {"category", "type", "definition"} PROVE SeenGood(x.seen)
      BY <2>1, <3>1 DEF BuilderInv, RequestInv, Asking, Request
    <3> QED
      BY <3>1 DEF SeenGood, SeenFields
  <2>4. ArchiveRequest(x)'
    BY <2>1, <2>3, ArchiveRequestStays
  <2> QED
    BY <1>4, <2>1, <2>2, <2>4
<1> QED
  BY <1>1, <1>2, <1>3, <1>4 DEF FlowInv

FlowSame == UNCHANGED <<definitions, versions, reports>> /\ past'.definition = past.definition

LEMMA VersionsSame ==
  ASSUME UNCHANGED versions
  PROVE  VersionsDated
BY DEF VersionsDated, VersionKept

\* Nothing is written that matters here.
LEMMA FlowElsewhere ==
  ASSUME IInv, BuilderInv, FlowInv, edits' = edits + 1, FlowSame,
         \A e \in Editors : edit'[e] = edit[e] \/ \E x : x = edit'[e] /\ FlowRequest(x)' /\ ArchiveRequest(x)'
  PROVE  FlowInv'
<1>1. \A d \in DOMAIN definitions' : DefinitionKept(d)
  BY DEF FlowSame, DefinitionKept
<1>2. /\ reports' = [r \in DOMAIN reports' |-> reports'[r]] /\ \E n \in Nat : DOMAIN versions' = 1..n
  BY DEF FlowInv, FlowSame
<1> QED
  BY <1>1, <1>2, VersionsSame, FlowStep DEF FlowSame

LEMMA FlowTurn ==
  ASSUME IInv, BuilderInv, FlowInv, edits' = edits + 1, FlowSame,
         NEW e \in Editors, NEW to, edit' = [edit EXCEPT ![e] = to], FlowRequest(to)', ArchiveRequest(to)'
  PROVE  FlowInv'
<1>1. edit' = [f \in Editors |-> IF f = e THEN to ELSE edit[f]]
  BY Clock
<1>2. \A f \in Editors : edit'[f] = edit[f] \/ \E x : x = edit'[f] /\ FlowRequest(x)' /\ ArchiveRequest(x)'
  BY <1>1
<1> QED
  BY <1>2, FlowElsewhere

LEMMA NoFlowRequest ==
  ASSUME NEW to, Among(to, SourcePcs) \/ Among(to, TypePcs)
  PROVE  FlowRequest(to)' /\ ArchiveRequest(to)'
BY DEF Among, SourcePcs, TypePcs, FlowRequest, ArchiveRequest

\* A request about a definition is none about a flow, and the other way round.
LEMMA NoFlowInDefinition ==
  ASSUME NEW to, Among(to, DefinitionPcs)
  PROVE  FlowRequest(to)'
BY DEF Among, DefinitionPcs, FlowRequest

LEMMA NoDefinitionInFlow ==
  ASSUME NEW to, Among(to, ReportPcs)
  PROVE  ArchiveRequest(to)'
BY DEF Among, ReportPcs, ArchiveRequest

LEMMA FlowOthersStep ==
  ASSUME IInv, BuilderInv, FlowInv, Turns(SourcePcs) \/ Turns(TypePcs), FlowSame
  PROVE  FlowInv'
<1>1. CASE edit' = edit
  BY <1>1, FlowElsewhere DEF Turns
<1>2. ASSUME NEW e \in Editors, NEW to, edit' = [edit EXCEPT ![e] = to], Among(to, SourcePcs) \/ Among(to, TypePcs)
      PROVE  FlowInv'
  BY <1>2, NoFlowRequest, FlowTurn DEF Turns
<1> QED
  BY <1>1, <1>2 DEF Turns

LEMMA UnseenUnused ==
  ASSUME BuilderInv, NEW x, Request(x)
  PROVE  /\ x = [f \in {"pc", "id", "next", "body", "read", "seen"} |-> x[f]]
         /\ x.seen = [f \in SeenFields |-> x.seen[f]] /\ x.next = [f \in AssetFields |-> x.next[f]]
         /\ x.seen.unused \in Nat /\ x.seen.unused < edits
BY DEF Request, SeenGood, DefinitionGood, SeenFields

LEMMA FlowReadDefinition ==
  ASSUME IInv, BuilderInv, FlowInv, NEW e \in Editors, ReadDefinition(e)
  PROVE  FlowInv'
<1>1. PICK d, dto, next :
        /\ d \in DOMAIN definitions /\ dto \in DefinitionChanges
        /\ next = NextDefinition(dto, definitions[d])
        /\ Starts(e, [pc |-> IF next.status = "archived" /\ definitions[d].status # "archived"
                               THEN "usage" ELSE "category",
                      id |-> d, next |-> next, body |-> DOMAIN dto, read |-> edits, seen |-> past.definition[d]])
  BY DEF ReadDefinition
<1>2. PICK pc, seen : /\ pc = IF next.status = "archived" /\ definitions[d].status # "archived"
                                THEN "usage" ELSE "category"
                      /\ seen = past.definition[d]
  OBVIOUS
<1>3. PICK to : to = [pc |-> pc, id |-> d, next |-> next, body |-> DOMAIN dto, read |-> edits, seen |-> seen]
  OBVIOUS
<1>4. to.pc = pc /\ to.id = d /\ to.next = next /\ to.seen = seen /\ "pc" \in DOMAIN to
  BY <1>3
<1>5. edits' = edits + 1 /\ edit' = [edit EXCEPT ![e] = to] /\ UNCHANGED builderVars
  BY <1>1, <1>2, <1>3 DEF Starts, Begins
<1>6. FlowRequest(to)'
  BY <1>2, <1>4, NoFlowInDefinition DEF Among, DefinitionPcs
<1>7. ArchiveRequest(to)
  BY <1>1, <1>2, <1>4 DEF ArchiveRequest, FlowInv, Archived
<1>8. ArchiveRequest(to)'
  <2>1. PICK id, looked : id = to.id /\ looked = to.seen.unused
    OBVIOUS
  <2>2. Unreferenced(id, looked) => Unreferenced(id, looked)'
    BY <1>5 DEF Unreferenced, builderVars
  <2> QED
    BY <1>7, <2>1, <2>2 DEF ArchiveRequest
<1> QED
  BY <1>5, <1>6, <1>8, FlowTurn DEF FlowSame, builderVars

LEMMA FlowLooks ==
  ASSUME IInv, BuilderInv, FlowInv, NEW e \in Editors, ResolveCategory(e) \/ ResolveType(e)
  PROVE  FlowInv'
<1>1. PICK x, from : /\ x = edit[e] /\ Request(x) /\ ArchiveRequest(x) /\ x.pc \in {"category", "type"}
                     /\ \/ Looks(e, from, Idle)
                        \/ \E to : /\ Looks(e, from, to) /\ to.pc \in {"type", "definition"} /\ "pc" \in DOMAIN to
                                   /\ to.id = x.id /\ to.next.status = x.next.status
                                   /\ to.seen.unused = x.seen.unused
  <2>1. CASE ResolveCategory(e)
    <3>1. PICK x : x = edit[e] /\ Request(x) /\ ArchiveRequest(x) /\ x.pc = "category"
      BY <2>1 DEF ResolveCategory, BuilderInv, RequestInv, Asking, FlowInv
    <3>2. ASSUME NEW c, NEW pc \in {"type", "definition"},
                 Looks(e, "category",
                       [x EXCEPT !.pc = pc, !.next.category = categories[c].key,
                                 !.seen.category = c, !.seen.at = edits,
                                 !.seen.type = 0, !.seen.typeAt = edits])
          PROVE  \E to : /\ Looks(e, "category", to) /\ to.pc \in {"type", "definition"} /\ "pc" \in DOMAIN to
                         /\ to.id = x.id /\ to.next.status = x.next.status
                         /\ to.seen.unused = x.seen.unused
      <4>1. PICK to, key, now : /\ key = categories[c].key /\ now = edits
                            /\ to = [x EXCEPT !.pc = pc, !.next.category = key,
                                              !.seen.category = c, !.seen.at = now,
                                              !.seen.type = 0, !.seen.typeAt = now]
        OBVIOUS
      <4>2. /\ to.pc = pc /\ to.id = x.id /\ to.next = [x.next EXCEPT !.category = key]
            /\ to.seen = [x.seen EXCEPT !.category = c, !.at = now, !.type = 0, !.typeAt = now]
            /\ "pc" \in DOMAIN to
        <5>1. /\ x.next = [f \in AssetFields |-> x.next[f]]
              /\ x.seen = [f \in SeenFields |-> x.seen[f]]
              /\ x = [f \in {"pc", "id", "next", "body", "read", "seen"} |-> x[f]]
          BY <3>1, UnseenUnused
        <5> QED
          BY <4>1, <5>1
      <4>3. to.next.status = x.next.status /\ to.seen.unused = x.seen.unused
        BY <3>1, <4>2, UnseenUnused DEF AssetFields, SeenFields
      <4> QED
        BY <3>2, <4>1, <4>2, <4>3
    <3>3. \/ Looks(e, "category", Idle)
          \/ \E c : Looks(e, "category",
                       [x EXCEPT !.pc = IF x.next.type = "" THEN "definition" ELSE "type",
                                 !.next.category = categories[c].key,
                                 !.seen.category = c, !.seen.at = edits,
                                 !.seen.type = 0, !.seen.typeAt = edits])
      BY <2>1, <3>1 DEF ResolveCategory
    <3>4. PICK pc \in {"type", "definition"} : pc = IF x.next.type = "" THEN "definition" ELSE "type"
      OBVIOUS
    <3> QED
      BY <3>1, <3>2, <3>3, <3>4
  <2>2. CASE ResolveType(e)
    <3>1. PICK x : x = edit[e] /\ Request(x) /\ ArchiveRequest(x) /\ x.pc = "type"
      BY <2>2 DEF ResolveType, BuilderInv, RequestInv, Asking, FlowInv
    <3>2. ASSUME NEW t,
                 Looks(e, "type", [x EXCEPT !.pc = "definition", !.next.type = nodeTypes[t].key,
                                            !.seen.type = t, !.seen.typeAt = edits])
          PROVE  \E to : /\ Looks(e, "type", to) /\ to.pc \in {"type", "definition"} /\ "pc" \in DOMAIN to
                         /\ to.id = x.id /\ to.next.status = x.next.status
                         /\ to.seen.unused = x.seen.unused
      <4>1. PICK to, key, now : /\ key = nodeTypes[t].key /\ now = edits
                                /\ to = [x EXCEPT !.pc = "definition", !.next.type = key,
                                                  !.seen.type = t, !.seen.typeAt = now]
        OBVIOUS
      <4>2. /\ to.pc = "definition" /\ to.id = x.id /\ to.next = [x.next EXCEPT !.type = key]
            /\ to.seen = [x.seen EXCEPT !.type = t, !.typeAt = now]
            /\ "pc" \in DOMAIN to
        <5>1. /\ x.next = [f \in AssetFields |-> x.next[f]]
              /\ x.seen = [f \in SeenFields |-> x.seen[f]]
              /\ x = [f \in {"pc", "id", "next", "body", "read", "seen"} |-> x[f]]
          BY <3>1, UnseenUnused
        <5> QED
          BY <4>1, <5>1
      <4>3. to.next.status = x.next.status /\ to.seen.unused = x.seen.unused
        BY <3>1, <4>2, UnseenUnused DEF AssetFields, SeenFields
      <4> QED
        BY <3>2, <4>1, <4>2, <4>3
    <3> QED
      BY <2>2, <3>1, <3>2 DEF ResolveType
  <2> QED
    BY <2>1, <2>2
<1>2. ASSUME NEW to, Looks(e, from, to), "pc" \in DOMAIN to,
             \/ to.pc = "idle"
             \/ /\ to.pc \in {"type", "definition"}
                /\ to.id = x.id /\ to.next.status = x.next.status /\ to.seen.unused = x.seen.unused
      PROVE  FlowInv'
  <2>1. edits' = edits + 1 /\ edit' = [edit EXCEPT ![e] = to] /\ UNCHANGED builderVars
    BY <1>2, Looked
  <2>2. FlowRequest(to)'
    BY <1>2, NoFlowInDefinition DEF Among, DefinitionPcs
  <2>3. PICK id, looked : id = x.id /\ looked = x.seen.unused
    OBVIOUS
  <2>4. Unreferenced(id, looked) => Unreferenced(id, looked)'
    BY <2>1 DEF Unreferenced, builderVars
  <2>5. ArchiveRequest(to)'
    BY <1>1, <1>2, <2>3, <2>4 DEF ArchiveRequest
  <2> QED
    BY <2>1, <2>2, <2>5, FlowTurn DEF FlowSame, builderVars
<1>3. Idle.pc = "idle" /\ "pc" \in DOMAIN Idle
  BY DEF Idle
<1> QED
  BY <1>1, <1>2, <1>3

LEMMA FlowUsage ==
  ASSUME IInv, BuilderInv, FlowInv, NEW e \in Editors, Usage(e)
  PROVE  FlowInv'
<1>1. PICK x : x = edit[e] /\ Request(x) /\ x.pc = "usage"
  BY DEF Usage, BuilderInv, RequestInv, Asking
<1>2. PICK to, now : now = edits /\ to = [x EXCEPT !.pc = "category", !.seen.unused = now]
  OBVIOUS
<1>3. to.pc = "category" /\ "pc" \in DOMAIN to /\ to.id = x.id /\ to.seen.unused = now
  <2>1. /\ x.seen = [f \in SeenFields |-> x.seen[f]]
        /\ x = [f \in {"pc", "id", "next", "body", "read", "seen"} |-> x[f]]
    BY <1>1, UnseenUnused
  <2>2. to.seen = [x.seen EXCEPT !.unused = now]
    BY <1>2, <2>1
  <2> QED
    BY <1>2, <2>1, <2>2 DEF SeenFields
<1>4. \/ Looks(e, "usage", to) /\ References(x.id) = {}
      \/ Looks(e, "usage", Idle)
  BY <1>1, <1>2 DEF Usage
<1>5. ASSUME Looks(e, "usage", to), References(x.id) = {} PROVE FlowInv'
  <2>1. edits' = edits + 1 /\ edit' = [edit EXCEPT ![e] = to] /\ UNCHANGED builderVars
    BY <1>5, Looked
  <2>2. PICK id, looked : id = x.id /\ looked = now
    OBVIOUS
  <2>3. Unreferenced(id, looked)'
    BY <1>5, <2>1, <2>2 DEF References, Unreferenced, builderVars
  <2>4. FlowRequest(to)'
    BY <1>3, NoFlowInDefinition DEF Among, DefinitionPcs
  <2>5. ArchiveRequest(to)'
    BY <1>3, <2>2, <2>3 DEF ArchiveRequest
  <2> QED
    BY <2>1, <2>4, <2>5, FlowTurn DEF FlowSame, builderVars
<1>6. CASE Looks(e, "usage", Idle)
  <2>1. PICK idle : idle = Idle
    OBVIOUS
  <2>2. edits' = edits + 1 /\ edit' = [edit EXCEPT ![e] = idle] /\ UNCHANGED builderVars
    BY <1>6, <2>1, Looked
  <2>3. FlowRequest(idle)' /\ ArchiveRequest(idle)'
    BY <2>1, NoFlowRequest DEF Idle, Among, SourcePcs
  <2> QED
    BY <2>2, <2>3, FlowTurn DEF FlowSame, builderVars
<1> QED
  BY <1>4, <1>5, <1>6

LEMMA FlowCreateDefinition ==
  ASSUME IInv, BuilderInv, FlowInv, NEW e \in Editors, CreateDefinition(e)
  PROVE  FlowInv'
<1>1. PICK dto, to :
        /\ dto \in NewDefinitions
        /\ to = [pc |-> "category", id |-> 0, next |-> Ported(dto), body |-> AssetFields,
                 read |-> edits, seen |-> [Unseen EXCEPT !.unused = edits]]
        /\ Starts(e, to)
  BY DEF CreateDefinition
<1>2. edits' = edits + 1 /\ edit' = [edit EXCEPT ![e] = to] /\ UNCHANGED builderVars
  BY <1>1 DEF Starts, Begins
<1>3. to.pc = "category" /\ to.id = 0 /\ "pc" \in DOMAIN to
  BY <1>1
<1>4. FlowRequest(to)' /\ ArchiveRequest(to)'
  BY <1>3, NoFlowInDefinition DEF Among, DefinitionPcs, ArchiveRequest
<1> QED
  BY <1>2, <1>4, FlowTurn DEF FlowSame, builderVars

\* A definition that is new is named by no version.
LEMMA NobodyNamesFresh ==
  ASSUME BuilderInv, FlowInv, NEW looked
  PROVE  Unreferenced(Fresh(definitions), looked) /\ Fresh(definitions) \notin DOMAIN definitions
<1>1. Fresh(definitions) \notin DOMAIN definitions
  BY FreshId DEF BuilderInv, BuilderShape
<1>2. \A v \in DOMAIN versions :
        versions[v].flow \subseteq DOMAIN definitions /\ versions[v].snapshot \subseteq DOMAIN definitions
  BY DEF FlowInv, VersionInv
<1> QED
  BY <1>1, <1>2 DEF Unreferenced

\* A definition is added or written.
LEMMA FlowDefinition ==
  ASSUME IInv, BuilderInv, FlowInv, edits' = edits + 1, UNCHANGED <<versions, reports>>, NEW id,
         DOMAIN definitions' = DOMAIN definitions \cup {id},
         \A d \in DOMAIN definitions \ {id} :
           definitions'[d] = definitions[d] /\ past'.definition[d] = past.definition[d],
         Archived(id)',
         \A e \in Editors : edit'[e] = edit[e] \/ \E x : x = edit'[e] /\ FlowRequest(x)' /\ ArchiveRequest(x)'
  PROVE  FlowInv'
<1>1. \A d \in DOMAIN definitions' : DefinitionKept(d) \/ Archived(d)'
  BY DEF DefinitionKept
<1>2. reports' = [r \in DOMAIN reports' |-> reports'[r]] /\ \E n \in Nat : DOMAIN versions' = 1..n
  BY DEF FlowInv
<1> QED
  BY <1>1, <1>2, VersionsSame, FlowStep

LEMMA PastDefinition ==
  ASSUME BuilderInv, NEW known, past' = [past EXCEPT !.definition = known]
  PROVE  past'.definition = known
BY DEF BuilderInv, BuilderShape, PastFields

LEMMA FlowWriteDefinition ==
  ASSUME IInv, BuilderInv, FlowInv, NEW e \in Editors, WriteDefinition(e)
  PROVE  FlowInv'
<1>1. PICK x : x = edit[e] /\ Request(x) /\ ArchiveRequest(x) /\ x.pc = "definition"
  BY DEF WriteDefinition, BuilderInv, RequestInv, Asking, FlowInv
<1>2. PICK id, def, seen, known : /\ id = (IF x.id = 0 THEN Fresh(definitions) ELSE x.id)
                           /\ def = x.next /\ seen = [x.seen EXCEPT !.changed = edits]
                           /\ known = Add(past.definition, id, seen)
  OBVIOUS
<1>3. /\ edits' = edits + 1 /\ edit' = [edit EXCEPT ![e] = Idle]
      /\ definitions' = Add(definitions, id, def)
      /\ past' = [past EXCEPT !.definition = known]
      /\ UNCHANGED <<reports, versions>>
  BY <1>1, <1>2 DEF WriteDefinition, Writes, Step
<1>4. past'.definition = known
  BY <1>3, PastDefinition
<1>5. DOMAIN past.definition = DOMAIN definitions
  BY DEF BuilderInv, BuilderShape
<1>6. /\ DOMAIN definitions' = DOMAIN definitions \cup {id} /\ definitions'[id] = def /\ past'.definition[id] = seen
      /\ \A d \in DOMAIN definitions \ {id} :
           definitions'[d] = definitions[d] /\ past'.definition[d] = past.definition[d]
  BY <1>2, <1>3, <1>4, <1>5 DEF Add
<1>7. PICK looked : looked = x.seen.unused
  OBVIOUS
<1>8. seen.unused = looked
  BY <1>1, <1>2, <1>7, UnseenUnused DEF SeenFields
<1>9. def.status = "archived" /\ looked # 0 => Unreferenced(id, looked)
  BY <1>1, <1>2, <1>7, NobodyNamesFresh DEF ArchiveRequest
<1>10. Archived(id)'
  <2>1. Unreferenced(id, looked) => Unreferenced(id, looked)'
    BY <1>3 DEF Unreferenced
  <2> QED
    BY <1>6, <1>8, <1>9, <2>1 DEF Archived
<1>11. \A f \in Editors : edit'[f] = edit[f] \/ \E y : y = edit'[f] /\ FlowRequest(y)' /\ ArchiveRequest(y)'
  <2>1. edit' = [f \in Editors |-> IF f = e THEN Idle ELSE edit[f]]
    BY <1>3, Clock
  <2>2. ASSUME NEW y, y = Idle PROVE FlowRequest(y)' /\ ArchiveRequest(y)'
    BY <2>2, NoFlowRequest DEF Idle, Among, SourcePcs
  <2> QED
    BY <2>1, <2>2
<1> QED
  BY <1>3, <1>6, <1>10, <1>11, FlowDefinition

LEMMA FlowCreateAsset ==
  ASSUME IInv, BuilderInv, FlowInv, CreateAsset
  PROVE  FlowInv'
<1>1. PICK dto, id, known :
        /\ dto \in NewDefinitions
        /\ AtOnce /\ id = Fresh(definitions) /\ known = Add(past.definition, id, Unseen)
        /\ definitions' = Add(definitions, id, dto)
        /\ past' = [past EXCEPT !.definition = known]
        /\ UNCHANGED <<categories, nodeTypes, reports, versions>>
  BY DEF CreateAsset
<1>2. past'.definition = known
  BY <1>1, PastDefinition
<1>3. DOMAIN past.definition = DOMAIN definitions
  BY DEF BuilderInv, BuilderShape
<1>4. /\ DOMAIN definitions' = DOMAIN definitions \cup {id} /\ past'.definition[id] = Unseen
      /\ \A d \in DOMAIN definitions \ {id} :
           definitions'[d] = definitions[d] /\ past'.definition[d] = past.definition[d]
  BY <1>1, <1>2, <1>3 DEF Add
<1>5. Archived(id)'
  BY <1>4 DEF Archived, Unseen
<1> QED
  BY <1>1, <1>4, <1>5, FlowDefinition DEF AtOnce

LEMMA FlowUpdateAsset ==
  ASSUME IInv, BuilderInv, FlowInv, UpdateAsset
  PROVE  FlowInv'
<1>1. PICK d, dto, def, seen, old :
        /\ d \in DOMAIN definitions /\ dto \in AssetChanges
        /\ AtOnce /\ def = Merged(dto, definitions[d]) /\ old = past.definition[d]
        /\ seen = Overwritten(old, DOMAIN dto)
        /\ definitions' = [definitions EXCEPT ![d] = def]
        /\ past' = [past EXCEPT !.definition[d] = seen]
        /\ UNCHANGED <<categories, nodeTypes, reports, versions>>
  BY DEF UpdateAsset
<1>2. PICK known : known = [past.definition EXCEPT ![d] = seen]
  OBVIOUS
<1>3. past'.definition = known
  <2>1. past' = [past EXCEPT !.definition = known]
    BY <1>1, <1>2
  <2> QED
    BY <2>1, PastDefinition
<1>4. DOMAIN past.definition = DOMAIN definitions
  BY DEF BuilderInv, BuilderShape
<1>5. /\ DOMAIN definitions' = DOMAIN definitions \cup {d} /\ definitions'[d] = def /\ past'.definition[d] = seen
      /\ \A i \in DOMAIN definitions \ {d} :
           definitions'[i] = definitions[i] /\ past'.definition[i] = past.definition[i]
  BY <1>1, <1>2, <1>3, <1>4
<1>6. PICK before : /\ before = definitions[d] /\ before = [f \in AssetFields |-> before[f]]
                    /\ old = [f \in SeenFields |-> old[f]]
  <2>1. PICK before, s : /\ before = definitions[d] /\ s = past.definition[d] /\ SeenGood(s)
                         /\ before = [f \in AssetFields |-> before[f]]
    BY <1>1 DEF BuilderInv, DefinitionInv
  <2> QED
    BY <1>1, <2>1 DEF SeenGood
<1>7. \/ seen.unused = 0
      \/ seen.unused = old.unused /\ def.status = before.status
  <2>1. CASE "status" \in DOMAIN dto
    BY <1>1, <1>6, <2>1 DEF Overwritten, SeenFields
  <2>2. CASE "status" \notin DOMAIN dto
    <3>1. def.status = before.status
      BY <1>1, <1>6, <2>2 DEF Merged, AssetFields
    <3>2. seen.unused = old.unused
      BY <1>1, <1>6, <2>2 DEF Overwritten, SeenFields
    <3> QED
      BY <3>1, <3>2
  <2> QED
    BY <2>1, <2>2
<1>8. PICK looked : looked = old.unused
  OBVIOUS
<1>9. before.status = "archived" /\ looked # 0 => Unreferenced(d, looked)'
  <2>1. Unreferenced(d, looked) => Unreferenced(d, looked)'
    BY <1>1 DEF Unreferenced
  <2> QED
    BY <1>1, <1>6, <1>8, <2>1 DEF FlowInv, Archived
<1>10. Archived(d)'
  BY <1>5, <1>7, <1>8, <1>9 DEF Archived
<1> QED
  BY <1>1, <1>5, <1>10, FlowDefinition DEF AtOnce

(***************************************************************************)
(* The steps of flows.                                                     *)
(***************************************************************************)
ReportSteps(e) ==
  \/ SaveFlow(e) \/ CopyVersion(e) \/ PointDraft(e) \/ WriteFlow(e)
  \/ Publish(e) \/ ReadDraft(e) \/ CheckFlow(e) \/ WriteSnapshot(e) \/ WriteCurrent(e)
  \/ Archive(e) \/ WriteArchived(e)

LEMMA FlowMoves ==
  ASSUME IInv, BuilderInv, FlowInv, edits' = edits + 1, FlowSame,
         NEW e \in Editors, NEW to, edit' = [edit EXCEPT ![e] = to], Among(to, ReportPcs), FlowRequest(to)
  PROVE  FlowInv'
<1>1. FlowRequest(to)'
  BY FlowRequestStays DEF FlowSame
<1> QED
  BY <1>1, NoDefinitionInFlow, FlowTurn

LEMMA FlowStarts ==
  ASSUME IInv, BuilderInv, FlowInv, NEW e \in Editors, SaveFlow(e) \/ Publish(e) \/ Archive(e)
  PROVE  FlowInv'
<1>1. PICK to : Starts(e, to) /\ Among(to, ReportPcs) /\ FlowRequest(to)
  <2>1. CASE SaveFlow(e)
    <3>1. PICK r, flow, pc, draft, current :
            /\ r \in DOMAIN reports
            /\ draft = reports[r].draft /\ current = reports[r].current
            /\ pc = (IF draft = 0 THEN "copy" ELSE "flow")
            /\ flow \subseteq DOMAIN definitions /\ (draft # 0 \/ current # 0)
            /\ Starts(e, [pc |-> pc, id |-> r, flow |-> flow, version |-> draft, from |-> current])
      BY <2>1 DEF SaveFlow
    <3>2. Pointer(draft) /\ Pointer(current)
      BY <3>1 DEF FlowInv, ReportInv
    <3>3. PICK to : to = [pc |-> pc, id |-> r, flow |-> flow, version |-> draft, from |-> current]
      OBVIOUS
    <3>4. FlowRequest(to)
      BY <3>1, <3>2, <3>3 DEF FlowRequest, Pointer
    <3>5. Among(to, ReportPcs)
      BY <3>1, <3>3 DEF Among, ReportPcs
    <3> QED
      BY <3>1, <3>3, <3>4, <3>5
  <2>2. CASE Publish(e)
    <3>1. PICK r, draft :
            /\ r \in DOMAIN reports /\ draft = reports[r].draft /\ draft # 0
            /\ Starts(e, [pc |-> "draft", id |-> r, version |-> draft])
      BY <2>2 DEF Publish
    <3>2. Pointer(draft)
      BY <3>1 DEF FlowInv, ReportInv
    <3>3. PICK to : to = [pc |-> "draft", id |-> r, version |-> draft]
      OBVIOUS
    <3>4. FlowRequest(to) /\ Among(to, ReportPcs)
      BY <3>1, <3>2, <3>3 DEF FlowRequest, Pointer, Among, ReportPcs
    <3> QED
      BY <3>1, <3>3, <3>4
  <2>3. CASE Archive(e)
    BY <2>3 DEF Archive, FlowRequest, Among, ReportPcs
  <2> QED
    BY <2>1, <2>2, <2>3
<1>2. edits' = edits + 1 /\ edit' = [edit EXCEPT ![e] = to] /\ UNCHANGED builderVars
  BY <1>1 DEF Starts, Begins
<1> QED
  BY <1>1, <1>2, FlowMoves DEF FlowSame, builderVars

LEMMA FlowContinues ==
  ASSUME IInv, BuilderInv, FlowInv, NEW e \in Editors, ReadDraft(e) \/ CheckFlow(e)
  PROVE  FlowInv'
<1>1. PICK x : x = edit[e] /\ FlowRequest(x) /\ "pc" \in DOMAIN x
  BY DEF FlowInv, IInv, EditShape
<1>2. PICK to, from : Looks(e, from, to) /\ Among(to, ReportPcs) /\ FlowRequest(to)
  <2>1. CASE ReadDraft(e)
    <3>1. PICK to, flow : /\ x.pc = "draft" /\ flow = versions[x.version].flow
                          /\ to = Add([x EXCEPT !.pc = "check"], "flow", flow) /\ Looks(e, "draft", to)
      BY <1>1, <2>1 DEF ReadDraft
    <3>2. /\ {"version", "id"} \subseteq DOMAIN x /\ x.version \in DOMAIN versions /\ x.id \in DOMAIN reports
      BY <1>1, <3>1 DEF FlowRequest
    <3>3. flow \subseteq DOMAIN definitions
      BY <3>1, <3>2 DEF FlowInv, VersionInv
    <3>4. /\ DOMAIN to = DOMAIN x \cup {"flow"} /\ to.pc = "check" /\ to.flow = flow
          /\ to.version = x.version /\ to.id = x.id
      BY <1>1, <3>1, <3>2 DEF Add
    <3> QED
      BY <1>1, <3>1, <3>2, <3>3, <3>4 DEF FlowRequest, Among, ReportPcs
  <2>2. CASE CheckFlow(e)
    <3>1. PICK to : /\ x.pc = "check" /\ Looks(e, "check", to)
                    /\ to = [x EXCEPT !.pc = "snapshot"] \/ to = Idle
      BY <1>1, <2>2 DEF CheckFlow
    <3>2. CASE to = [x EXCEPT !.pc = "snapshot"]
      <4>1. {"version", "id", "flow"} \subseteq DOMAIN x
        BY <1>1, <3>1 DEF FlowRequest
      <4>2. /\ DOMAIN to = DOMAIN x /\ to.pc = "snapshot" /\ to.flow = x.flow /\ to.version = x.version /\ to.id = x.id
        BY <1>1, <3>2, <4>1
      <4> QED
        BY <1>1, <3>1, <4>1, <4>2 DEF FlowRequest, Among, ReportPcs
    <3>3. CASE to = Idle
      BY <3>1, <3>3 DEF Idle, FlowRequest, Among, ReportPcs
    <3> QED
      BY <3>1, <3>2, <3>3
  <2> QED
    BY <2>1, <2>2
<1>3. edits' = edits + 1 /\ edit' = [edit EXCEPT ![e] = to] /\ UNCHANGED builderVars
  BY <1>2, Looked
<1> QED
  BY <1>2, <1>3, FlowMoves DEF FlowSame, builderVars

\* A report type is written.
LEMMA FlowReported ==
  ASSUME IInv, BuilderInv, FlowInv, NEW e \in Editors, NEW from, NEW to, NEW report,
         Reported(e, from, to, report), Among(to, ReportPcs), FlowRequest(to),
         report = [f \in {"status", "current", "draft"} |-> report[f]],
         Pointer(report.current), Pointer(report.draft)
  PROVE  FlowInv'
<1>1. PICK id : id = edit[e].id
  OBVIOUS
<1>2. /\ edits' = edits + 1 /\ edit' = [edit EXCEPT ![e] = to] /\ UNCHANGED <<definitions, versions>>
      /\ reports' = [reports EXCEPT ![id] = report] /\ past' = [past EXCEPT !.report[id] = edits]
  BY <1>1 DEF Reported, Writes, Step
<1>3. past'.definition = past.definition
  BY <1>2 DEF BuilderInv, BuilderShape, PastFields
<1>4. \A r \in DOMAIN reports : reports'[r] = reports[r] \/ ReportInv(r)'
  BY <1>2 DEF ReportInv, Pointer
<1>5. DOMAIN reports' = DOMAIN reports /\ reports' = [r \in DOMAIN reports' |-> reports'[r]]
      /\ \E n \in Nat : DOMAIN versions' = 1..n
  BY <1>2 DEF FlowInv
<1>6. \A d \in DOMAIN definitions' : DefinitionKept(d)
  BY <1>2, <1>3 DEF DefinitionKept
<1>7. \A f \in Editors : edit'[f] = edit[f] \/ \E x : x = edit'[f] /\ FlowRequest(x)' /\ ArchiveRequest(x)'
  <2>1. edit' = [f \in Editors |-> IF f = e THEN to ELSE edit[f]]
    BY <1>2, Clock
  <2>2. FlowRequest(to)'
    BY <1>2, <1>5, FlowRequestStays
  <2>3. ArchiveRequest(to)'
    BY NoDefinitionInFlow
  <2> QED
    BY <2>1, <2>2, <2>3
<1> QED
  BY <1>2, <1>4, <1>5, <1>6, <1>7, VersionsSame, FlowStep

LEMMA FlowWritesReport ==
  ASSUME IInv, BuilderInv, FlowInv, NEW e \in Editors, PointDraft(e) \/ WriteCurrent(e) \/ WriteArchived(e)
  PROVE  FlowInv'
<1>1. PICK x : x = edit[e] /\ FlowRequest(x) /\ "pc" \in DOMAIN x
  BY DEF FlowInv, IInv, EditShape
<1>2. FlowRequest(Idle) /\ Among(Idle, ReportPcs)
  BY DEF Idle, FlowRequest, Among, ReportPcs
<1>3. CASE PointDraft(e)
  <2>1. PICK to, report, old : /\ x.pc = "point" /\ to = [x EXCEPT !.pc = "flow"] /\ old = reports[x.id]
                               /\ report = [old EXCEPT !.draft = x.version]
                               /\ Reported(e, "point", to, report)
    BY <1>1, <1>3 DEF PointDraft, Reported
  <2>2. {"version", "id", "flow"} \subseteq DOMAIN x /\ x.version \in DOMAIN versions /\ x.id \in DOMAIN reports
    BY <1>1, <2>1 DEF FlowRequest
  <2>3. /\ DOMAIN to = DOMAIN x /\ to.pc = "flow" /\ to.flow = x.flow /\ to.version = x.version /\ to.id = x.id
    BY <1>1, <2>1, <2>2
  <2>4. FlowRequest(to) /\ Among(to, ReportPcs)
    BY <1>1, <2>1, <2>2, <2>3 DEF FlowRequest, Among, ReportPcs
  <2>5. old = [f \in {"status", "current", "draft"} |-> old[f]] /\ Pointer(old.current)
    BY <2>1, <2>2 DEF FlowInv, ReportInv
  <2>6. /\ report = [f \in {"status", "current", "draft"} |-> report[f]]
        /\ Pointer(report.current) /\ Pointer(report.draft)
    BY <2>1, <2>2, <2>5 DEF Pointer
  <2> QED
    BY <2>1, <2>4, <2>6, FlowReported
<1>4. CASE WriteCurrent(e)
  <2>1. PICK report : /\ x.pc = "current" /\ report = [status |-> "published", current |-> x.version, draft |-> 0]
                      /\ Reported(e, "current", Idle, report)
    BY <1>1, <1>4 DEF WriteCurrent, Reported
  <2>2. x.version \in DOMAIN versions
    BY <1>1, <2>1 DEF FlowRequest
  <2>3. /\ report = [f \in {"status", "current", "draft"} |-> report[f]]
        /\ Pointer(report.current) /\ Pointer(report.draft)
    BY <2>1, <2>2 DEF Pointer
  <2> QED
    BY <1>2, <2>1, <2>3, FlowReported
<1>5. CASE WriteArchived(e)
  <2>1. PICK report, old : /\ x.pc = "archive" /\ old = reports[x.id]
                           /\ report = [old EXCEPT !.status = "archived"]
                           /\ Reported(e, "archive", Idle, report)
    BY <1>1, <1>5 DEF WriteArchived, Reported
  <2>2. x.id \in DOMAIN reports
    BY <1>1, <2>1 DEF FlowRequest
  <2>3. old = [f \in {"status", "current", "draft"} |-> old[f]] /\ Pointer(old.current) /\ Pointer(old.draft)
    BY <2>1, <2>2 DEF FlowInv, ReportInv
  <2>4. /\ report = [f \in {"status", "current", "draft"} |-> report[f]]
        /\ Pointer(report.current) /\ Pointer(report.draft)
    BY <2>1, <2>3
  <2> QED
    BY <1>2, <2>1, <2>4, FlowReported
<1> QED
  BY <1>3, <1>4, <1>5

\* A version is written.
LEMMA FlowVersioned ==
  ASSUME IInv, BuilderInv, FlowInv, NEW e \in Editors, NEW from, NEW to, NEW v,
         Writes(e, from, to), UNCHANGED <<definitions, reports, past>>,
         DOMAIN versions' = DOMAIN versions \cup {v}, \E n \in Nat : DOMAIN versions' = 1..n,
         \A i \in DOMAIN versions \ {v} : versions'[i] = versions[i],
         VersionInv(v)', VersionKept(v), Among(to, ReportPcs), FlowRequest(to)'
  PROVE  FlowInv'
<1>1. edits' = edits + 1 /\ edit' = [edit EXCEPT ![e] = to]
  BY DEF Writes, Step
<1>2. VersionsDated
  BY DEF VersionsDated, VersionKept
<1>3. \A d \in DOMAIN definitions' : DefinitionKept(d)
  BY DEF DefinitionKept
<1>4. \A f \in Editors : edit'[f] = edit[f] \/ \E x : x = edit'[f] /\ FlowRequest(x)' /\ ArchiveRequest(x)'
  <2>1. edit' = [f \in Editors |-> IF f = e THEN to ELSE edit[f]]
    BY <1>1, Clock
  <2> QED
    BY <2>1, NoDefinitionInFlow
<1>5. reports' = [r \in DOMAIN reports' |-> reports'[r]]
  BY DEF FlowInv
<1> QED
  BY <1>1, <1>2, <1>3, <1>4, <1>5, FlowStep

LEMMA FlowWritesVersion ==
  ASSUME IInv, BuilderInv, FlowInv, NEW e \in Editors, CopyVersion(e) \/ WriteFlow(e) \/ WriteSnapshot(e)
  PROVE  FlowInv'
<1>1. PICK x : x = edit[e] /\ FlowRequest(x) /\ "pc" \in DOMAIN x
  BY DEF FlowInv, IInv, EditShape
<1>2. PICK n \in Nat : DOMAIN versions = 1..n
  BY DEF FlowInv
<1>3. CASE CopyVersion(e)
  <2>1. PICK v, to, new, snapshot, now :
          /\ x.pc = "copy" /\ v = Fresh(versions) /\ snapshot = versions[x.from].snapshot /\ now = edits
          /\ to = [x EXCEPT !.pc = "point", !.version = v]
          /\ new = [flow |-> x.flow, flowAt |-> now, snapshot |-> snapshot, snapshotAt |-> now]
          /\ Writes(e, "copy", to) /\ versions' = Add(versions, v, new)
          /\ UNCHANGED <<definitions, reports, past>>
    BY <1>1, <1>3 DEF CopyVersion
  <2>2. /\ {"version", "id", "flow"} \subseteq DOMAIN x /\ x.from \in DOMAIN versions /\ x.id \in DOMAIN reports
        /\ x.flow \subseteq DOMAIN definitions
    BY <1>1, <2>1 DEF FlowRequest
  <2>3. snapshot \subseteq DOMAIN definitions
    BY <2>1, <2>2 DEF FlowInv, VersionInv
  <2>4. v \notin DOMAIN versions /\ DOMAIN versions \cup {v} = 1..(n + 1)
    BY <1>2, <2>1, FreshId
  <2>5. /\ DOMAIN versions' = DOMAIN versions \cup {v} /\ versions'[v] = new
        /\ \A i \in DOMAIN versions \ {v} : versions'[i] = versions[i]
    BY <2>1 DEF Add
  <2>6. /\ DOMAIN to = DOMAIN x /\ to.pc = "point" /\ to.flow = x.flow /\ to.version = v /\ to.id = x.id
    BY <1>1, <2>1, <2>2
  <2>7. VersionInv(v)'
    BY <2>1, <2>2, <2>3, <2>5 DEF VersionInv, VersionFields
  <2>8. VersionKept(v)
    BY <2>1, <2>4, <2>5 DEF VersionKept
  <2>9. FlowRequest(to)'
    BY <2>1, <2>2, <2>5, <2>6 DEF FlowRequest
  <2>10. Among(to, ReportPcs)
    BY <1>1, <2>6 DEF Among, ReportPcs
  <2>11. \E m \in Nat : DOMAIN versions' = 1..m
    BY <2>4, <2>5
  <2> QED
    BY <2>1, <2>5, <2>7, <2>8, <2>9, <2>10, <2>11, FlowVersioned
<1>4. CASE WriteFlow(e)
  <2>1. PICK v, new, old, now, to :
          /\ x.pc = "flow" /\ v = x.version /\ old = versions[v] /\ now = edits /\ to = Idle
          /\ new = [old EXCEPT !.flow = x.flow, !.flowAt = now]
          /\ Writes(e, "flow", to)
          /\ versions' = [versions EXCEPT ![v].flow = x.flow, ![v].flowAt = now]
          /\ UNCHANGED <<definitions, reports, past>>
    BY <1>1, <1>4 DEF WriteFlow
  <2>2. v \in DOMAIN versions /\ x.flow \subseteq DOMAIN definitions
    BY <1>1, <2>1 DEF FlowRequest
  <2>3. /\ old = [f \in VersionFields |-> old[f]] /\ old.snapshot \subseteq DOMAIN definitions
    BY <2>1, <2>2 DEF FlowInv, VersionInv
  <2>4. /\ DOMAIN versions' = DOMAIN versions \cup {v} /\ versions'[v] = new
        /\ \A i \in DOMAIN versions \ {v} : versions'[i] = versions[i]
    BY <2>1, <2>2
  <2>5. /\ new = [f \in VersionFields |-> new[f]] /\ new.flow = x.flow /\ new.flowAt = now
        /\ new.snapshot = old.snapshot /\ new.snapshotAt = old.snapshotAt
    BY <2>1, <2>3 DEF VersionFields
  <2>6. VersionInv(v)' /\ VersionKept(v)
    BY <2>1, <2>2, <2>3, <2>4, <2>5 DEF VersionInv, VersionKept
  <2>7. FlowRequest(to)' /\ Among(to, ReportPcs)
    BY <2>1 DEF Idle, FlowRequest, Among, ReportPcs
  <2>8. \E m \in Nat : DOMAIN versions' = 1..m
    BY <1>2, <2>2, <2>4
  <2> QED
    BY <2>1, <2>4, <2>6, <2>7, <2>8, FlowVersioned
<1>5. CASE WriteSnapshot(e)
  <2>1. PICK v, new, old, now, to :
          /\ x.pc = "snapshot" /\ v = x.version /\ old = versions[v] /\ now = edits /\ to = [x EXCEPT !.pc = "current"]
          /\ new = [old EXCEPT !.snapshot = x.flow, !.snapshotAt = now]
          /\ Writes(e, "snapshot", to)
          /\ versions' = [versions EXCEPT ![v].snapshot = x.flow, ![v].snapshotAt = now]
          /\ UNCHANGED <<definitions, reports, past>>
    BY <1>1, <1>5 DEF WriteSnapshot
  <2>2. /\ v \in DOMAIN versions /\ x.flow \subseteq DOMAIN definitions
        /\ {"version", "id", "flow"} \subseteq DOMAIN x /\ x.id \in DOMAIN reports
    BY <1>1, <2>1 DEF FlowRequest
  <2>3. /\ old = [f \in VersionFields |-> old[f]] /\ old.flow \subseteq DOMAIN definitions
    BY <2>1, <2>2 DEF FlowInv, VersionInv
  <2>4. /\ DOMAIN versions' = DOMAIN versions \cup {v} /\ versions'[v] = new
        /\ \A i \in DOMAIN versions \ {v} : versions'[i] = versions[i]
    BY <2>1, <2>2
  <2>5. /\ new = [f \in VersionFields |-> new[f]] /\ new.snapshot = x.flow /\ new.snapshotAt = now
        /\ new.flow = old.flow /\ new.flowAt = old.flowAt
    BY <2>1, <2>3 DEF VersionFields
  <2>6. VersionInv(v)' /\ VersionKept(v)
    BY <2>1, <2>2, <2>3, <2>4, <2>5 DEF VersionInv, VersionKept
  <2>7. /\ DOMAIN to = DOMAIN x /\ to.pc = "current" /\ to.version = v /\ to.id = x.id
    BY <1>1, <2>1, <2>2
  <2>8. FlowRequest(to)' /\ Among(to, ReportPcs)
    BY <1>1, <2>1, <2>2, <2>4, <2>7 DEF FlowRequest, Among, ReportPcs
  <2>9. \E m \in Nat : DOMAIN versions' = 1..m
    BY <1>2, <2>2, <2>4
  <2> QED
    BY <2>1, <2>4, <2>6, <2>8, <2>9, FlowVersioned
<1> QED
  BY <1>3, <1>4, <1>5

\* Flows, their versions and the definitions they name.
LEMMA FlowKept == IInv /\ BuilderInv /\ FlowInv /\ [Next]_vars => FlowInv'
<1> SUFFICES ASSUME IInv, BuilderInv, FlowInv, [Next]_vars PROVE FlowInv'
  OBVIOUS
<1>1. CASE SourceNext /\ UNCHANGED builderVars
  BY <1>1, SourceTurns, FlowOthersStep DEF FlowSame, builderVars
<1>2. CASE CreateNodeType \/ UpdateNodeType \/ UpdateCategory
  <2>1. edits' = edits + 1 /\ UNCHANGED edit
    BY <1>2 DEF CreateNodeType, UpdateNodeType, UpdateCategory, AtOnce
  <2>2. FlowSame
    BY <1>2 DEF CreateNodeType, UpdateNodeType, UpdateCategory, FlowSame, BuilderInv, BuilderShape, PastFields
  <2> QED
    BY <2>1, <2>2, FlowElsewhere
<1>3. ASSUME NEW e \in Editors,
             \/ CreateDefinition(e) \/ ReadDefinition(e) \/ Usage(e) \/ ResolveCategory(e)
             \/ ResolveType(e) \/ WriteDefinition(e)
      PROVE  FlowInv'
  BY <1>3, FlowCreateDefinition, FlowReadDefinition, FlowUsage, FlowLooks, FlowWriteDefinition
<1>4. ASSUME NEW e \in Editors,
         \/ SaveFlow(e) \/ CopyVersion(e) \/ PointDraft(e) \/ WriteFlow(e)
         \/ Publish(e) \/ ReadDraft(e) \/ CheckFlow(e) \/ WriteSnapshot(e) \/ WriteCurrent(e)
         \/ Archive(e) \/ WriteArchived(e)
      PROVE  FlowInv'
  BY <1>4, FlowStarts, FlowContinues, FlowWritesReport, FlowWritesVersion
<1>5. ASSUME NEW e \in Editors,
         \/ PublishType(e) \/ CheckAttached(e) \/ SavePublished(e)
         \/ UnpublishType(e) \/ SaveUnpublished(e)
         \/ RemoveType(e) \/ CountAnalyses(e) \/ DeleteType(e)
      PROVE  FlowInv'
  BY <1>5, TypesTurn, FlowOthersStep DEF FlowSame, builderVars
<1>6. CASE CreateType \/ UpdateType \/ CreateAnalysis \/ TurnAnalysis
  <2>1. edits' = edits + 1 /\ UNCHANGED edit /\ FlowSame
    BY <1>6 DEF CreateType, UpdateType, CreateAnalysis, TurnAnalysis, AtOnce, FlowSame, builderVars
  <2> QED
    BY <2>1, FlowElsewhere
<1>7. CASE UNCHANGED vars
  <2>1. UNCHANGED <<definitions, reports, versions, past, edit, edits>>
    BY <1>7 DEF vars, builderVars, sourceVars
  <2>2. /\ \A v \in DOMAIN versions' : VersionInv(v)'
        /\ \A r \in DOMAIN reports' : ReportInv(r)'
        /\ \A d \in DOMAIN definitions' : Archived(d)'
    BY <2>1 DEF FlowInv, VersionInv, ReportInv, Pointer, Archived, Unreferenced
  <2>3. ASSUME NEW e \in Editors PROVE \E x : x = edit'[e] /\ FlowRequest(x)' /\ ArchiveRequest(x)'
    <3>1. PICK x : x = edit[e] /\ FlowRequest(x) /\ ArchiveRequest(x)
      BY DEF FlowInv
    <3>2. FlowRequest(x)' /\ ArchiveRequest(x)'
      BY <2>1, <3>1 DEF FlowRequest, ArchiveRequest, Unreferenced
    <3> QED
      BY <2>1, <3>1, <3>2
  <2> QED
    BY <2>1, <2>2, <2>3 DEF FlowInv
<1> QED
  BY <1>1, <1>2, <1>3, <1>4, <1>5, <1>6, <1>7, FlowCreateAsset, FlowUpdateAsset DEF Next, BuilderNext

LEMMA FlowBegun == Init => FlowInv
<1> SUFFICES ASSUME Init PROVE FlowInv
  OBVIOUS
<1>1. PICK b \in Builders :
        /\ definitions = b.definitions /\ reports = b.reports /\ versions = b.versions
        /\ past = [category |-> [c \in DOMAIN categories |-> 0],
                   type |-> [t \in DOMAIN nodeTypes |-> 0],
                   report |-> [r \in DOMAIN reports |-> 0],
                   definition |-> [d \in DOMAIN definitions |-> Unseen]]
  BY DEF Init, BuilderInit
<1>2. edit = [e \in Editors |-> Idle]
  BY DEF Init, SourceInit
<1>3. PICK S, R :
        /\ S = [flow : SUBSET DOMAIN definitions, flowAt : {0}, snapshot : SUBSET DOMAIN definitions, snapshotAt : {0}]
        /\ R = [status : STRING, current : {0} \cup DOMAIN versions, draft : {0} \cup DOMAIN versions]
  OBVIOUS
<1>4. versions \in Seq(S) /\ reports \in Seq(R)
  BY <1>1, <1>3, BuilderAssumption DEF BuilderAssumption
<1>5. /\ DOMAIN versions = 1..Len(versions) /\ Len(versions) \in Nat
      /\ \A v \in DOMAIN versions : versions[v] \in S
  BY <1>4
<1>11. /\ reports = [r \in DOMAIN reports |-> reports[r]]
       /\ \A r \in DOMAIN reports : reports[r] \in R
  BY <1>4
<1>6. \A v \in DOMAIN versions : VersionInv(v)
  BY <1>3, <1>5 DEF VersionInv, VersionFields
<1>7. \A r \in DOMAIN reports : ReportInv(r)
  BY <1>3, <1>11 DEF ReportInv, Pointer
<1>8. \A e \in Editors : \E x : x = edit[e] /\ FlowRequest(x) /\ ArchiveRequest(x)
  <2>1. FlowRequest(Idle) /\ ArchiveRequest(Idle)
    BY DEF Idle, FlowRequest, ArchiveRequest
  <2> QED
    BY <1>2, <2>1
<1>9. \A d \in DOMAIN definitions : Archived(d)
  <2>1. \A d \in DOMAIN definitions : past.definition[d].unused = 0
    BY <1>1 DEF Unseen
  <2> QED
    BY <2>1 DEF Archived
<1>10. \E n \in Nat : DOMAIN versions = 1..n
  BY <1>5
<1> QED
  BY <1>11, <1>6, <1>7, <1>8, <1>9, <1>10 DEF FlowInv

(***************************************************************************)
(* Analysis types.  What a publisher has seen of the report types holds    *)
(* until they are changed; what a deleter has counted, but for analyses    *)
(* made later.  Both are known of the request as of the type.              *)
(***************************************************************************)
\* A report type is published in a version that fits, or was changed later.
RefGood(ref, checked) ==
  /\ ref.report \in DOMAIN reports
  /\ \/ /\ reports[ref.report].status = "published"
        /\ ref.version \in {0, reports[ref.report].current}
     \/ past.report[ref.report] > checked

Attached(refs, checked) ==
  /\ refs # {}
  /\ \A r, s \in refs : r # s => r.order # s.order
  /\ \A ref \in refs : RefGood(ref, checked)

KnownFields == {"set", "read", "checked", "spared"}

ToldInv(t) ==
  \E known :
    /\ known = told[t] /\ known = [f \in KnownFields |-> known[f]]
    /\ known.set \in Nat /\ known.read \in Nat /\ known.checked \in Nat
    /\ known.read < edits /\ known.checked < edits

TypeInv(t) ==
  \E type, known :
    /\ type = types[t] /\ known = told[t]
    /\ type = [f \in DOMAIN type |-> type[f]] /\ "status" \in DOMAIN type /\ "refs" \in DOMAIN type
    /\ IsFiniteSet(type.refs)
    /\ type.status = "published" => known.set > known.read \/ Attached(type.refs, known.checked)

\* The analyses of t are spared by its deletion, or were made after n.
Spares(t, running, n) ==
  \A a \in DOMAIN analyses : analyses[a].type = t => a \in running \/ a > n

TypeRequest(x) ==
  /\ x.pc = "attached" => x = [f \in DOMAIN x |-> x[f]]
  /\ x.pc \in {"attached", "publish"} =>
       /\ "id" \in DOMAIN x /\ "refs" \in DOMAIN x /\ "read" \in DOMAIN x
       /\ x.id \in DOMAIN told /\ x.read \in Nat /\ x.read < edits
       /\ x.id \in DOMAIN types => told[x.id].set > x.read \/ types[x.id].refs = x.refs
  /\ x.pc = "publish" =>
       "checked" \in DOMAIN x /\ x.checked \in Nat /\ x.checked < edits /\ Attached(x.refs, x.checked)
  /\ x.pc \in {"unpublish", "count", "remove"} => "id" \in DOMAIN x /\ x.id \in DOMAIN told
  /\ x.pc = "remove" =>
       x.counted \in Nat /\ x.counted <= Len(analyses) /\ Spares(x.id, x.running, x.counted)

Analysis == [type : Nat, status : {"draft", "running", "done"}]

AnalysesInv ==
  /\ analyses \in Seq(Analysis) /\ Len(analyses) <= MaxAnalyses
  /\ \A a \in DOMAIN analyses :
       /\ analyses[a].type \in DOMAIN told
       /\ analyses[a].type \in DOMAIN types \/ a \in told[analyses[a].type].spared
  /\ \A t \in DOMAIN told \ DOMAIN types :
       \A a \in (Len(analyses) + 1)..MaxAnalyses : a \in told[t].spared

TypesShape ==
  /\ types = [t \in DOMAIN types |-> types[t]] /\ told = [t \in DOMAIN told |-> told[t]]
  /\ DOMAIN types \subseteq DOMAIN told
  /\ \E n \in Nat : DOMAIN told = 1..n

TypesInv ==
  /\ TypesShape
  /\ \A t \in DOMAIN told : ToldInv(t)
  /\ \A t \in DOMAIN types : TypeInv(t)
  /\ \A e \in Editors : \E x : x = edit[e] /\ TypeRequest(x)
  /\ AnalysesInv

\* A report type stays, or has been changed now.
ReportsDated ==
  \A r \in DOMAIN reports :
    /\ r \in DOMAIN reports'
    /\ \/ reports'[r] = reports[r] /\ past'.report[r] = past.report[r]
       \/ past'.report[r] = edits

\* A type keeps what is attached, or has been set now.
TypesDated ==
  /\ DOMAIN told \subseteq DOMAIN told'
  /\ \A t \in DOMAIN told \cap DOMAIN types' :
       /\ t \in DOMAIN types
       /\ \/ told'[t].set = told[t].set /\ types'[t].refs = types[t].refs
          \/ told'[t].set = edits

\* Analyses keep their types and are numbered as they are made.
AnalysesDated ==
  /\ Len(analyses) \in Nat /\ Len(analyses') \in Nat /\ Len(analyses) <= Len(analyses')
  /\ DOMAIN analyses' = 1..Len(analyses')
  /\ \A a \in 1..Len(analyses) : a \in DOMAIN analyses /\ analyses'[a].type = analyses[a].type

LEMMA AttachedStays ==
  ASSUME ReportsDated, NEW refs, NEW checked \in Nat, checked < edits, Attached(refs, checked)
  PROVE  Attached(refs, checked)'
BY DEF ReportsDated, Attached, RefGood

LEMMA SparesStay ==
  ASSUME AnalysesDated, NEW t, NEW running, NEW n \in Nat, n <= Len(analyses), Spares(t, running, n)
  PROVE  Spares(t, running, n)' /\ n <= Len(analyses')
BY DEF AnalysesDated, Spares

LEMMA TypeRequestStays ==
  ASSUME edits \in Nat, edits' = edits + 1, ReportsDated, TypesDated, AnalysesDated,
         NEW x, TypeRequest(x)
  PROVE  TypeRequest(x)'
<1>1. ASSUME x.pc = "publish" PROVE Attached(x.refs, x.checked)'
  BY <1>1, AttachedStays DEF TypeRequest
<1>2. ASSUME x.pc = "remove" PROVE Spares(x.id, x.running, x.counted)' /\ x.counted <= Len(analyses')
  BY <1>2, SparesStay DEF TypeRequest
<1>3. ASSUME x.pc \in {"attached", "publish"}, x.id \in DOMAIN types'
      PROVE  told'[x.id].set > x.read \/ types'[x.id].refs = x.refs
  BY <1>3 DEF TypeRequest, TypesDated
<1>4. x.pc \in {"attached", "publish", "unpublish", "count", "remove"} => x.id \in DOMAIN told'
  BY DEF TypeRequest, TypesDated
<1> QED
  BY <1>1, <1>2, <1>3, <1>4 DEF TypeRequest

LEMMA TypesStep ==
  ASSUME IInv, TypesInv, edits' = edits + 1, ReportsDated, TypesDated, AnalysesDated, TypesShape',
         \A t \in DOMAIN told' : (t \in DOMAIN told /\ told'[t] = told[t]) \/ ToldInv(t)',
         \A t \in DOMAIN types' :
           (t \in DOMAIN types /\ types'[t] = types[t] /\ told'[t] = told[t]) \/ TypeInv(t)',
         \A e \in Editors : edit'[e] = edit[e] \/ \E x : x = edit'[e] /\ TypeRequest(x)',
         AnalysesInv'
  PROVE  TypesInv'
<1>1. edits \in Nat
  BY DEF IInv, RowShape
<1>2. ASSUME NEW t \in DOMAIN told', t \in DOMAIN told, told'[t] = told[t]
      PROVE  ToldInv(t)'
  <2>1. PICK known :
          /\ known = told[t] /\ known = [f \in KnownFields |-> known[f]]
          /\ known.set \in Nat /\ known.read \in Nat /\ known.checked \in Nat
          /\ known.read < edits /\ known.checked < edits
    BY <1>2 DEF TypesInv, ToldInv
  <2>2. known = told'[t] /\ known.read < edits' /\ known.checked < edits'
    BY <1>1, <1>2, <2>1
  <2> QED
    BY <2>1, <2>2 DEF ToldInv
<1>3. ASSUME NEW t \in DOMAIN types', t \in DOMAIN types, types'[t] = types[t], told'[t] = told[t]
      PROVE  TypeInv(t)'
  <2>1. PICK type, known :
          /\ type = types[t] /\ known = told[t]
          /\ type = [f \in DOMAIN type |-> type[f]] /\ "status" \in DOMAIN type /\ "refs" \in DOMAIN type
          /\ IsFiniteSet(type.refs)
          /\ type.status = "published" => known.set > known.read \/ Attached(type.refs, known.checked)
    BY <1>3 DEF TypesInv, TypeInv
  <2>2. known.checked \in Nat /\ known.checked < edits
    BY <1>3, <2>1 DEF TypesInv, ToldInv, TypesShape
  <2>3. Attached(type.refs, known.checked) => Attached(type.refs, known.checked)'
    BY <2>2, AttachedStays
  <2>4. type = types'[t] /\ known = told'[t]
    BY <1>3, <2>1
  <2> QED
    BY <2>1, <2>3, <2>4 DEF TypeInv
<1>4. ASSUME NEW e \in Editors, edit'[e] = edit[e]
      PROVE  \E x : x = edit'[e] /\ TypeRequest(x)'
  <2>1. PICK x : x = edit[e] /\ TypeRequest(x)
    BY DEF TypesInv
  <2>2. TypeRequest(x)'
    BY <1>1, <2>1, TypeRequestStays
  <2> QED
    BY <1>4, <2>1, <2>2
<1> QED
  BY <1>2, <1>3, <1>4 DEF TypesInv

\* Only writes of report types change them.
LEMMA ReportTypesDated ==
  ASSUME IInv, BuilderInv, FlowInv, BuilderNext
  PROVE  ReportsDated
<1>1. past = [f \in PastFields |-> past[f]]
  BY DEF BuilderInv, BuilderShape
<1>2. ASSUME UNCHANGED reports, past'.report = past.report PROVE ReportsDated
  BY <1>2 DEF ReportsDated
<1>3. ASSUME UNCHANGED reports,
             \/ UNCHANGED past
             \/ \E known : past' = [past EXCEPT !.type = known]
             \/ \E known : past' = [past EXCEPT !.category = known]
             \/ \E known : past' = [past EXCEPT !.definition = known]
      PROVE  ReportsDated
  BY <1>1, <1>2, <1>3 DEF PastFields
<1>4. CASE SourceNext /\ UNCHANGED builderVars
  BY <1>3, <1>4 DEF builderVars
<1>5. CASE CreateNodeType \/ UpdateNodeType
  <2>1. \E known : past' = [past EXCEPT !.type = known]
    BY <1>1, <1>5 DEF CreateNodeType, UpdateNodeType
  <2> QED
    BY <1>3, <1>5, <2>1 DEF CreateNodeType, UpdateNodeType
<1>6. CASE UpdateCategory
  <2>1. \E known : past' = [past EXCEPT !.category = known]
    BY <1>1, <1>6 DEF UpdateCategory
  <2> QED
    BY <1>3, <1>6, <2>1 DEF UpdateCategory
<1>7. CASE CreateAsset
  <2>1. \E known : past' = [past EXCEPT !.definition = known]
    BY <1>7 DEF CreateAsset
  <2> QED
    BY <1>3, <1>7, <2>1 DEF CreateAsset
<1>8. CASE UpdateAsset
  <2>1. PICK d, body : past' = [past EXCEPT !.definition[d] = Overwritten(@, body)] /\ UNCHANGED reports
    BY <1>8 DEF UpdateAsset
  <2>2. \E known : past' = [past EXCEPT !.definition = known]
    BY <2>1
  <2> QED
    BY <1>3, <2>1, <2>2
<1>9. ASSUME NEW e \in Editors, WriteDefinition(e) PROVE ReportsDated
  <2>1. \E known : past' = [past EXCEPT !.definition = known]
    BY <1>9 DEF WriteDefinition
  <2> QED
    BY <1>3, <1>9, <2>1 DEF WriteDefinition
<1>10. ASSUME NEW e \in Editors,
              CreateDefinition(e) \/ ReadDefinition(e) \/ Usage(e) \/ ResolveCategory(e) \/ ResolveType(e)
       PROVE  ReportsDated
  <2>1. UNCHANGED builderVars
    BY <1>10 DEF CreateDefinition, ReadDefinition, Usage, ResolveCategory, ResolveType, Starts, Looks
  <2> QED
    BY <1>3, <2>1 DEF builderVars
<1>11. ASSUME NEW e \in Editors,
              \/ SaveFlow(e) \/ CopyVersion(e) \/ PointDraft(e) \/ WriteFlow(e)
              \/ Publish(e) \/ ReadDraft(e) \/ CheckFlow(e) \/ WriteSnapshot(e) \/ WriteCurrent(e)
              \/ Archive(e) \/ WriteArchived(e)
       PROVE  ReportsDated
  <2>1. CASE UNCHANGED <<reports, past>>
    BY <1>3, <2>1
  <2>2. ASSUME NEW r, NEW report,
               reports' = [reports EXCEPT ![r] = report], past' = [past EXCEPT !.report[r] = edits]
        PROVE  ReportsDated
    <3>1. past.report = [i \in DOMAIN reports |-> past.report[i]]
      BY DEF BuilderInv, BuilderShape, Dated
    <3>2. past'.report = [past.report EXCEPT ![r] = edits]
      BY <1>1, <2>2 DEF PastFields
    <3>3. reports = [i \in DOMAIN reports |-> reports[i]]
      BY DEF FlowInv
    <3>4. /\ DOMAIN reports' = DOMAIN reports
          /\ r \in DOMAIN reports => past'.report[r] = edits
          /\ \A i \in DOMAIN reports \ {r} : reports'[i] = reports[i] /\ past'.report[i] = past.report[i]
      BY <2>2, <3>1, <3>2, <3>3
    <3> QED
      BY <3>4 DEF ReportsDated
  <2> QED
    BY <1>11, <2>1, <2>2, ReportsWrite
<1> QED
  BY <1>4, <1>5, <1>6, <1>7, <1>8, <1>9, <1>10, <1>11 DEF BuilderNext

LEMMA ReportTypesSame ==
  ASSUME UNCHANGED builderVars
  PROVE  ReportsDated
BY DEF builderVars, ReportsDated

LEMMA AnalysesSame ==
  ASSUME TypesInv, UNCHANGED analyses
  PROVE  AnalysesDated
<1>1. analyses \in Seq(Analysis)
  BY DEF TypesInv, AnalysesInv
<1> QED
  BY <1>1 DEF AnalysesDated

\* Nothing is written.
LEMMA TypesElsewhere ==
  ASSUME IInv, TypesInv, edits' = edits + 1, ReportsDated, UNCHANGED typeVars,
         \A e \in Editors : edit'[e] = edit[e] \/ \E x : x = edit'[e] /\ TypeRequest(x)'
  PROVE  TypesInv'
<1>1. UNCHANGED <<types, told, analyses>>
  BY DEF typeVars
<1>2. AnalysesDated
  BY <1>1, AnalysesSame
<1>3. TypesDated
  BY <1>1 DEF TypesDated
<1>4. TypesShape' /\ AnalysesInv'
  BY <1>1 DEF TypesInv, TypesShape, AnalysesInv
<1> QED
  BY <1>1, <1>2, <1>3, <1>4, TypesStep

LEMMA TypesMove ==
  ASSUME IInv, TypesInv, ReportsDated, UNCHANGED typeVars, edits' = edits + 1,
         NEW e \in Editors, NEW to, edit' = [edit EXCEPT ![e] = to], TypeRequest(to)'
  PROVE  TypesInv'
<1>1. edit'[e] = to /\ \A f \in Editors \ {e} : edit'[f] = edit[f]
  BY DEF IInv, EditShape
<1> QED
  BY <1>1, TypesElsewhere

LEMMA NoTypeRequest ==
  ASSUME NEW to, Among(to, SourcePcs) \/ Among(to, DefinitionPcs) \/ Among(to, ReportPcs)
  PROVE  TypeRequest(to)'
BY DEF Among, SourcePcs, DefinitionPcs, ReportPcs, TypeRequest

LEMMA TypesOthersTurn ==
  ASSUME IInv, TypesInv, ReportsDated, UNCHANGED typeVars,
         Turns(SourcePcs) \/ Turns(DefinitionPcs) \/ Turns(ReportPcs)
  PROVE  TypesInv'
<1>1. edits' = edits + 1
  BY DEF Turns
<1>2. CASE edit' = edit
  BY <1>1, <1>2, TypesElsewhere
<1>3. ASSUME NEW e \in Editors, NEW to, edit' = [edit EXCEPT ![e] = to],
             Among(to, SourcePcs) \/ Among(to, DefinitionPcs) \/ Among(to, ReportPcs)
      PROVE  TypesInv'
  BY <1>1, <1>3, NoTypeRequest, TypesMove
<1> QED
  BY <1>2, <1>3 DEF Turns

LEMMA TypesOthers ==
  ASSUME IInv, BuilderInv, FlowInv, TypesInv, BuilderNext, UNCHANGED typeVars
  PROVE  TypesInv'
<1>1. ReportsDated
  BY ReportTypesDated
<1>2. CASE SourceNext
  BY <1>1, <1>2, SourceTurns, TypesOthersTurn
<1>3. CASE CreateNodeType \/ UpdateNodeType \/ UpdateCategory \/ CreateAsset \/ UpdateAsset
  <2>1. edits' = edits + 1 /\ edit' = edit
    BY <1>3 DEF CreateNodeType, UpdateNodeType, UpdateCategory, CreateAsset, UpdateAsset, AtOnce
  <2> QED
    BY <1>1, <2>1, TypesElsewhere
<1>4. ASSUME NEW e \in Editors,
             \/ CreateDefinition(e) \/ ReadDefinition(e) \/ Usage(e) \/ ResolveCategory(e)
             \/ ResolveType(e) \/ WriteDefinition(e)
      PROVE  TypesInv'
  <2>1. Turns(DefinitionPcs)
    BY <1>4, DefinitionTurns, TurnsFrom
  <2> QED
    BY <1>1, <2>1, TypesOthersTurn
<1>5. ASSUME NEW e \in Editors,
             \/ SaveFlow(e) \/ CopyVersion(e) \/ PointDraft(e) \/ WriteFlow(e)
             \/ Publish(e) \/ ReadDraft(e) \/ CheckFlow(e) \/ WriteSnapshot(e) \/ WriteCurrent(e)
             \/ Archive(e) \/ WriteArchived(e)
      PROVE  TypesInv'
  BY <1>1, <1>5, ReportsTurn, TypesOthersTurn
<1> QED
  BY <1>2, <1>3, <1>4, <1>5 DEF BuilderNext

(***************************************************************************)
(* The steps of analysis types.                                            *)
(***************************************************************************)
LEMMA TypeKnown ==
  ASSUME TypesInv, NEW t \in DOMAIN types
  PROVE  /\ t \in DOMAIN told
         /\ types[t] = [f \in DOMAIN types[t] |-> types[t][f]]
         /\ "status" \in DOMAIN types[t] /\ "refs" \in DOMAIN types[t] /\ IsFiniteSet(types[t].refs)
         /\ types[t].status = "published" => told[t].set > told[t].read \/ Attached(types[t].refs, told[t].checked)
BY DEF TypesInv, TypeInv, TypesShape

LEMMA ToldKnown ==
  ASSUME TypesInv, NEW t \in DOMAIN told
  PROVE  /\ told[t] = [f \in KnownFields |-> told[t][f]]
         /\ told[t].set \in Nat /\ told[t].read \in Nat /\ told[t].checked \in Nat
         /\ told[t].read < edits /\ told[t].checked < edits
BY DEF TypesInv, ToldInv

\* A request of one query leaves what the requests are in.
LEMMA TypesAtOnce ==
  ASSUME AtOnce
  PROVE  edits' = edits + 1 /\ edit' = edit
BY DEF AtOnce

LEMMA CreateTypeStep ==
  ASSUME IInv, TypesInv, CreateType
  PROVE  TypesInv'
<1>1. PICK n \in Nat : DOMAIN told = 1..n
  BY DEF TypesInv, TypesShape
<1>2. PICK refs, t, type, known :
        /\ refs \in NewRefs
        /\ t = Cardinality(DOMAIN told) + 1
        /\ type = [status |-> "draft", refs |-> refs] /\ known = [Untold EXCEPT !.set = edits]
        /\ AtOnce
        /\ types' = Add(types, t, type) /\ told' = Add(told, t, known)
        /\ UNCHANGED <<builderVars, analyses>>
  BY DEF CreateType
<1>3. t = n + 1 /\ t \notin DOMAIN told
  BY <1>1, <1>2, FS_Interval
<1>4. DOMAIN types \subseteq DOMAIN told /\ t \notin DOMAIN types
  BY <1>3 DEF TypesInv, TypesShape
<1>5. /\ DOMAIN types' = DOMAIN types \cup {t} /\ types'[t] = type /\ \A i \in DOMAIN types : types'[i] = types[i]
      /\ types' = [i \in DOMAIN types' |-> types'[i]]
      /\ DOMAIN told' = DOMAIN told \cup {t} /\ told'[t] = known /\ \A i \in DOMAIN told : told'[i] = told[i]
      /\ told' = [i \in DOMAIN told' |-> told'[i]]
  BY <1>2, <1>3, <1>4 DEF Add
<1>6. TypesShape'
  BY <1>1, <1>3, <1>4, <1>5 DEF TypesShape
<1>7. TypesDated
  BY <1>3, <1>4, <1>5 DEF TypesDated
<1>8. AnalysesDated /\ ReportsDated
  BY <1>2, AnalysesSame, ReportTypesSame
<1>9. edits \in Nat \ {0}
  BY DEF IInv, RowShape
<1>10. ToldInv(t)'
  <2>1. /\ known = [f \in KnownFields |-> known[f]]
        /\ known.set = edits /\ known.read = 0 /\ known.checked = 0
    BY <1>2 DEF Untold, KnownFields
  <2>2. known = told'[t] /\ edits' = edits + 1
    BY <1>2, <1>5 DEF AtOnce
  <2> QED
    BY <1>9, <2>1, <2>2 DEF ToldInv
<1>11. TypeInv(t)'
  <2>1. /\ type = [f \in DOMAIN type |-> type[f]] /\ "status" \in DOMAIN type /\ "refs" \in DOMAIN type
        /\ type.status = "draft" /\ type.refs = refs
    BY <1>2
  <2>2. type = types'[t] /\ known = told'[t] /\ IsFiniteSet(refs)
    BY <1>2, <1>5, TypeAssumption DEF TypeAssumption
  <2> QED
    BY <2>1, <2>2 DEF TypeInv
<1>12. AnalysesInv'
  <2>1. analyses' = analyses
    BY <1>2
  <2>2. AnalysesInv
    BY DEF TypesInv
  <2> QED
    BY <1>3, <1>4, <1>5, <2>1, <2>2 DEF AnalysesInv
<1>13. edits' = edits + 1 /\ edit' = edit
  BY <1>2, TypesAtOnce
<1>14. \A i \in DOMAIN told' : (i \in DOMAIN told /\ told'[i] = told[i]) \/ ToldInv(i)'
  BY <1>5, <1>10
<1>15. \A i \in DOMAIN types' :
         (i \in DOMAIN types /\ types'[i] = types[i] /\ told'[i] = told[i]) \/ TypeInv(i)'
  BY <1>4, <1>5, <1>11
<1> QED
  BY <1>6, <1>7, <1>8, <1>12, <1>13, <1>14, <1>15, TypesStep

LEMMA UpdateTypeStep ==
  ASSUME IInv, TypesInv, UpdateType
  PROVE  TypesInv'
<1>1. PICK t, dto, type :
        /\ t \in DOMAIN types /\ dto \in TypeChanges
        /\ type = Merged(dto, types[t]) /\ AtOnce
        /\ types' = [types EXCEPT ![t] = type]
        /\ told' = [told EXCEPT ![t].set = edits]
        /\ UNCHANGED <<builderVars, analyses>>
  BY DEF UpdateType
<1>2. PICK known : known = [told[t] EXCEPT !.set = edits]
  OBVIOUS
<1>3. t \in DOMAIN told /\ TypesShape
  BY <1>1, TypeKnown DEF TypesInv
<1>4. /\ DOMAIN types' = DOMAIN types /\ types'[t] = type /\ \A i \in DOMAIN types \ {t} : types'[i] = types[i]
      /\ types' = [i \in DOMAIN types' |-> types'[i]]
      /\ DOMAIN told' = DOMAIN told /\ told'[t] = known /\ \A i \in DOMAIN told \ {t} : told'[i] = told[i]
      /\ told' = [i \in DOMAIN told' |-> told'[i]]
  BY <1>1, <1>2, <1>3 DEF TypesShape
<1>5. /\ known = [f \in KnownFields |-> known[f]] /\ known.set = edits
      /\ known.read = told[t].read /\ known.checked = told[t].checked /\ known.spared = told[t].spared
  <2>1. told[t] = [f \in KnownFields |-> told[t][f]]
    BY <1>3, ToldKnown
  <2> QED
    BY <1>2, <2>1 DEF KnownFields
<1>6. TypesShape'
  BY <1>3, <1>4 DEF TypesShape
<1>7. TypesDated
  BY <1>4, <1>5 DEF TypesDated
<1>8. AnalysesDated /\ ReportsDated
  BY <1>1, AnalysesSame, ReportTypesSame
<1>9. edits \in Nat \ {0} /\ edits' = edits + 1 /\ edit' = edit
  BY <1>1, TypesAtOnce DEF IInv, RowShape
<1>10. /\ known.set \in Nat /\ known.read \in Nat /\ known.checked \in Nat
       /\ known.read < edits /\ known.checked < edits
  BY <1>3, <1>5, <1>9, ToldKnown
<1>11. ToldInv(t)'
  <2>1. known = told'[t] /\ known.read < edits' /\ known.checked < edits'
    BY <1>4, <1>9, <1>10
  <2> QED
    BY <1>5, <1>10, <2>1 DEF ToldInv
<1>12. TypeInv(t)'
  <2>1. /\ type = [f \in DOMAIN type |-> type[f]] /\ "status" \in DOMAIN type /\ "refs" \in DOMAIN type
        /\ type.refs = IF "refs" \in DOMAIN dto THEN dto.refs ELSE types[t].refs
    BY <1>1, TypeKnown DEF Merged
  <2>2. IsFiniteSet(type.refs)
    BY <1>1, <2>1, TypeKnown, TypeAssumption DEF TypeAssumption
  <2>3. type = types'[t] /\ known = told'[t] /\ known.set > known.read
    BY <1>4, <1>5, <1>9, <1>10
  <2> QED
    BY <2>1, <2>2, <2>3 DEF TypeInv
<1>13. AnalysesInv'
  <2>1. analyses' = analyses
    BY <1>1
  <2>2. AnalysesInv
    BY DEF TypesInv
  <2>3. /\ DOMAIN types' = DOMAIN types /\ DOMAIN told' = DOMAIN told
        /\ \A i \in DOMAIN told : told'[i].spared = told[i].spared
    BY <1>4, <1>5
  <2> QED
    BY <2>1, <2>2, <2>3 DEF AnalysesInv
<1>14. \A i \in DOMAIN told' : (i \in DOMAIN told /\ told'[i] = told[i]) \/ ToldInv(i)'
  BY <1>4, <1>11
<1>15. \A i \in DOMAIN types' :
         (i \in DOMAIN types /\ types'[i] = types[i] /\ told'[i] = told[i]) \/ TypeInv(i)'
  BY <1>3, <1>4, <1>12 DEF TypesShape
<1> QED
  BY <1>6, <1>7, <1>8, <1>9, <1>13, <1>14, <1>15, TypesStep

\* What Asks and Sees leave alone.
LEMMA TypesLook ==
  ASSUME IInv, TypesInv, NEW e \in Editors, NEW from, NEW to,
         Asks(e, to) \/ Sees(e, from, to), TypeRequest(to)'
  PROVE  TypesInv'
<1>1. UNCHANGED typeVars /\ UNCHANGED builderVars /\ edits' = edits + 1 /\ edit' = [edit EXCEPT ![e] = to]
  BY DEF Asks, Sees, Starts, Looks, Begins, Continues, Step
<1>2. ReportsDated
  BY <1>1, ReportTypesSame
<1> QED
  BY <1>1, <1>2, TypesMove

LEMMA TypesAsk ==
  ASSUME IInv, TypesInv, NEW e \in Editors, PublishType(e) \/ UnpublishType(e) \/ RemoveType(e)
  PROVE  TypesInv'
<1>1. edits \in Nat
  BY DEF IInv, RowShape
<1>2. PICK t, to :
        /\ t \in DOMAIN types
        /\ Asks(e, to)
        /\ \/ to = [pc |-> "attached", id |-> t, refs |-> types[t].refs, read |-> edits]
           \/ to = [pc |-> "unpublish", id |-> t]
           \/ to = [pc |-> "count", id |-> t]
  BY DEF PublishType, UnpublishType, RemoveType
<1>3. types' = types /\ told' = told /\ edits' = edits + 1
  BY <1>2 DEF Asks, Starts, Begins, typeVars
<1>4. t \in DOMAIN told
  BY <1>2, TypeKnown
<1>5. TypeRequest(to)'
  BY <1>1, <1>2, <1>3, <1>4 DEF TypeRequest
<1> QED
  BY <1>2, <1>5, TypesLook

LEMMA IdleRequest == TypeRequest(Idle)'
BY DEF Idle, TypeRequest

LEMMA CheckAttachedStep ==
  ASSUME IInv, TypesInv, NEW e \in Editors, CheckAttached(e)
  PROVE  TypesInv'
<1>1. PICK x, good :
        /\ x = edit[e] /\ x.pc = "attached" /\ good = (Orderly(x.refs) /\ \A ref \in x.refs : Attachable(ref))
        /\ Sees(e, "attached", IF good THEN Add([x EXCEPT !.pc = "publish"], "checked", edits) ELSE Idle)
  BY DEF CheckAttached
<1>2. TypeRequest(x) /\ "pc" \in DOMAIN x /\ x = [f \in DOMAIN x |-> x[f]] /\ edits \in Nat
  BY <1>1 DEF TypesInv, TypeRequest, IInv, EditShape, RowShape
<1>3. CASE ~good
  BY <1>1, <1>3, IdleRequest, TypesLook
<1>4. CASE good
  <2>1. PICK to : to = Add([x EXCEPT !.pc = "publish"], "checked", edits)
    OBVIOUS
  <2>2. Sees(e, "attached", to)
    BY <1>1, <1>4, <2>1
  <2>3. types' = types /\ told' = told /\ reports' = reports /\ past' = past /\ edits' = edits + 1
    BY <2>2 DEF Sees, Looks, typeVars, builderVars, Continues, Step
  <2>4. /\ DOMAIN to = DOMAIN x \cup {"checked"} /\ to.pc = "publish" /\ to.checked = edits
        /\ \A f \in DOMAIN x \ {"pc", "checked"} : to[f] = x[f]
    BY <1>2, <2>1 DEF Add
  <2>5. to.id = x.id /\ to.refs = x.refs /\ to.read = x.read
    BY <1>1, <1>2, <2>4 DEF TypeRequest
  <2>6. Attached(x.refs, edits)
    BY <1>1, <1>4 DEF Orderly, Attachable, Attached, RefGood
  <2>7. Attached(to.refs, to.checked)'
    BY <2>3, <2>4, <2>5, <2>6 DEF Attached, RefGood
  <2>8. TypeRequest(to)'
    BY <1>1, <1>2, <2>3, <2>4, <2>5, <2>7 DEF TypeRequest
  <2> QED
    BY <2>2, <2>8, TypesLook
<1> QED
  BY <1>3, <1>4

LEMMA CountAnalysesStep ==
  ASSUME IInv, TypesInv, NEW e \in Editors, CountAnalyses(e)
  PROVE  TypesInv'
<1>1. PICK t, running, to :
        /\ edit[e].pc = "count" /\ t = edit[e].id
        /\ running = {a \in DOMAIN analyses : analyses[a].type = t /\ analyses[a].status = "running"}
        /\ to = [pc |-> "remove", id |-> t, counted |-> Len(analyses), running |-> running]
        /\ Sees(e, "count", IF Counted(t) = {} THEN to ELSE Idle)
  BY DEF CountAnalyses
<1>2. t \in DOMAIN told
  BY <1>1 DEF TypesInv, TypeRequest
<1>3. CASE Counted(t) # {}
  BY <1>1, <1>3, IdleRequest, TypesLook
<1>4. CASE Counted(t) = {}
  <2>1. Sees(e, "count", to)
    BY <1>1, <1>4
  <2>2. analyses' = analyses /\ told' = told
    BY <2>1 DEF Sees, typeVars
  <2>3. Spares(t, running, Len(analyses))'
    BY <1>1, <1>4, <2>2 DEF Counted, Spares
  <2>4. Len(analyses) \in Nat
    BY DEF TypesInv, AnalysesInv
  <2>5. TypeRequest(to)'
    BY <1>1, <1>2, <2>2, <2>3, <2>4 DEF TypeRequest
  <2> QED
    BY <2>1, <2>5, TypesLook
<1> QED
  BY <1>3, <1>4

LEMMA SaveStatusStep ==
  ASSUME IInv, TypesInv, NEW e \in Editors, NEW from, NEW status, NEW t, t = edit[e].id,
         NEW known, SaveStatus(e, from, status, known), t \in DOMAIN told,
         known = [f \in KnownFields |-> known[f]],
         known.set = told[t].set, known.spared = told[t].spared,
         known.read \in Nat, known.checked \in Nat, known.read < edits, known.checked < edits,
         t \in DOMAIN types /\ status = "published" =>
           known.set > known.read \/ Attached(types[t].refs, known.checked)
  PROVE  TypesInv'
<1>1. /\ edits' = edits + 1 /\ edit' = [edit EXCEPT ![e] = Idle] /\ UNCHANGED <<builderVars, analyses>>
      /\ IF t \in DOMAIN types
           THEN types' = [types EXCEPT ![t].status = status] /\ told' = [told EXCEPT ![t] = known]
           ELSE UNCHANGED <<types, told>>
  BY DEF SaveStatus, Writes, Step
<1>2. ReportsDated
  BY <1>1, ReportTypesSame
<1>3. CASE t \notin DOMAIN types
  <2>1. UNCHANGED typeVars
    BY <1>1, <1>3 DEF typeVars
  <2> QED
    BY <1>1, <1>2, <2>1, IdleRequest, TypesMove
<1>4. CASE t \in DOMAIN types
  <2>1. PICK type : type = [types[t] EXCEPT !.status = status]
    OBVIOUS
  <2>2. TypesShape
    BY DEF TypesInv
  <2>3. /\ type = [f \in DOMAIN type |-> type[f]] /\ "status" \in DOMAIN type /\ "refs" \in DOMAIN type
        /\ type.status = status /\ type.refs = types[t].refs /\ IsFiniteSet(type.refs)
    BY <1>4, <2>1, TypeKnown
  <2>4. /\ DOMAIN types' = DOMAIN types /\ types'[t] = type /\ \A i \in DOMAIN types \ {t} : types'[i] = types[i]
        /\ types' = [i \in DOMAIN types' |-> types'[i]]
        /\ DOMAIN told' = DOMAIN told /\ told'[t] = known /\ \A i \in DOMAIN told \ {t} : told'[i] = told[i]
        /\ told' = [i \in DOMAIN told' |-> told'[i]]
    BY <1>1, <1>4, <2>1, <2>2 DEF TypesShape
  <2>5. TypesShape' /\ TypesDated
    BY <2>2, <2>3, <2>4 DEF TypesShape, TypesDated
  <2>6. AnalysesDated
    BY <1>1, AnalysesSame
  <2>7. edits \in Nat /\ known.set \in Nat
    BY ToldKnown DEF IInv, RowShape
  <2>8. ToldInv(t)'
    <3>1. known = told'[t] /\ known.read < edits' /\ known.checked < edits'
      BY <1>1, <2>4, <2>7
    <3> QED
      BY <2>7, <3>1 DEF ToldInv
  <2>9. TypeInv(t)'
    <3>1. type = types'[t] /\ known = told'[t]
      BY <2>4
    <3>2. type.status = "published" => known.set > known.read \/ Attached(type.refs, known.checked)'
      <4>1. PICK refs : refs = types[t].refs
        OBVIOUS
      <4>2. Attached(refs, known.checked) => Attached(refs, known.checked)'
        BY <1>2, AttachedStays
      <4> QED
        BY <1>4, <2>3, <4>1, <4>2
    <3> QED
      BY <2>3, <3>1, <3>2 DEF TypeInv
  <2>10. AnalysesInv'
    <3>1. analyses' = analyses /\ AnalysesInv
      BY <1>1 DEF TypesInv
    <3>2. /\ DOMAIN types' = DOMAIN types /\ DOMAIN told' = DOMAIN told
          /\ \A i \in DOMAIN told : told'[i].spared = told[i].spared
      BY <2>4
    <3> QED
      BY <3>1, <3>2 DEF AnalysesInv
  <2>11. \A i \in DOMAIN told' : (i \in DOMAIN told /\ told'[i] = told[i]) \/ ToldInv(i)'
    BY <2>4, <2>8
  <2>12. \A i \in DOMAIN types' :
           (i \in DOMAIN types /\ types'[i] = types[i] /\ told'[i] = told[i]) \/ TypeInv(i)'
    BY <2>2, <2>4, <2>9 DEF TypesShape
  <2>13. edit'[e] = Idle /\ \A f \in Editors \ {e} : edit'[f] = edit[f]
    BY <1>1 DEF IInv, EditShape
  <2> QED
    BY <1>1, <1>2, <2>5, <2>6, <2>10, <2>11, <2>12, <2>13, IdleRequest, TypesStep
<1> QED
  BY <1>3, <1>4

LEMMA SavePublishedStep ==
  ASSUME IInv, TypesInv, NEW e \in Editors, SavePublished(e)
  PROVE  TypesInv'
<1>1. PICK x, t, known :
        /\ x = edit[e] /\ t = x.id /\ x.pc = "publish"
        /\ known = [told[t] EXCEPT !.read = x.read, !.checked = x.checked]
        /\ SaveStatus(e, "publish", "published", known)
  BY DEF SavePublished
<1>2. TypeRequest(x)
  BY <1>1 DEF TypesInv
<1>3. /\ t \in DOMAIN told /\ x.read \in Nat /\ x.read < edits /\ x.checked \in Nat /\ x.checked < edits
      /\ t \in DOMAIN types => told[t].set > x.read \/ types[t].refs = x.refs
      /\ Attached(x.refs, x.checked)
  BY <1>1, <1>2 DEF TypeRequest
<1>4. /\ known = [f \in KnownFields |-> known[f]]
      /\ known.set = told[t].set /\ known.spared = told[t].spared
      /\ known.read = x.read /\ known.checked = x.checked
  <2>1. told[t] = [f \in KnownFields |-> told[t][f]]
    BY <1>3, ToldKnown
  <2> QED
    BY <1>1, <2>1 DEF KnownFields
<1>5. t \in DOMAIN types => known.set > known.read \/ Attached(types[t].refs, known.checked)
  BY <1>3, <1>4
<1>6. t = edit[e].id /\ SaveStatus(e, "publish", "published", known)
  BY <1>1
<1>7. known.read \in Nat /\ known.checked \in Nat /\ known.read < edits /\ known.checked < edits
  BY <1>3, <1>4
<1> QED
  BY <1>3, <1>4, <1>5, <1>6, <1>7, SaveStatusStep

LEMMA SaveUnpublishedStep ==
  ASSUME IInv, TypesInv, NEW e \in Editors, SaveUnpublished(e)
  PROVE  TypesInv'
<1>1. PICK x, t, known :
        /\ x = edit[e] /\ t = x.id /\ x.pc = "unpublish" /\ known = told[t]
        /\ SaveStatus(e, "unpublish", "draft", known)
  BY DEF SaveUnpublished
<1>2. TypeRequest(x)
  BY <1>1 DEF TypesInv
<1>3. t \in DOMAIN told
  BY <1>1, <1>2 DEF TypeRequest
<1>4. /\ known = [f \in KnownFields |-> known[f]]
      /\ known.set = told[t].set /\ known.spared = told[t].spared
      /\ known.read \in Nat /\ known.checked \in Nat /\ known.read < edits /\ known.checked < edits
  BY <1>1, <1>3, ToldKnown
<1>5. t = edit[e].id /\ SaveStatus(e, "unpublish", "draft", known)
  BY <1>1
<1> QED
  BY <1>3, <1>4, <1>5, SaveStatusStep

\* What a deletion does not know of, it spares.
LEMMA DeleteTypeStep ==
  ASSUME IInv, TypesInv, NEW e \in Editors, DeleteType(e)
  PROVE  TypesInv'
<1>1. PICK x, t, spared :
        /\ x = edit[e] /\ t = x.id /\ x.pc = "remove"
        /\ spared = x.running \cup ((x.counted + 1)..MaxAnalyses)
        /\ edits' = edits + 1 /\ edit' = [edit EXCEPT ![e] = Idle] /\ UNCHANGED <<builderVars, analyses>>
        /\ types' = Without(types, t)
        /\ told' = IF t \notin DOMAIN types THEN told ELSE [told EXCEPT ![t].spared = spared]
  BY DEF DeleteType, Writes, Step
<1>2. TypeRequest(x)
  BY <1>1 DEF TypesInv
<1>3. /\ t \in DOMAIN told /\ x.counted \in Nat /\ x.counted <= Len(analyses)
      /\ Spares(t, x.running, x.counted)
  BY <1>1, <1>2 DEF TypeRequest
<1>4. PICK known : known = IF t \in DOMAIN types THEN [told[t] EXCEPT !.spared = spared] ELSE told[t]
  OBVIOUS
<1>5. TypesShape
  BY DEF TypesInv
<1>6. /\ DOMAIN types' = DOMAIN types \ {t} /\ \A i \in DOMAIN types' : types'[i] = types[i]
      /\ types' = [i \in DOMAIN types' |-> types'[i]]
      /\ DOMAIN told' = DOMAIN told /\ told'[t] = known /\ \A i \in DOMAIN told \ {t} : told'[i] = told[i]
      /\ told' = [i \in DOMAIN told' |-> told'[i]]
  BY <1>1, <1>3, <1>4, <1>5 DEF Without, TypesShape
<1>7. /\ known = [f \in KnownFields |-> known[f]] /\ known.set = told[t].set
      /\ known.read = told[t].read /\ known.checked = told[t].checked
      /\ t \in DOMAIN types => known.spared = spared
      /\ t \notin DOMAIN types => known = told[t]
  <2>1. told[t] = [f \in KnownFields |-> told[t][f]]
    BY <1>3, ToldKnown
  <2> QED
    BY <1>4, <2>1 DEF KnownFields
<1>8. TypesShape' /\ TypesDated
  BY <1>5, <1>6 DEF TypesShape, TypesDated
<1>9. ReportsDated /\ AnalysesDated
  BY <1>1, ReportTypesSame, AnalysesSame
<1>10. ToldInv(t)'
  <2>1. edits \in Nat
    BY DEF IInv, RowShape
  <2>2. /\ known.set \in Nat /\ known.read \in Nat /\ known.checked \in Nat
        /\ known.read < edits' /\ known.checked < edits'
    BY <1>1, <1>3, <1>7, <2>1, ToldKnown
  <2> QED
    BY <1>6, <1>7, <2>2 DEF ToldInv
<1>11. AnalysesInv'
  <2>1. AnalysesInv /\ analyses' = analyses
    BY <1>1 DEF TypesInv
  <2>2. Len(analyses) \in Nat /\ DOMAIN analyses = 1..Len(analyses) /\ MaxAnalyses \in Nat
    BY <2>1, TypeAssumption DEF AnalysesInv, TypeAssumption
  <2>3. ASSUME t \in DOMAIN types, NEW a \in DOMAIN analyses, analyses[a].type = t
        PROVE  a \in spared
    <3>1. a \in x.running \/ a > x.counted
      BY <1>3, <2>3 DEF Spares
    <3> QED
      BY <1>1, <1>3, <2>1, <2>2, <3>1 DEF AnalysesInv
  <2>4. ASSUME t \in DOMAIN types, NEW a \in (Len(analyses) + 1)..MaxAnalyses
        PROVE  a \in spared
    BY <1>1, <1>3, <2>2
  <2>5. ASSUME NEW a \in DOMAIN analyses
        PROVE  analyses[a].type \in DOMAIN types' \/ a \in told'[analyses[a].type].spared
    <3>1. CASE analyses[a].type = t
      BY <1>6, <1>7, <2>1, <2>3, <3>1 DEF AnalysesInv
    <3>2. CASE analyses[a].type # t
      BY <1>6, <2>1, <3>2 DEF AnalysesInv
    <3> QED
      BY <3>1, <3>2
  <2>6. ASSUME NEW i \in DOMAIN told' \ DOMAIN types', NEW a \in (Len(analyses) + 1)..MaxAnalyses
        PROVE  a \in told'[i].spared
    <3>1. CASE i = t
      BY <1>3, <1>6, <1>7, <2>1, <2>4, <3>1 DEF AnalysesInv
    <3>2. CASE i # t
      BY <1>6, <2>1, <3>2 DEF AnalysesInv
    <3> QED
      BY <3>1, <3>2
  <2> QED
    BY <1>6, <2>1, <2>5, <2>6 DEF AnalysesInv
<1>12. \A i \in DOMAIN told' : (i \in DOMAIN told /\ told'[i] = told[i]) \/ ToldInv(i)'
  BY <1>6, <1>10
<1>13. \A i \in DOMAIN types' :
         (i \in DOMAIN types /\ types'[i] = types[i] /\ told'[i] = told[i]) \/ TypeInv(i)'
  BY <1>5, <1>6 DEF TypesShape
<1>14. edit'[e] = Idle /\ \A f \in Editors \ {e} : edit'[f] = edit[f]
  BY <1>1 DEF IInv, EditShape
<1> QED
  BY <1>1, <1>8, <1>9, <1>11, <1>12, <1>13, <1>14, IdleRequest, TypesStep

LEMMA AnalysisStep ==
  ASSUME IInv, TypesInv, CreateAnalysis \/ TurnAnalysis
  PROVE  TypesInv'
<1>1. edits' = edits + 1 /\ edit' = edit /\ UNCHANGED <<builderVars, types, told>>
  BY TypesAtOnce DEF CreateAnalysis, TurnAnalysis
<1>2. AnalysesInv /\ TypesShape
  BY DEF TypesInv
<1>3. /\ analyses \in Seq(Analysis) /\ Len(analyses) \in Nat /\ DOMAIN analyses = 1..Len(analyses)
      /\ MaxAnalyses \in Nat
  BY <1>2, TypeAssumption DEF AnalysesInv, TypeAssumption
<1>4. AnalysesInv' /\ AnalysesDated
  <2>1. CASE CreateAnalysis
    <3>1. PICK t, one :
            /\ t \in DOMAIN told
            /\ one = [type |-> t, status |-> "draft"] /\ Len(analyses) < MaxAnalyses
            /\ analyses' = Append(analyses, one)
      BY <2>1 DEF CreateAnalysis
    <3>2. one \in Analysis /\ one.type = t
      BY <1>2, <3>1 DEF TypesShape, Analysis
    <3>3. /\ analyses' \in Seq(Analysis) /\ Len(analyses') = Len(analyses) + 1
          /\ DOMAIN analyses' = 1..(Len(analyses) + 1)
          /\ analyses'[Len(analyses) + 1] = one
          /\ \A a \in DOMAIN analyses : analyses'[a] = analyses[a]
      BY <1>3, <3>1, <3>2
    <3>4. ASSUME NEW a \in DOMAIN analyses'
          PROVE  /\ analyses'[a].type \in DOMAIN told
                 /\ analyses'[a].type \in DOMAIN types \/ a \in told[analyses'[a].type].spared
      <4>1. CASE a \in DOMAIN analyses
        BY <1>2, <3>3, <4>1 DEF AnalysesInv
      <4>2. CASE a = Len(analyses) + 1
        <5>1. a \in (Len(analyses) + 1)..MaxAnalyses
          BY <1>3, <3>1, <4>2
        <5> QED
          BY <1>2, <3>1, <3>2, <3>3, <4>2, <5>1 DEF AnalysesInv
      <4> QED
        BY <1>3, <3>3, <4>1, <4>2
    <3>5. \A t2 \in DOMAIN told \ DOMAIN types : \A a \in (Len(analyses') + 1)..MaxAnalyses : a \in told[t2].spared
      BY <1>2, <1>3, <3>3 DEF AnalysesInv
    <3>6. AnalysesInv'
      BY <1>1, <1>3, <3>1, <3>3, <3>4, <3>5 DEF AnalysesInv
    <3>7. AnalysesDated
      BY <1>3, <3>3 DEF AnalysesDated
    <3> QED
      BY <3>6, <3>7
  <2>2. CASE TurnAnalysis
    <3>1. PICK b \in DOMAIN analyses :
            analyses' = [analyses EXCEPT ![b].status = IF @ = "running" THEN "done" ELSE "running"]
      BY <2>2 DEF TurnAnalysis
    <3>2. PICK one, status : /\ status = (IF analyses[b].status = "running" THEN "done" ELSE "running")
                             /\ one = [analyses[b] EXCEPT !.status = status]
      OBVIOUS
    <3>3. analyses[b] \in Analysis
      BY <1>3
    <3>4. one \in Analysis /\ one.type = analyses[b].type
      BY <3>2, <3>3 DEF Analysis
    <3>5. analyses' = [analyses EXCEPT ![b] = one]
      BY <3>1, <3>2
    <3>6. /\ analyses' \in Seq(Analysis) /\ Len(analyses') = Len(analyses)
          /\ DOMAIN analyses' = DOMAIN analyses
          /\ \A a \in DOMAIN analyses : analyses'[a].type = analyses[a].type
      BY <1>3, <3>4, <3>5
    <3>7. AnalysesInv'
      BY <1>1, <1>2, <3>6 DEF AnalysesInv
    <3>8. AnalysesDated
      BY <1>3, <3>6 DEF AnalysesDated
    <3> QED
      BY <3>7, <3>8
  <2> QED
    BY <2>1, <2>2
<1>5. TypesDated /\ TypesShape' /\ ReportsDated
  BY <1>1, <1>2, ReportTypesSame DEF TypesDated, TypesShape
<1> QED
  BY <1>1, <1>2, <1>4, <1>5, TypesStep DEF TypesShape

LEMMA TypesKept == IInv /\ BuilderInv /\ FlowInv /\ TypesInv /\ [Next]_vars => TypesInv'
<1> SUFFICES ASSUME IInv, BuilderInv, FlowInv, TypesInv, [Next]_vars PROVE TypesInv'
  OBVIOUS
<1>1. CASE BuilderNext /\ UNCHANGED typeVars
  BY <1>1, TypesOthers
<1>2. CASE CreateType \/ UpdateType \/ CreateAnalysis \/ TurnAnalysis
  BY <1>2, CreateTypeStep, UpdateTypeStep, AnalysisStep
<1>3. ASSUME NEW e \in Editors,
             \/ PublishType(e) \/ CheckAttached(e) \/ SavePublished(e)
             \/ UnpublishType(e) \/ SaveUnpublished(e)
             \/ RemoveType(e) \/ CountAnalyses(e) \/ DeleteType(e)
      PROVE  TypesInv'
  BY <1>3, TypesAsk, CheckAttachedStep, SavePublishedStep, SaveUnpublishedStep, CountAnalysesStep, DeleteTypeStep
<1>4. CASE UNCHANGED vars
  <2>1. /\ types' = types /\ told' = told /\ analyses' = analyses /\ reports' = reports /\ past' = past
        /\ edit' = edit /\ edits' = edits
    BY <1>4 DEF vars, typeVars, builderVars, sourceVars
  <2>2. TypesShape' /\ AnalysesInv'
    BY <2>1 DEF TypesInv, TypesShape, AnalysesInv
  <2>3. \A t \in DOMAIN told' : ToldInv(t)'
    BY <2>1 DEF TypesInv, ToldInv
  <2>4. \A t \in DOMAIN types' : TypeInv(t)'
    BY <2>1 DEF TypesInv, TypeInv, Attached, RefGood
  <2>5. ASSUME NEW e \in Editors PROVE \E x : x = edit'[e] /\ TypeRequest(x)'
    <3>1. PICK x : x = edit[e] /\ TypeRequest(x)
      BY DEF TypesInv
    <3>2. TypeRequest(x)'
      BY <2>1, <3>1 DEF TypeRequest, Attached, RefGood, Spares
    <3> QED
      BY <2>1, <3>1, <3>2
  <2> QED
    BY <2>2, <2>3, <2>4, <2>5 DEF TypesInv
<1> QED
  BY <1>1, <1>2, <1>3, <1>4 DEF Next

LEMMA TypesBegun == Init => TypesInv
<1> SUFFICES ASSUME Init PROVE TypesInv
  OBVIOUS
<1>1. /\ types \in Types /\ analyses = <<>> /\ told = [t \in DOMAIN types |-> Untold]
      /\ edits = 1 /\ edit = [e \in Editors |-> Idle]
  BY DEF Init, SourceInit
<1>2. PICK S : S = [status : {"draft"}, refs : SUBSET Attachment]
  OBVIOUS
<1>3. types \in Seq(S) /\ \A t \in DOMAIN types : IsFiniteSet(types[t].refs)
  BY <1>1, <1>2, TypeAssumption DEF TypeAssumption
<1>4. /\ DOMAIN types = 1..Len(types) /\ Len(types) \in Nat
      /\ types = [t \in DOMAIN types |-> types[t]] /\ \A t \in DOMAIN types : types[t] \in S
  BY <1>3
<1>5. TypesShape
  BY <1>1, <1>4 DEF TypesShape
<1>6. \A t \in DOMAIN told : ToldInv(t)
  <2>1. /\ Untold = [f \in KnownFields |-> Untold[f]]
        /\ Untold.set = 0 /\ Untold.read = 0 /\ Untold.checked = 0
    BY DEF Untold, KnownFields
  <2> QED
    BY <1>1, <2>1 DEF ToldInv
<1>7. ASSUME NEW t \in DOMAIN types PROVE TypeInv(t)
  <2>1. PICK type, known : type = types[t] /\ known = told[t] /\ type \in S
    BY <1>4
  <2>2. /\ type = [f \in DOMAIN type |-> type[f]] /\ "status" \in DOMAIN type /\ "refs" \in DOMAIN type
        /\ type.status = "draft"
    BY <1>2, <2>1
  <2>3. IsFiniteSet(type.refs)
    BY <1>3, <2>1
  <2> QED
    BY <2>1, <2>2, <2>3 DEF TypeInv
<1>8. \A e \in Editors : \E x : x = edit[e] /\ TypeRequest(x)
  BY <1>1 DEF Idle, TypeRequest
<1>9. AnalysesInv
  BY <1>1, TypeAssumption DEF AnalysesInv, TypeAssumption
<1> QED
  BY <1>5, <1>6, <1>7, <1>8, <1>9 DEF TypesInv

LEMMA AttachedPublished == TypesInv => PublishedAttached
<1> SUFFICES ASSUME TypesInv, NEW t \in DOMAIN types, types[t].status = "published", ~(told[t].set > told[t].read)
             PROVE  /\ types[t].refs # {}
                    /\ Cardinality({ref.order : ref \in types[t].refs}) = Cardinality(types[t].refs)
                    /\ \A ref \in types[t].refs :
                         \/ /\ reports[ref.report].status = "published"
                            /\ ref.version \in {0, reports[ref.report].current}
                         \/ past.report[ref.report] > told[t].checked
  BY DEF PublishedAttached
<1>1. IsFiniteSet(types[t].refs) /\ Attached(types[t].refs, told[t].checked)
  BY TypeKnown
<1>2. PICK refs, orders, f :
        /\ refs = types[t].refs /\ orders = {ref.order : ref \in refs} /\ f = [ref \in refs |-> ref.order]
  OBVIOUS
<1>3. f \in Surjection(refs, orders) /\ f \in Injection(refs, orders)
  BY <1>1, <1>2 DEF Attached, Surjection, Injection, IsInjective
<1>4. Cardinality(orders) = Cardinality(refs)
  BY <1>1, <1>2, <1>3, FS_Surjection
<1> QED
  BY <1>1, <1>2, <1>4 DEF Attached, RefGood

LEMMA AnalysesSpared == TypesInv => RemovedUnused
BY DEF TypesInv, AnalysesInv, RemovedUnused

\* What one document of the catalogues says of another is so, or an edit that
\* came between a look and a write explains it: archived definitions that are
\* named, keys and ports that differ, attached report types that are not
\* published, and analyses without a type, for any number of editors.
THEOREM ReferencesAreExplained == Spec => []ReferencesExplained
<1>1. Init => IInv /\ BuilderInv /\ FlowInv /\ TypesInv
  BY Begun, BuilderBegun, FlowBegun, TypesBegun
<1>2. IInv /\ BuilderInv /\ FlowInv /\ TypesInv /\ [Next]_vars => IInv' /\ BuilderInv' /\ FlowInv' /\ TypesInv'
  BY Kept, BuilderKept, FlowKept, TypesKept
<1>3. BuilderInv /\ FlowInv /\ TypesInv => ReferencesExplained
  BY NothingArchivedInUse, KeysAndPorts, AttachedPublished, AnalysesSpared DEF ReferencesExplained
<1> QED
  BY <1>1, <1>2, <1>3, PTL DEF Spec

===============================================================================
