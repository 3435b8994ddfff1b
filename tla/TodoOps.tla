------------------------------ MODULE TodoOps ------------------------------
(* The todo list as operations (src/src/conversation/todos.ts): the fold,  *)
(* what an agent's write does to the list and to the log, and what the     *)
(* person's commit does.                                                   *)
(*                                                                         *)
(* An item is [id, text, done, note].  Texts are compared as trimmed (what *)
(* an edit, a strike or an unstrike targets is matched as it was given);   *)
(* Blank is what trims to nothing, and no note.  Absent: a field left out. *)
(***************************************************************************)
EXTENDS Naturals, SequencesExt

CONSTANTS Absent, Blank

NoMatch == "no match"

TextsOf(items) == {items[n].text : n \in DOMAIN items}
IdsOf(items)   == {items[n].id : n \in DOMAIN items}
Item(id, text, done, note) == [id |-> id, text |-> text, done |-> done, note |-> note]

-----------------------------------------------------------------------------
(* foldTodos                                                               *)

Edited(item, edit) ==
    IF item.id # edit.id THEN item
    ELSE Item(item.id, IF edit.text = Absent THEN item.text ELSE edit.text,
              item.done, IF edit.note = Absent THEN item.note ELSE edit.note)
ApplyEdit(items, edit) == [n \in DOMAIN items |-> Edited(items[n], edit)]

Marked(item, op) == IF item.id \in op.ids THEN Item(item.id, item.text, op.done, item.note) ELSE item

ApplyOp(items, op) ==
    CASE op.op = "add"  -> items \o [n \in DOMAIN op.items |->
                                        Item(op.items[n].id, op.items[n].text, FALSE, Blank)]
      [] op.op = "edit" -> FoldLeft(ApplyEdit, items, op.edits)
      [] op.op = "mark" -> [n \in DOMAIN items |-> Marked(items[n], op)]
      [] op.op = "set"  -> op.items

FoldTodos(items, ops) == FoldLeft(ApplyOp, items, ops)

-----------------------------------------------------------------------------
(* planTodoWrite.  A plan that refused stays refused.                      *)

Plan(ops, items, changed) == [ok |-> TRUE, ops |-> ops, items |-> items, changed |-> changed]
Refused == [ok |-> FALSE, ops |-> <<>>, items |-> <<>>, changed |-> {}]

(* An id before a text, and a text only where it is the only one.          *)
Resolve(items, target) ==
    LET readSo == {n \in DOMAIN items : items[n].text = target}
    IN  CASE target \in IdsOf(items) -> target
          [] target \notin IdsOf(items) /\ Cardinality(readSo) = 1 -> items[CHOOSE n \in readSo : TRUE].id
          [] OTHER -> NoMatch

Do(plan, op, touched) ==
    Plan(Append(plan.ops, op), ApplyOp(plan.items, op), plan.changed \cup touched)

Adding(plan, texts, ids) ==
    IF texts = <<>> THEN plan
    ELSE IF \/ \E n \in DOMAIN texts : texts[n] \in TextsOf(plan.items)
            \/ ~IsInjective(texts)
         THEN Refused
         ELSE LET new == [n \in DOMAIN texts |-> [id |-> ids[n], text |-> texts[n]]]
              IN  Do(plan, [op |-> "add", items |-> new], IdsOf(new))

(* Each edit lands before the next is resolved; recorded as one operation. *)
Clashes(items, text, id) == \E n \in DOMAIN items : items[n].text = text /\ items[n].id # id

EditOne(draft, edit) ==
    LET id == Resolve(draft.items, edit.item)
        one == [id |-> id, text |-> edit.text, note |-> edit.note]
    IN  IF \/ ~draft.ok \/ id = NoMatch
           \/ edit.text = Absent /\ edit.note = Absent
           \/ edit.text = Blank \/ Clashes(draft.items, edit.text, id)
        THEN [ok |-> FALSE, items |-> draft.items, edits |-> draft.edits]
        ELSE [ok |-> TRUE, items |-> ApplyEdit(draft.items, one), edits |-> Append(draft.edits, one)]

Editing(plan, edits) ==
    IF ~plan.ok \/ edits = <<>> THEN plan
    ELSE LET draft == FoldLeft(EditOne, [ok |-> TRUE, items |-> plan.items, edits |-> <<>>], edits)
         IN  IF draft.ok
             THEN Plan(Append(plan.ops, [op |-> "edit", edits |-> draft.edits]), draft.items,
                       plan.changed \cup IdsOf(draft.edits))
             ELSE Refused

Marking(plan, targets, done) ==
    LET hits == {Resolve(plan.items, targets[n]) : n \in DOMAIN targets}
    IN  IF ~plan.ok \/ targets = <<>> THEN plan
        ELSE IF NoMatch \in hits THEN Refused
        ELSE Do(plan, [op |-> "mark", ids |-> hits, done |-> done], hits)

(* ids: the ones newId() will mint                                         *)
PlanTodoWrite(items, input, ids) ==
    LET start == Plan(<<>>, items, {})
        asked == \E field \in {"add", "edit", "strike", "unstrike"} : input[field] # <<>>
    IN  IF ~asked THEN Refused
        ELSE Marking(Marking(Editing(Adding(start, input.add, ids), input.edit),
                             input.strike, TRUE), input.unstrike, FALSE)

-----------------------------------------------------------------------------
(* planTodoSnapshot                                                        *)

ClaimsTwice(items, rows, n) ==      \* mutant: two rows may claim one item
    rows[n].id \in IdsOf(items)
Keeps(items, rows, n) ==
    rows[n].id \in IdsOf(items) /\ \A m \in 1..(n - 1) : rows[m].id # rows[n].id

KeptNote(items, id) == items[CHOOSE n \in DOMAIN items : items[n].id = id].note

(* A blank row is a deletion.  Rows that keep no id take the next new one. *)
Fill(rows, row) == IF row.text = Blank THEN rows ELSE Append(rows, row)
Filled(desired) == FoldLeft(Fill, <<>>, desired)
NewRows(items, rows) == {n \in DOMAIN rows : ~Keeps(items, rows, n)}

SnapshotItems(items, rows, ids) ==
    LET id(n) == IF Keeps(items, rows, n) THEN rows[n].id
                 ELSE ids[Cardinality(NewRows(items, rows) \cap 1..n)]
        note(n) == CASE rows[n].note # Absent -> rows[n].note
                     [] rows[n].note = Absent /\ Keeps(items, rows, n) -> KeptNote(items, rows[n].id)
                     [] OTHER -> Blank
    IN  [n \in DOMAIN rows |-> Item(id(n), rows[n].text, rows[n].done, note(n))]
=============================================================================
