-------------------------- MODULE DocumentsProofs --------------------------
(* Proofs about the components that keep a document, for every value of    *)
(* their constants: the todo list (TodoList) and the configuration file    *)
(* (Config).  What a fold computes is in Folding.                          *)
EXTENDS TodoList, Config, Reading,
        SequenceTheorems, FiniteSetTheorems, WellFoundedInduction, TLAPS

F0 == INSTANCE Folding WITH Step <- ApplyOp
FE == INSTANCE Folding WITH Step <- ApplyEdit
FD == INSTANCE Folding WITH Step <- EditOne
FF == INSTANCE Folding WITH Step <- Fill

ListStep(l, node) == FoldTodos(l, node[2].ops)
TipStep(t, node) == IF node[2].ops # <<>> THEN node[1] ELSE t

FL == INSTANCE Folding WITH Step <- ListStep
FT == INSTANCE Folding WITH Step <- TipStep

-----------------------------------------------------------------------------
(* Sequences                                                               *)

IsSeq(s) == s \in Seq({s[n] : n \in DOMAIN s})

LEMMA SeqIs == ASSUME NEW s, IsSeq(s) PROVE Len(s) \in Nat /\ DOMAIN s = 1..Len(s) /\ s = [n \in 1..Len(s) |-> s[n]]
  BY DEF IsSeq

LEMMA SeqIntro == ASSUME NEW s, NEW k \in Nat, s = [n \in 1..k |-> s[n]] PROVE IsSeq(s) /\ Len(s) = k /\ DOMAIN s = 1..k
  <1> DEFINE R == {s[n] : n \in DOMAIN s}
  <1>1. DOMAIN s = 1..k
    OBVIOUS
  <1>2. s \in [1..k -> R]
    BY <1>1
  <1> HIDE DEF R
  <1>3. s \in Seq(R) /\ Len(s) = k
    BY <1>2
  <1> QED
    BY <1>1, <1>3 DEF IsSeq, R

LEMMA SeqIn == ASSUME NEW S, NEW s \in Seq(S) PROVE IsSeq(s)
  <1>1. Len(s) \in Nat /\ s \in [1..Len(s) -> S]
    BY LenProperties
  <1>2. s = [n \in 1..Len(s) |-> s[n]]
    BY <1>1
  <1> QED
    BY <1>1, <1>2, SeqIntro

LEMMA SeqAppend == ASSUME NEW s, IsSeq(s), NEW x
                   PROVE  /\ IsSeq(Append(s, x)) /\ Len(Append(s, x)) = Len(s) + 1
                          /\ \A n \in 1..Len(s) : Append(s, x)[n] = s[n]
                          /\ Append(s, x)[Len(s) + 1] = x
  <1> DEFINE S == {s[n] : n \in DOMAIN s} \cup {x}
  <1>1. s \in Seq(S) /\ x \in S
    BY DEF IsSeq
  <1> HIDE DEF S
  <1>2. /\ Append(s, x) \in Seq(S) /\ Len(Append(s, x)) = Len(s) + 1
        /\ \A n \in 1..Len(s) : Append(s, x)[n] = s[n]
        /\ Append(s, x)[Len(s) + 1] = x
    BY <1>1, AppendProperties
  <1> QED
    BY <1>2, SeqIn

LEMMA SeqConcat == ASSUME NEW s, IsSeq(s), NEW t, IsSeq(t)
                   PROVE  /\ IsSeq(s \o t) /\ Len(s \o t) = Len(s) + Len(t)
                          /\ \A n \in 1..Len(s) : (s \o t)[n] = s[n]
                          /\ \A n \in 1..Len(t) : (s \o t)[Len(s) + n] = t[n]
  <1> DEFINE S == {s[n] : n \in DOMAIN s} \cup {t[n] : n \in DOMAIN t}
  <1>1. s \in Seq(S) /\ t \in Seq(S)
    BY DEF IsSeq
  <1> HIDE DEF S
  <1>2. /\ (s \o t) \in Seq(S) /\ Len(s \o t) = Len(s) + Len(t)
        /\ \A n \in 1..(Len(s) + Len(t)) : (s \o t)[n] = IF n <= Len(s) THEN s[n] ELSE t[n - Len(s)]
    BY <1>1, ConcatProperties
  <1>3. Len(s) \in Nat /\ Len(t) \in Nat /\ IsSeq(s \o t)
    BY <1>2, SeqIs, SeqIn
  <1> QED
    BY <1>2, <1>3

LEMMA SeqNone == IsSeq(<<>>) /\ Len(<<>>) = 0
  BY DEF IsSeq

LEMMA SeqOne == ASSUME NEW x PROVE IsSeq(<<x>>) /\ Len(<<x>>) = 1 /\ <<x>>[1] = x
  BY DEF IsSeq

-----------------------------------------------------------------------------
(* Lists and operations                                                    *)

IsItem(r) == r = Item(r.id, r.text, r.done, r.note)
IsList(l) == IsSeq(l) /\ \A n \in 1..Len(l) : IsItem(l[n])

LEMMA ItemIs ==
    ASSUME NEW id, NEW text, NEW done, NEW note
    PROVE  /\ IsItem(Item(id, text, done, note))
           /\ Item(id, text, done, note).id = id /\ Item(id, text, done, note).text = text
  BY DEF Item, IsItem

LEMMA EditIs == ASSUME NEW l, IsList(l), NEW e PROVE ApplyEdit(l, e) = [n \in 1..Len(l) |-> Edited(l[n], e)]
  BY SeqIs DEF IsList, ApplyEdit

(* An edit leaves the rows where they are, and what they are called by.    *)
SameRows(l, m) == IsList(m) /\ Len(m) = Len(l) /\ \A n \in 1..Len(l) : m[n].id = l[n].id

LEMMA EditKeepsRows == ASSUME NEW l, IsList(l), NEW e PROVE SameRows(l, ApplyEdit(l, e))
  <1> DEFINE m == ApplyEdit(l, e)
  <1>1. m = [n \in 1..Len(l) |-> Edited(l[n], e)] /\ Len(l) \in Nat
    BY EditIs, SeqIs DEF IsList
  <1>2. \A n \in 1..Len(l) : IsItem(Edited(l[n], e)) /\ Edited(l[n], e).id = l[n].id
    BY ItemIs DEF IsList, Edited
  <1>3. m = [n \in 1..Len(l) |-> m[n]]
    BY <1>1
  <1> HIDE DEF m
  <1>4. IsSeq(m) /\ Len(m) = Len(l)
    BY <1>1, <1>3, SeqIntro
  <1>5. SameRows(l, m)
    BY <1>1, <1>2, <1>4 DEF SameRows, IsList
  <1> QED
    BY <1>5 DEF m

LEMMA FoldTodosIs == ASSUME NEW l, NEW ops PROVE FoldTodos(l, ops) = F0!FoldOf(l, ops)
  BY DEF F0!FoldOf, FoldTodos, FoldLeft, MapThenFoldSet, F0!FoldLeft, F0!MapThenFoldSet, Max, F0!Max

LEMMA FoldTodosNone == ASSUME NEW l PROVE FoldTodos(l, <<>>) = l
  BY FoldTodosIs, F0!FoldNone

LEMMA FoldTodosMore == ASSUME NEW l, NEW ops, IsSeq(ops), NEW op
                       PROVE FoldTodos(l, Append(ops, op)) = ApplyOp(FoldTodos(l, ops), op)
  <1>1. /\ Len(ops) \in Nat /\ DOMAIN ops = 1..Len(ops)
        /\ DOMAIN Append(ops, op) = 1..(Len(ops) + 1)
        /\ \A n \in 1..Len(ops) : Append(ops, op)[n] = ops[n]
        /\ Append(ops, op)[Len(ops) + 1] = op
    <2>1. Len(ops) \in Nat /\ DOMAIN ops = 1..Len(ops)
      BY SeqIs
    <2>2. IsSeq(Append(ops, op))
      BY SeqAppend
    <2>3. DOMAIN Append(ops, op) = 1..(Len(ops) + 1)
      BY <2>2, SeqIs, SeqAppend
    <2> QED
      BY <2>1, <2>3, SeqAppend
  <1>2. F0!FoldOf(l, Append(ops, op)) = ApplyOp(F0!FoldOf(l, ops), Append(ops, op)[Len(ops) + 1])
    <2>1. PICK zs : zs = Append(ops, op)
      OBVIOUS
    <2>2. PICK k \in Nat : k = Len(ops)
      BY <1>1
    <2>3. DOMAIN ops = 1..k /\ DOMAIN zs = 1..(k + 1) /\ \A n \in 1..k : zs[n] = ops[n]
      BY <1>1, <2>1, <2>2
    <2>4. F0!FoldOf(l, zs) = ApplyOp(F0!FoldOf(l, ops), zs[k + 1])
      BY <2>3, F0!FoldMore
    <2> QED
      BY <2>1, <2>2, <2>4
  <1> QED
    BY <1>1, <1>2, FoldTodosIs

(* Rows apart: no two by one id, or by one text.                           *)
IdsApart(l) == \A m, n \in 1..Len(l) : l[m].id = l[n].id => m = n
TextsApart(l) == \A m, n \in 1..Len(l) : l[m].text = l[n].text => m = n

LEMMA ApartIs == ASSUME NEW l, IsList(l)
                 PROVE  (IsInjective(Listed(l)) <=> IdsApart(l)) /\ (IsInjective(Texts(l)) <=> TextsApart(l))
  <1>1. DOMAIN l = 1..Len(l)
    BY SeqIs DEF IsList
  <1>2. IsInjective(Listed(l)) <=> IdsApart(l)
    BY <1>1 DEF IsInjective, Listed, IdsApart
  <1>3. IsInjective(Texts(l)) <=> TextsApart(l)
    BY <1>1 DEF IsInjective, Texts, TextsApart
  <1> QED
    BY <1>2, <1>3

LEMMA SameRowsApart == ASSUME NEW l, NEW m, SameRows(l, m), IdsApart(l) PROVE IdsApart(m)
  BY DEF SameRows, IdsApart

LEMMA EditKeepsTexts ==
    ASSUME NEW l, IsList(l), IdsApart(l), TextsApart(l), NEW e,
           e.text = Absent \/ ~Clashes(l, e.text, e.id)
    PROVE  TextsApart(ApplyEdit(l, e))
  <1> DEFINE m == ApplyEdit(l, e)
  <1>1. SameRows(l, m) /\ \A n \in 1..Len(l) : m[n] = Edited(l[n], e)
    BY EditKeepsRows, EditIs
  <1>2. \A n \in 1..Len(l) : m[n].text = IF l[n].id = e.id /\ e.text # Absent THEN e.text ELSE l[n].text
    BY <1>1, ItemIs DEF Edited
  <1>3. DOMAIN l = 1..Len(l)
    BY SeqIs DEF IsList
  <1> HIDE DEF m
  <1>4. ASSUME NEW i \in 1..Len(l), NEW j \in 1..Len(l), m[i].text = m[j].text PROVE i = j
    <2>1. CASE e.text = Absent
      BY <1>2, <1>4, <2>1 DEF TextsApart
    <2>2. CASE e.text # Absent
      <3>1. \A n \in 1..Len(l) : l[n].text = e.text => l[n].id = e.id
        BY <1>3, <2>2 DEF Clashes
      <3>2. CASE l[i].id = e.id /\ l[j].id = e.id
        BY <3>2 DEF IdsApart
      <3>3. CASE l[i].id # e.id /\ l[j].id # e.id
        BY <1>2, <1>4, <3>3 DEF TextsApart
      <3>4. CASE l[i].id = e.id /\ l[j].id # e.id
        BY <1>2, <1>4, <2>2, <3>1, <3>4
      <3>5. CASE l[i].id # e.id /\ l[j].id = e.id
        BY <1>2, <1>4, <2>2, <3>1, <3>5
      <3> QED
        BY <3>2, <3>3, <3>4, <3>5
    <2> QED
      BY <2>1, <2>2
  <1>5. TextsApart(m)
    BY <1>1, <1>4 DEF TextsApart, SameRows
  <1> QED
    BY <1>5 DEF m

LEMMA MarkKeepsRows ==
    ASSUME NEW l, IsList(l), NEW op, op.op = "mark"
    PROVE  SameRows(l, ApplyOp(l, op)) /\ \A n \in 1..Len(l) : ApplyOp(l, op)[n].text = l[n].text
  <1> DEFINE m == ApplyOp(l, op)
  <1>1. Len(l) \in Nat /\ DOMAIN l = 1..Len(l)
    BY SeqIs DEF IsList
  <1>2. m = [n \in 1..Len(l) |-> Marked(l[n], op)]
    BY <1>1 DEF ApplyOp
  <1>3. \A n \in 1..Len(l) : IsItem(Marked(l[n], op)) /\ Marked(l[n], op).id = l[n].id /\ Marked(l[n], op).text = l[n].text
    BY ItemIs DEF IsList, Marked
  <1>4. m = [n \in 1..Len(l) |-> m[n]]
    BY <1>2
  <1> HIDE DEF m
  <1>5. IsSeq(m) /\ Len(m) = Len(l)
    BY <1>1, <1>4, SeqIntro
  <1>6. SameRows(l, m) /\ \A n \in 1..Len(l) : m[n].text = l[n].text
    BY <1>2, <1>3, <1>5 DEF SameRows, IsList
  <1> QED
    BY <1>6 DEF m

LEMMA EditsAre == ASSUME NEW l, NEW op, op.op = "edit" PROVE ApplyOp(l, op) = FE!FoldOf(l, op.edits)
  <1>1. ApplyOp(l, op) = FoldLeft(ApplyEdit, l, op.edits)
    BY DEF ApplyOp
  <1> QED
    BY <1>1 DEF FE!FoldOf, FoldLeft, MapThenFoldSet, FE!FoldLeft, FE!MapThenFoldSet, Max, FE!Max

LEMMA FoldEditsMore == ASSUME NEW l, NEW edits, IsSeq(edits), NEW e
                       PROVE FE!FoldOf(l, Append(edits, e)) = ApplyEdit(FE!FoldOf(l, edits), e)
  <1>1. PICK k \in Nat : k = Len(edits)
    BY SeqIs
  <1>2. PICK zs : zs = Append(edits, e)
    OBVIOUS
  <1>3. IsSeq(zs) /\ Len(zs) = k + 1 /\ zs[k + 1] = e /\ \A n \in 1..k : zs[n] = edits[n]
    BY <1>1, <1>2, SeqAppend
  <1>4. DOMAIN edits = 1..k /\ DOMAIN zs = 1..(k + 1)
    BY <1>1, <1>3, SeqIs
  <1>5. FE!FoldOf(l, zs) = ApplyEdit(FE!FoldOf(l, edits), zs[k + 1])
    BY <1>3, <1>4, FE!FoldMore
  <1> QED
    BY <1>2, <1>3, <1>5

LEMMA DraftsIs == ASSUME NEW d, NEW edits PROVE FoldLeft(EditOne, d, edits) = FD!FoldOf(d, edits)
  BY DEF FD!FoldOf, FoldLeft, MapThenFoldSet, FD!FoldLeft, FD!MapThenFoldSet, Max, FD!Max

-----------------------------------------------------------------------------
(* planTodoWrite                                                           *)

Drafted(l, d) ==
    /\ IsSeq(d.edits) /\ d.items = FE!FoldOf(l, d.edits)
    /\ SameRows(l, d.items)
    /\ TextsApart(l) => TextsApart(d.items)

LEMMA DraftStep ==
    ASSUME NEW l, IsList(l), IdsApart(l), NEW d, d.ok => Drafted(l, d), NEW e
    PROVE  EditOne(d, e).ok => Drafted(l, EditOne(d, e))
  <1> SUFFICES ASSUME EditOne(d, e).ok PROVE Drafted(l, EditOne(d, e))
    OBVIOUS
  <1> DEFINE id == Resolve(d.items, e.item)
             one == [id |-> id, text |-> e.text, note |-> e.note]
  <1>1. /\ d.ok /\ ~Clashes(d.items, e.text, id)
        /\ EditOne(d, e) = [ok |-> TRUE, items |-> ApplyEdit(d.items, one), edits |-> Append(d.edits, one)]
    <2> HIDE DEF id, one
    <2>1. CASE \/ ~d.ok \/ id = NoMatch
               \/ e.text = Absent /\ e.note = Absent
               \/ e.text = Blank \/ Clashes(d.items, e.text, id)
      <3>1. EditOne(d, e).ok = FALSE
        BY <2>1 DEF EditOne, id, one
      <3> QED
        BY <3>1
    <2>2. CASE ~(\/ ~d.ok \/ id = NoMatch
                 \/ e.text = Absent /\ e.note = Absent
                 \/ e.text = Blank \/ Clashes(d.items, e.text, id))
      BY <2>2 DEF EditOne, id, one
    <2> QED
      BY <2>1, <2>2
  <1>2. one.id = id /\ one.text = e.text
    OBVIOUS
  <1> HIDE DEF id, one
  <1>3. Drafted(l, d) /\ IsList(d.items) /\ IdsApart(d.items)
    BY <1>1, SameRowsApart DEF Drafted, SameRows
  <1> DEFINE items == ApplyEdit(d.items, one)
             edits == Append(d.edits, one)
  <1>4. SameRows(d.items, items)
    BY <1>3, EditKeepsRows
  <1>5. TextsApart(d.items) => TextsApart(items)
    BY <1>1, <1>2, <1>3, EditKeepsTexts
  <1>6. IsSeq(edits) /\ items = FE!FoldOf(l, edits)
    BY <1>3, SeqAppend, FoldEditsMore DEF Drafted
  <1>7. EditOne(d, e).items = items /\ EditOne(d, e).edits = edits
    BY <1>1
  <1> HIDE DEF items, edits
  <1>8. SameRows(l, items)
    BY <1>3, <1>4 DEF Drafted, SameRows
  <1> QED
    BY <1>3, <1>5, <1>6, <1>7, <1>8 DEF Drafted

LEMMA DraftsHold ==
    ASSUME NEW l, IsList(l), IdsApart(l), NEW edits, IsSeq(edits), NEW d,
           d = FoldLeft(EditOne, [ok |-> TRUE, items |-> l, edits |-> <<>>], edits), d.ok
    PROVE  Drafted(l, d)
  <1> DEFINE d0 == [ok |-> TRUE, items |-> l, edits |-> <<>>]
  <1>1. Drafted(l, d0)
    <2>1. FE!FoldOf(l, <<>>) = l
      BY FE!FoldNone
    <2>2. d0.items = l /\ d0.edits = <<>>
      OBVIOUS
    <2> QED
      BY <2>1, <2>2, SeqNone DEF Drafted, SameRows
  <1>2. PICK k \in Nat : k = Len(edits) /\ DOMAIN edits = 1..k
    BY SeqIs
  <1> HIDE DEF d0
  <1>0. PICK u : FD!Trail(u, d0, edits, k)
    BY <1>2, FD!FoldSteps
  <1>3. u[0] = d0 /\ u[k] = FD!FoldOf(d0, edits) /\ \A n \in 1..k : u[n] = EditOne(u[n - 1], edits[n])
    BY <1>0 DEF FD!Trail
  <1> DEFINE T == {n \in Nat : u[n].ok => Drafted(l, u[n])}
  <1>4. 0 \in T
    BY <1>1, <1>3
  <1>5. ASSUME NEW n \in Nat, n < k, n \in T PROVE n + 1 \in T
    <2>1. u[n + 1] = EditOne(u[n], edits[n + 1])
      BY <1>3, <1>5
    <2>2. u[n].ok => Drafted(l, u[n])
      BY <1>5
    <2>3. u[n + 1].ok => Drafted(l, u[n + 1])
      BY <2>1, <2>2, DraftStep
    <2> QED
      BY <2>3
  <1>6. \A n \in 0..k : n \in T
    <2> HIDE DEF T
    <2> QED
      BY <1>4, <1>5, FD!UpTo
  <1>7. d = u[k]
    BY <1>3, DraftsIs DEF d0
  <1> QED
    BY <1>6, <1>7

(* What a plan is so far, for a list and the texts that are added to it.   *)
Grows(l, add, ids, p) ==
    /\ IsSeq(p.ops) /\ p.items = FoldTodos(l, p.ops)
    /\ IsList(p.items) /\ Len(p.items) = Len(l) + Len(add)
    /\ \A n \in 1..Len(l) : p.items[n].id = l[n].id
    /\ \A n \in 1..Len(add) : p.items[Len(l) + n].id = ids[n]
    /\ TextsApart(l) => TextsApart(p.items)

Fresh(l, add, ids) ==
    /\ IsList(l) /\ IdsApart(l) /\ IsSeq(add)
    /\ \A m, n \in 1..Len(add) : ids[m] = ids[n] => m = n
    /\ \A m \in 1..Len(l), n \in 1..Len(add) : ids[n] # l[m].id

LEMMA GrowsApart == ASSUME NEW l, NEW add, NEW ids, Fresh(l, add, ids), NEW p, Grows(l, add, ids, p)
                    PROVE IdsApart(p.items)
  <1>1. Len(l) \in Nat /\ Len(add) \in Nat
    BY SeqIs DEF Fresh, IsList
  <1> DEFINE q == p.items
  <1>2. \A n \in 1..Len(l) : q[n].id = l[n].id
    BY DEF Grows
  <1>3. \A n \in 1..Len(add) : q[Len(l) + n].id = ids[n]
    BY DEF Grows
  <1>4. Len(q) = Len(l) + Len(add)
    BY DEF Grows
  <1> HIDE DEF q
  <1>5. \A n \in 1..Len(q) : n \in 1..Len(l) \/ (n - Len(l) \in 1..Len(add) /\ n = Len(l) + (n - Len(l)))
    BY <1>1, <1>4
  <1>6. \A n \in 1..Len(q) : n \notin 1..Len(l) => q[n].id = ids[n - Len(l)] /\ n - Len(l) \in 1..Len(add)
    BY <1>3, <1>5
  <1>7. ASSUME NEW m \in 1..Len(q), NEW n \in 1..Len(q), q[m].id = q[n].id PROVE m = n
    <2>1. CASE m \in 1..Len(l) /\ n \in 1..Len(l)
      BY <1>2, <1>7, <2>1 DEF Fresh, IdsApart
    <2>2. CASE m \notin 1..Len(l) /\ n \notin 1..Len(l)
      <3>1. m - Len(l) = n - Len(l)
        BY <1>6, <1>7, <2>2 DEF Fresh
      <3> QED
        BY <1>1, <1>4, <3>1
    <2>3. CASE m \in 1..Len(l) /\ n \notin 1..Len(l)
      BY <1>2, <1>6, <1>7, <2>3 DEF Fresh
    <2>4. CASE m \notin 1..Len(l) /\ n \in 1..Len(l)
      BY <1>2, <1>6, <1>7, <2>4 DEF Fresh
    <2> QED
      BY <2>1, <2>2, <2>3, <2>4
  <1> QED
    BY <1>7 DEF IdsApart, q

(* One operation more.                                                     *)
LEMMA GrowsMore ==
    ASSUME NEW l, NEW add, NEW ids, NEW p, Grows(l, add, ids, p), NEW op, NEW q,
           q.ops = Append(p.ops, op), q.items = ApplyOp(p.items, op),
           SameRows(p.items, q.items), TextsApart(p.items) => TextsApart(q.items),
           Len(l) \in Nat, Len(add) \in Nat
    PROVE  Grows(l, add, ids, q)
  <1>1. IsSeq(q.ops) /\ q.items = FoldTodos(l, q.ops)
    BY SeqAppend, FoldTodosMore DEF Grows
  <1>2. \A n \in 1..Len(l) : n \in 1..(Len(l) + Len(add))
    OBVIOUS
  <1>3. \A n \in 1..Len(add) : Len(l) + n \in 1..(Len(l) + Len(add))
    OBVIOUS
  <1>4. Len(p.items) = Len(l) + Len(add) /\ IsList(q.items) /\ Len(q.items) = Len(p.items)
        /\ \A n \in 1..Len(p.items) : q.items[n].id = p.items[n].id
    BY DEF Grows, SameRows
  <1>5. \A n \in 1..Len(l) : q.items[n].id = l[n].id
    BY <1>2, <1>4 DEF Grows
  <1>6. \A n \in 1..Len(add) : q.items[Len(l) + n].id = ids[n]
    BY <1>3, <1>4 DEF Grows
  <1>7. TextsApart(l) => TextsApart(q.items)
    BY DEF Grows
  <1> QED
    BY <1>1, <1>4, <1>5, <1>6, <1>7 DEF Grows

(* A plan that has nothing planned yet.                                    *)
Starts(p, l) == p.ok /\ IsSeq(p.ops) /\ Len(p.ops) = 0 /\ FoldTodos(l, p.ops) = l /\ p.items = l

LEMMA StartsSo == ASSUME NEW l PROVE Starts(Plan(<<>>, l, {}), l)
  BY SeqNone, FoldTodosNone DEF Starts, Plan

AddOp(add, ids) == [op |-> "add", items |-> [n \in DOMAIN add |-> [id |-> ids[n], text |-> add[n]]]]
Added(add, ids) == [n \in DOMAIN add |-> Item(ids[n], add[n], FALSE, Blank)]

LEMMA AddOpIs == ASSUME NEW l, NEW add, NEW ids PROVE ApplyOp(l, AddOp(add, ids)) = l \o Added(add, ids)
  <1>1. AddOp(add, ids).op = "add" /\ AddOp(add, ids).items = [n \in DOMAIN add |-> [id |-> ids[n], text |-> add[n]]]
    BY DEF AddOp
  <1> DEFINE news == [n \in DOMAIN add |-> [id |-> ids[n], text |-> add[n]]]
  <1>2. [n \in DOMAIN news |-> Item(news[n].id, news[n].text, FALSE, Blank)] = Added(add, ids)
    BY DEF Added
  <1> QED
    BY <1>1, <1>2 DEF ApplyOp

LEMMA AddedAre ==
    ASSUME NEW add, IsSeq(add), NEW ids
    PROVE  /\ IsSeq(Added(add, ids)) /\ Len(Added(add, ids)) = Len(add)
           /\ \A n \in 1..Len(add) : /\ IsItem(Added(add, ids)[n])
                                    /\ Added(add, ids)[n].id = ids[n] /\ Added(add, ids)[n].text = add[n]
  <1>1. Len(add) \in Nat /\ DOMAIN add = 1..Len(add)
    BY SeqIs
  <1>2. Added(add, ids) = [n \in 1..Len(add) |-> Item(ids[n], add[n], FALSE, Blank)]
    BY <1>1 DEF Added
  <1>3. ASSUME NEW n \in 1..Len(add)
        PROVE  /\ IsItem(Added(add, ids)[n])
               /\ Added(add, ids)[n].id = ids[n] /\ Added(add, ids)[n].text = add[n]
    <2>1. PICK r : r = Item(ids[n], add[n], FALSE, Blank)
      OBVIOUS
    <2>2. r.id = ids[n] /\ r.text = add[n] /\ IsItem(r)
      BY <2>1 DEF Item, IsItem
    <2>3. Added(add, ids)[n] = r
      BY <1>2, <2>1
    <2> QED
      BY <2>2, <2>3
  <1>4. IsSeq(Added(add, ids)) /\ Len(Added(add, ids)) = Len(add)
    <2>1. Added(add, ids) = [n \in 1..Len(add) |-> Added(add, ids)[n]]
      BY <1>2
    <2> QED
      BY <1>1, <2>1, SeqIntro
  <1> QED
    BY <1>3, <1>4

(* New rows below the old ones.                                            *)
LEMMA RowsBelow ==
    ASSUME NEW l, IsList(l), NEW more, IsList(more)
    PROVE  /\ IsList(l \o more) /\ Len(l \o more) = Len(l) + Len(more)
           /\ \A n \in 1..Len(l) : (l \o more)[n] = l[n]
           /\ \A n \in 1..Len(more) : (l \o more)[Len(l) + n] = more[n]
           /\ \A n \in 1..(Len(l) + Len(more)) :
                  n \in 1..Len(l) \/ (n - Len(l) \in 1..Len(more) /\ (l \o more)[n] = more[n - Len(l)])
  <1>1. Len(l) \in Nat /\ Len(more) \in Nat /\ IsSeq(l) /\ IsSeq(more)
    BY SeqIs DEF IsList
  <1> DEFINE all == l \o more
  <1>2. /\ IsSeq(all) /\ Len(all) = Len(l) + Len(more)
        /\ \A n \in 1..Len(l) : all[n] = l[n]
        /\ \A n \in 1..Len(more) : all[Len(l) + n] = more[n]
    BY <1>1, SeqConcat
  <1> HIDE DEF all
  <1>3. ASSUME NEW n \in 1..(Len(l) + Len(more)), n \notin 1..Len(l)
        PROVE  n - Len(l) \in 1..Len(more) /\ all[n] = more[n - Len(l)]
    <2>1. n - Len(l) \in 1..Len(more) /\ n = Len(l) + (n - Len(l))
      BY <1>1, <1>3
    <2>2. all[Len(l) + (n - Len(l))] = more[n - Len(l)]
      BY <1>2, <2>1
    <2> QED
      BY <2>1, <2>2
  <1>4. IsList(all)
    BY <1>2, <1>3 DEF IsList
  <1> QED
    BY <1>2, <1>3, <1>4 DEF all

LEMMA TextsBelow ==
    ASSUME NEW l, IsList(l), NEW more, IsList(more), TextsApart(l), TextsApart(more),
           \A n \in 1..Len(more) : more[n].text \notin TextsOf(l)
    PROVE  TextsApart(l \o more)
  <1> DEFINE all == l \o more
  <1>1. /\ Len(all) = Len(l) + Len(more)
        /\ \A n \in 1..Len(l) : all[n] = l[n]
        /\ \A n \in 1..(Len(l) + Len(more)) :
              n \in 1..Len(l) \/ (n - Len(l) \in 1..Len(more) /\ all[n] = more[n - Len(l)])
    BY RowsBelow
  <1>2. Len(l) \in Nat /\ Len(more) \in Nat /\ \A n \in 1..Len(l) : l[n].text \in TextsOf(l)
    BY SeqIs DEF IsList, TextsOf
  <1> HIDE DEF all
  <1>3. ASSUME NEW m \in 1..Len(all), NEW n \in 1..Len(all), all[m].text = all[n].text PROVE m = n
    <2>1. CASE m \in 1..Len(l) /\ n \in 1..Len(l)
      BY <1>1, <1>3, <2>1 DEF TextsApart
    <2>2. CASE m \notin 1..Len(l) /\ n \notin 1..Len(l)
      <3>1. m - Len(l) = n - Len(l)
        BY <1>1, <1>3, <2>2, SMTT(30) DEF TextsApart
      <3> QED
        BY <1>1, <1>2, <3>1
    <2>3. CASE m \in 1..Len(l) /\ n \notin 1..Len(l)
      BY <1>1, <1>2, <1>3, <2>3
    <2>4. CASE m \notin 1..Len(l) /\ n \in 1..Len(l)
      BY <1>1, <1>2, <1>3, <2>4
    <2> QED
      BY <2>1, <2>2, <2>3, <2>4
  <1> QED
    BY <1>3 DEF TextsApart, all

LEMMA AddingIs ==
    ASSUME NEW l, NEW add, add # <<>>, NEW ids, NEW p, Starts(p, l), Adding(p, add, ids).ok
    PROVE  /\ \A n \in DOMAIN add : add[n] \notin TextsOf(l)
           /\ IsInjective(add)
           /\ Adding(p, add, ids).ops = Append(p.ops, AddOp(add, ids))
           /\ Adding(p, add, ids).items = ApplyOp(l, AddOp(add, ids))
  <1>0. p.items = l
    BY DEF Starts
  <1>1. CASE (\E n \in DOMAIN add : add[n] \in TextsOf(p.items)) \/ ~IsInjective(add)
    <2>1. Adding(p, add, ids) = Refused
      BY <1>1 DEF Adding
    <2> QED
      BY <2>1 DEF Refused
  <1>2. CASE ~((\E n \in DOMAIN add : add[n] \in TextsOf(p.items)) \/ ~IsInjective(add))
    <2> DEFINE news == [n \in DOMAIN add |-> [id |-> ids[n], text |-> add[n]]]
    <2>1. Adding(p, add, ids) = Do(p, AddOp(add, ids), IdsOf(news))
      BY <1>2 DEF Adding, AddOp
    <2> HIDE DEF news
    <2>2. /\ Do(p, AddOp(add, ids), IdsOf(news)).ops = Append(p.ops, AddOp(add, ids))
          /\ Do(p, AddOp(add, ids), IdsOf(news)).items = ApplyOp(l, AddOp(add, ids))
      BY <1>0 DEF Do, Plan
    <2> QED
      BY <1>0, <1>2, <2>1, <2>2
  <1> QED
    BY <1>1, <1>2

LEMMA AddingGrows ==
    ASSUME NEW l, NEW add, NEW ids, Fresh(l, add, ids), NEW p, Starts(p, l), NEW q, q = Adding(p, add, ids), q.ok
    PROVE  Grows(l, add, ids, q) /\ (add # <<>> => Len(q.ops) > 0)
  <1>1. IsList(l) /\ IsSeq(add) /\ Len(l) \in Nat /\ Len(add) \in Nat /\ DOMAIN add = 1..Len(add)
    BY SeqIs DEF Fresh, IsList
  <1>2. CASE add = <<>>
    <2>1. q = p
      BY <1>2 DEF Adding
    <2>2. Len(add) = 0
      BY <1>2
    <2>3. Grows(l, add, ids, p)
      BY <1>1, <2>2 DEF Grows, Starts
    <2> QED
      BY <1>2, <2>1, <2>3
  <1>3. CASE add # <<>>
    <2>1. PICK more : more = Added(add, ids)
      OBVIOUS
    <2>2. PICK op : op = AddOp(add, ids)
      OBVIOUS
    <2>3. /\ \A n \in 1..Len(add) : add[n] \notin TextsOf(l)
          /\ IsInjective(add)
          /\ q.ops = Append(p.ops, op) /\ q.items = ApplyOp(l, op)
      <3>1. Adding(p, add, ids).ok
        OBVIOUS
      <3>2. /\ \A n \in DOMAIN add : add[n] \notin TextsOf(l)
            /\ IsInjective(add)
            /\ Adding(p, add, ids).ops = Append(p.ops, AddOp(add, ids))
            /\ Adding(p, add, ids).items = ApplyOp(l, AddOp(add, ids))
        BY <1>3, <3>1, AddingIs
      <3> QED
        BY <1>1, <2>2, <3>2
    <2>4. IsSeq(q.ops) /\ Len(q.ops) = 1
      BY <2>3, SeqAppend DEF Starts
    <2>5. q.items = FoldTodos(l, q.ops)
      BY <2>3, FoldTodosMore DEF Starts
    <2>6. q.items = l \o more
      BY <2>1, <2>2, <2>3, AddOpIs
    <2>7. /\ IsList(more) /\ Len(more) = Len(add)
          /\ \A n \in 1..Len(add) : more[n].id = ids[n] /\ more[n].text = add[n]
      BY <1>1, <2>1, AddedAre DEF IsList
    <2>8. TextsApart(more)
      BY <1>1, <2>3, <2>7 DEF TextsApart, IsInjective
    <2>9. TextsApart(l) => TextsApart(q.items)
      BY <1>1, <2>3, <2>6, <2>7, <2>8, TextsBelow
    <2>10. /\ IsList(l \o more) /\ Len(l \o more) = Len(l) + Len(more)
           /\ \A n \in 1..Len(l) : (l \o more)[n] = l[n]
           /\ \A n \in 1..Len(more) : (l \o more)[Len(l) + n] = more[n]
      <3>0. IsList(more)
        BY <2>7
      <3>1. IsList(l \o more) /\ Len(l \o more) = Len(l) + Len(more)
        BY <1>1, <3>0, RowsBelow
      <3>2. \A n \in 1..Len(l) : (l \o more)[n] = l[n]
        BY <1>1, <3>0, RowsBelow
      <3>3. \A n \in 1..Len(more) : (l \o more)[Len(l) + n] = more[n]
        BY <1>1, <3>0, RowsBelow
      <3> QED
        BY <3>1, <3>2, <3>3
    <2>11. /\ IsList(q.items) /\ Len(q.items) = Len(l) + Len(add)
           /\ \A n \in 1..Len(l) : q.items[n].id = l[n].id
           /\ \A n \in 1..Len(add) : q.items[Len(l) + n].id = ids[n]
      BY <2>6, <2>7, <2>10
    <2>12. Len(q.ops) > 0
      BY <2>4
    <2>13. Grows(l, add, ids, q)
      BY <2>4, <2>5, <2>9, <2>11 DEF Grows
    <2> QED
      BY <2>12, <2>13
  <1> QED
    BY <1>2, <1>3

LEMMA EditingGrows ==
    ASSUME NEW l, NEW add, NEW ids, Fresh(l, add, ids), NEW p, p.ok => Grows(l, add, ids, p),
           NEW edits, IsSeq(edits), NEW q, q = Editing(p, edits), q.ok
    PROVE  /\ Grows(l, add, ids, q) /\ p.ok
           /\ Len(q.ops) >= Len(p.ops) /\ (edits # <<>> => Len(q.ops) > 0)
  <1>1. Len(l) \in Nat /\ Len(add) \in Nat
    BY SeqIs DEF Fresh, IsList
  <1>2. CASE ~p.ok \/ edits = <<>>
    <2>1. q = p
      BY <1>2 DEF Editing
    <2>2. Len(p.ops) \in Nat
      BY <2>1, SeqIs DEF Grows
    <2> QED
      BY <1>2, <2>1, <2>2
  <1>3. CASE p.ok /\ edits # <<>>
    <2>0. Grows(l, add, ids, p) /\ IsList(p.items) /\ IdsApart(p.items)
      BY <1>3, GrowsApart DEF Grows
    <2>1. PICK d : d = FoldLeft(EditOne, [ok |-> TRUE, items |-> p.items, edits |-> <<>>], edits)
      OBVIOUS
    <2>2. q = IF d.ok THEN Plan(Append(p.ops, [op |-> "edit", edits |-> d.edits]), d.items, p.changed \cup IdsOf(d.edits))
              ELSE Refused
      BY <1>3, <2>1 DEF Editing
    <2>3. d.ok
      BY <2>2 DEF Refused
    <2>4. Drafted(p.items, d)
      BY <2>0, <2>1, <2>3, DraftsHold
    <2>5. PICK op : op = [op |-> "edit", edits |-> d.edits]
      OBVIOUS
    <2>6. q.ops = Append(p.ops, op) /\ q.items = d.items
      BY <2>2, <2>3, <2>5 DEF Plan
    <2>7. ApplyOp(p.items, op) = d.items
      <3>1. op.op = "edit" /\ op.edits = d.edits
        BY <2>5
      <3> QED
        BY <2>4, <3>1, EditsAre DEF Drafted
    <2>8. SameRows(p.items, q.items) /\ (TextsApart(p.items) => TextsApart(q.items))
      BY <2>4, <2>6 DEF Drafted
    <2>9. Grows(l, add, ids, q)
      BY <1>1, <2>0, <2>6, <2>7, <2>8, GrowsMore
    <2>10. Len(p.ops) \in Nat /\ Len(q.ops) = Len(p.ops) + 1
      BY <2>0, <2>6, SeqIs, SeqAppend DEF Grows
    <2> QED
      BY <1>3, <2>9, <2>10
  <1> QED
    BY <1>2, <1>3

LEMMA MarkingGrows ==
    ASSUME NEW l, NEW add, NEW ids, Fresh(l, add, ids), NEW p, p.ok => Grows(l, add, ids, p),
           NEW targets, NEW done, NEW q, q = Marking(p, targets, done), q.ok
    PROVE  /\ Grows(l, add, ids, q) /\ p.ok
           /\ Len(q.ops) >= Len(p.ops) /\ (targets # <<>> => Len(q.ops) > 0)
  <1>1. Len(l) \in Nat /\ Len(add) \in Nat
    BY SeqIs DEF Fresh, IsList
  <1>2. CASE ~p.ok \/ targets = <<>>
    <2>1. q = p
      BY <1>2 DEF Marking
    <2>2. Len(p.ops) \in Nat
      BY <2>1, SeqIs DEF Grows
    <2> QED
      BY <1>2, <2>1, <2>2
  <1>3. CASE p.ok /\ targets # <<>>
    <2>0. Grows(l, add, ids, p) /\ IsList(p.items)
      BY <1>3 DEF Grows
    <2>1. PICK hits : hits = {Resolve(p.items, targets[n]) : n \in DOMAIN targets}
      OBVIOUS
    <2>2. PICK op : op = [op |-> "mark", ids |-> hits, done |-> done]
      OBVIOUS
    <2>3. q = IF NoMatch \in hits THEN Refused ELSE Do(p, op, hits)
      BY <1>3, <2>1, <2>2 DEF Marking
    <2>4. q.ops = Append(p.ops, op) /\ q.items = ApplyOp(p.items, op)
      BY <2>3 DEF Refused, Do, Plan
    <2>5. op.op = "mark"
      BY <2>2
    <2>6. SameRows(p.items, q.items) /\ \A n \in 1..Len(p.items) : q.items[n].text = p.items[n].text
      BY <2>0, <2>4, <2>5, MarkKeepsRows
    <2>7. TextsApart(p.items) => TextsApart(q.items)
      BY <2>6 DEF TextsApart, SameRows
    <2>8. Grows(l, add, ids, q)
      BY <1>1, <2>0, <2>4, <2>6, <2>7, GrowsMore
    <2>9. Len(p.ops) \in Nat /\ Len(q.ops) = Len(p.ops) + 1
      BY <2>0, <2>4, SeqIs, SeqAppend DEF Grows
    <2> QED
      BY <1>3, <2>8, <2>9
  <1> QED
    BY <1>2, <1>3

(* What an agent's write does to the list, and what the log is told.       *)
LEMMA PlanGrows ==
    ASSUME NEW l, NEW input, NEW ids, Fresh(l, input.add, ids),
           IsSeq(input.edit), NEW q, q = PlanTodoWrite(l, input, ids), q.ok
    PROVE  Grows(l, input.add, ids, q) /\ Len(q.ops) > 0
  <1>1. PICK p0 : p0 = Plan(<<>>, l, {})
    OBVIOUS
  <1>2. PICK p1 : p1 = Adding(p0, input.add, ids)
    OBVIOUS
  <1>3. PICK p2 : p2 = Editing(p1, input.edit)
    OBVIOUS
  <1>a. PICK yes : yes = TRUE
    OBVIOUS
  <1>b. PICK no : no = FALSE
    OBVIOUS
  <1>4. PICK p3 : p3 = Marking(p2, input.strike, yes)
    OBVIOUS
  <1>5. PICK p4 : p4 = Marking(p3, input.unstrike, no)
    OBVIOUS
  <1>6. q = IF ~(\E field \in {"add", "edit", "strike", "unstrike"} : input[field] # <<>>) THEN Refused ELSE p4
    BY <1>1, <1>2, <1>3, <1>4, <1>5, <1>a, <1>b, Zenon DEF PlanTodoWrite
  <1>7. q = p4 /\ (input.add # <<>> \/ input.edit # <<>> \/ input.strike # <<>> \/ input.unstrike # <<>>)
    <2>1. CASE ~(\E field \in {"add", "edit", "strike", "unstrike"} : input[field] # <<>>)
      <3>1. q.ok = FALSE
        BY <1>6, <2>1 DEF Refused
      <3> QED
        BY <3>1
    <2>2. CASE \E field \in {"add", "edit", "strike", "unstrike"} : input[field] # <<>>
      BY <1>6, <2>2
    <2> QED
      BY <2>1, <2>2
  <1>8. Starts(p0, l)
    BY <1>1, StartsSo
  <1>9. p1.ok => Grows(l, input.add, ids, p1) /\ (input.add # <<>> => Len(p1.ops) > 0)
    BY <1>2, <1>8, AddingGrows
  <1>10. p2.ok => /\ Grows(l, input.add, ids, p2) /\ p1.ok
                  /\ Len(p2.ops) >= Len(p1.ops) /\ (input.edit # <<>> => Len(p2.ops) > 0)
    BY <1>3, <1>9, EditingGrows
  <1>11. p3.ok => /\ Grows(l, input.add, ids, p3) /\ p2.ok
                  /\ Len(p3.ops) >= Len(p2.ops) /\ (input.strike # <<>> => Len(p3.ops) > 0)
    BY <1>4, <1>10, MarkingGrows
  <1>12. p4.ok => /\ Grows(l, input.add, ids, p4) /\ p3.ok
                  /\ Len(p4.ops) >= Len(p3.ops) /\ (input.unstrike # <<>> => Len(p4.ops) > 0)
    BY <1>5, <1>11, MarkingGrows
  <1>13. p1.ok /\ p2.ok /\ p3.ok /\ p4.ok
    BY <1>7, <1>10, <1>11, <1>12
  <1>14. Len(p1.ops) \in Nat /\ Len(p2.ops) \in Nat /\ Len(p3.ops) \in Nat /\ Len(p4.ops) \in Nat
    BY <1>9, <1>10, <1>11, <1>12, <1>13, SeqIs DEF Grows
  <1> QED
    BY <1>7, <1>9, <1>10, <1>11, <1>12, <1>13, <1>14

-----------------------------------------------------------------------------
(* The list of a branch                                                    *)

NoRows == <<>>
AboveAll == 0

ListIn(es, leaf) ==
    LET list[e \in 0..Len(es)] ==
            IF e = 0 THEN <<>> ELSE FoldTodos(list[es[e].parent], es[e].ops)
    IN  list[leaf]

TipIn(es, leaf) ==
    LET tip[e \in 0..Len(es)] ==
            CASE e = 0 -> 0
              [] e # 0 /\ es[e].ops # <<>> -> e
              [] OTHER -> tip[es[e].parent]
    IN  tip[leaf]

Rooted(es) == IsSeq(es) /\ \A e \in 1..Len(es) : es[e].parent \in 0..(e - 1)

LEMMA ListInIs ==
    ASSUME NEW es, Rooted(es)
    PROVE  \E f : FL!Climbs(f, NoRows, es, Len(es)) /\ \A leaf : ListIn(es, leaf) = f[leaf]
  <1>1. FL!Tree(es, Len(es))
    BY SeqIs DEF FL!Tree, Rooted
  <1>2. PICK g : FL!Climbs(g, NoRows, es, Len(es))
    BY <1>1, FL!ClimbExists
  <1>3. g = [e \in 0..Len(es) |-> IF e = 0 THEN <<>> ELSE FoldTodos(g[es[e].parent], es[e].ops)]
    BY <1>2 DEF FL!Climbs, ListStep, NoRows
  <1> DEFINE f == CHOOSE f : f = [e \in 0..Len(es) |-> IF e = 0 THEN <<>> ELSE FoldTodos(f[es[e].parent], es[e].ops)]
  <1>4. f = [e \in 0..Len(es) |-> IF e = 0 THEN <<>> ELSE FoldTodos(f[es[e].parent], es[e].ops)]
    BY <1>3, Zenon
  <1>5. \A leaf : ListIn(es, leaf) = f[leaf]
    BY DEF ListIn
  <1> HIDE DEF f
  <1>6. FL!Climbs(f, NoRows, es, Len(es))
    BY <1>4 DEF FL!Climbs, ListStep, NoRows
  <1> QED
    BY <1>5, <1>6

LEMMA TipInIs ==
    ASSUME NEW es, Rooted(es)
    PROVE  \E f : FT!Climbs(f, AboveAll, es, Len(es)) /\ \A leaf : TipIn(es, leaf) = f[leaf]
  <1>1. FT!Tree(es, Len(es))
    BY SeqIs DEF FT!Tree, Rooted
  <1>2. PICK g : FT!Climbs(g, AboveAll, es, Len(es))
    BY <1>1, FT!ClimbExists
  <1>3. g = [e \in 0..Len(es) |-> CASE e = 0 -> 0
                                  [] e # 0 /\ es[e].ops # <<>> -> e
                                  [] OTHER -> g[es[e].parent]]
    BY <1>2 DEF FT!Climbs, TipStep, AboveAll
  <1> DEFINE f == CHOOSE f : f = [e \in 0..Len(es) |-> CASE e = 0 -> 0
                                  [] e # 0 /\ es[e].ops # <<>> -> e
                                  [] OTHER -> f[es[e].parent]]
  <1>4. f = [e \in 0..Len(es) |-> CASE e = 0 -> 0
                                  [] e # 0 /\ es[e].ops # <<>> -> e
                                  [] OTHER -> f[es[e].parent]]
    BY <1>3, Zenon
  <1>5. \A leaf : TipIn(es, leaf) = f[leaf]
    BY DEF TipIn
  <1> HIDE DEF f
  <1>6. FT!Climbs(f, AboveAll, es, Len(es))
    BY <1>4 DEF FT!Climbs, TipStep, AboveAll
  <1> QED
    BY <1>5, <1>6

LEMMA BranchesAre ==
    ASSUME NEW es, Rooted(es)
    PROVE  /\ ListIn(es, 0) = <<>> /\ TipIn(es, 0) = 0
           /\ \A e \in 1..Len(es) : ListIn(es, e) = FoldTodos(ListIn(es, es[e].parent), es[e].ops)
           /\ \A e \in 1..Len(es) : TipIn(es, e) = IF es[e].ops # <<>> THEN e ELSE TipIn(es, es[e].parent)
  <1>1. FL!Tree(es, Len(es)) /\ FT!Tree(es, Len(es))
    BY SeqIs DEF FL!Tree, FT!Tree, Rooted
  <1>2. PICK f : FL!Climbs(f, NoRows, es, Len(es)) /\ \A leaf : ListIn(es, leaf) = f[leaf]
    BY ListInIs
  <1>3. PICK g : FT!Climbs(g, AboveAll, es, Len(es)) /\ \A leaf : TipIn(es, leaf) = g[leaf]
    BY TipInIs
  <1>4. f[0] = NoRows /\ \A e \in 1..Len(es) : f[e] = ListStep(f[es[e].parent], <<e, es[e]>>)
    <2>0. PICK k : k = Len(es)
      OBVIOUS
    <2>1. FL!Tree(es, k) /\ FL!Climbs(f, NoRows, es, k)
      BY <1>1, <1>2, <2>0
    <2>2. f[0] = NoRows
      BY <2>1, FL!ClimbAt
    <2>3. \A e \in 1..k : f[e] = ListStep(f[es[e].parent], <<e, es[e]>>)
      BY <2>1, FL!ClimbAt
    <2> QED
      BY <2>0, <2>2, <2>3
  <1>5. g[0] = AboveAll /\ \A e \in 1..Len(es) : g[e] = TipStep(g[es[e].parent], <<e, es[e]>>)
    <2>0. PICK k : k = Len(es)
      OBVIOUS
    <2>1. FT!Tree(es, k) /\ FT!Climbs(g, AboveAll, es, k)
      BY <1>1, <1>3, <2>0
    <2>2. g[0] = AboveAll
      BY <2>1, FT!ClimbAt
    <2>3. \A e \in 1..k : g[e] = TipStep(g[es[e].parent], <<e, es[e]>>)
      BY <2>1, FT!ClimbAt
    <2> QED
      BY <2>0, <2>2, <2>3
  <1>6. \A e \in 1..Len(es) : f[e] = FoldTodos(f[es[e].parent], es[e].ops)
    BY <1>4 DEF ListStep
  <1>7. \A e \in 1..Len(es) : g[e] = IF es[e].ops # <<>> THEN e ELSE g[es[e].parent]
    BY <1>5 DEF TipStep
  <1>8. ListIn(es, 0) = <<>> /\ TipIn(es, 0) = 0
    BY <1>2, <1>3, <1>4, <1>5 DEF NoRows, AboveAll
  <1>9. \A e \in 1..Len(es) : ListIn(es, e) = FoldTodos(ListIn(es, es[e].parent), es[e].ops)
    BY <1>2, <1>6
  <1>10. \A e \in 1..Len(es) : TipIn(es, e) = IF es[e].ops # <<>> THEN e ELSE TipIn(es, es[e].parent)
    BY <1>3, <1>7
  <1> QED
    BY <1>8, <1>9, <1>10

(* A branch stays what it was when entries are added.                      *)
Extends(es, zs) == Len(es) <= Len(zs) /\ \A e \in 1..Len(es) : zs[e] = es[e]

LEMMA ListsStay ==
    ASSUME NEW es, NEW zs, Rooted(es), Rooted(zs), Extends(es, zs)
    PROVE  \A e \in 0..Len(es) : ListIn(zs, e) = ListIn(es, e)
  <1>0. PICK k, m : k = Len(es) /\ m = Len(zs)
    OBVIOUS
  <1>1. FL!Tree(es, k) /\ FL!Tree(zs, m) /\ k <= m /\ \A e \in 1..k : zs[e] = es[e]
    BY <1>0, SeqIs DEF FL!Tree, Rooted, Extends
  <1>2. PICK f : FL!Climbs(f, NoRows, es, k) /\ \A leaf : ListIn(es, leaf) = f[leaf]
    BY <1>0, ListInIs
  <1>3. PICK g : FL!Climbs(g, NoRows, zs, m) /\ \A leaf : ListIn(zs, leaf) = g[leaf]
    BY <1>0, ListInIs
  <1>4. FL!Climbs(f, NoRows, es, k)
    BY <1>2
  <1>5. FL!Climbs(g, NoRows, zs, m)
    BY <1>3
  <1>6. \A e \in 0..k : f[e] = g[e]
    BY <1>1, <1>4, <1>5, FL!ClimbSame
  <1> QED
    BY <1>0, <1>2, <1>3, <1>6

LEMMA TipsStay ==
    ASSUME NEW es, NEW zs, Rooted(es), Rooted(zs), Extends(es, zs)
    PROVE  \A e \in 0..Len(es) : TipIn(zs, e) = TipIn(es, e)
  <1>0. PICK k, m : k = Len(es) /\ m = Len(zs)
    OBVIOUS
  <1>1. FT!Tree(es, k) /\ FT!Tree(zs, m) /\ k <= m /\ \A e \in 1..k : zs[e] = es[e]
    BY <1>0, SeqIs DEF FT!Tree, Rooted, Extends
  <1>2. PICK f : FT!Climbs(f, AboveAll, es, k) /\ \A leaf : TipIn(es, leaf) = f[leaf]
    BY <1>0, TipInIs
  <1>3. PICK g : FT!Climbs(g, AboveAll, zs, m) /\ \A leaf : TipIn(zs, leaf) = g[leaf]
    BY <1>0, TipInIs
  <1>4. FT!Climbs(f, AboveAll, es, k)
    BY <1>2
  <1>5. FT!Climbs(g, AboveAll, zs, m)
    BY <1>3
  <1>6. \A e \in 0..k : f[e] = g[e]
    BY <1>1, <1>4, <1>5, FT!ClimbSame
  <1> QED
    BY <1>0, <1>2, <1>3, <1>6

LEMMA BranchesStay ==
    ASSUME NEW es, Rooted(es), NEW x, x.parent \in 0..Len(es), NEW zs, zs = Append(es, x)
    PROVE  /\ Rooted(zs) /\ Len(zs) = Len(es) + 1 /\ zs[Len(es) + 1] = x
           /\ \A e \in 1..Len(es) : zs[e] = es[e]
           /\ \A e \in 0..Len(es) : ListIn(zs, e) = ListIn(es, e) /\ TipIn(zs, e) = TipIn(es, e)
  <1>0. Len(es) \in Nat /\ IsSeq(es)
    BY SeqIs DEF Rooted
  <1>1. IsSeq(zs) /\ Len(zs) = Len(es) + 1 /\ zs[Len(es) + 1] = x /\ \A e \in 1..Len(es) : zs[e] = es[e]
    BY <1>0, SeqAppend
  <1>2. Rooted(zs)
    <2>1. ASSUME NEW e \in 1..Len(zs) PROVE zs[e].parent \in 0..(e - 1)
      <3>1. CASE e \in 1..Len(es)
        BY <1>1, <3>1 DEF Rooted
      <3>2. CASE e \notin 1..Len(es)
        <4>1. e = Len(es) + 1
          BY <1>0, <1>1, <3>2
        <4> QED
          BY <1>0, <1>1, <4>1
      <3> QED
        BY <3>1, <3>2
    <2> QED
      BY <1>1, <2>1 DEF Rooted
  <1>3. Extends(es, zs)
    BY <1>0, <1>1 DEF Extends
  <1>6. \A e \in 0..Len(es) : ListIn(zs, e) = ListIn(es, e)
    BY <1>2, <1>3, ListsStay
  <1>7. \A e \in 0..Len(es) : TipIn(zs, e) = TipIn(es, e)
    BY <1>2, <1>3, TipsStay
  <1> QED
    BY <1>1, <1>2, <1>6, <1>7

(* The list at the last todo entry of a branch is the list of the branch.  *)
LEMMA TipsTell ==
    ASSUME NEW es, Rooted(es)
    PROVE  \A e \in 0..Len(es) : TipIn(es, e) \in 0..e /\ ListIn(es, TipIn(es, e)) = ListIn(es, e)
  <1>0. Len(es) \in Nat
    BY SeqIs DEF Rooted
  <1> DEFINE T == {n \in Nat : \A e \in 0..n : TipIn(es, e) \in 0..e /\ ListIn(es, TipIn(es, e)) = ListIn(es, e)}
  <1>1. 0 \in T
    <2>1. \A e \in 0..0 : e = 0
      OBVIOUS
    <2> QED
      BY <2>1, BranchesAre
  <1>2. ASSUME NEW n \in Nat, n < Len(es), n \in T PROVE n + 1 \in T
    <2>1. n + 1 \in 1..Len(es) /\ es[n + 1].parent \in 0..n
      BY <1>0, <1>2 DEF Rooted
    <2>2. PICK t : t = es[n + 1].parent
      OBVIOUS
    <2>3. /\ ListIn(es, n + 1) = FoldTodos(ListIn(es, t), es[n + 1].ops)
          /\ TipIn(es, n + 1) = IF es[n + 1].ops # <<>> THEN n + 1 ELSE TipIn(es, t)
      BY <2>1, <2>2, BranchesAre
    <2>4. TipIn(es, t) \in 0..t /\ ListIn(es, TipIn(es, t)) = ListIn(es, t) /\ t \in 0..n
      BY <1>2, <2>1, <2>2
    <2>5. TipIn(es, n + 1) \in 0..(n + 1) /\ ListIn(es, TipIn(es, n + 1)) = ListIn(es, n + 1)
      <3>1. CASE es[n + 1].ops # <<>>
        BY <2>3, <3>1
      <3>2. CASE es[n + 1].ops = <<>>
        <4>1. ListIn(es, n + 1) = ListIn(es, t)
          BY <2>3, <3>2, FoldTodosNone
        <4> QED
          BY <2>3, <2>4, <3>2, <4>1
      <3> QED
        BY <3>1, <3>2
    <2>6. \A e \in 0..(n + 1) : e \in 0..n \/ e = n + 1
      OBVIOUS
    <2> QED
      BY <1>2, <2>5, <2>6
  <1>3. \A n \in 0..Len(es) : n \in T
    <2> HIDE DEF T
    <2> QED
      BY <1>0, <1>1, <1>2, FL!UpTo
  <1> QED
    BY <1>0, <1>3

-----------------------------------------------------------------------------
(* planTodoSnapshot                                                        *)

LEMMA FillsAre == ASSUME NEW rows, IsSeq(rows), NEW desired, IsSeq(desired) PROVE IsSeq(FF!FoldOf(rows, desired))
  <1>2. PICK k \in Nat : k = Len(desired) /\ DOMAIN desired = 1..k
    BY SeqIs
  <1>0. PICK u : FF!Trail(u, rows, desired, k)
    BY <1>2, FF!FoldSteps
  <1>3. u[0] = rows /\ u[k] = FF!FoldOf(rows, desired) /\ \A n \in 1..k : u[n] = Fill(u[n - 1], desired[n])
    BY <1>0 DEF FF!Trail
  <1> DEFINE T == {n \in Nat : IsSeq(u[n])}
  <1>4. 0 \in T
    BY <1>3
  <1>5. ASSUME NEW n \in Nat, n < k, n \in T PROVE n + 1 \in T
    <2>1. u[n + 1] = Fill(u[n], desired[n + 1])
      BY <1>3, <1>5
    <2>2. IsSeq(Fill(u[n], desired[n + 1]))
      BY <1>5, SeqAppend DEF Fill
    <2> QED
      BY <2>1, <2>2
  <1>6. \A n \in 0..k : n \in T
    <2> HIDE DEF T
    <2> QED
      BY <1>4, <1>5, FF!UpTo
  <1> QED
    BY <1>3, <1>6

LEMMA FilledIs == ASSUME NEW desired, IsSeq(desired) PROVE IsSeq(Filled(desired))
  <1>1. PICK none : none = <<>>
    OBVIOUS
  <1>2. Filled(desired) = FF!FoldOf(none, desired)
    BY <1>1 DEF FF!FoldOf, Filled, FoldLeft, MapThenFoldSet, FF!FoldLeft, FF!MapThenFoldSet, Max, FF!Max
  <1>3. IsSeq(none)
    BY <1>1, SeqNone
  <1> QED
    BY <1>2, <1>3, FillsAre

NewUpTo(l, rows, n) == Cardinality(NewRows(l, rows) \cap 1..n)

LEMMA NewRowsCount ==
    ASSUME NEW l, NEW rows, IsSeq(rows)
    PROVE  /\ Cardinality(NewRows(l, rows)) \in Nat
           /\ \A n \in NewRows(l, rows) : NewUpTo(l, rows, n) \in 1..Cardinality(NewRows(l, rows))
           /\ \A m, n \in NewRows(l, rows) : NewUpTo(l, rows, m) = NewUpTo(l, rows, n) => m = n
  <1> DEFINE N == NewRows(l, rows)
  <1>1. PICK k \in Nat : DOMAIN rows = 1..k
    BY SeqIs
  <1>2. N \subseteq 1..k
    BY <1>1 DEF NewRows
  <1> HIDE DEF N
  <1>3. IsFiniteSet(N) /\ Cardinality(N) \in Nat
    <2>1. IsFiniteSet(1..k)
      BY FS_Interval
    <2> QED
      BY <1>2, <2>1, FS_Subset, FS_CardinalityType
  <1>4. \A n : IsFiniteSet(N \cap 1..n) /\ Cardinality(N \cap 1..n) \in Nat /\ Cardinality(N \cap 1..n) <= Cardinality(N)
    <2>1. \A n : (N \cap 1..n) \subseteq N
      OBVIOUS
    <2> QED
      BY <1>3, <2>1, FS_Subset, FS_CardinalityType
  <1>5. ASSUME NEW n \in N PROVE Cardinality(N \cap 1..n) \in 1..Cardinality(N)
    <2>1. n \in N \cap 1..n
      BY <1>2
    <2>2. Cardinality(N \cap 1..n) # 0
      BY <1>4, <2>1, FS_EmptySet
    <2> QED
      BY <1>3, <1>4, <2>2
  <1>6. ASSUME NEW m \in N, NEW n \in N, m < n PROVE Cardinality(N \cap 1..m) # Cardinality(N \cap 1..n)
    <2>1. (N \cap 1..m) \subseteq (N \cap 1..n)
      BY <1>2, <1>6
    <2>2. n \in N \cap 1..n /\ n \notin N \cap 1..m
      BY <1>2, <1>6
    <2>3. PICK A, B : A = N \cap 1..m /\ B = N \cap 1..n
      OBVIOUS
    <2>4. A \subseteq B /\ A # B /\ IsFiniteSet(B)
      BY <1>4, <2>1, <2>2, <2>3
    <2>5. Cardinality(A) # Cardinality(B)
      BY <2>4, FS_Subset
    <2> QED
      BY <2>3, <2>5
  <1>7. \A m, n \in N : Cardinality(N \cap 1..m) = Cardinality(N \cap 1..n) => m = n
    <2>1. \A m, n \in N : m < n \/ n < m \/ m = n
      BY <1>2
    <2> QED
      BY <1>6, <2>1
  <1> QED
    BY <1>3, <1>5, <1>7 DEF N, NewUpTo

(* The ids of what a person commits.                                       *)
SnapId(l, rows, ids, n) == IF Keeps(l, rows, n) THEN rows[n].id ELSE ids[NewUpTo(l, rows, n)]

LEMMA SnapshotIs ==
    ASSUME NEW l, NEW rows, IsSeq(rows), NEW ids, NEW items, items = SnapshotItems(l, rows, ids)
    PROVE  IsList(items) /\ Len(items) = Len(rows) /\ \A n \in 1..Len(rows) : items[n].id = SnapId(l, rows, ids, n)
  <1>1. Len(rows) \in Nat /\ DOMAIN rows = 1..Len(rows)
    BY SeqIs
  <1> DEFINE note(n) == CASE rows[n].note # Absent -> rows[n].note
                          [] rows[n].note = Absent /\ Keeps(l, rows, n) -> KeptNote(l, rows[n].id)
                          [] OTHER -> Blank
  <1>2. items = [n \in 1..Len(rows) |-> Item(SnapId(l, rows, ids, n), rows[n].text, rows[n].done, note(n))]
    BY <1>1, Zenon DEF SnapshotItems, SnapId, NewUpTo
  <1> HIDE DEF note
  <1>3. \A n \in 1..Len(rows) : IsItem(items[n]) /\ items[n].id = SnapId(l, rows, ids, n)
    BY <1>2, ItemIs
  <1>4. items = [n \in 1..Len(rows) |-> items[n]]
    BY <1>2
  <1>5. IsSeq(items) /\ Len(items) = Len(rows)
    BY <1>1, <1>4, SeqIntro
  <1> QED
    BY <1>3, <1>5 DEF IsList

LEMMA SnapshotApart ==
    ASSUME NEW l, IsList(l), NEW rows, IsSeq(rows), NEW ids, NEW new, new = Cardinality(NewRows(l, rows)),
           \A m, n \in 1..new : ids[m] = ids[n] => m = n,
           \A m \in 1..Len(l), n \in 1..new : ids[n] # l[m].id,
           NEW items, items = SnapshotItems(l, rows, ids)
    PROVE  /\ IsList(items) /\ IdsApart(items)
           /\ \A n \in 1..Len(items) : items[n].id \in IdsOf(l) \cup {ids[m] : m \in 1..new}
  <1>1. IsList(items) /\ Len(items) = Len(rows) /\ \A n \in 1..Len(rows) : items[n].id = SnapId(l, rows, ids, n)
    BY SnapshotIs
  <1>2. Len(rows) \in Nat /\ DOMAIN rows = 1..Len(rows) /\ DOMAIN l = 1..Len(l)
    BY SeqIs DEF IsList
  <1>3. \A n \in 1..Len(rows) : Keeps(l, rows, n) \/ n \in NewRows(l, rows)
    BY <1>2 DEF NewRows
  <1>4. /\ \A n \in NewRows(l, rows) : NewUpTo(l, rows, n) \in 1..new
        /\ \A m, n \in NewRows(l, rows) : NewUpTo(l, rows, m) = NewUpTo(l, rows, n) => m = n
    BY NewRowsCount
  <1>5. \A n \in 1..Len(rows) : Keeps(l, rows, n) => SnapId(l, rows, ids, n) \in IdsOf(l)
    BY DEF Keeps, SnapId
  <1>6. \A n \in NewRows(l, rows) : SnapId(l, rows, ids, n) = ids[NewUpTo(l, rows, n)]
    BY DEF NewRows, SnapId
  <1>7. \A n \in 1..new : ids[n] \notin IdsOf(l)
    BY <1>2 DEF IdsOf
  <1>8. \A m, n \in 1..Len(rows) : Keeps(l, rows, m) /\ Keeps(l, rows, n) /\ rows[m].id = rows[n].id => m = n
    <2>1. \A m, n \in 1..Len(rows) : m < n => m \in 1..(n - 1)
      BY <1>2
    <2>2. \A m, n \in 1..Len(rows) : m < n /\ Keeps(l, rows, n) => rows[m].id # rows[n].id
      BY <2>1 DEF Keeps
    <2>3. \A m, n \in 1..Len(rows) : m < n \/ n < m \/ m = n
      BY <1>2
    <2> QED
      BY <2>2, <2>3
  <1>9. ASSUME NEW m \in 1..Len(rows), NEW n \in 1..Len(rows), items[m].id = items[n].id PROVE m = n
    <2>0. SnapId(l, rows, ids, m) = SnapId(l, rows, ids, n)
      BY <1>1, <1>9
    <2>1. CASE Keeps(l, rows, m) /\ Keeps(l, rows, n)
      BY <1>8, <2>0, <2>1 DEF SnapId
    <2>2. CASE m \in NewRows(l, rows) /\ n \in NewRows(l, rows)
      <3>1. NewUpTo(l, rows, m) = NewUpTo(l, rows, n)
        BY <1>4, <1>6, <2>0, <2>2
      <3> QED
        BY <1>4, <2>2, <3>1
    <2>3. CASE Keeps(l, rows, m) /\ n \in NewRows(l, rows)
      BY <1>4, <1>5, <1>6, <1>7, <2>0, <2>3
    <2>4. CASE m \in NewRows(l, rows) /\ Keeps(l, rows, n)
      BY <1>4, <1>5, <1>6, <1>7, <2>0, <2>4
    <2> QED
      BY <1>3, <2>1, <2>2, <2>3, <2>4
  <1>10. IdsApart(items)
    BY <1>1, <1>9 DEF IdsApart
  <1>11. \A n \in 1..Len(items) : items[n].id \in IdsOf(l) \cup {ids[m] : m \in 1..new}
    BY <1>1, <1>3, <1>4, <1>5, <1>6
  <1> QED
    BY <1>1, <1>10, <1>11

-----------------------------------------------------------------------------
(* The conversation as a person and an agent write it                      *)

RowsKnown(l, minted_) ==
    /\ IsList(l) /\ IdsApart(l)
    /\ \A n \in 1..Len(l) : \E i \in 1..minted_ : l[n].id = IdNames[i]

Follows(l, m) ==
    /\ Len(l) <= Len(m) /\ \A n \in 1..Len(l) : m[n].id = l[n].id
    /\ TextsApart(l) => TextsApart(m)

EntriesHold(es, minted_) ==
    /\ Rooted(es)
    /\ \A e \in 0..Len(es) : RowsKnown(ListIn(es, e), minted_)
    /\ \A e \in 1..Len(es) : es[e].by = "agent" => Follows(ListIn(es, es[e].parent), ListIn(es, e))

LEMMA KnownStill ==
    ASSUME NEW l, NEW m \in Nat, NEW n \in Nat, m <= n, RowsKnown(l, m)
    PROVE  RowsKnown(l, n)
  <1>1. 1..m \subseteq 1..n
    OBVIOUS
  <1> QED
    BY <1>1 DEF RowsKnown

LEMMA NoRowsKnown == ASSUME NEW l, l = <<>> PROVE RowsKnown(l, 0)
  <1>1. IsSeq(l) /\ Len(l) = 0
    BY SeqNone
  <1>2. 1..0 = {}
    OBVIOUS
  <1> QED
    BY <1>1, <1>2 DEF RowsKnown, IsList, IdsApart

Brings(es, zs, x, l) ==
    /\ Len(zs) = Len(es) + 1 /\ zs[Len(es) + 1] = x
    /\ \A e \in 0..Len(es) : ListIn(zs, e) = ListIn(es, e) /\ TipIn(zs, e) = TipIn(es, e)
    /\ ListIn(zs, Len(es) + 1) = l
    /\ TipIn(zs, Len(es) + 1) = IF x.ops # <<>> THEN Len(es) + 1 ELSE TipIn(es, x.parent)

(* What an entry must bring for the conversation to hold with it.          *)
LEMMA EntryHolds ==
    ASSUME NEW es, NEW m \in Nat, NEW n \in Nat, m <= n, EntriesHold(es, m),
           NEW x, x.parent \in 0..Len(es),
           NEW l, l = FoldTodos(ListIn(es, x.parent), x.ops), RowsKnown(l, n),
           x.by = "agent" => Follows(ListIn(es, x.parent), l)
    PROVE  EntriesHold(Append(es, x), n) /\ Brings(es, Append(es, x), x, l)
  <1>0. Rooted(es) /\ Len(es) \in Nat
    BY SeqIs DEF EntriesHold, Rooted
  <1>1. PICK zs : zs = Append(es, x)
    OBVIOUS
  <1>2. /\ Rooted(zs) /\ Len(zs) = Len(es) + 1 /\ zs[Len(es) + 1] = x
        /\ \A e \in 1..Len(es) : zs[e] = es[e]
        /\ \A e \in 0..Len(es) : ListIn(zs, e) = ListIn(es, e) /\ TipIn(zs, e) = TipIn(es, e)
    <2>1. Rooted(zs)
      BY <1>0, <1>1, BranchesStay
    <2>2. Len(zs) = Len(es) + 1 /\ zs[Len(es) + 1] = x
      BY <1>0, <1>1, BranchesStay
    <2>3. \A e \in 1..Len(es) : zs[e] = es[e]
      BY <1>0, <1>1, BranchesStay
    <2>4. \A e \in 0..Len(es) : ListIn(zs, e) = ListIn(es, e) /\ TipIn(zs, e) = TipIn(es, e)
      BY <1>0, <1>1, BranchesStay
    <2> QED
      BY <2>1, <2>2, <2>3, <2>4
  <1>3. PICK k \in Nat : k = Len(es)
    BY <1>0
  <1>4. k + 1 \in 1..Len(zs)
    BY <1>2, <1>3
  <1>5. /\ ListIn(zs, k + 1) = FoldTodos(ListIn(zs, x.parent), x.ops)
        /\ TipIn(zs, k + 1) = IF x.ops # <<>> THEN k + 1 ELSE TipIn(zs, x.parent)
    BY <1>2, <1>3, <1>4, BranchesAre
  <1>6. ListIn(zs, k + 1) = l
    BY <1>2, <1>5
  <1>7. ASSUME NEW e \in 0..Len(zs) PROVE RowsKnown(ListIn(zs, e), n)
    <2>1. CASE e \in 0..Len(es)
      <3>1. RowsKnown(ListIn(es, e), m)
        BY <2>1 DEF EntriesHold
      <3> QED
        BY <1>2, <2>1, <3>1, KnownStill
    <2>2. CASE e \notin 0..Len(es)
      <3>1. e = k + 1
        BY <1>2, <1>3, <2>2
      <3> QED
        BY <1>6, <3>1
    <2> QED
      BY <2>1, <2>2
  <1>8. ASSUME NEW e \in 1..Len(zs), zs[e].by = "agent" PROVE Follows(ListIn(zs, zs[e].parent), ListIn(zs, e))
    <2>1. CASE e \in 1..Len(es)
      <3>1. es[e].by = "agent" /\ zs[e].parent = es[e].parent
        BY <1>2, <1>8, <2>1
      <3>2. Follows(ListIn(es, es[e].parent), ListIn(es, e))
        BY <2>1, <3>1 DEF EntriesHold
      <3>3. es[e].parent \in 0..Len(es) /\ e \in 0..Len(es)
        BY <1>0, <2>1 DEF Rooted
      <3>4. ListIn(zs, es[e].parent) = ListIn(es, es[e].parent) /\ ListIn(zs, e) = ListIn(es, e)
        BY <1>2, <3>3
      <3> QED
        BY <3>1, <3>2, <3>4
    <2>2. CASE e \notin 1..Len(es)
      <3>1. e = k + 1
        BY <1>2, <1>3, <2>2
      <3>2. zs[e] = x
        BY <1>2, <1>3, <3>1
      <3> QED
        BY <1>2, <1>6, <1>8, <3>1, <3>2
    <2> QED
      BY <2>1, <2>2
  <1>9. EntriesHold(zs, n)
    BY <1>2, <1>7, <1>8 DEF EntriesHold
  <1>10. ListIn(zs, Len(es) + 1) = l /\ TipIn(zs, Len(es) + 1) = IF x.ops # <<>> THEN Len(es) + 1 ELSE TipIn(es, x.parent)
    BY <1>2, <1>3, <1>5, <1>6
  <1> QED
    BY <1>1, <1>2, <1>9, <1>10 DEF Brings

-----------------------------------------------------------------------------
(* Ids                                                                     *)

LEMMA SeqTail ==
    ASSUME NEW s, IsSeq(s), NEW b \in Int, b = Len(s), NEW m \in 0..b
    PROVE  /\ Len(SubSeq(s, m + 1, b)) = b - m
           /\ \A n \in 1..(b - m) : SubSeq(s, m + 1, b)[n] = s[m + n]
  <1>1. DOMAIN s = 1..b
    BY SeqIs
  <1>2. PICK a \in Int : a = m + 1
    OBVIOUS
  <1> DEFINE S == {s[n] : n \in DOMAIN s}
  <1>3. \A i \in a..b : s[i] \in S
    BY <1>1, <1>2
  <1> HIDE DEF S
  <1>4. Len(SubSeq(s, a, b)) = IF a <= b THEN b - a + 1 ELSE 0
    BY <1>3, SubSeqProperties
  <1>5. \A i \in 1..(b - a + 1) : SubSeq(s, a, b)[i] = s[a + i - 1]
    BY <1>3, SubSeqProperties
  <1>6. \A n \in 1..(b - m) : n \in 1..(b - a + 1) /\ a + n - 1 = m + n
    BY <1>2
  <1>7. b - m = IF a <= b THEN b - a + 1 ELSE 0
    BY <1>2
  <1>8. \A n \in 1..(b - m) : SubSeq(s, a, b)[n] = s[m + n]
    BY <1>5, <1>6
  <1> QED
    BY <1>2, <1>4, <1>7, <1>8

LEMMA NextIdsAre ==
    ASSUME minted \in 0..Len(IdNames)
    PROVE  /\ Len(IdNames) \in Nat /\ Len(NextIds) = Len(IdNames) - minted
           /\ \A n \in 1..(Len(IdNames) - minted) : NextIds[n] = IdNames[minted + n]
  <1>1. IsSeq(IdNames)
    BY IdsAssumption, SeqIn
  <1>2. Len(IdNames) \in Nat
    BY <1>1, SeqIs
  <1>3. Len(IdNames) \in Int
    BY <1>2
  <1>4. PICK names : names = IdNames
    OBVIOUS
  <1>5. PICK b : b = Len(names)
    OBVIOUS
  <1>6. b \in Int /\ minted \in 0..b /\ IsSeq(names)
    BY <1>1, <1>3, <1>4, <1>5
  <1>7. Len(SubSeq(names, minted + 1, b)) = b - minted
    BY <1>5, <1>6, SeqTail
  <1>8. \A n \in 1..(b - minted) : SubSeq(names, minted + 1, b)[n] = names[minted + n]
    BY <1>5, <1>6, SeqTail
  <1> QED
    BY <1>2, <1>4, <1>5, <1>7, <1>8 DEF NextIds

(* The next ids are not in any list yet, and are apart.                    *)
LEMMA NextIdsFresh ==
    ASSUME minted \in 0..Len(IdNames), NEW k \in Nat, MayMint(k)
    PROVE  /\ minted + k \in 0..Len(IdNames)
           /\ \A m, n \in 1..k : NextIds[m] = NextIds[n] => m = n
           /\ \A l : RowsKnown(l, minted) => \A m \in 1..Len(l), n \in 1..k : NextIds[n] # l[m].id
           /\ \A n \in 1..k : \E i \in 1..(minted + k) : NextIds[n] = IdNames[i]
  <1>1. /\ Len(IdNames) \in Nat /\ Len(NextIds) = Len(IdNames) - minted
        /\ \A n \in 1..(Len(IdNames) - minted) : NextIds[n] = IdNames[minted + n]
    BY NextIdsAre
  <1>2. k <= Len(IdNames) - minted
    BY <1>1 DEF MayMint
  <1>3. \A n \in 1..k : NextIds[n] = IdNames[minted + n]
    BY <1>1, <1>2
  <1>4. DOMAIN IdNames = 1..Len(IdNames)
    BY IdsAssumption, SeqIn, SeqIs
  <1>5. \A i, j \in 1..Len(IdNames) : IdNames[i] = IdNames[j] => i = j
    BY <1>4, IdsAssumption DEF IsInjective
  <1>6. \A n \in 1..k : minted + n \in 1..Len(IdNames) /\ minted + n \in 1..(minted + k)
    BY <1>1, <1>2
  <1>7. \A m, n \in 1..k : NextIds[m] = NextIds[n] => m = n
    <2>1. \A m, n \in 1..k : NextIds[m] = NextIds[n] => minted + m = minted + n
      BY <1>3, <1>5, <1>6
    <2> QED
      BY <2>1
  <1>8. ASSUME NEW l, RowsKnown(l, minted), NEW m \in 1..Len(l), NEW n \in 1..k PROVE NextIds[n] # l[m].id
    <2>1. PICK i \in 1..minted : l[m].id = IdNames[i]
      BY <1>8 DEF RowsKnown
    <2>2. i \in 1..Len(IdNames) /\ i # minted + n
      BY <1>1, <2>1
    <2> QED
      BY <1>3, <1>5, <1>6, <2>1, <2>2
  <1>9. \A n \in 1..k : \E i \in 1..(minted + k) : NextIds[n] = IdNames[i]
    BY <1>3, <1>6
  <1>10. minted + k \in 0..Len(IdNames)
    BY <1>1, <1>2
  <1> QED
    BY <1>7, <1>8, <1>9, <1>10, Zenon

-----------------------------------------------------------------------------
(* The rows a person leaves                                                *)

LEMMA SeqRemove == ASSUME NEW s, IsSeq(s), NEW n \in DOMAIN s PROVE IsSeq(RemoveAt(s, n))
  <1>1. Len(s) \in Nat /\ DOMAIN s = 1..Len(s)
    BY SeqIs
  <1> DEFINE S == {s[i] : i \in DOMAIN s}
  <1>2. n \in Int /\ n - 1 \in Int /\ n + 1 \in Int /\ Len(s) \in Int /\ 1 \in Int
    BY <1>1
  <1>3. (\A i \in 1..(n - 1) : s[i] \in S) /\ (\A i \in (n + 1)..Len(s) : s[i] \in S)
    BY <1>1
  <1> HIDE DEF S
  <1>4. SubSeq(s, 1, n - 1) \in Seq(S)
    BY <1>2, <1>3, SubSeqProperties
  <1>5. SubSeq(s, n + 1, Len(s)) \in Seq(S)
    BY <1>2, <1>3, SubSeqProperties
  <1>6. RemoveAt(s, n) \in Seq(S)
    BY <1>4, <1>5, ConcatProperties DEF RemoveAt
  <1> QED
    BY <1>6, SeqIn

LEMMA DraftsAre ==
    ASSUME NEW rows, IsSeq(rows), NEW desired \in Drafts(rows)
    PROVE  IsSeq(desired)
  <1>1. Len(rows) \in Nat /\ DOMAIN rows = 1..Len(rows)
    BY SeqIs
  <1>2. ASSUME NEW k \in Nat, NEW r, DOMAIN r = 1..k, r = [n \in DOMAIN r |-> r[n]] PROVE IsSeq(r)
    BY <1>2, SeqIntro
  <1>3. \A row : \A n \in DOMAIN rows : IsSeq([rows EXCEPT ![n] = row])
    BY <1>1, <1>2
  <1>6. IsSeq(Reverse(rows))
    BY <1>1, <1>2 DEF Reverse
  <1>7. IsSeq([n \in DOMAIN rows |-> [rows[n] EXCEPT !.note = Absent]])
    BY <1>1, <1>2
  <1>8. \A x : IsSeq(Append(rows, x))
    BY SeqAppend
  <1>9. \A n \in DOMAIN rows : IsSeq(RemoveAt(rows, n))
    BY SeqRemove
  <1>10. desired \in {rows}
             \cup {RemoveAt(rows, n) : n \in DOMAIN rows}
             \cup (UNION {{[rows EXCEPT ![n] = row] : row \in Retouched(rows[n])} : n \in DOMAIN rows})
             \cup {Reverse(rows), [n \in DOMAIN rows |-> [rows[n] EXCEPT !.note = Absent]]}
             \cup {Append(rows, Typed(text)) : text \in TypedTexts}
             \cup {Append(rows, rows[n]) : n \in DOMAIN rows}
    BY Zenon DEF Drafts
  <1>11. CASE desired \in {RemoveAt(rows, n) : n \in DOMAIN rows}
    BY <1>9, <1>11
  <1>12. CASE desired \in (UNION {{[rows EXCEPT ![n] = row] : row \in Retouched(rows[n])} : n \in DOMAIN rows})
    BY <1>3, <1>12
  <1>13. CASE desired \in {Reverse(rows), [n \in DOMAIN rows |-> [rows[n] EXCEPT !.note = Absent]]}
    BY <1>6, <1>7, <1>13
  <1>14. CASE desired \in {Append(rows, Typed(text)) : text \in TypedTexts}
    BY <1>8, <1>14
  <1>15. CASE desired \in {Append(rows, rows[n]) : n \in DOMAIN rows}
    BY <1>8, <1>15
  <1>16. CASE desired = rows
    BY <1>16
  <1> QED
    BY <1>10, <1>11, <1>12, <1>13, <1>14, <1>15, <1>16, Zenon

-----------------------------------------------------------------------------
(* The invariant                                                           *)

ListsHold == EntriesHold(entries, minted) /\ minted \in 0..Len(IdNames)
LeavesHold == activeLeaf \in 0..Len(entries) /\ (turnLeaf = None \/ turnLeaf \in 0..Len(entries))
RowsHold == IsSeq(panel) /\ (draft = None \/ IsSeq(draft))
(* What the agent has seen is the list at the entry the barrier remembers. *)
SeenHolds ==
    /\ todoSeen = None \/ (todoSeen \in 0..Len(entries) /\ shown = ListIn(entries, todoSeen))
    /\ disturbed \in BOOLEAN /\ (~disturbed => todoSeen = TipIn(entries, WorkingLeaf))

TodoInv == ListsHold /\ LeavesHold /\ RowsHold /\ SeenHolds

LEMMA Sizes ==
    ASSUME TodoInv
    PROVE  /\ Len(entries) \in Nat /\ Len(IdNames) \in Nat /\ minted \in Nat
           /\ WorkingLeaf \in 0..Len(entries) /\ Rooted(entries)
           /\ ListAt(WorkingLeaf) = ListIn(entries, WorkingLeaf) /\ TodoTip(WorkingLeaf) = TipIn(entries, WorkingLeaf)
           /\ RowsKnown(ListIn(entries, WorkingLeaf), minted)
           /\ TipIn(entries, WorkingLeaf) \in 0..Len(entries)
           /\ ListIn(entries, TipIn(entries, WorkingLeaf)) = ListIn(entries, WorkingLeaf)
  <1>1. Rooted(entries) /\ minted \in 0..Len(IdNames)
    BY DEF TodoInv, ListsHold, EntriesHold
  <1>2. Len(entries) \in Nat
    BY <1>1, SeqIs DEF Rooted
  <1>3. Len(IdNames) \in Nat
    BY IdsAssumption, SeqIn, SeqIs
  <1>4. WorkingLeaf \in 0..Len(entries)
    BY DEF TodoInv, LeavesHold, WorkingLeaf
  <1>5. ListAt(WorkingLeaf) = ListIn(entries, WorkingLeaf)
    BY DEF ListAt, ListIn
  <1>6. TodoTip(WorkingLeaf) = TipIn(entries, WorkingLeaf)
    BY DEF TodoTip, TipIn
  <1>7. RowsKnown(ListIn(entries, WorkingLeaf), minted)
    BY <1>4 DEF TodoInv, ListsHold, EntriesHold
  <1>8. PICK w : w = WorkingLeaf
    OBVIOUS
  <1>9. TipIn(entries, w) \in 0..w /\ ListIn(entries, TipIn(entries, w)) = ListIn(entries, w)
    BY <1>1, <1>4, <1>8, TipsTell
  <1>10. TipIn(entries, w) \in 0..Len(entries)
    BY <1>2, <1>4, <1>8, <1>9
  <1> QED
    BY <1>1, <1>2, <1>3, <1>4, <1>5, <1>6, <1>7, <1>8, <1>9, <1>10

(* A step that writes nothing, and leaves the barrier where it was.        *)
LEMMA NothingWritten ==
    ASSUME TodoInv, entries' = entries, minted' = minted,
           activeLeaf' \in 0..Len(entries), turnLeaf' \in {turnLeaf, None},
           IsSeq(panel'), draft' = None \/ IsSeq(draft'), SeenHolds'
    PROVE  TodoInv'
  <1>1. ListsHold'
    BY DEF TodoInv, ListsHold
  <1>2. LeavesHold'
    BY DEF TodoInv, LeavesHold
  <1>3. RowsHold'
    BY DEF RowsHold
  <1> QED
    BY <1>1, <1>2, <1>3 DEF TodoInv

(* A step that looks: the barrier remembers where the list is now.         *)
LEMMA LooksHold ==
    ASSUME TodoInv, UNCHANGED <<entries, minted, activeLeaf, turnLeaf, panel, draft>>,
           todoSeen' = TodoTip(WorkingLeaf), shown' = Todos, disturbed' = FALSE
    PROVE  TodoInv'
  <1>1. SeenHolds'
    <2>1. WorkingLeaf' = WorkingLeaf
      BY DEF WorkingLeaf
    <2>2. todoSeen' \in 0..Len(entries) /\ shown' = ListIn(entries, todoSeen') /\ todoSeen' = TipIn(entries, WorkingLeaf)
      BY Sizes DEF Todos
    <2> QED
      BY <2>1, <2>2 DEF SeenHolds
  <1>2. activeLeaf' \in 0..Len(entries) /\ turnLeaf' \in {turnLeaf, None} /\ IsSeq(panel') /\ (draft' = None \/ IsSeq(draft'))
    BY DEF TodoInv, LeavesHold, RowsHold
  <1> QED
    BY <1>1, <1>2, NothingWritten

-----------------------------------------------------------------------------
(* Steps that write                                                        *)

LEMMA PushHolds ==
    ASSUME TodoInv, NEW by, NEW ops, ops # <<>>, PushEntry(by, ops),
           minted' \in minted..Len(IdNames),
           NEW l, l = FoldTodos(Todos, ops), RowsKnown(l, minted'), by = "agent" => Follows(Todos, l)
    PROVE  /\ ListsHold' /\ LeavesHold' /\ WorkingLeaf' = Len(entries) + 1
           /\ \E x : x.by = by /\ x.parent = WorkingLeaf /\ x.ops = ops /\ Brings(entries, entries', x, l)
  <1>1. PICK x : x.parent = WorkingLeaf /\ x.by = by /\ x.ops = ops /\ entries' = Append(entries, x)
    BY DEF PushEntry
  <1>2. /\ x.parent \in 0..Len(entries) /\ l = FoldTodos(ListIn(entries, x.parent), x.ops)
        /\ x.by = "agent" => Follows(ListIn(entries, x.parent), l)
    BY <1>1, Sizes DEF Todos
  <1>3. minted \in Nat /\ minted' \in Nat /\ minted <= minted' /\ EntriesHold(entries, minted)
    BY Sizes DEF TodoInv, ListsHold
  <1>4. EntriesHold(entries', minted')
    BY <1>1, <1>2, <1>3, EntryHolds
  <1>5. Brings(entries, entries', x, l)
    BY <1>1, <1>2, <1>3, EntryHolds
  <1>6. Len(entries') = Len(entries) + 1 /\ Len(entries) \in Nat
    BY <1>5, Sizes DEF Brings
  <1>7. minted' \in 0..Len(IdNames)
    BY <1>3, Sizes
  <1>8. LeavesHold'
    BY <1>6 DEF LeavesHold, PushEntry, TodoInv
  <1>9. WorkingLeaf' = Len(entries) + 1
    BY <1>6, NoneAssumption DEF WorkingLeaf, PushEntry
  <1> QED
    BY <1>1, <1>4, <1>5, <1>7, <1>8, <1>9 DEF ListsHold

LEMMA OpenHolds ==
    ASSUME TodoInv, NEW leaf \in 0..Len(entries), OpenTurnAt(leaf)
    PROVE  TodoInv'
  <1>1. PICK x : x.parent = leaf /\ x.by = "dialogue" /\ x.ops = <<>> /\ entries' = Append(entries, x)
    BY DEF OpenTurnAt
  <1>2. PICK l : l = ListIn(entries, leaf)
    OBVIOUS
  <1>3. /\ minted \in Nat /\ minted <= minted /\ EntriesHold(entries, minted) /\ minted' = minted
        /\ Len(entries) \in Nat
    BY Sizes DEF TodoInv, ListsHold, OpenTurnAt
  <1>4. x.parent \in 0..Len(entries) /\ l = FoldTodos(ListIn(entries, x.parent), x.ops) /\ RowsKnown(l, minted)
    BY <1>1, <1>2, <1>3, FoldTodosNone DEF EntriesHold
  <1>5. x.by = "agent" => Follows(ListIn(entries, x.parent), l)
    BY <1>1
  <1>6. EntriesHold(entries', minted)
    BY <1>1, <1>3, <1>4, <1>5, EntryHolds
  <1>7. Brings(entries, entries', x, l)
    BY <1>1, <1>3, <1>4, <1>5, EntryHolds
  <1>8. Len(entries') = Len(entries) + 1
    BY <1>7 DEF Brings
  <1>9. ListsHold'
    BY <1>3, <1>6 DEF ListsHold, TodoInv
  <1>10. activeLeaf' = Len(entries) + 1 /\ turnLeaf' = Len(entries) + 1
    BY <1>8 DEF OpenTurnAt
  <1>11. LeavesHold'
    BY <1>3, <1>8, <1>10 DEF LeavesHold
  <1>12. RowsHold'
    BY DEF OpenTurnAt, TodoInv, RowsHold
  <1>13. SeenHolds'
    <2>1. todoSeen' = todoSeen /\ shown' = shown
      BY DEF OpenTurnAt
    <2>2. todoSeen' = None \/ (todoSeen' \in 0..Len(entries') /\ shown' = ListIn(entries', todoSeen'))
      BY <1>3, <1>7, <1>8, <2>1 DEF Brings, TodoInv, SeenHolds
    <2>3. WorkingLeaf' = Len(entries) + 1
      BY <1>3, <1>10, NoneAssumption DEF WorkingLeaf
    <2>4. TipIn(entries', WorkingLeaf') = TipIn(entries, leaf)
      BY <1>1, <1>7, <2>3 DEF Brings
    <2>5. turnLeaf = None /\ disturbed' = (disturbed \/ leaf # activeLeaf)
      BY DEF OpenTurnAt
    <2>6. disturbed' \in BOOLEAN
      BY <2>5
    <2>7. ASSUME ~disturbed' PROVE todoSeen' = TipIn(entries', WorkingLeaf')
      <3>1. ~disturbed /\ leaf = activeLeaf
        BY <2>5, <2>7
      <3>2. WorkingLeaf = leaf
        BY <2>5, <3>1 DEF WorkingLeaf
      <3>3. todoSeen = TipIn(entries, WorkingLeaf)
        BY <3>1 DEF TodoInv, SeenHolds
      <3> QED
        BY <2>1, <2>4, <3>2, <3>3
    <2> QED
      BY <2>2, <2>6, <2>7 DEF SeenHolds
  <1> QED
    BY <1>9, <1>11, <1>12, <1>13 DEF TodoInv

LEMMA AgentHolds ==
    ASSUME TodoInv, AgentWrites
    PROVE  TodoInv'
  <1>1. PICK input \in {wanted \in Requests : MayMint(Len(wanted.add))} :
            LET plan == PlanTodoWrite(Todos, input, NextIds)
            IN  /\ plan.ok /\ PushEntry("agent", plan.ops)
                /\ minted' = minted + Len(input.add)
                /\ todoSeen' = Len(entries') /\ shown' = plan.items /\ panel' = plan.items /\ disturbed' = FALSE
    BY Zenon DEF AgentWrites
  <1>2. PICK plan : plan = PlanTodoWrite(Todos, input, NextIds)
    OBVIOUS
  <1>3. plan.ok /\ PushEntry("agent", plan.ops)
    BY <1>1, <1>2
  <1>4. minted' = minted + Len(input.add) /\ todoSeen' = Len(entries') /\ shown' = plan.items /\ panel' = plan.items
    BY <1>1, <1>2
  <1>5. disturbed' = FALSE /\ draft' = draft
    BY <1>1, <1>2 DEF AgentWrites
  <1>6. IsSeq(input.add) /\ IsSeq(input.edit) /\ MayMint(Len(input.add))
    BY <1>1, RequestsAssumption, SeqIn
  <1>7. PICK l : l = Todos
    OBVIOUS
  <1>8. RowsKnown(l, minted) /\ minted \in Nat /\ minted \in 0..Len(IdNames) /\ Len(input.add) \in Nat
    BY <1>6, <1>7, Sizes, SeqIs DEF Todos, TodoInv, ListsHold
  <1>9. /\ minted + Len(input.add) \in 0..Len(IdNames)
        /\ \A m, n \in 1..Len(input.add) : NextIds[m] = NextIds[n] => m = n
        /\ \A m \in 1..Len(l), n \in 1..Len(input.add) : NextIds[n] # l[m].id
        /\ \A n \in 1..Len(input.add) : \E i \in 1..(minted + Len(input.add)) : NextIds[n] = IdNames[i]
    <2>1. PICK k \in Nat : k = Len(input.add)
      BY <1>8
    <2>2. MayMint(k) /\ minted \in 0..Len(IdNames)
      BY <1>6, <1>8, <2>1
    <2>3. minted + k \in 0..Len(IdNames) /\ \A m, n \in 1..k : NextIds[m] = NextIds[n] => m = n
      BY <2>2, NextIdsFresh
    <2>4. \A m \in 1..Len(l), n \in 1..k : NextIds[n] # l[m].id
      BY <1>8, <2>2, NextIdsFresh
    <2>5. \A n \in 1..k : \E i \in 1..(minted + k) : NextIds[n] = IdNames[i]
      BY <2>2, NextIdsFresh
    <2> QED
      BY <2>1, <2>3, <2>4, <2>5
  <1>10. Fresh(l, input.add, NextIds)
    BY <1>6, <1>8, <1>9 DEF Fresh, RowsKnown
  <1>11. Grows(l, input.add, NextIds, plan) /\ Len(plan.ops) > 0
    BY <1>2, <1>3, <1>6, <1>7, <1>10, PlanGrows
  <1>12. plan.items = FoldTodos(Todos, plan.ops) /\ plan.ops # <<>>
    BY <1>7, <1>11 DEF Grows
  <1>13. RowsKnown(plan.items, minted')
    <2>0. IdsApart(plan.items)
      BY <1>10, <1>11, GrowsApart
    <2>1. IsList(plan.items) /\ IdsApart(plan.items)
      BY <1>11, <2>0 DEF Grows
    <2>2. Len(l) \in Nat /\ Len(plan.items) = Len(l) + Len(input.add)
      BY <1>8, <1>11, SeqIs DEF Grows, RowsKnown, IsList
    <2>3. ASSUME NEW n \in 1..Len(plan.items) PROVE \E i \in 1..minted' : plan.items[n].id = IdNames[i]
      <3>1. CASE n \in 1..Len(l)
        <4>1. PICK i \in 1..minted : l[n].id = IdNames[i]
          BY <1>8, <3>1 DEF RowsKnown
        <4>2. i \in 1..minted' /\ plan.items[n].id = l[n].id
          BY <1>4, <1>8, <1>11, <3>1 DEF Grows
        <4> QED
          BY <4>1, <4>2
      <3>2. CASE n \notin 1..Len(l)
        <4>1. PICK m \in 1..Len(input.add) : n = Len(l) + m
          <5>1. n - Len(l) \in 1..Len(input.add) /\ n = Len(l) + (n - Len(l))
            BY <1>8, <2>2, <3>2
          <5> QED
            BY <5>1
        <4>2. plan.items[n].id = NextIds[m]
          BY <1>11, <4>1 DEF Grows
        <4> QED
          BY <1>4, <1>9, <4>1, <4>2
      <3> QED
        BY <3>1, <3>2
    <2> QED
      BY <2>1, <2>3 DEF RowsKnown
  <1>14. Follows(Todos, plan.items)
    BY <1>7, <1>8, <1>11, SeqIs DEF Follows, Grows, RowsKnown, IsList
  <1>15. minted' \in minted..Len(IdNames)
    BY <1>4, <1>8, <1>9
  <1>16. ListsHold' /\ LeavesHold' /\ WorkingLeaf' = Len(entries) + 1
    BY <1>3, <1>12, <1>13, <1>14, <1>15, PushHolds
  <1>17. PICK x : x.ops = plan.ops /\ Brings(entries, entries', x, plan.items)
    BY <1>3, <1>12, <1>13, <1>14, <1>15, PushHolds
  <1>18. RowsHold'
    BY <1>4, <1>5, <1>11 DEF RowsHold, TodoInv, Grows, IsList
  <1>19. SeenHolds'
    <2>1. /\ Len(entries') = Len(entries) + 1 /\ ListIn(entries', Len(entries) + 1) = plan.items
          /\ TipIn(entries', Len(entries) + 1) = Len(entries) + 1
      BY <1>12, <1>17 DEF Brings
    <2>2. todoSeen' = Len(entries) + 1 /\ Len(entries) \in Nat
      BY <1>4, <2>1, Sizes
    <2>3. todoSeen' \in 0..Len(entries') /\ shown' = ListIn(entries', todoSeen')
      BY <1>4, <2>1, <2>2
    <2>4. todoSeen' = TipIn(entries', WorkingLeaf')
      BY <1>16, <2>1, <2>2
    <2> QED
      BY <1>5, <2>3, <2>4 DEF SeenHolds
  <1> QED
    BY <1>16, <1>18, <1>19 DEF TodoInv

SetOp(items) == [op |-> "set", items |-> items]

LEMMA SetApplies == ASSUME NEW l, NEW items PROVE ApplyOp(l, SetOp(items)) = items
  <1>1. SetOp(items).op = "set" /\ SetOp(items).items = items
    BY DEF SetOp
  <1> QED
    BY <1>1 DEF ApplyOp

LEMMA SetIsAll ==
    ASSUME NEW l, NEW items
    PROVE  <<SetOp(items)>> # <<>> /\ FoldTodos(l, <<SetOp(items)>>) = items
  <1>1. PICK o : o = SetOp(items)
    OBVIOUS
  <1>2. PICK none : none = <<>>
    OBVIOUS
  <1>3. <<o>> = Append(none, o) /\ <<o>> # <<>> /\ IsSeq(none) /\ FoldTodos(l, none) = l
    BY <1>2, SeqNone, FoldTodosNone
  <1>4. FoldTodos(l, Append(none, o)) = ApplyOp(FoldTodos(l, none), o)
    BY <1>3, FoldTodosMore
  <1> QED
    BY <1>1, <1>3, <1>4, SetApplies

LEMMA SaveHolds ==
    ASSUME TodoInv, Save
    PROVE  TodoInv'
  <1>1. PICK desired \in Drafts(draft) :
            LET rows == Filled(desired)
                new == Cardinality(NewRows(Todos, rows))
                items == SnapshotItems(Todos, rows, NextIds)
            IN  /\ MayMint(new)
                /\ IF items = Todos
                   THEN UNCHANGED <<entries, minted, activeLeaf, turnLeaf, panel, disturbed>>
                   ELSE /\ MayAppend
                        /\ PushEntry("user", <<[op |-> "set", items |-> items]>>)
                        /\ minted' = minted + new
                        /\ panel' = items /\ disturbed' = TRUE
    BY Zenon DEF Save
  <1>2. draft # None /\ draft' = None /\ todoSeen' = todoSeen /\ shown' = shown
    BY DEF Save
  <1>3. PICK rows : rows = Filled(desired)
    OBVIOUS
  <1>4. PICK l : l = Todos
    OBVIOUS
  <1>5. PICK new : new = Cardinality(NewRows(l, rows))
    OBVIOUS
  <1>6. PICK items : items = SnapshotItems(l, rows, NextIds)
    OBVIOUS
  <1>7. /\ MayMint(new)
        /\ IF items = Todos
           THEN UNCHANGED <<entries, minted, activeLeaf, turnLeaf, panel, disturbed>>
           ELSE /\ PushEntry("user", <<[op |-> "set", items |-> items]>>)
                /\ minted' = minted + new /\ panel' = items /\ disturbed' = TRUE
    BY <1>1, <1>3, <1>4, <1>5, <1>6
  <1>8. IsSeq(rows)
    BY <1>2, <1>3, DraftsAre, FilledIs DEF TodoInv, RowsHold
  <1>9. new \in Nat /\ minted \in 0..Len(IdNames) /\ minted \in Nat /\ RowsKnown(l, minted)
    BY <1>4, <1>5, <1>8, NewRowsCount, Sizes DEF Todos, TodoInv, ListsHold
  <1>10. CASE items = Todos
    <2>1. /\ entries' = entries /\ minted' = minted /\ activeLeaf' = activeLeaf /\ turnLeaf' = turnLeaf
          /\ panel' = panel /\ disturbed' = disturbed
      BY <1>7, <1>10
    <2>2. SeenHolds'
      <3>1. WorkingLeaf' = WorkingLeaf
        BY <2>1 DEF WorkingLeaf
      <3> QED
        BY <1>2, <2>1, <3>1 DEF TodoInv, SeenHolds
    <2>3. activeLeaf' \in 0..Len(entries) /\ turnLeaf' \in {turnLeaf, None} /\ IsSeq(panel')
      BY <2>1 DEF TodoInv, LeavesHold, RowsHold
    <2> QED
      BY <1>2, <2>1, <2>2, <2>3, NothingWritten
  <1>11. CASE items # Todos
    <2>1. PICK ops : ops = <<SetOp(items)>>
      OBVIOUS
    <2>2. PushEntry("user", ops) /\ minted' = minted + new /\ panel' = items /\ disturbed' = TRUE
      BY <1>7, <1>11, <2>1 DEF SetOp
    <2>3. ops # <<>> /\ items = FoldTodos(Todos, ops)
      <3>1. PICK a : a = Todos
        OBVIOUS
      <3>2. <<SetOp(items)>> # <<>> /\ FoldTodos(a, <<SetOp(items)>>) = items
        BY SetIsAll
      <3> QED
        BY <2>1, <3>1, <3>2
    <2>4. minted + new \in 0..Len(IdNames) /\ \A m, n \in 1..new : NextIds[m] = NextIds[n] => m = n
      BY <1>7, <1>9, NextIdsFresh
    <2>5. \A m \in 1..Len(l), n \in 1..new : NextIds[n] # l[m].id
      BY <1>7, <1>9, NextIdsFresh
    <2>6. \A n \in 1..new : \E i \in 1..(minted + new) : NextIds[n] = IdNames[i]
      BY <1>7, <1>9, NextIdsFresh
    <2>7. IsList(l)
      BY <1>9 DEF RowsKnown
    <2>8. IsList(items) /\ IdsApart(items)
      BY <1>5, <1>6, <1>8, <2>4, <2>5, <2>7, SnapshotApart
    <2>9. \A n \in 1..Len(items) : items[n].id \in IdsOf(l) \cup {NextIds[m] : m \in 1..new}
      BY <1>5, <1>6, <1>8, <2>4, <2>5, <2>7, SnapshotApart
    <2>10. ASSUME NEW n \in 1..Len(items) PROVE \E i \in 1..(minted + new) : items[n].id = IdNames[i]
      <3>1. CASE items[n].id \in IdsOf(l)
        <4>1. PICK m \in 1..Len(l) : items[n].id = l[m].id
          BY <2>7, <3>1, SeqIs DEF IdsOf, IsList
        <4>2. PICK i \in 1..minted : l[m].id = IdNames[i]
          BY <1>9 DEF RowsKnown
        <4>3. i \in 1..(minted + new)
          BY <1>9
        <4> QED
          BY <4>1, <4>2, <4>3
      <3>2. CASE items[n].id \in {NextIds[m] : m \in 1..new}
        BY <2>6, <3>2
      <3> QED
        BY <2>9, <3>1, <3>2
    <2>11. RowsKnown(items, minted')
      BY <2>2, <2>8, <2>10 DEF RowsKnown
    <2>12. minted' \in minted..Len(IdNames)
      BY <1>9, <2>2, <2>4
    <2>13. ("user" = "agent") => Follows(Todos, items)
      OBVIOUS
    <2>14. PICK by : by = "user"
      OBVIOUS
    <2>15. PushEntry(by, ops) /\ (by = "agent" => Follows(Todos, items))
      BY <2>2, <2>13, <2>14
    <2>16. ListsHold' /\ LeavesHold' /\ WorkingLeaf' = Len(entries) + 1
      BY <2>3, <2>11, <2>12, <2>15, PushHolds
    <2>17. PICK x : Brings(entries, entries', x, items)
      BY <2>3, <2>11, <2>12, <2>15, PushHolds
    <2>18. RowsHold'
      BY <1>2, <2>2, <2>8 DEF RowsHold, IsList
    <2>19. SeenHolds'
      <3>1. Len(entries') = Len(entries) + 1 /\ Len(entries) \in Nat
        BY <2>17, Sizes DEF Brings
      <3>2. todoSeen' = None \/ (todoSeen' \in 0..Len(entries') /\ shown' = ListIn(entries', todoSeen'))
        BY <1>2, <2>17, <3>1 DEF Brings, TodoInv, SeenHolds
      <3> QED
        BY <2>2, <3>2 DEF SeenHolds
    <2> QED
      BY <2>16, <2>18, <2>19 DEF TodoInv
  <1> QED
    BY <1>10, <1>11

LEMMA TodoInit == Init => TodoInv
  <1> SUFFICES ASSUME Init PROVE TodoInv
    OBVIOUS
  <1>1. PICK es : es = entries
    OBVIOUS
  <1>2. IsSeq(es) /\ Len(es) = 0 /\ es = <<>>
    BY <1>1, SeqNone DEF Init
  <1>3. Rooted(es)
    BY <1>2 DEF Rooted
  <1>4. \A e \in 0..Len(es) : RowsKnown(ListIn(es, e), 0)
    <2>1. \A e \in 0..0 : e = 0
      OBVIOUS
    <2>2. ListIn(es, 0) = <<>>
      BY <1>3, BranchesAre
    <2> QED
      BY <1>2, <2>1, <2>2, NoRowsKnown
  <1>5. EntriesHold(es, 0)
    BY <1>2, <1>3, <1>4 DEF EntriesHold
  <1>6. ListsHold
    BY <1>1, <1>5, IdsAssumption, SeqIn, SeqIs DEF ListsHold, Init
  <1>7. LeavesHold
    BY <1>1, <1>2 DEF LeavesHold, Init
  <1>8. RowsHold
    BY SeqNone DEF RowsHold, Init
  <1>9. SeenHolds
    BY DEF SeenHolds, Init
  <1> QED
    BY <1>6, <1>7, <1>8, <1>9 DEF TodoInv

LEMMA TodoStep == TodoInv /\ [Next]_vars => TodoInv'
  <1> SUFFICES ASSUME TodoInv, [Next]_vars PROVE TodoInv'
    OBVIOUS
  <1>0. Len(entries) \in Nat /\ Rooted(entries) /\ activeLeaf \in 0..Len(entries) /\ RowsHold /\ DOMAIN entries = 1..Len(entries)
    BY Sizes, SeqIs DEF TodoInv, LeavesHold, Rooted
  <1>1. CASE Send
    BY <1>0, <1>1, OpenHolds DEF Send
  <1>2. CASE EditFork
    <2>1. PICK e \in DOMAIN entries : OpenTurnAt(entries[e].parent)
      BY <1>2 DEF EditFork
    <2>2. entries[e].parent \in 0..Len(entries)
      BY <1>0 DEF Rooted
    <2> QED
      BY <2>1, <2>2, OpenHolds
  <1>3. CASE TurnEnds
    <2>1. SeenHolds'
      <3>1. todoSeen' = todoSeen /\ shown' = shown /\ entries' = entries /\ activeLeaf' = activeLeaf /\ turnLeaf' = None
        BY <1>3 DEF TurnEnds
      <3>2. disturbed' = (disturbed \/ activeLeaf # turnLeaf) /\ turnLeaf # None
        BY <1>3 DEF TurnEnds
      <3>3. ASSUME ~disturbed' PROVE todoSeen' = TipIn(entries', WorkingLeaf')
        <4>1. ~disturbed /\ activeLeaf = turnLeaf
          BY <3>2, <3>3
        <4>2. WorkingLeaf' = WorkingLeaf
          BY <3>1, <3>2, <4>1 DEF WorkingLeaf
        <4> QED
          BY <3>1, <4>1, <4>2 DEF TodoInv, SeenHolds
      <3> QED
        BY <3>1, <3>2, <3>3 DEF TodoInv, SeenHolds
    <2> QED
      BY <1>0, <1>3, <2>1, NothingWritten DEF TurnEnds, RowsHold
  <1>4. CASE AgentReads
    BY <1>4, LooksHold DEF AgentReads
  <1>5. CASE BarrierRefuses
    BY <1>5, LooksHold DEF BarrierRefuses, Looks
  <1>6. CASE AgentWrites
    BY <1>6, AgentHolds
  <1>7. CASE SetActiveLeaf
    <2>1. SeenHolds'
      <3>1. todoSeen' = todoSeen /\ shown' = shown /\ entries' = entries /\ turnLeaf' = turnLeaf
        BY <1>7 DEF SetActiveLeaf
      <3>2. disturbed' = (disturbed \/ turnLeaf = None)
        BY <1>7 DEF SetActiveLeaf
      <3>3. ASSUME ~disturbed' PROVE todoSeen' = TipIn(entries', WorkingLeaf')
        <4>1. ~disturbed /\ turnLeaf # None
          BY <3>2, <3>3
        <4>2. WorkingLeaf' = WorkingLeaf
          BY <3>1, <4>1 DEF WorkingLeaf
        <4> QED
          BY <3>1, <4>1, <4>2 DEF TodoInv, SeenHolds
      <3> QED
        BY <3>1, <3>2, <3>3 DEF TodoInv, SeenHolds
    <2>2. activeLeaf' \in 0..Len(entries)
      BY <1>0, <1>7 DEF SetActiveLeaf
    <2> QED
      BY <1>0, <1>7, <2>1, <2>2, NothingWritten DEF SetActiveLeaf, RowsHold
  <1>8. CASE Resync
    <2>1. SeenHolds'
      <3>1. WorkingLeaf' = WorkingLeaf
        BY <1>8 DEF Resync, WorkingLeaf
      <3> QED
        BY <1>8, <3>1 DEF Resync, TodoInv, SeenHolds
    <2>2. IsSeq(panel')
      BY <1>8, Sizes DEF Resync, Todos, RowsKnown, IsList
    <2> QED
      BY <1>0, <1>8, <2>1, <2>2, NothingWritten DEF Resync, RowsHold
  <1>9. CASE StartEdit \/ Cancel \/ UNCHANGED vars
    <2>1. /\ entries' = entries /\ minted' = minted /\ activeLeaf' = activeLeaf /\ turnLeaf' = turnLeaf
          /\ todoSeen' = todoSeen /\ shown' = shown /\ panel' = panel /\ disturbed' = disturbed
          /\ draft' \in {draft, panel, None}
      BY <1>9 DEF StartEdit, Cancel, vars
    <2>2. SeenHolds'
      <3>1. WorkingLeaf' = WorkingLeaf
        BY <2>1 DEF WorkingLeaf
      <3> QED
        BY <2>1, <3>1 DEF TodoInv, SeenHolds
    <2> QED
      BY <1>0, <2>1, <2>2, NothingWritten DEF RowsHold
  <1>10. CASE Save
    BY <1>10, SaveHolds
  <1>11. CASE Restart
    <2>1. SeenHolds'
      BY <1>11 DEF Restart, SeenHolds
    <2>2. IsSeq(panel')
      <3>1. panel' = ListIn(entries, activeLeaf)
        BY <1>11 DEF Restart, ListAt, ListIn
      <3> QED
        BY <1>0, <3>1 DEF TodoInv, ListsHold, EntriesHold, RowsKnown, IsList
    <2> QED
      BY <1>0, <1>11, <2>1, <2>2, NothingWritten DEF Restart, RowsHold
  <1> QED
    BY <1>1, <1>2, <1>3, <1>4, <1>5, <1>6, <1>7, <1>8, <1>9, <1>10, <1>11 DEF Next

LEMMA TodoHolds == Spec => []TodoInv
  BY TodoInit, TodoStep, PTL DEF Spec

-----------------------------------------------------------------------------
(* What a row or a write names is one item, over every conversation.       *)
LEMMA FollowsIs == ASSUME NEW l, IsList(l), NEW m, IsList(m), Follows(l, m) PROVE IsPrefix(Listed(l), Listed(m))
  <1>1. PICK s, t : s = Listed(l) /\ t = Listed(m)
    OBVIOUS
  <1>2. /\ s = [n \in 1..Len(l) |-> s[n]] /\ t = [n \in 1..Len(m) |-> t[n]] /\ Len(l) \in Nat /\ Len(m) \in Nat
        /\ \A n \in 1..Len(l) : s[n] = l[n].id
        /\ \A n \in 1..Len(m) : t[n] = m[n].id
    BY <1>1, SeqIs DEF Listed, IsList
  <1>3. Len(s) = Len(l) /\ Len(t) = Len(m)
    BY <1>2, SeqIntro
  <1>4. Len(l) <= Len(m) /\ \A n \in 1..Len(l) : m[n].id = l[n].id /\ n \in 1..Len(m)
    BY <1>2 DEF Follows
  <1>5. \A n \in 1..Len(l) : s[n] = t[n]
    BY <1>2, <1>4
  <1>6. SubSeq(s, 1, Len(l)) = SubSeq(t, 1, Len(l))
    BY <1>2, <1>5
  <1> QED
    BY <1>1, <1>3, <1>4, <1>6 DEF IsPrefix

THEOREM ListsStayAddressable == Spec => []ListStaysAddressable
  <1>1. TodoInv => ListStaysAddressable
    <2> SUFFICES ASSUME TodoInv, NEW e \in DOMAIN entries
                 PROVE  /\ IsInjective(Listed(ListAt(e)))
                        /\ entries[e].by = "agent" =>
                              /\ IsPrefix(Listed(ListAt(entries[e].parent)), Listed(ListAt(e)))
                              /\ IsInjective(Texts(ListAt(entries[e].parent))) => IsInjective(Texts(ListAt(e)))
      BY Zenon DEF ListStaysAddressable
    <2>1. Rooted(entries) /\ Len(entries) \in Nat /\ e \in 1..Len(entries)
      BY Sizes, SeqIs DEF Rooted
    <2>2. entries[e].parent \in 0..Len(entries) /\ e \in 0..Len(entries)
      BY <2>1 DEF Rooted
    <2>3. PICK l, m : l = ListIn(entries, entries[e].parent) /\ m = ListIn(entries, e)
      OBVIOUS
    <2>4. ListAt(entries[e].parent) = l /\ ListAt(e) = m
      BY <2>3 DEF ListAt, ListIn
    <2>5. RowsKnown(l, minted) /\ RowsKnown(m, minted) /\ (entries[e].by = "agent" => Follows(l, m))
      BY <2>1, <2>2, <2>3 DEF TodoInv, ListsHold, EntriesHold
    <2>6. IsInjective(Listed(m))
      BY <2>5, ApartIs DEF RowsKnown
    <2>7. entries[e].by = "agent" => IsPrefix(Listed(l), Listed(m))
      BY <2>5, FollowsIs DEF RowsKnown
    <2>8. entries[e].by = "agent" => (IsInjective(Texts(l)) => IsInjective(Texts(m)))
      BY <2>5, ApartIs DEF RowsKnown, Follows
    <2> QED
      BY <2>4, <2>6, <2>7, <2>8
  <1> QED
    BY <1>1, TodoHolds, PTL

(* The agent never overwrites what it has not read, and may write when it  *)
(* has.                                                                    *)
THEOREM WritesSee == Spec => WritesWhatItSaw
  <1>1. TodoInv /\ [Next]_vars => (Wrote("agent") => shown = Todos)
    <2> SUFFICES ASSUME TodoInv, [Next]_vars, Wrote("agent") PROVE shown = Todos
      OBVIOUS
    <2>0. Len(entries) \in Nat /\ entries' # entries /\ entries'[Len(entries')].by = "agent" /\ IsSeq(entries)
      BY Sizes DEF Wrote, Rooted
    <2>1. CASE Send \/ EditFork
      <3>1. PICK x : x.by = "dialogue" /\ entries' = Append(entries, x)
        BY <2>1 DEF Send, EditFork, OpenTurnAt
      <3>2. entries'[Len(entries) + 1] = x /\ Len(entries') = Len(entries) + 1
        BY <2>0, <3>1, SeqAppend
      <3> QED
        BY <2>0, <3>1, <3>2
    <2>2. CASE Save
      <3>1. PICK x : x.by = "user" /\ entries' = Append(entries, x)
        BY <2>0, <2>2 DEF Save, PushEntry
      <3>2. entries'[Len(entries) + 1] = x /\ Len(entries') = Len(entries) + 1
        BY <2>0, <3>1, SeqAppend
      <3> QED
        BY <2>0, <3>1, <3>2
    <2>3. CASE AgentWrites
      <3>1. todoSeen = TodoTip(WorkingLeaf)
        BY <2>3 DEF AgentWrites, Stale
      <3>2. todoSeen = TipIn(entries, WorkingLeaf) /\ todoSeen # None
        BY <3>1, Sizes, NoneAssumption
      <3>3. shown = ListIn(entries, todoSeen)
        BY <3>2 DEF TodoInv, SeenHolds
      <3> QED
        BY <3>2, <3>3, Sizes DEF Todos
    <2> QED
      BY <2>0, <2>1, <2>2, <2>3 DEF Next, vars, TurnEnds, AgentReads, BarrierRefuses, SetActiveLeaf, Resync,
                                    StartEdit, Cancel, Restart
  <1>2. TodoInv => (~disturbed => ~Stale)
    BY Sizes DEF TodoInv, SeenHolds, Stale
  <1> QED
    BY <1>1, <1>2, TodoHolds, PTL DEF Spec, WritesWhatItSaw

-----------------------------------------------------------------------------
(* Among                                                                   *)

Builds(u, ids, S, k) ==
    /\ DOMAIN u = 0..k /\ u[0] = <<>>
    /\ \A n \in 1..k : u[n] = IF ids[n] \in S THEN Append(u[n - 1], ids[n]) ELSE u[n - 1]

LEMMA BuildExists ==
    ASSUME NEW ids, NEW S, NEW k \in Nat
    PROVE  \E u : Builds(u, ids, S, k)
  <1> DEFINE T == {m \in Nat : \E u : Builds(u, ids, S, m)}
  <1>1. 0 \in T
    <2>1. Builds([n \in 0..0 |-> <<>>], ids, S, 0)
      BY DEF Builds
    <2> QED
      BY <2>1
  <1>2. ASSUME NEW n \in Nat, n \in T PROVE n + 1 \in T
    <2>1. PICK u : Builds(u, ids, S, n)
      BY <1>2
    <2> DEFINE w == [m \in 0..(n + 1) |-> IF m <= n THEN u[m]
                        ELSE IF ids[n + 1] \in S THEN Append(u[n], ids[n + 1]) ELSE u[n]]
    <2>2. DOMAIN w = 0..(n + 1) /\ w[0] = <<>> /\ \A m \in 0..n : w[m] = u[m]
      BY <2>1 DEF Builds
    <2>3. w[n + 1] = IF ids[n + 1] \in S THEN Append(u[n], ids[n + 1]) ELSE u[n]
      OBVIOUS
    <2> HIDE DEF w
    <2>4. \A m \in 1..n : m \in 0..n /\ m - 1 \in 0..n
      OBVIOUS
    <2>5. \A m \in 1..n : w[m] = IF ids[m] \in S THEN Append(w[m - 1], ids[m]) ELSE w[m - 1]
      BY <2>1, <2>2, <2>4 DEF Builds
    <2>6. (n + 1) - 1 = n /\ n \in 0..n /\ \A m \in 1..(n + 1) : m = n + 1 \/ m \in 1..n
      OBVIOUS
    <2>7. Builds(w, ids, S, n + 1)
      BY <2>2, <2>3, <2>5, <2>6 DEF Builds
    <2> QED
      BY <2>7
  <1> HIDE DEF T
  <1>3. \A n \in 0..k : n \in T
    BY <1>1, <1>2, F0!UpTo
  <1> QED
    BY <1>3 DEF T

LEMMA AmongBuilds ==
    ASSUME NEW X, NEW ids \in Seq(X), NEW S
    PROVE  \E u : Builds(u, ids, S, Len(ids)) /\ Among(ids, S) = u[Len(ids)]
  <1> DEFINE Is(u) == u = [n \in 0..Len(ids) |->
                 IF n = 0 THEN <<>>
                 ELSE IF ids[n] \in S THEN Append(u[n - 1], ids[n]) ELSE u[n - 1]]
  <1>0. Len(ids) \in Nat
    OBVIOUS
  <1>1. PICK w : Builds(w, ids, S, Len(ids))
    BY <1>0, BuildExists
  <1> DEFINE v == [n \in 0..Len(ids) |-> w[n]]
  <1>2. \A n \in 0..Len(ids) : n = 0 \/ (n \in 1..Len(ids) /\ n - 1 \in 0..Len(ids))
    BY <1>0
  <1>3. Is(v)
    <2>1. \A n \in 0..Len(ids) : v[n] = w[n]
      OBVIOUS
    <2> HIDE DEF v
    <2>2. \A n \in 0..Len(ids) : v[n] = IF n = 0 THEN <<>>
                 ELSE IF ids[n] \in S THEN Append(v[n - 1], ids[n]) ELSE v[n - 1]
      BY <1>1, <1>2, <2>1 DEF Builds
    <2>3. v = [n \in 0..Len(ids) |-> v[n]]
      BY <2>1 DEF v
    <2> QED
      BY <2>2, <2>3
  <1> DEFINE u == CHOOSE u : Is(u)
  <1>4. Is(u)
    <2> HIDE DEF Is, v
    <2> QED
      BY <1>3
  <1>5. Among(ids, S) = u[Len(ids)]
    BY DEF Among
  <1> HIDE DEF u
  <1>6. \A n \in 0..Len(ids) : u[n] = IF n = 0 THEN <<>>
                 ELSE IF ids[n] \in S THEN Append(u[n - 1], ids[n]) ELSE u[n - 1]
    BY <1>4
  <1>7. DOMAIN u = 0..Len(ids)
    BY <1>4
  <1>8. Builds(u, ids, S, Len(ids))
    <2>1. 0 \in 0..Len(ids) /\ \A n \in 1..Len(ids) : n \in 0..Len(ids) /\ n # 0
      BY <1>0
    <2> QED
      BY <1>6, <1>7, <2>1 DEF Builds
  <1> QED
    BY <1>5, <1>8

(* What is left is of the list and in S, all of that, each as often as     *)
(* before, no longer than the list, and begins with the list's head where  *)
(* that is left.                                                           *)
LEMMA AmongKeeps ==
    ASSUME NEW X, NEW ids \in Seq(X), NEW S, IsInjective(ids)
    PROVE  /\ Among(ids, S) \in Seq(X \cap S) /\ IsInjective(Among(ids, S))
           /\ Len(Among(ids, S)) <= Len(ids)
           /\ ids # <<>> /\ ids[1] \in S => Among(ids, S) # <<>> /\ Among(ids, S)[1] = ids[1]
  <1>1. PICK u : Builds(u, ids, S, Len(ids)) /\ Among(ids, S) = u[Len(ids)]
    BY AmongBuilds
  <1> DEFINE Good(n) == /\ u[n] \in Seq(X \cap S) /\ IsInjective(u[n]) /\ Len(u[n]) <= n
                        /\ \A i \in 1..Len(u[n]) : \E k \in 1..n : u[n][i] = ids[k]
                        /\ n > 0 /\ ids[1] \in S => Len(u[n]) > 0 /\ u[n][1] = ids[1]
             T == {n \in 0..Len(ids) : Good(n)}
  <1>2. Len(ids) \in Nat /\ \A k \in 1..Len(ids) : ids[k] \in X
    OBVIOUS
  <1>3. 0 \in T
    <2>1. u[0] = <<>> /\ 0 \in 0..Len(ids)
      BY <1>1, <1>2 DEF Builds
    <2>2. IsInjective(<<>>) /\ <<>> \in Seq(X \cap S) /\ Len(<<>>) = 0
      BY DEF IsInjective
    <2>3. 1..Len(u[0]) = {} /\ ~(0 > 0) /\ 0 <= 0
      BY <2>1
    <2>4. Good(0)
      BY <2>1, <2>2, <2>3
    <2> HIDE DEF Good
    <2> QED
      BY <2>1, <2>4
  <1>4. ASSUME NEW n \in Nat, n < Len(ids), n \in T PROVE n + 1 \in T
    <2>1. Good(n) /\ n + 1 \in 1..Len(ids) /\ (n + 1) - 1 = n
      BY <1>4
    <2>2. u[n + 1] = IF ids[n + 1] \in S THEN Append(u[n], ids[n + 1]) ELSE u[n]
      BY <1>1, <2>1 DEF Builds
    <2>3. CASE ids[n + 1] \notin S
      <3>1. u[n + 1] = u[n]
        BY <2>2, <2>3
      <3>2. \A k \in 1..n : k \in 1..(n + 1)
        BY <1>4
      <3>3. n + 1 > 0 /\ ids[1] \in S => n > 0
        BY <1>4, <2>3
      <3> QED
        BY <1>2, <1>4, <2>1, <3>1, <3>2, <3>3, SMTT(20)
    <2>4. CASE ids[n + 1] \in S
      <3>1. u[n + 1] = Append(u[n], ids[n + 1]) /\ ids[n + 1] \in X \cap S
        BY <1>2, <2>1, <2>2, <2>4
      <3>2. /\ u[n + 1] \in Seq(X \cap S) /\ Len(u[n + 1]) = Len(u[n]) + 1 /\ Len(u[n]) \in Nat
            /\ \A i \in 1..Len(u[n]) : u[n + 1][i] = u[n][i]
            /\ u[n + 1][Len(u[n]) + 1] = ids[n + 1]
        BY <2>1, <3>1
      <3>3. \A i \in 1..Len(u[n]) : u[n][i] # ids[n + 1]
        <4>1. \A k \in 1..n : ids[k] # ids[n + 1]
          BY <1>2, <1>4, <2>1 DEF IsInjective
        <4> QED
          BY <2>1, <4>1
      <3>4. DOMAIN u[n] = 1..Len(u[n]) /\ DOMAIN u[n + 1] = 1..(Len(u[n]) + 1)
        BY <2>1, <3>2
      <3>5. \A i \in 1..(Len(u[n]) + 1) : i \in 1..Len(u[n]) \/ i = Len(u[n]) + 1
        BY <3>2
      <3>6. IsInjective(u[n + 1])
        BY <2>1, <3>2, <3>3, <3>4, <3>5, SMTT(20) DEF IsInjective
      <3>7. \A i \in 1..Len(u[n + 1]) : \E k \in 1..(n + 1) : u[n + 1][i] = ids[k]
        <4>1. \A k \in 1..n : k \in 1..(n + 1)
          BY <1>4
        <4>2. n + 1 \in 1..(n + 1)
          BY <1>4
        <4> QED
          BY <2>1, <3>2, <3>5, <4>1, <4>2
      <3>8. Len(u[n + 1]) <= n + 1
        BY <2>1, <3>2, <1>4
      <3>9. ids[1] \in S => Len(u[n + 1]) > 0 /\ u[n + 1][1] = ids[1]
        <4>1. CASE n = 0
          BY <2>1, <3>2, <4>1
        <4>2. CASE n > 0
          <5>1. ids[1] \in S => Len(u[n]) > 0 /\ u[n][1] = ids[1]
            BY <2>1, <4>2
          <5>2. Len(u[n]) > 0 => 1 \in 1..Len(u[n])
            BY <3>2
          <5> QED
            BY <3>2, <5>1, <5>2
        <4> QED
          BY <1>4, <4>1, <4>2
      <3> QED
        BY <1>2, <1>4, <2>1, <3>2, <3>6, <3>7, <3>8, <3>9
    <2> QED
      BY <2>3, <2>4
  <1>5. Good(Len(ids))
    <2> HIDE DEF Good
    <2>1. \A n \in 0..Len(ids) : n \in T
      <3> HIDE DEF T
      <3> QED
        BY <1>2, <1>3, <1>4, F0!UpTo
    <2> QED
      BY <1>2, <2>1
  <1> QED
    BY <1>1, <1>2, <1>5

-----------------------------------------------------------------------------
(* Every document is sound                                                 *)

(* Documents are made of functions; and their rows, of rows.               *)
IsRow(row) == row = Row(row.key, row.model, row.said, row.by)
IsDocument(c) ==
    /\ c = [rows |-> c.rows, bound |-> c.bound, recents |-> c.recents]
    /\ DOMAIN c.rows \subseteq Rows /\ \A i \in DOMAIN c.rows : IsRow(c.rows[i])

RecentsLive(c) ==
    \A d \in DOMAIN c.recents :
        /\ c.recents[d] \in Seq(DOMAIN c.rows)
        /\ IsInjective(c.recents[d]) /\ Len(c.recents[d]) \in 1..RecentLimit
BoundIsRecent(c) == \A d \in DOMAIN c.bound : d \in DOMAIN c.recents /\ c.bound[d] = c.recents[d][1]

Sound(c) == IsDocument(c) /\ RecentsLive(c) /\ BoundIsRecent(c) /\ DerivedOnce(c) /\ NothingForeign(c)

ConfigInv == Sound(file) /\ \A t \in DOMAIN held : Sound(held[t])

LEMMA Single == ASSUME NEW X, NEW x \in X PROVE <<x>> \in Seq(X) /\ Len(<<x>>) = 1 /\ <<x>>[1] = x
  OBVIOUS

LEMMA WiderSeq == ASSUME NEW X, NEW Y, X \subseteq Y, NEW s \in Seq(X) PROVE s \in Seq(Y)
  OBVIOUS

(* A row that is put in: a new one, or one in the place of another.        *)
LEMMA AddKeeps ==
    ASSUME NEW c, Sound(c), NEW id \in Rows, NEW row, IsRow(row),
           row.by = "model" =>
              /\ row.said \subseteq {row.model}
              /\ \A i \in Derived(c) \ {id} : ~(c.rows[i].key = row.key /\ c.rows[i].model = row.model)
    PROVE  Sound(AddModelConfig(c, id, row)) /\ id \in DOMAIN AddModelConfig(c, id, row).rows
  <1> DEFINE e == AddModelConfig(c, id, row)
  <1>1. e = [rows |-> Put(c.rows, id, row), bound |-> c.bound, recents |-> c.recents]
    BY DEF Sound, IsDocument, AddModelConfig
  <1> HIDE DEF e
  <1>2. /\ DOMAIN e.rows = DOMAIN c.rows \cup {id} /\ e.rows[id] = row
        /\ \A z \in DOMAIN c.rows \ {id} : e.rows[z] = c.rows[z]
        /\ e.bound = c.bound /\ e.recents = c.recents
    BY <1>1 DEF Put
  <1>3. IsDocument(e)
    BY <1>1, <1>2 DEF Sound, IsDocument
  <1>4. RecentsLive(e) /\ BoundIsRecent(e)
    BY <1>2, WiderSeq DEF Sound, RecentsLive, BoundIsRecent
  <1>5. Derived(e) \subseteq Derived(c) \cup {id} /\ \A i \in Derived(e) \ {id} : e.rows[i] = c.rows[i] /\ i \in Derived(c)
    BY <1>2 DEF Derived
  <1>6. id \in Derived(e) => row.by = "model"
    BY <1>2 DEF Derived
  <1>7. DerivedOnce(e)
    BY <1>2, <1>5, <1>6 DEF Sound, DerivedOnce
  <1>8. NothingForeign(e)
    BY <1>2, <1>5, <1>6 DEF Sound, NothingForeign
  <1> QED
    BY <1>2, <1>3, <1>4, <1>7, <1>8 DEF Sound, e

LEMMA NoteKeeps ==
    ASSUME NEW c, Sound(c), NEW d, NEW id \in DOMAIN c.rows
    PROVE  Sound(BindAndRemember(c, d, id))
  <1> DEFINE previous == IF d \in DOMAIN c.recents THEN c.recents[d] ELSE <<>>
             rest == Among(previous, DOMAIN c.rows \ {id})
             successor == <<id>> \o rest
             n == IF Len(successor) < RecentLimit THEN Len(successor) ELSE RecentLimit
             e == BindAndRemember(c, d, id)
  <1>1. e = [rows |-> c.rows, bound |-> Put(c.bound, d, id), recents |-> Put(c.recents, d, SubSeq(successor, 1, n))]
    <2>1. SetBinding(c, d, id) = [rows |-> c.rows, bound |-> Put(c.bound, d, id), recents |-> c.recents]
      BY DEF Sound, IsDocument, SetBinding
    <2> QED
      BY <2>1 DEF BindAndRemember, NoteRecentConfig
  <1>2. previous \in Seq(DOMAIN c.rows) /\ IsInjective(previous)
    <2>1. IsInjective(<<>>) /\ <<>> \in Seq(DOMAIN c.rows)
      BY DEF IsInjective
    <2>2. d \in DOMAIN c.recents => c.recents[d] \in Seq(DOMAIN c.rows) /\ IsInjective(c.recents[d])
      BY DEF Sound, RecentsLive
    <2> QED
      BY <2>1, <2>2
  <1> HIDE DEF previous
  <1>3. rest \in Seq(DOMAIN c.rows \ {id}) /\ IsInjective(rest)
    <2>1. DOMAIN c.rows \cap (DOMAIN c.rows \ {id}) = DOMAIN c.rows \ {id}
      OBVIOUS
    <2> QED
      BY <1>2, <2>1, AmongKeeps
  <1> HIDE DEF rest
  <1>4. /\ successor \in Seq(DOMAIN c.rows) /\ Len(successor) \in Nat /\ Len(successor) >= 1 /\ successor[1] = id
        /\ Len(successor) = Len(rest) + 1 /\ \A k \in 1..Len(rest) : successor[k + 1] = rest[k]
    <2>0. DOMAIN c.rows \ {id} \subseteq DOMAIN c.rows
      OBVIOUS
    <2>1. rest \in Seq(DOMAIN c.rows)
      BY <1>3, <2>0, WiderSeq
    <2>5. <<id>> \in Seq(DOMAIN c.rows) /\ Len(<<id>>) = 1 /\ <<id>>[1] = id
      BY Single
    <2>2. Len(rest) \in Nat
      BY <2>1
    <2>3. successor \in Seq(DOMAIN c.rows) /\ Len(successor) = Len(rest) + 1
      BY <2>1, <2>5
    <2>4. successor[1] = id /\ \A k \in 1..Len(rest) : successor[k + 1] = rest[k]
      BY <2>1, <2>5
    <2> QED
      BY <2>2, <2>3, <2>4
  <1>5. IsInjective(successor)
    <2>1. DOMAIN successor = 1..Len(successor) /\ DOMAIN rest = 1..Len(rest) /\ Len(rest) \in Nat
      BY <1>3, <1>4
    <2>2. \A k \in DOMAIN successor : k = 1 \/ (k - 1 \in 1..Len(rest) /\ successor[k] = rest[k - 1])
      BY <1>4, <2>1
    <2>3. \A k \in 1..Len(rest) : rest[k] # id
      BY <1>3
    <2> HIDE DEF successor
    <2> QED
      BY <1>3, <1>4, <2>1, <2>2, <2>3 DEF IsInjective
  <1> HIDE DEF successor
  <1>6. n \in 1..RecentLimit /\ n <= Len(successor)
    BY <1>4, RecentAssumption
  <1> HIDE DEF n
  <1> DEFINE of == SubSeq(successor, 1, n)
  <1>7. of \in Seq(DOMAIN c.rows) /\ Len(of) = n /\ \A k \in 1..n : of[k] = successor[k]
    <2>1. n \in Nat /\ n >= 1 /\ n <= Len(successor)
      BY <1>4, <1>6, RecentAssumption
    <2>2. \A k \in 1..n : successor[k] \in DOMAIN c.rows
      BY <1>4, <2>1
    <2>3. of = [k \in 1..n |-> successor[k]]
      BY <1>4, <2>1
    <2> HIDE DEF of
    <2>4. of \in Seq(DOMAIN c.rows) /\ \A k \in 1..n : of[k] = successor[k]
      BY <2>1, <2>2, <2>3
    <2>5. Len(of) = n
      BY <2>1, <2>3, <2>4
    <2> QED
      BY <2>4, <2>5
  <1>8. IsInjective(of)
    <2>1. DOMAIN of = 1..n /\ DOMAIN successor = 1..Len(successor) /\ 1..n \subseteq 1..Len(successor)
      BY <1>4, <1>6, <1>7, RecentAssumption
    <2> QED
      BY <1>5, <1>7, <2>1 DEF IsInjective
  <1>9. of[1] = id /\ Len(of) \in 1..RecentLimit
    BY <1>4, <1>6, <1>7, RecentAssumption
  <1> HIDE DEF of
  <1>10. e.rows = c.rows /\ e.bound = Put(c.bound, d, id) /\ e.recents = Put(c.recents, d, of)
    BY <1>1 DEF of
  <1>11. IsDocument(e)
    BY <1>1, <1>10 DEF Sound, IsDocument, of
  <1>12. RecentsLive(e)
    <2>1. \A x \in DOMAIN e.recents : e.recents[x] = (IF x = d THEN of ELSE c.recents[x]) /\ (x # d => x \in DOMAIN c.recents)
      BY <1>10 DEF Put
    <2> QED
      BY <1>7, <1>8, <1>9, <1>10, <2>1 DEF Sound, RecentsLive
  <1>13. BoundIsRecent(e)
    <2>1. \A x \in DOMAIN e.bound : e.bound[x] = IF x = d THEN id ELSE c.bound[x]
      BY <1>10 DEF Put
    <2>2. \A x \in DOMAIN e.bound : x # d => x \in DOMAIN c.bound
      BY <1>10 DEF Put
    <2>3. \A x \in DOMAIN c.recents \cup {d} : x \in DOMAIN e.recents /\ e.recents[x] = IF x = d THEN of ELSE c.recents[x]
      BY <1>10 DEF Put
    <2> QED
      BY <1>9, <2>1, <2>2, <2>3 DEF Sound, BoundIsRecent
  <1>14. DerivedOnce(e) /\ NothingForeign(e)
    BY <1>10 DEF Sound, DerivedOnce, NothingForeign, Derived
  <1> QED
    BY <1>11, <1>12, <1>13, <1>14 DEF Sound

LEMMA RemoveKeeps ==
    ASSUME NEW c, Sound(c), NEW id
    PROVE  Sound(RemoveModelConfig(c, id))
  <1> DEFINE leftover == [d \in DOMAIN c.recents |-> Among(c.recents[d], Rows \ {id})]
             e == RemoveModelConfig(c, id)
  <1>1. /\ e = [rows |-> e.rows, bound |-> e.bound, recents |-> e.recents]
        /\ e.rows = Keep(c.rows, DOMAIN c.rows \ {id})
        /\ e.bound = Keep(c.bound, {d \in DOMAIN c.bound : c.bound[d] # id})
        /\ e.recents = Keep(leftover, {d \in DOMAIN leftover : leftover[d] # <<>>})
    BY DEF RemoveModelConfig
  <1> HIDE DEF e
  <1>2. DOMAIN e.rows = DOMAIN c.rows \ {id} /\ \A i \in DOMAIN e.rows : e.rows[i] = c.rows[i]
    BY <1>1 DEF Keep
  <1>3. \A d \in DOMAIN e.recents : d \in DOMAIN c.recents /\ e.recents[d] = leftover[d] /\ leftover[d] # <<>>
    BY <1>1 DEF Keep
  <1>4. \A d \in DOMAIN c.recents : leftover[d] # <<>> => d \in DOMAIN e.recents
    BY <1>1 DEF Keep
  <1>5. ASSUME NEW d \in DOMAIN c.recents
        PROVE  /\ leftover[d] \in Seq(DOMAIN e.rows) /\ IsInjective(leftover[d]) /\ Len(leftover[d]) <= Len(c.recents[d])
               /\ c.recents[d][1] # id => leftover[d] # <<>> /\ leftover[d][1] = c.recents[d][1]
    <2>1. c.recents[d] \in Seq(DOMAIN c.rows) /\ IsInjective(c.recents[d]) /\ c.recents[d] # <<>>
      BY RecentAssumption DEF Sound, RecentsLive
    <2>2. c.recents[d][1] \in Rows /\ DOMAIN c.rows \subseteq Rows
      BY <2>1 DEF Sound, IsDocument
    <2>3. DOMAIN c.rows \cap (Rows \ {id}) = DOMAIN e.rows
      BY <1>2, <2>2
    <2>4. leftover[d] = Among(c.recents[d], Rows \ {id})
      OBVIOUS
    <2> HIDE DEF leftover
    <2>5. /\ leftover[d] \in Seq(DOMAIN c.rows \cap (Rows \ {id})) /\ IsInjective(leftover[d]) /\ Len(leftover[d]) <= Len(c.recents[d])
          /\ c.recents[d][1] \in Rows \ {id} => leftover[d] # <<>> /\ leftover[d][1] = c.recents[d][1]
      <3> DEFINE S == Rows \ {id}
                 ids == c.recents[d]
                 X == DOMAIN c.rows
      <3>1. ids \in Seq(X) /\ IsInjective(ids) /\ ids # <<>> /\ leftover[d] = Among(ids, S)
        BY <2>1, <2>4
      <3> HIDE DEF S, ids, X
      <3>2. /\ Among(ids, S) \in Seq(X \cap S) /\ IsInjective(Among(ids, S))
            /\ Len(Among(ids, S)) <= Len(ids)
            /\ ids # <<>> /\ ids[1] \in S => Among(ids, S) # <<>> /\ Among(ids, S)[1] = ids[1]
        BY <3>1, AmongKeeps
      <3> QED
        BY <3>1, <3>2 DEF S, ids, X
    <2> QED
      BY <2>2, <2>3, <2>5
  <1> HIDE DEF leftover
  <1>6. RecentsLive(e)
    <2>1. ASSUME NEW d \in DOMAIN e.recents
          PROVE  e.recents[d] \in Seq(DOMAIN e.rows) /\ IsInjective(e.recents[d]) /\ Len(e.recents[d]) \in 1..RecentLimit
      <3>1. /\ d \in DOMAIN c.recents /\ e.recents[d] = leftover[d] /\ leftover[d] # <<>>
            /\ leftover[d] \in Seq(DOMAIN e.rows) /\ IsInjective(leftover[d]) /\ Len(leftover[d]) <= Len(c.recents[d])
        BY <1>3, <1>5
      <3>2. Len(c.recents[d]) \in 1..RecentLimit
        BY <3>1 DEF Sound, RecentsLive
      <3>3. Len(leftover[d]) \in Nat /\ Len(leftover[d]) # 0
        BY <3>1
      <3>4. Len(leftover[d]) \in 1..RecentLimit
        BY <3>1, <3>2, <3>3, RecentAssumption
      <3> QED
        BY <3>1, <3>4
    <2> QED
      BY <2>1 DEF RecentsLive
  <1>7. BoundIsRecent(e)
    <2>1. ASSUME NEW d \in DOMAIN e.bound PROVE d \in DOMAIN e.recents /\ e.bound[d] = e.recents[d][1]
      <3>1. d \in DOMAIN c.bound /\ e.bound[d] = c.bound[d] /\ c.bound[d] # id
        BY <1>1 DEF Keep
      <3>2. d \in DOMAIN c.recents /\ c.bound[d] = c.recents[d][1]
        BY <3>1 DEF Sound, BoundIsRecent
      <3> QED
        BY <1>3, <1>4, <1>5, <3>1, <3>2
    <2> QED
      BY <2>1 DEF BoundIsRecent
  <1>8. IsDocument(e) /\ DerivedOnce(e) /\ NothingForeign(e)
    BY <1>1, <1>2, ZenonT(60) DEF Sound, IsDocument, DerivedOnce, NothingForeign, Derived
  <1> QED
    BY <1>6, <1>7, <1>8 DEF Sound, e

-----------------------------------------------------------------------------
(* The commands                                                            *)

LEMMA NewIdIsUnheard ==
    ASSUME NEW t \in DOMAIN held, Unheard # {}
    PROVE  NewId \in Rows /\ NewId \notin DOMAIN held[t].rows
  <1>1. NewId \in Unheard
    BY DEF NewId, Unheard
  <1>2. held[t] \in Range(held)
    BY DEF Range
  <1> QED
    BY <1>1, <1>2 DEF Unheard

(* What is saved is sound if it is made of what was read by sound steps.   *)
LEMMA SavesSound ==
    ASSUME ConfigInv, NEW t \in DOMAIN held, NEW c, Sound(c), SaveConfig(t, c)
    PROVE  ConfigInv'
  <1>1. file' = c /\ \A x \in DOMAIN held' : x \in DOMAIN held /\ held'[x] = held[x]
    BY DEF SaveConfig, Done, Keep
  <1>2. Sound(c)'
    OBVIOUS
  <1> QED
    BY <1>1 DEF ConfigInv, Sound, IsDocument, RecentsLive, BoundIsRecent, DerivedOnce, NothingForeign, Derived, IsRow, Row

LEMMA ConfigInvStep == ConfigInv /\ [ConfigNext]_configVars => ConfigInv'
  <1> SUFFICES ASSUME ConfigInv, [ConfigNext]_configVars PROVE ConfigInv'
    OBVIOUS
  <1> USE DEF Holding
  <1>1. CASE UNCHANGED configVars
    BY <1>1 DEF configVars, ConfigInv, Sound, IsDocument, RecentsLive, BoundIsRecent, DerivedOnce, NothingForeign, Derived, IsRow, Row
  <1> SUFFICES ASSUME NEW t \in Terminals,
                      \/ LoadConfig(t) \/ QuitsConfig(t) \/ UseConfig(t) \/ AddConfig(t) \/ SetUpUnboundFolder(t)
                      \/ CloneModelConfig(t) \/ UpdateModelConfig(t) \/ RemoveConfig(t) \/ ConfigModel(t)
               PROVE  ConfigInv'
    BY <1>1 DEF ConfigNext
  <1>2. CASE LoadConfig(t)
    <2>1. file' = file /\ \A x \in DOMAIN held' : held'[x] = file \/ (x \in DOMAIN held /\ held'[x] = held[x])
      BY <1>2 DEF LoadConfig, Put
    <2> QED
      BY <2>1 DEF ConfigInv, Sound, IsDocument, RecentsLive, BoundIsRecent, DerivedOnce, NothingForeign, Derived, IsRow, Row
  <1>3. CASE QuitsConfig(t)
    <2>1. file' = file /\ \A x \in DOMAIN held' : x \in DOMAIN held /\ held'[x] = held[x]
      BY <1>3 DEF QuitsConfig, Done, Keep
    <2> QED
      BY <2>1 DEF ConfigInv, Sound, IsDocument, RecentsLive, BoundIsRecent, DerivedOnce, NothingForeign, Derived, IsRow, Row
  <1>4. t \in DOMAIN held => Sound(held[t])
    BY DEF ConfigInv
  <1>5. CASE UseConfig(t)
    <2>1. PICK d \in Dirs, id \in DOMAIN held[t].rows : SaveConfig(t, BindAndRemember(held[t], d, id))
      BY <1>5 DEF UseConfig
    <2>2. t \in DOMAIN held
      BY <1>5 DEF UseConfig
    <2> QED
      BY <1>4, <2>1, <2>2, NoteKeeps, SavesSound
  <1>6. CASE AddConfig(t)
    <2>1. PICK d \in Dirs, key \in ApiKeys, model \in Models, bind \in BOOLEAN : \E pin \in SUBSET {model} :
             LET c == AddModelConfig(held[t], NewId, Row(key, model, pin, "hand"))
             IN  Unheard # {} /\ SaveConfig(t, IF bind THEN BindAndRemember(c, d, NewId) ELSE c)
      BY <1>6 DEF AddConfig
    <2>7. PICK pin \in SUBSET {model} :
             LET c == AddModelConfig(held[t], NewId, Row(key, model, pin, "hand"))
             IN  Unheard # {} /\ SaveConfig(t, IF bind THEN BindAndRemember(c, d, NewId) ELSE c)
      BY <2>1
    <2> DEFINE row == Row(key, model, pin, "hand")
               c == AddModelConfig(held[t], NewId, row)
    <2>2. t \in DOMAIN held /\ Sound(held[t]) /\ NewId \in Rows
      BY <1>4, <1>6, <2>7, NewIdIsUnheard DEF AddConfig
    <2>3. IsRow(row) /\ row.by # "model"
      BY DEF IsRow, Row
    <2> HIDE DEF row
    <2>4. Sound(c) /\ NewId \in DOMAIN c.rows
      BY <2>2, <2>3, AddKeeps
    <2>5. SaveConfig(t, IF bind THEN BindAndRemember(c, d, NewId) ELSE c)
      BY <2>7 DEF row
    <2> HIDE DEF c
    <2>6. Sound(IF bind THEN BindAndRemember(c, d, NewId) ELSE c)
      BY <2>4, NoteKeeps
    <2> QED
      BY <2>2, <2>5, <2>6, SavesSound
  <1>7. CASE SetUpUnboundFolder(t)
    <2>1. PICK d \in Dirs, key \in ApiKeys, model \in Models : \E price \in SUBSET {model} :
             /\ Unheard # {}
             /\ SaveConfig(t, BindAndRemember(AddModelConfig(held[t], NewId, Row(key, model, price, "hand")), d, NewId))
      BY <1>7 DEF SetUpUnboundFolder
    <2>7. PICK price \in SUBSET {model} :
             /\ Unheard # {}
             /\ SaveConfig(t, BindAndRemember(AddModelConfig(held[t], NewId, Row(key, model, price, "hand")), d, NewId))
      BY <2>1
    <2> DEFINE row == Row(key, model, price, "hand")
               c == AddModelConfig(held[t], NewId, row)
    <2>2. t \in DOMAIN held /\ Sound(held[t]) /\ NewId \in Rows
      BY <1>4, <1>7, <2>7, NewIdIsUnheard DEF SetUpUnboundFolder
    <2>3. IsRow(row) /\ row.by # "model"
      BY DEF IsRow, Row
    <2>5. SaveConfig(t, BindAndRemember(c, d, NewId))
      BY <2>7
    <2> HIDE DEF row
    <2>4. Sound(c) /\ NewId \in DOMAIN c.rows
      BY <2>2, <2>3, AddKeeps
    <2> HIDE DEF c
    <2>6. Sound(BindAndRemember(c, d, NewId))
      BY <2>4, NoteKeeps
    <2> QED
      BY <2>2, <2>5, <2>6, SavesSound
  <1>8. CASE CloneModelConfig(t)
    <2>1. PICK source \in DOMAIN held[t].rows :
             /\ Unheard # {}
             /\ SaveConfig(t, AddModelConfig(held[t], NewId, [held[t].rows[source] EXCEPT !.by = "hand"]))
      BY <1>8 DEF CloneModelConfig
    <2> DEFINE row == [held[t].rows[source] EXCEPT !.by = "hand"]
    <2>2. t \in DOMAIN held /\ Sound(held[t]) /\ NewId \in Rows
      BY <1>4, <1>8, <2>1, NewIdIsUnheard DEF CloneModelConfig
    <2>3. IsRow(row) /\ row.by # "model"
      BY <2>2 DEF Sound, IsDocument, IsRow, Row
    <2> HIDE DEF row
    <2>4. Sound(AddModelConfig(held[t], NewId, row))
      BY <2>2, <2>3, AddKeeps
    <2> QED
      BY <2>1, <2>2, <2>4, SavesSound DEF row
  <1>9. CASE UpdateModelConfig(t)
    <2>1. PICK id \in DOMAIN held[t].rows, model \in Models :
             \E kept \in {{}, held[t].rows[id].said} : \E new \in SUBSET {model} :
                SaveConfig(t, AddModelConfig(held[t], id, Row(held[t].rows[id].key, model, kept \cup new,
                    IF model = held[t].rows[id].model THEN held[t].rows[id].by ELSE "hand")))
      BY <1>9 DEF UpdateModelConfig
    <2> DEFINE old == held[t].rows[id]
    <2>2. PICK kept \in {{}, old.said}, new \in SUBSET {model} :
             SaveConfig(t, AddModelConfig(held[t], id, Row(old.key, model, kept \cup new, IF model = old.model THEN old.by ELSE "hand")))
      BY <2>1
    <2> DEFINE row == Row(old.key, model, kept \cup new, IF model = old.model THEN old.by ELSE "hand")
    <2>3. t \in DOMAIN held /\ Sound(held[t]) /\ id \in Rows
      BY <1>4, <1>9 DEF UpdateModelConfig, Sound, IsDocument
    <2>4. IsRow(row) /\ row.key = old.key /\ row.model = model /\ row.said = kept \cup new
          /\ (row.by = "model" => model = old.model /\ old.by = "model")
      BY DEF IsRow, Row
    <2>6. SaveConfig(t, AddModelConfig(held[t], id, row))
      BY <2>2
    <2> HIDE DEF row
    <2>5. row.by = "model" =>
             /\ row.said \subseteq {row.model}
             /\ \A i \in Derived(held[t]) \ {id} : ~(held[t].rows[i].key = row.key /\ held[t].rows[i].model = row.model)
      BY <2>3, <2>4 DEF Sound, Derived, DerivedOnce, NothingForeign
    <2>7. Sound(AddModelConfig(held[t], id, row))
      BY <2>3, <2>4, <2>5, AddKeeps
    <2> QED
      BY <2>3, <2>6, <2>7, SavesSound
  <1>10. CASE RemoveConfig(t)
    <2>1. PICK id \in DOMAIN held[t].rows : SaveConfig(t, RemoveModelConfig(held[t], id))
      BY <1>10 DEF RemoveConfig
    <2>2. t \in DOMAIN held
      BY <1>10 DEF RemoveConfig
    <2> QED
      BY <1>4, <2>1, <2>2, RemoveKeeps, SavesSound
  <1>11. CASE ConfigModel(t)
    <2> DEFINE c == held[t]
    <2>1. t \in DOMAIN held /\ Sound(c)
      <3>1. t \in DOMAIN held
        BY <1>11 DEF ConfigModel
      <3> QED
        BY <1>4, <3>1
    <2>2. PICK d \in Dirs, model \in Models :
             LET place       == NearestBinding(c, d)
                 source   == c.rows[c.bound[place]]
                 siblings == ConfigsWithKeyAndModel(c, source.key, model)
             IN  \/ /\ siblings = {} /\ Unheard # {}
                    /\ \E price \in SUBSET {model} :
                          SaveConfig(t, BindAndRemember(AddModelConfig(c, NewId, DeriveModelConfig(source, model, price)), place, NewId))
                 \/ \E id \in siblings : SaveConfig(t, BindAndRemember(c, place, id))
      BY <1>11 DEF ConfigModel
    <2> DEFINE place == NearestBinding(c, d)
               source == c.rows[c.bound[place]]
               siblings == ConfigsWithKeyAndModel(c, source.key, model)
    <2>3. ASSUME NEW id \in siblings, SaveConfig(t, BindAndRemember(c, place, id)) PROVE ConfigInv'
      <3>1. id \in DOMAIN c.rows
        BY <2>3 DEF ConfigsWithKeyAndModel
      <3> QED
        BY <2>1, <2>3, <3>1, NoteKeeps, SavesSound
    <2>4. ASSUME siblings = {}, Unheard # {}, NEW price \in SUBSET {model},
                 SaveConfig(t, BindAndRemember(AddModelConfig(c, NewId, DeriveModelConfig(source, model, price)), place, NewId))
          PROVE  ConfigInv'
      <3> DEFINE row == DeriveModelConfig(source, model, price)
                 e == AddModelConfig(c, NewId, row)
      <3>1. IsRow(row) /\ row.key = source.key /\ row.model = model /\ row.said \subseteq {model}
        BY SMTT(20) DEF IsRow, Row, DeriveModelConfig
      <3>2. \A i \in Derived(c) \ {NewId} : ~(c.rows[i].key = row.key /\ c.rows[i].model = row.model)
        BY <2>4, <3>1 DEF ConfigsWithKeyAndModel, Derived
      <3>3. NewId \in Rows
        BY <2>1, <2>4, NewIdIsUnheard
      <3>4. SaveConfig(t, BindAndRemember(e, place, NewId))
        BY <2>4
      <3> HIDE DEF row, c, source, siblings, place
      <3>5. Sound(e) /\ NewId \in DOMAIN e.rows
        BY <2>1, <3>1, <3>2, <3>3, AddKeeps
      <3> HIDE DEF e
      <3> QED
        BY <2>1, <3>4, <3>5, NoteKeeps, SavesSound
    <2>5. \/ /\ siblings = {} /\ Unheard # {}
             /\ \E price \in SUBSET {model} :
                   SaveConfig(t, BindAndRemember(AddModelConfig(c, NewId, DeriveModelConfig(source, model, price)), place, NewId))
          \/ \E id \in siblings : SaveConfig(t, BindAndRemember(c, place, id))
      BY <2>2
    <2> HIDE DEF siblings, c, source, place
    <2> QED
      BY <2>3, <2>4, <2>5
  <1> QED
    BY <1>2, <1>3, <1>5, <1>6, <1>7, <1>8, <1>9, <1>10, <1>11

LEMMA ConfigInitHolds == ConfigInit => ConfigInv
  BY DEF ConfigInit, NoConfigs, ConfigInv, Sound, IsDocument, RecentsLive, BoundIsRecent, DerivedOnce, NothingForeign, Derived

(* Of the other rows of the key, the second of the recents ranks first.    *)
LEMMA SecondIsFirstChoice ==
    ASSUME NEW c, Sound(c), NEW d \in DOMAIN c.bound, Len(c.recents[d]) > 1,
           c.rows[c.recents[d][2]].key = c.rows[c.bound[d]].key
    PROVE  FirstChoices(c, d, c.rows[c.bound[d]].key, c.bound[d]) = {c.recents[d][2]}
  <1> DEFINE of == c.recents[d]
             key == c.rows[c.bound[d]].key
             all == ModelsUnderKey(c, d, key, c.bound[d])
  <1>1. /\ d \in DOMAIN c.recents /\ of \in Seq(DOMAIN c.rows) /\ IsInjective(of)
        /\ Len(of) \in 1..RecentLimit /\ c.bound[d] = of[1]
    BY DEF Sound, RecentsLive, BoundIsRecent
  <1>2. Len(of) \in Nat /\ 1 \in 1..Len(of) /\ 2 \in 1..Len(of) /\ DOMAIN of = 1..Len(of) /\ RecentLimit + 1 > 2
        /\ RecentLimit + 1 \in Nat
    BY <1>1, RecentAssumption
  <1>3. of[2] \in DOMAIN c.rows /\ of[2] # of[1]
    BY <1>1, <1>2 DEF IsInjective
  <1>4. of[2] \in all
    BY <1>1, <1>3 DEF ModelsUnderKey
  <1>5. \A i : Rank(c, d, i) = IF \E n \in 1..Len(of) : of[n] = i THEN CHOOSE n \in 1..Len(of) : of[n] = i ELSE RecentLimit + 1
    BY <1>1 DEF Rank
  <1> HIDE DEF of, key, all
  <1>6. Rank(c, d, of[2]) = 2
    <2>1. \A n \in 1..Len(of) : of[n] = of[2] => n = 2
      BY <1>1, <1>2 DEF IsInjective
    <2>2. (CHOOSE n \in 1..Len(of) : of[n] = of[2]) = 2
      BY <1>2, <2>1
    <2> QED
      BY <1>2, <1>5, <2>2
  <1>7. ASSUME NEW i \in all, i # of[2] PROVE Rank(c, d, i) \in Nat /\ Rank(c, d, i) > 2
    <2>1. i # of[1]
      BY <1>1, <1>7 DEF ModelsUnderKey, all
    <2>2. CASE \E n \in 1..Len(of) : of[n] = i
      <3> DEFINE n == CHOOSE n \in 1..Len(of) : of[n] = i
      <3>1. n \in 1..Len(of) /\ of[n] = i
        BY <2>2
      <3>2. Rank(c, d, i) = n
        BY <1>5, <2>2
      <3> HIDE DEF n
      <3>3. n # 1 /\ n # 2
        BY <1>7, <2>1, <3>1
      <3> QED
        BY <1>2, <3>1, <3>2, <3>3
    <2>3. CASE ~\E n \in 1..Len(of) : of[n] = i
      BY <1>2, <1>5, <2>3
    <2> QED
      BY <2>2, <2>3
  <1>8. \A i \in all : (\A j \in all : Rank(c, d, i) <= Rank(c, d, j)) <=> i = of[2]
    BY <1>4, <1>6, <1>7
  <1> QED
    BY <1>4, <1>8 DEF FirstChoices, of, key, all

(* However many commands are under way, in however many terminals, each    *)
(* with the file as it was when it began (commands.ts, operations.ts):     *)
(* every file that is saved is sound.                                      *)
THEOREM ConfigInvariance == ConfigSpec => []ConfigInv
  BY ConfigInitHolds, ConfigInvStep, PTL DEF ConfigSpec

(* What the folders remember is alive, each id once and within the limit;  *)
(* a folder is bound to the most recent of them, and answering a bare      *)
(* config model with 1 goes back to the one before.                        *)
THEOREM FileStaysClosed == ConfigSpec => []FileIsClosed
  <1>1. ConfigInv => FileIsClosed
    <2> SUFFICES ASSUME ConfigInv PROVE FileIsClosed
      OBVIOUS
    <2>1. Sound(file)
      BY DEF ConfigInv
    <2>2. ASSUME NEW d \in DOMAIN file.recents
          PROVE  /\ ToSet(file.recents[d]) \subseteq DOMAIN file.rows
                 /\ IsInjective(file.recents[d]) /\ Len(file.recents[d]) \in 1..RecentLimit
                 /\ Head(file.recents[d]) = file.recents[d][1]
      <3>1. /\ file.recents[d] \in Seq(DOMAIN file.rows)
            /\ IsInjective(file.recents[d]) /\ Len(file.recents[d]) \in 1..RecentLimit
        BY <2>1 DEF Sound, RecentsLive
      <3>2. ToSet(file.recents[d]) \subseteq DOMAIN file.rows
        BY <3>1 DEF ToSet
      <3>3. Head(file.recents[d]) = file.recents[d][1]
        BY <3>1
      <3> QED
        BY <3>1, <3>2, <3>3
    <2>3. \A d \in DOMAIN file.bound : d \in DOMAIN file.recents /\ file.bound[d] = Head(file.recents[d])
      BY <2>1, <2>2 DEF Sound, BoundIsRecent
    <2>4. FirstIsTheLast
      BY <2>1, SecondIsFirstChoice DEF FirstIsTheLast
    <2> QED
      BY <2>2, <2>3, <2>4 DEF FileIsClosed
  <1> QED
    BY <1>1, ConfigInvariance, PTL

(* config model never leaves two rows of its own on one key and model, and *)
(* none carries what was said of another model.                            *)
THEOREM SwitchingConverges == ConfigSpec => []SwitchConverges
  <1>1. ConfigInv => SwitchConverges
    BY DEF ConfigInv, Sound, SwitchConverges
  <1> QED
    BY <1>1, ConfigInvariance, PTL
=============================================================================
