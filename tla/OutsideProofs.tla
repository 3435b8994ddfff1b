--------------------------- MODULE OutsideProofs ----------------------------
(* Proofs about what deals with the world outside: the provider's stream    *)
(* and the cache (Stream), child processes (Tasks), the speech engine       *)
(* (Speech), the provider's windows (Windows), the port and the signals     *)
(* (Serving), MCP servers (McpServers). One section each; none uses the     *)
(* facts of another.                                                        *)
EXTENDS Tasks, Speech, Stream, Windows, Serving, McpServers, FiniteSetTheorems, TLAPS

-----------------------------------------------------------------------------
(* What holds of Stream for any answers and any interleaving of their      *)
(* fragments.  What was sent of the answer, part by part, is what is put   *)
(* together (TogetherOK); Closes stores the result of just that, and Hit   *)
(* plays back only what Closes stored.                                     *)

Bodies == [id : Words, name : Words, args : Seq(Letters)]
Finishes == {"stop", "tool_calls"}

(* What may be put together at all, whatever was lost of it.               *)
Fields(a) == a = [text |-> a.text, blocks |-> a.blocks, calls |-> a.calls, finish |-> a.finish,
                  provider |-> a.provider, usage |-> a.usage]
CallsMap(calls) ==
    DOMAIN calls \in SUBSET Nat /\ IsFiniteSet(DOMAIN calls) /\ calls \in [DOMAIN calls -> Bodies]
BlocksFit(blocks) == blocks \in Seq(Blocks) /\ Distinct(blocks)
Gathered(a) ==
    /\ Fields(a) /\ a.text \in Seq(Letters) /\ BlocksFit(a.blocks) /\ CallsMap(a.calls)
    /\ a.finish \in Finishes /\ a.provider \in Words /\ a.usage \in {0, 1}
(* A part of which n pieces have come.                                     *)
SoFar(seq, n) == SubSeq(seq, 1, IF n < Len(seq) THEN n ELSE Len(seq))
BlockSoFar(b, n) ==
    IF b.index = NoIndex THEN b
    ELSE [index |-> b.index, text |-> SoFar(b.text, n), sign |-> IF n > Len(b.text) THEN b.sign ELSE NoWord]
CallSoFar(c, n) == [id |-> c.id, name |-> c.name, args |-> SoFar(c.args, n - 1)]

(* What s says was sent of an answer, and nothing else, was put together.  *)
BlocksBegun(a, s) == {i \in DOMAIN a.blocks : s[<<"block", i>>] > 0}
CallsBegun(a, s) == {i \in DOMAIN a.calls : s[<<"call", i>>] > 0}
TextIn(text, a, s) == text = SoFar(a.text, s[<<"text", 1>>])
BlocksIn(bs, a, s) ==
    /\ Len(bs) = Cardinality(BlocksBegun(a, s))
    /\ Range(bs) = {BlockSoFar(a.blocks[i], s[<<"block", i>>]) : i \in BlocksBegun(a, s)}
CallsIn(calls, a, s) ==
    /\ DOMAIN calls = {a.calls[i].index : i \in CallsBegun(a, s)}
    /\ \A i \in CallsBegun(a, s) : calls[a.calls[i].index] = CallSoFar(a.calls[i], s[<<"call", i>>])

PartsOK ==
    /\ answer \in ModelAnswers /\ sent \in [Parts(answer) -> Nat]
    /\ \A part \in Parts(answer) : sent[part] <= Pieces(answer, part)
EndOK ==
    IF ended THEN /\ acc.provider = answer.provider /\ acc.finish = FinishOf(answer) /\ acc.usage = 1
                  /\ \A part \in Parts(answer) : sent[part] = Pieces(answer, part)
    ELSE acc.provider \in {NoWord, answer.provider}
TogetherOK ==
    call = "streaming" \/ ended =>
        EndOK /\ (~garbled => TextIn(acc.text, answer, sent) /\ BlocksIn(acc.blocks, answer, sent)
                              /\ CallsIn(acc.calls, answer, sent))

(* What the cache may hold: what can be replayed.                          *)
Storable(r) ==
    /\ Fields(r) /\ r.text \in Seq(Letters) /\ BlocksFit(r.blocks) /\ r.calls \in Seq(Bodies)
    /\ r.finish \in Finishes /\ r.provider \in Words /\ r.usage \in {0, 1}
KeptOK ==
    /\ DOMAIN kept = {Signature(r) : r \in Asked}
    /\ \A w \in DOMAIN kept : kept[w] = NotKept \/ Storable(kept[w])

StreamInv ==
    /\ asked \in Asked /\ ended \in BOOLEAN /\ garbled \in BOOLEAN
    /\ Gathered(acc) /\ PartsOK /\ TogetherOK /\ KeptOK /\ AnswerIsKept

-----------------------------------------------------------------------------
(* Folds of the two steps                                                  *)

FB == INSTANCE Folding WITH Step <- AddBlock
FE == INSTANCE Folding WITH Step <- Accumulate

AddAll(bs, items) == FoldLeft(AddBlock, bs, items)

LEMMA Interval == ASSUME NEW n \in Nat PROVE IsFiniteSet(1..n) /\ Cardinality(1..n) = n
  <1>1. IsFiniteSet(1..n) /\ Cardinality(1..n) = IF 1 > n THEN 0 ELSE n - 1 + 1
    BY FS_Interval
  <1> QED
    BY <1>1

LEMMA FoldBlocksIs == ASSUME NEW bs, NEW items PROVE AddAll(bs, items) = FB!FoldOf(bs, items)
  BY DEF AddAll, FB!FoldOf, FoldLeft, MapThenFoldSet, FB!FoldLeft, FB!MapThenFoldSet, Max, FB!Max

LEMMA FoldEventsIs == ASSUME NEW a, NEW evs PROVE Fold(a, evs) = FE!FoldOf(a, evs)
  BY DEF Fold, FE!FoldOf, FoldLeft, MapThenFoldSet, FE!FoldLeft, FE!MapThenFoldSet, Max, FE!Max

LEMMA NoEvent == ASSUME NEW a PROVE Fold(a, <<>>) = a
  <1>1. FE!FoldOf(a, <<>>) = a
    BY FE!FoldNone
  <1> QED
    BY <1>1, FoldEventsIs

LEMMA OneEvent == ASSUME NEW a, NEW ev PROVE Fold(a, <<ev>>) = Accumulate(a, ev)
  <1>1. PICK s : s = <<>>
    OBVIOUS
  <1>2. PICK z : z = <<ev>>
    OBVIOUS
  <1>n. PICK n \in Nat : n = 0
    OBVIOUS
  <1>3. DOMAIN s = 1..n /\ DOMAIN z = 1..(n + 1) /\ (\A i \in 1..n : z[i] = s[i]) /\ z[n + 1] = ev
    BY <1>1, <1>2, <1>n
  <1>4. \A b : FE!FoldOf(b, z) = Accumulate(FE!FoldOf(b, s), z[n + 1])
    BY <1>3, FE!FoldMore
  <1>5. FE!FoldOf(a, s) = a
    BY <1>1, FE!FoldNone
  <1> QED
    BY <1>2, <1>3, <1>4, <1>5, FoldEventsIs

(* What a chunk does, event by event.                                      *)
Chunks == [text : Seq(Letters), details : Seq(Blocks), calls : Seq(ToolCalls),
           finish : Finishes \cup {NoWord}, provider : Words, usage : {0, 1}]
Values == Seq(Letters) \cup Seq(Blocks) \cup ToolCalls \cup Finishes \cup Words \cup {0, 1}
Events == [type : {"text", "details", "call", "finish", "provider", "usage"}, value : Values]

(* Events after events.                                                    *)
LEMMA EventsAfter ==
    ASSUME NEW a, NEW evs \in Seq(Events), NEW more \in Seq(Events)
    PROVE  Fold(a, evs \o more) = Fold(Fold(a, evs), more)
  <1>1. PICK z : z = evs \o more
    OBVIOUS
  <1>k. PICK k : k = Len(evs)
    OBVIOUS
  <1>m. PICK m : m = Len(more)
    OBVIOUS
  <1>2. k \in Nat /\ DOMAIN evs = 1..k
    BY <1>k
  <1>3. m \in Nat /\ DOMAIN more = 1..m
    BY <1>m
  <1>4. /\ DOMAIN z = 1..(k + m) /\ \A i \in 1..k : z[i] = evs[i]
        /\ \A i \in 1..m : z[k + i] = more[i]
    BY <1>1, <1>k, <1>m, <1>2, <1>3
  <1>5. FE!FoldOf(a, z) = FE!FoldOf(FE!FoldOf(a, evs), more)
    BY <1>2, <1>3, <1>4, FE!FoldJoin
  <1> QED
    BY <1>1, <1>5, FoldEventsIs

LEMMA TextEvent == ASSUME NEW a, NEW v PROVE Accumulate(a, Event("text", v)) = [a EXCEPT !.text = @ \o v]
  BY DEF Accumulate, Event
LEMMA DetailsEvent == ASSUME NEW a, NEW v PROVE Accumulate(a, Event("details", v)) = [a EXCEPT !.blocks = AddAll(@, v)]
  BY DEF AddAll, Accumulate, Event
LEMMA CallEvent == ASSUME NEW a, NEW v PROVE Accumulate(a, Event("call", v)) = [a EXCEPT !.calls = AddCall(@, v)]
  BY DEF Accumulate, Event
LEMMA FinishEvent == ASSUME NEW a, NEW v PROVE Accumulate(a, Event("finish", v)) = [a EXCEPT !.finish = v]
  BY DEF Accumulate, Event
LEMMA ProviderEvent == ASSUME NEW a, NEW v PROVE Accumulate(a, Event("provider", v)) = [a EXCEPT !.provider = First(@, v)]
  BY DEF Accumulate, Event
LEMMA UsageEvent == ASSUME NEW a, NEW v PROVE Accumulate(a, Event("usage", v)) = [a EXCEPT !.usage = v]
  BY DEF Accumulate, Event

(* Adding one block to what there is.                                      *)
LEMMA OneBlock == ASSUME NEW bs, NEW item PROVE AddAll(bs, <<item>>) = AddBlock(bs, item)
  <1>1. PICK s : s = <<>>
    OBVIOUS
  <1>2. PICK z : z = <<item>>
    OBVIOUS
  <1>n. PICK n \in Nat : n = 0
    OBVIOUS
  <1>3. DOMAIN s = 1..n /\ DOMAIN z = 1..(n + 1) /\ (\A i \in 1..n : z[i] = s[i]) /\ z[n + 1] = item
    BY <1>1, <1>2, <1>n
  <1>4. \A b : FB!FoldOf(b, z) = AddBlock(FB!FoldOf(b, s), z[n + 1])
    BY <1>3, FB!FoldMore
  <1>5. FB!FoldOf(bs, s) = bs
    BY <1>1, FB!FoldNone
  <1> QED
    BY <1>2, <1>3, <1>4, <1>5, FoldBlocksIs

CallEvents(c) == [i \in DOMAIN c.calls |-> Event("call", c.calls[i])]

LEMMA EventsAre ==
    ASSUME NEW c \in Chunks
    PROVE  /\ When(c.text # <<>>, Event("text", c.text)) \in Seq(Events)
           /\ When(c.details # <<>>, Event("details", c.details)) \in Seq(Events)
           /\ CallEvents(c) \in Seq(Events)
           /\ When(c.finish # NoWord, Event("finish", c.finish)) \in Seq(Events)
           /\ When(c.provider # NoWord, Event("provider", c.provider)) \in Seq(Events)
           /\ When(c.usage # 0, Event("usage", c.usage)) \in Seq(Events)
  <1>1. /\ Event("text", c.text) \in Events /\ Event("details", c.details) \in Events
        /\ Event("finish", c.finish) \in Events /\ Event("provider", c.provider) \in Events
        /\ Event("usage", c.usage) \in Events
    <2>1. /\ c.text \in Values /\ c.details \in Values /\ c.finish \in Values
          /\ c.provider \in Values /\ c.usage \in Values
      BY WordsAssumption DEF Chunks, Values
    <2> QED
      BY <2>1 DEF Events, Event
  <1>2. \A i \in DOMAIN c.calls : Event("call", c.calls[i]) \in Events
    <2>1. \A i \in DOMAIN c.calls : c.calls[i] \in ToolCalls
      BY DEF Chunks
    <2> QED
      BY <2>1 DEF Events, Values, Event
  <1>3. DOMAIN c.calls = 1..Len(c.calls) /\ Len(c.calls) \in Nat
    BY DEF Chunks
  <1>4. CallEvents(c) \in Seq(Events)
    BY <1>2, <1>3 DEF CallEvents
  <1> QED
    BY <1>1, <1>4 DEF When

(* The events of a chunk, each where it is there.                          *)
WithText(a, c) == IF c.text = <<>> THEN a ELSE Accumulate(a, Event("text", c.text))
WithDetails(a, c) == IF c.details = <<>> THEN a ELSE Accumulate(a, Event("details", c.details))
WithFinish(a, c) == IF c.finish = NoWord THEN a ELSE Accumulate(a, Event("finish", c.finish))
WithProvider(a, c) == IF c.provider = NoWord THEN a ELSE Accumulate(a, Event("provider", c.provider))
WithUsage(a, c) == IF c.usage = 0 THEN a ELSE Accumulate(a, Event("usage", c.usage))

LEMMA SixParts ==
    ASSUME NEW a, NEW e1 \in Seq(Events), NEW e2 \in Seq(Events), NEW e3 \in Seq(Events),
           NEW e4 \in Seq(Events), NEW e5 \in Seq(Events), NEW e6 \in Seq(Events)
    PROVE  Fold(a, ((((e1 \o e2) \o e3) \o e4) \o e5) \o e6) =
              Fold(Fold(Fold(Fold(Fold(Fold(a, e1), e2), e3), e4), e5), e6)
  <1>1. /\ e1 \o e2 \in Seq(Events) /\ (e1 \o e2) \o e3 \in Seq(Events)
        /\ ((e1 \o e2) \o e3) \o e4 \in Seq(Events) /\ (((e1 \o e2) \o e3) \o e4) \o e5 \in Seq(Events)
    OBVIOUS
  <1>2. \A s, z \in Seq(Events) : Fold(a, s \o z) = Fold(Fold(a, s), z)
    BY EventsAfter
  <1>3. Fold(a, e1 \o e2) = Fold(Fold(a, e1), e2)
    BY <1>2
  <1>4. Fold(a, (e1 \o e2) \o e3) = Fold(Fold(a, e1 \o e2), e3)
    BY <1>1, <1>2
  <1>5. Fold(a, ((e1 \o e2) \o e3) \o e4) = Fold(Fold(a, (e1 \o e2) \o e3), e4)
    BY <1>1, <1>2
  <1>6. Fold(a, (((e1 \o e2) \o e3) \o e4) \o e5) = Fold(Fold(a, ((e1 \o e2) \o e3) \o e4), e5)
    BY <1>1, <1>2
  <1>7. Fold(a, ((((e1 \o e2) \o e3) \o e4) \o e5) \o e6) = Fold(Fold(a, (((e1 \o e2) \o e3) \o e4) \o e5), e6)
    BY <1>1, <1>2
  <1> QED
    BY <1>3, <1>4, <1>5, <1>6, <1>7

LEMMA EventsFold ==
    ASSUME NEW c, NEW b
    PROVE  /\ Fold(b, When(c.text # <<>>, Event("text", c.text))) = WithText(b, c)
           /\ Fold(b, When(c.details # <<>>, Event("details", c.details))) = WithDetails(b, c)
           /\ Fold(b, When(c.finish # NoWord, Event("finish", c.finish))) = WithFinish(b, c)
           /\ Fold(b, When(c.provider # NoWord, Event("provider", c.provider))) = WithProvider(b, c)
           /\ Fold(b, When(c.usage # 0, Event("usage", c.usage))) = WithUsage(b, c)
  <1>1. Fold(b, When(c.text # <<>>, Event("text", c.text))) = WithText(b, c)
    BY OneEvent, NoEvent DEF When, WithText
  <1>2. Fold(b, When(c.details # <<>>, Event("details", c.details))) = WithDetails(b, c)
    BY OneEvent, NoEvent DEF When, WithDetails
  <1>3. Fold(b, When(c.finish # NoWord, Event("finish", c.finish))) = WithFinish(b, c)
    BY OneEvent, NoEvent DEF When, WithFinish
  <1>4. Fold(b, When(c.provider # NoWord, Event("provider", c.provider))) = WithProvider(b, c)
    BY OneEvent, NoEvent DEF When, WithProvider
  <1>5. Fold(b, When(c.usage # 0, Event("usage", c.usage))) = WithUsage(b, c)
    BY OneEvent, NoEvent DEF When, WithUsage
  <1> QED
    BY <1>1, <1>2, <1>3, <1>4, <1>5

LEMMA ChunkFolds ==
    ASSUME NEW a, NEW c \in Chunks
    PROVE  Fold(a, ChunkToEvents(c)) =
             WithUsage(WithProvider(WithFinish(Fold(WithDetails(WithText(a, c), c), CallEvents(c)), c), c), c)
  <1>1. PICK e1 : e1 = When(c.text # <<>>, Event("text", c.text))
    OBVIOUS
  <1>2. PICK e2 : e2 = When(c.details # <<>>, Event("details", c.details))
    OBVIOUS
  <1>3. PICK e3 : e3 = CallEvents(c)
    OBVIOUS
  <1>4. PICK e4 : e4 = When(c.finish # NoWord, Event("finish", c.finish))
    OBVIOUS
  <1>5. PICK e5 : e5 = When(c.provider # NoWord, Event("provider", c.provider))
    OBVIOUS
  <1>6. PICK e6 : e6 = When(c.usage # 0, Event("usage", c.usage))
    OBVIOUS
  <1>7. /\ e1 \in Seq(Events) /\ e2 \in Seq(Events) /\ e3 \in Seq(Events)
        /\ e4 \in Seq(Events) /\ e5 \in Seq(Events) /\ e6 \in Seq(Events)
    BY <1>1, <1>2, <1>3, <1>4, <1>5, <1>6, EventsAre
  <1>8. ChunkToEvents(c) = ((((e1 \o e2) \o e3) \o e4) \o e5) \o e6
    BY <1>1, <1>2, <1>3, <1>4, <1>5, <1>6 DEF ChunkToEvents, CallEvents
  <1>9. Fold(a, ChunkToEvents(c)) = Fold(Fold(Fold(Fold(Fold(Fold(a, e1), e2), e3), e4), e5), e6)
    BY <1>7, <1>8, SixParts
  <1>10. \A b : Fold(b, e1) = WithText(b, c) /\ Fold(b, e2) = WithDetails(b, c) /\ Fold(b, e4) = WithFinish(b, c)
    BY <1>1, <1>2, <1>4, EventsFold
  <1>11. \A b : Fold(b, e5) = WithProvider(b, c) /\ Fold(b, e6) = WithUsage(b, c)
    BY <1>5, <1>6, EventsFold
  <1> QED
    BY <1>3, <1>9, <1>10, <1>11

(* Of a provider named on every chunk the first stays.                     *)
LEMMA ProviderStays ==
    ASSUME NEW a, Fields(a), NEW c
    PROVE  WithProvider(a, c) = [a EXCEPT !.provider = First(@, c.provider)]
  <1>1. CASE c.provider = NoWord
    BY <1>1 DEF WithProvider, First, Fields
  <1>2. CASE c.provider # NoWord
    BY <1>2, ProviderEvent DEF WithProvider
  <1> QED
    BY <1>1, <1>2

LEMMA TextPiece ==
    ASSUME NEW a, Fields(a), NEW p \in Words, NEW l \in Letters
    PROVE  Fold(a, ChunkToEvents([Empty(p) EXCEPT !.text = <<l>>])) =
              [a EXCEPT !.text = @ \o <<l>>, !.provider = First(@, p)]
  <1>1. PICK c : c = [Empty(p) EXCEPT !.text = <<l>>]
    OBVIOUS
  <1>2. c = [text |-> <<l>>, details |-> <<>>, calls |-> <<>>, finish |-> NoWord, provider |-> p, usage |-> 0]
    BY <1>1 DEF Empty
  <1>3. c \in Chunks
    BY <1>2 DEF Chunks
  <1>4. PICK b : b = [a EXCEPT !.text = @ \o <<l>>]
    OBVIOUS
  <1>5. Fields(b)
    BY <1>4 DEF Fields
  <1>6. WithText(a, c) = b
    BY <1>2, <1>4, TextEvent DEF WithText
  <1>7. \A x : WithDetails(x, c) = x
    BY <1>2 DEF WithDetails
  <1>8. \A x : Fold(x, CallEvents(c)) = x
    <2>1. CallEvents(c) = <<>>
      BY <1>2 DEF CallEvents
    <2> QED
      BY <2>1, NoEvent
  <1>9. \A x : WithFinish(x, c) = x
    BY <1>2 DEF WithFinish
  <1>10. PICK d : d = [b EXCEPT !.provider = First(@, p)]
    OBVIOUS
  <1>11. WithProvider(b, c) = d
    BY <1>2, <1>5, <1>10, ProviderStays
  <1>12. WithUsage(d, c) = d
    BY <1>2 DEF WithUsage
  <1>13. Fold(a, ChunkToEvents(c)) = d
    BY <1>3, <1>6, <1>7, <1>8, <1>9, <1>11, <1>12, ChunkFolds
  <1> QED
    BY <1>1, <1>4, <1>10, <1>13 DEF Fields

LEMMA BlockPiece ==
    ASSUME NEW a, Fields(a), NEW p \in Words, NEW item \in Blocks
    PROVE  Fold(a, ChunkToEvents([Empty(p) EXCEPT !.details = <<item>>])) =
              [a EXCEPT !.blocks = AddBlock(@, item), !.provider = First(@, p)]
  <1>1. PICK c : c = [Empty(p) EXCEPT !.details = <<item>>]
    OBVIOUS
  <1>2. c = [text |-> <<>>, details |-> <<item>>, calls |-> <<>>, finish |-> NoWord, provider |-> p, usage |-> 0]
    BY <1>1 DEF Empty
  <1>3. c \in Chunks
    BY <1>2 DEF Chunks
  <1>4. PICK b : b = [a EXCEPT !.blocks = AddBlock(@, item)]
    OBVIOUS
  <1>5. Fields(b)
    BY <1>4 DEF Fields
  <1>6. \A x : WithText(x, c) = x
    BY <1>2 DEF WithText
  <1>7. WithDetails(a, c) = b
    <2>1. c.details = <<item>>
      BY <1>2
    <2>2. <<item>> # <<>>
      OBVIOUS
    <2> QED
      BY <2>1, <2>2, <1>4, DetailsEvent, OneBlock DEF WithDetails
  <1>8. \A x : Fold(x, CallEvents(c)) = x
    <2>1. CallEvents(c) = <<>>
      BY <1>2 DEF CallEvents
    <2> QED
      BY <2>1, NoEvent
  <1>9. \A x : WithFinish(x, c) = x
    BY <1>2 DEF WithFinish
  <1>10. PICK d : d = [b EXCEPT !.provider = First(@, p)]
    OBVIOUS
  <1>11. WithProvider(b, c) = d
    BY <1>2, <1>5, <1>10, ProviderStays
  <1>12. WithUsage(d, c) = d
    BY <1>2 DEF WithUsage
  <1>13. Fold(a, ChunkToEvents(c)) = d
    BY <1>3, <1>6, <1>7, <1>8, <1>9, <1>11, <1>12, ChunkFolds
  <1> QED
    BY <1>1, <1>4, <1>10, <1>13 DEF Fields

LEMMA CallPiece ==
    ASSUME NEW a, Fields(a), NEW p \in Words, NEW frag \in ToolCalls
    PROVE  Fold(a, ChunkToEvents([Empty(p) EXCEPT !.calls = <<frag>>])) =
              [a EXCEPT !.calls = AddCall(@, frag), !.provider = First(@, p)]
  <1>1. PICK c : c = [Empty(p) EXCEPT !.calls = <<frag>>]
    OBVIOUS
  <1>2. c = [text |-> <<>>, details |-> <<>>, calls |-> <<frag>>, finish |-> NoWord, provider |-> p, usage |-> 0]
    BY <1>1 DEF Empty
  <1>3. c \in Chunks
    BY <1>2 DEF Chunks, ToolCalls
  <1>4. PICK b : b = [a EXCEPT !.calls = AddCall(@, frag)]
    OBVIOUS
  <1>5. Fields(b)
    BY <1>4 DEF Fields
  <1>6. \A x : WithText(x, c) = x
    BY <1>2 DEF WithText
  <1>7. \A x : WithDetails(x, c) = x
    BY <1>2 DEF WithDetails
  <1>8. Fold(a, CallEvents(c)) = b
    <2>1. CallEvents(c) = <<Event("call", frag)>>
      BY <1>2 DEF CallEvents
    <2> QED
      BY <2>1, <1>4, CallEvent, OneEvent
  <1>9. \A x : WithFinish(x, c) = x
    BY <1>2 DEF WithFinish
  <1>10. PICK d : d = [b EXCEPT !.provider = First(@, p)]
    OBVIOUS
  <1>11. WithProvider(b, c) = d
    BY <1>2, <1>5, <1>10, ProviderStays
  <1>12. WithUsage(d, c) = d
    BY <1>2 DEF WithUsage
  <1>13. Fold(a, ChunkToEvents(c)) = d
    BY <1>3, <1>6, <1>7, <1>8, <1>9, <1>11, <1>12, ChunkFolds
  <1> QED
    BY <1>1, <1>4, <1>10, <1>13 DEF Fields

LEMMA LastPiece ==
    ASSUME NEW a, Fields(a), NEW p \in Words, NEW f \in Finishes
    PROVE  Fold(a, ChunkToEvents([Empty(p) EXCEPT !.finish = f, !.usage = 1])) =
              [a EXCEPT !.finish = f, !.provider = First(@, p), !.usage = 1]
  <1>1. PICK c : c = [Empty(p) EXCEPT !.finish = f, !.usage = 1]
    OBVIOUS
  <1>2. c = [text |-> <<>>, details |-> <<>>, calls |-> <<>>, finish |-> f, provider |-> p, usage |-> 1]
    BY <1>1 DEF Empty
  <1>3. c \in Chunks
    BY <1>2 DEF Chunks
  <1>4. PICK b : b = [a EXCEPT !.finish = f]
    OBVIOUS
  <1>5. Fields(b)
    BY <1>4 DEF Fields
  <1>6. \A x : WithText(x, c) = x
    BY <1>2 DEF WithText
  <1>7. \A x : WithDetails(x, c) = x
    BY <1>2 DEF WithDetails
  <1>8. \A x : Fold(x, CallEvents(c)) = x
    <2>1. CallEvents(c) = <<>>
      BY <1>2 DEF CallEvents
    <2> QED
      BY <2>1, NoEvent
  <1>9. WithFinish(a, c) = b
    BY <1>2, <1>4, FinishEvent DEF WithFinish, Finishes, NoWord
  <1>10. PICK d : d = [b EXCEPT !.provider = First(@, p)]
    OBVIOUS
  <1>11. WithProvider(b, c) = d
    BY <1>2, <1>5, <1>10, ProviderStays
  <1>12. WithUsage(d, c) = [d EXCEPT !.usage = 1]
    BY <1>2, UsageEvent DEF WithUsage
  <1>13. Fold(a, ChunkToEvents(c)) = [d EXCEPT !.usage = 1]
    BY <1>3, <1>6, <1>7, <1>8, <1>9, <1>11, <1>12, ChunkFolds
  <1> QED
    BY <1>1, <1>4, <1>10, <1>13 DEF Fields
-----------------------------------------------------------------------------
(* Blocks and calls, one more                                              *)

LEMMA NewBlock ==
    ASSUME NEW bs, NEW item, \A k \in DOMAIN bs : item.index # NoIndex => bs[k].index # item.index
    PROVE  AddBlock(bs, item) = Append(bs, item)
  BY DEF AddBlock

LEMMA OldBlock ==
    ASSUME NEW bs \in Seq(Blocks), Distinct(bs), NEW item \in Blocks, item.index # NoIndex,
           NEW k \in DOMAIN bs, bs[k].index = item.index
    PROVE  AddBlock(bs, item) = [i \in DOMAIN bs |-> IF i = k THEN Merged(bs[k], item) ELSE bs[i]]
  <1>1. {i \in DOMAIN bs : item.index # NoIndex /\ bs[i].index = item.index} = {k}
    BY DEF Distinct
  <1>2. AddBlock(bs, item) = [i \in DOMAIN bs |-> IF i \in {k} THEN Merged(bs[i], item) ELSE bs[i]]
    <2>1. {k} # {}
      OBVIOUS
    <2> QED
      BY <1>1, <2>1 DEF AddBlock
  <1> QED
    BY <1>2

LEMMA MergedBlock ==
    ASSUME NEW b \in Blocks, NEW item \in Blocks
    PROVE  Merged(b, item) \in Blocks /\ Merged(b, item).index = b.index
  <1>1. b.text \o item.text \in Seq(Letters) /\ Latest(item.sign, b.sign) \in Words /\ b.index \in Nat \cup {NoIndex}
    BY DEF Blocks, Latest
  <1> QED
    BY <1>1 DEF Merged, Blocks

LEMMA BlockAdded ==
    ASSUME NEW bs \in Seq(Blocks), Distinct(bs), NEW item \in Blocks
    PROVE  AddBlock(bs, item) \in Seq(Blocks) /\ Distinct(AddBlock(bs, item))
  <1>1. CASE \A k \in DOMAIN bs : item.index # NoIndex => bs[k].index # item.index
    <2>1. AddBlock(bs, item) = Append(bs, item)
      BY <1>1, NewBlock
    <2>2. PICK z : z = Append(bs, item)
      OBVIOUS
    <2>3. z \in Seq(Blocks) /\ Len(z) = Len(bs) + 1 /\ Len(bs) \in Nat
      BY <2>2
    <2>4. z[Len(bs) + 1] = item /\ \A i \in 1..Len(bs) : z[i] = bs[i]
      BY <2>2
    <2>5. DOMAIN z = 1..(Len(bs) + 1) /\ DOMAIN bs = 1..Len(bs)
      BY <2>3
    <2>6. ASSUME NEW i \in DOMAIN z, NEW j \in DOMAIN z, z[i].index = z[j].index
          PROVE  i = j \/ z[i].index = NoIndex
      <3>1. CASE i \in DOMAIN bs /\ j \in DOMAIN bs
        BY <3>1, <2>4, <2>5, <2>6 DEF Distinct
      <3>2. CASE i \in DOMAIN bs /\ j \notin DOMAIN bs
        <4>1. j = Len(bs) + 1
          BY <3>2, <2>5
        <4> QED
          BY <3>2, <4>1, <1>1, <2>4, <2>5, <2>6
      <3>3. CASE i \notin DOMAIN bs /\ j \in DOMAIN bs
        <4>1. i = Len(bs) + 1
          BY <3>3, <2>5
        <4> QED
          BY <3>3, <4>1, <1>1, <2>4, <2>5, <2>6
      <3>4. CASE i \notin DOMAIN bs /\ j \notin DOMAIN bs
        BY <3>4, <2>5
      <3> QED
        BY <3>1, <3>2, <3>3, <3>4
    <2> QED
      BY <2>1, <2>2, <2>3, <2>6 DEF Distinct
  <1>2. CASE ~(\A k \in DOMAIN bs : item.index # NoIndex => bs[k].index # item.index)
    <2>1. PICK k \in DOMAIN bs : item.index # NoIndex /\ bs[k].index = item.index
      BY <1>2
    <2>2. PICK z : z = AddBlock(bs, item)
      OBVIOUS
    <2>3. z = [i \in DOMAIN bs |-> IF i = k THEN Merged(bs[k], item) ELSE bs[i]]
      BY <2>1, <2>2, OldBlock
    <2>4. Merged(bs[k], item) \in Blocks /\ Merged(bs[k], item).index = bs[k].index
      BY MergedBlock
    <2>5. DOMAIN z = DOMAIN bs /\ \A i \in DOMAIN bs : z[i] \in Blocks /\ z[i].index = bs[i].index
      BY <2>3, <2>4
    <2>6. z \in Seq(Blocks)
      <3>1. DOMAIN bs = 1..Len(bs) /\ Len(bs) \in Nat
        OBVIOUS
      <3>2. z = [i \in 1..Len(bs) |-> z[i]]
        BY <2>3, <3>1
      <3> QED
        BY <2>5, <3>1, <3>2
    <2> QED
      BY <2>2, <2>5, <2>6 DEF Distinct
  <1> QED
    BY <1>1, <1>2

LEMMA CallAdded ==
    ASSUME NEW calls, CallsMap(calls), NEW frag \in ToolCalls
    PROVE  CallsMap(AddCall(calls, frag))
  <1>1. PICK cur : cur = IF frag.index \in DOMAIN calls THEN calls[frag.index] ELSE NewCall
    OBVIOUS
  <1>2. cur \in Bodies
    BY <1>1, WordsAssumption DEF CallsMap, NewCall, Bodies
  <1>3. PICK put : put = [id |-> Latest(frag.id, cur.id), name |-> Latest(frag.name, cur.name), args |-> cur.args \o frag.args]
    OBVIOUS
  <1>4. put \in Bodies
    BY <1>2, <1>3 DEF Bodies, ToolCalls, Latest
  <1>5. PICK z : z = [i \in DOMAIN calls \cup {frag.index} |-> IF i = frag.index THEN put ELSE calls[i]]
    OBVIOUS
  <1>6. AddCall(calls, frag) = z
    BY <1>1, <1>3, <1>5 DEF AddCall
  <1>7. DOMAIN z = DOMAIN calls \cup {frag.index} /\ frag.index \in Nat
    BY <1>5 DEF ToolCalls
  <1>8. IsFiniteSet(DOMAIN calls \cup {frag.index})
    BY FS_AddElement DEF CallsMap
  <1>9. z \in [DOMAIN calls \cup {frag.index} -> Bodies]
    BY <1>4, <1>5 DEF CallsMap
  <1> QED
    BY <1>6, <1>7, <1>8, <1>9 DEF CallsMap

(* Whatever arrives, in whatever order: what is put together is in shape.  *)
LEMMA PutTogether ==
    ASSUME NEW a, Gathered(a), NEW p \in Words
    PROVE  /\ \A l \in Letters : Gathered([a EXCEPT !.text = @ \o <<l>>, !.provider = First(@, p)])
           /\ \A item \in Blocks : Gathered([a EXCEPT !.blocks = AddBlock(@, item), !.provider = First(@, p)])
           /\ \A frag \in ToolCalls : Gathered([a EXCEPT !.calls = AddCall(@, frag), !.provider = First(@, p)])
           /\ \A f \in Finishes : Gathered([a EXCEPT !.finish = f, !.provider = First(@, p), !.usage = 1])
  <1>1. First(a.provider, p) \in Words
    BY DEF Gathered, First
  <1>2. ASSUME NEW l \in Letters PROVE Gathered([a EXCEPT !.text = @ \o <<l>>, !.provider = First(@, p)])
    <2>1. PICK z : z = [a EXCEPT !.text = @ \o <<l>>, !.provider = First(@, p)]
      OBVIOUS
    <2>2. a.text \o <<l>> \in Seq(Letters)
      BY DEF Gathered
    <2>3. z = [text |-> a.text \o <<l>>, blocks |-> a.blocks, calls |-> a.calls, finish |-> a.finish,
               provider |-> First(a.provider, p), usage |-> a.usage]
      BY <2>1 DEF Gathered, Fields
    <2>4. Gathered(z)
      BY <1>1, <2>2, <2>3 DEF Gathered, Fields
    <2> QED
      BY <2>1, <2>4
  <1>3. ASSUME NEW item \in Blocks PROVE Gathered([a EXCEPT !.blocks = AddBlock(@, item), !.provider = First(@, p)])
    <2>1. PICK z : z = [a EXCEPT !.blocks = AddBlock(@, item), !.provider = First(@, p)]
      OBVIOUS
    <2>2. BlocksFit(AddBlock(a.blocks, item))
      BY BlockAdded DEF Gathered, BlocksFit
    <2>3. z = [text |-> a.text, blocks |-> AddBlock(a.blocks, item), calls |-> a.calls, finish |-> a.finish,
               provider |-> First(a.provider, p), usage |-> a.usage]
      BY <2>1 DEF Gathered, Fields
    <2>4. Gathered(z)
      BY <1>1, <2>2, <2>3 DEF Gathered, Fields
    <2> QED
      BY <2>1, <2>4
  <1>4. ASSUME NEW frag \in ToolCalls PROVE Gathered([a EXCEPT !.calls = AddCall(@, frag), !.provider = First(@, p)])
    <2>1. PICK z : z = [a EXCEPT !.calls = AddCall(@, frag), !.provider = First(@, p)]
      OBVIOUS
    <2>2. CallsMap(AddCall(a.calls, frag))
      BY CallAdded DEF Gathered
    <2>3. z = [text |-> a.text, blocks |-> a.blocks, calls |-> AddCall(a.calls, frag), finish |-> a.finish,
               provider |-> First(a.provider, p), usage |-> a.usage]
      BY <2>1 DEF Gathered, Fields
    <2>4. Gathered(z)
      BY <1>1, <2>2, <2>3 DEF Gathered, Fields
    <2> QED
      BY <2>1, <2>4
  <1>5. ASSUME NEW f \in Finishes PROVE Gathered([a EXCEPT !.finish = f, !.provider = First(@, p), !.usage = 1])
    <2>1. PICK z : z = [a EXCEPT !.finish = f, !.provider = First(@, p), !.usage = 1]
      OBVIOUS
    <2>2. f \in Finishes
      OBVIOUS
    <2>3. z = [text |-> a.text, blocks |-> a.blocks, calls |-> a.calls, finish |-> f,
               provider |-> First(a.provider, p), usage |-> 1]
      BY <2>1 DEF Gathered, Fields
    <2>4. Gathered(z)
      BY <1>1, <2>2, <2>3 DEF Gathered, Fields
    <2> QED
      BY <2>1, <2>4
  <1> QED
    BY <1>2, <1>3, <1>4, <1>5
-----------------------------------------------------------------------------
(* The pieces of an answer                                                 *)

LEMMA AnswerIs ==
    ASSUME NEW a \in ModelAnswers
    PROVE  /\ a.text \in Seq(Letters) /\ a.blocks \in Seq(Blocks) /\ a.calls \in Seq(ToolCalls) /\ a.provider \in Words
           /\ Distinct(a.blocks) /\ Distinct(a.calls)
  <1>1. a \in Answers /\ Distinct(a.blocks) /\ Distinct(a.calls)
    BY AnswersAssumption
  <1> QED
    BY <1>1 DEF Answers

LEMMA ABlock ==
    ASSUME NEW b \in Blocks
    PROVE  /\ b.text \in Seq(Letters) /\ Len(b.text) \in Nat /\ DOMAIN b.text = 1..Len(b.text)
           /\ \A n \in 1..Len(b.text) : b.text[n] \in Letters
           /\ b.sign \in Words /\ b.index \in Nat \cup {NoIndex}
           /\ b = [index |-> b.index, text |-> b.text, sign |-> b.sign]
  <1>1. b.text \in Seq(Letters) /\ b.sign \in Words /\ b.index \in Nat \cup {NoIndex}
    BY DEF Blocks
  <1>2. b = [index |-> b.index, text |-> b.text, sign |-> b.sign]
    BY DEF Blocks
  <1> QED
    BY <1>1, <1>2

LEMMA ACall ==
    ASSUME NEW c \in ToolCalls
    PROVE  /\ c.args \in Seq(Letters) /\ Len(c.args) \in Nat /\ DOMAIN c.args = 1..Len(c.args)
           /\ \A n \in 1..Len(c.args) : c.args[n] \in Letters
           /\ c.id \in Words /\ c.name \in Words /\ c.index \in Nat
           /\ c = [index |-> c.index, id |-> c.id, name |-> c.name, args |-> c.args]
  <1>1. c.args \in Seq(Letters) /\ c.id \in Words /\ c.name \in Words /\ c.index \in Nat
    BY DEF ToolCalls
  <1>2. c = [index |-> c.index, id |-> c.id, name |-> c.name, args |-> c.args]
    BY DEF ToolCalls
  <1> QED
    BY <1>1, <1>2

(* A fragment of a block: a letter of it, or its end.                      *)
LEMMA FragmentOfBlock ==
    ASSUME NEW b \in Blocks, NEW n \in Nat, n > 0
    PROVE  /\ BlockFragment(b, n) \in Blocks
           /\ b.index = NoIndex => BlockFragment(b, n) = b
           /\ b.index # NoIndex /\ n <= Len(b.text) =>
                 BlockFragment(b, n) = [index |-> b.index, text |-> <<b.text[n]>>, sign |-> NoWord]
           /\ b.index # NoIndex /\ n > Len(b.text) =>
                 BlockFragment(b, n) = [index |-> b.index, text |-> <<>>, sign |-> b.sign]
  <1>1. PICK i, t, g : i = b.index /\ t = b.text /\ g = b.sign
    OBVIOUS
  <1>2. b = [index |-> i, text |-> t, sign |-> g]
    BY <1>1, ABlock
  <1>3. t \in Seq(Letters) /\ Len(t) \in Nat /\ g \in Words /\ i \in Nat \cup {NoIndex} /\ \A k \in 1..Len(t) : t[k] \in Letters
    BY <1>1, ABlock
  <1>4. CASE i = NoIndex
    BY <1>1, <1>4 DEF BlockFragment
  <1>5. CASE i # NoIndex /\ n <= Len(t)
    <2>1. BlockFragment(b, n) = [index |-> i, text |-> <<t[n]>>, sign |-> NoWord]
      BY <1>1, <1>2, <1>5 DEF BlockFragment
    <2>2. <<t[n]>> \in Seq(Letters)
      BY <1>3, <1>5
    <2>3. [index |-> i, text |-> <<t[n]>>, sign |-> NoWord] \in Blocks
      BY <2>2, <1>3, WordsAssumption DEF Blocks
    <2> QED
      BY <1>1, <1>3, <1>5, <2>1, <2>3
  <1>6. CASE i # NoIndex /\ ~(n <= Len(t))
    <2>1. BlockFragment(b, n) = [index |-> i, text |-> <<>>, sign |-> g]
      BY <1>1, <1>2, <1>6 DEF BlockFragment
    <2>2. [index |-> i, text |-> <<>>, sign |-> g] \in Blocks
      BY <1>3 DEF Blocks
    <2> QED
      BY <1>1, <1>3, <1>6, <2>1, <2>2
  <1> QED
    BY <1>4, <1>5, <1>6

LEMMA FragmentOfCall ==
    ASSUME NEW c \in ToolCalls, NEW n \in Nat, n > 0, n <= Len(c.args) + 1
    PROVE  /\ CallFragment(c, n) \in ToolCalls
           /\ n = 1 => CallFragment(c, n) = [index |-> c.index, id |-> c.id, name |-> c.name, args |-> <<>>]
           /\ n # 1 => CallFragment(c, n) = [index |-> c.index, id |-> NoWord, name |-> NoWord, args |-> <<c.args[n - 1]>>]
  <1>1. PICK i, d, m, t : i = c.index /\ d = c.id /\ m = c.name /\ t = c.args
    OBVIOUS
  <1>2. c = [index |-> i, id |-> d, name |-> m, args |-> t]
    BY <1>1, ACall
  <1>3. t \in Seq(Letters) /\ Len(t) \in Nat /\ d \in Words /\ m \in Words /\ i \in Nat /\ \A k \in 1..Len(t) : t[k] \in Letters
    BY <1>1, ACall
  <1>4. CASE n = 1
    <2>1. CallFragment(c, n) = [index |-> i, id |-> d, name |-> m, args |-> <<>>]
      BY <1>2, <1>4 DEF CallFragment
    <2>2. [index |-> i, id |-> d, name |-> m, args |-> <<>>] \in ToolCalls
      BY <1>3 DEF ToolCalls
    <2> QED
      BY <1>1, <1>4, <2>1, <2>2
  <1>5. CASE n # 1
    <2>1. CallFragment(c, n) = [index |-> i, id |-> NoWord, name |-> NoWord, args |-> <<t[n - 1]>>]
      BY <1>1, <1>2, <1>5 DEF CallFragment
    <2>2. <<t[n - 1]>> \in Seq(Letters)
      <3>1. n - 1 \in 1..Len(t)
        BY <1>1, <1>3, <1>5
      <3> QED
        BY <1>3, <3>1
    <2>3. [index |-> i, id |-> NoWord, name |-> NoWord, args |-> <<t[n - 1]>>] \in ToolCalls
      BY <1>3, <2>2, WordsAssumption DEF ToolCalls
    <2> QED
      BY <1>1, <1>5, <2>1, <2>3
  <1> QED
    BY <1>4, <1>5

(* The kinds of parts, how many pieces each has and what a piece is.       *)
LEMMA TextPart ==
    ASSUME NEW a \in ModelAnswers
    PROVE  <<"text", 1>> \in Parts(a) /\ Pieces(a, <<"text", 1>>) = Len(a.text)
           /\ \A n : Piece(a, <<"text", 1>>, n) = [Empty(a.provider) EXCEPT !.text = <<a.text[n]>>]
  BY DEF Parts, Pieces, Piece

LEMMA BlockPart ==
    ASSUME NEW a \in ModelAnswers, NEW i \in DOMAIN a.blocks
    PROVE  /\ <<"block", i>> \in Parts(a)
           /\ Pieces(a, <<"block", i>>) = IF a.blocks[i].index = NoIndex THEN 1 ELSE Len(a.blocks[i].text) + 1
           /\ \A n : Piece(a, <<"block", i>>, n) = [Empty(a.provider) EXCEPT !.details = <<BlockFragment(a.blocks[i], n)>>]
  BY DEF Parts, Pieces, Piece

LEMMA CallPart ==
    ASSUME NEW a \in ModelAnswers, NEW i \in DOMAIN a.calls
    PROVE  /\ <<"call", i>> \in Parts(a)
           /\ Pieces(a, <<"call", i>>) = Len(a.calls[i].args) + 1
           /\ \A n : Piece(a, <<"call", i>>, n) = [Empty(a.provider) EXCEPT !.calls = <<CallFragment(a.calls[i], n)>>]
  BY DEF Parts, Pieces, Piece

LEMMA PartsAre ==
    ASSUME NEW a \in ModelAnswers, NEW part \in Parts(a)
    PROVE  \/ part = <<"text", 1>>
           \/ \E i \in DOMAIN a.blocks : part = <<"block", i>>
           \/ \E i \in DOMAIN a.calls : part = <<"call", i>>
  BY DEF Parts

LEMMA PiecesAre ==
    ASSUME NEW a \in ModelAnswers, NEW part \in Parts(a)
    PROVE  Pieces(a, part) \in Nat
  <1>0. a.text \in Seq(Letters) /\ a.blocks \in Seq(Blocks) /\ a.calls \in Seq(ToolCalls)
    BY AnswerIs
  <1>1. CASE part = <<"text", 1>>
    BY <1>0, <1>1, TextPart
  <1>2. ASSUME NEW i \in DOMAIN a.blocks, part = <<"block", i>> PROVE Pieces(a, part) \in Nat
    <2>1. a.blocks[i] \in Blocks
      BY <1>0
    <2>2. Len(a.blocks[i].text) \in Nat
      BY <2>1, ABlock
    <2> QED
      BY <1>2, <2>2, BlockPart
  <1>3. ASSUME NEW i \in DOMAIN a.calls, part = <<"call", i>> PROVE Pieces(a, part) \in Nat
    <2>1. a.calls[i] \in ToolCalls
      BY <1>0
    <2>2. Len(a.calls[i].args) \in Nat
      BY <2>1, ACall
    <2> QED
      BY <1>3, <2>2, CallPart
  <1> QED
    BY <1>1, <1>2, <1>3, PartsAre

-----------------------------------------------------------------------------
(* One more piece of a part                                                *)

LEMMA SoFarMore ==
    ASSUME NEW t \in Seq(Letters), NEW n \in Nat, n < Len(t)
    PROVE  SoFar(t, n) \o <<t[n + 1]>> = SoFar(t, n + 1)
  BY DEF SoFar

LEMMA SoFarNone == ASSUME NEW t \in Seq(Letters) PROVE SoFar(t, 0) = <<>>
  BY DEF SoFar

LEMMA SoFarAll == ASSUME NEW t \in Seq(Letters), NEW n \in Nat, n >= Len(t) PROVE SoFar(t, n) = t
  BY DEF SoFar

LEMMA SoFarSeq == ASSUME NEW t \in Seq(Letters), NEW n \in Nat PROVE SoFar(t, n) \in Seq(Letters)
  BY DEF SoFar

LEMMA BlockSoFarIs ==
    ASSUME NEW b \in Blocks, NEW n \in Nat
    PROVE  BlockSoFar(b, n) \in Blocks /\ BlockSoFar(b, n).index = b.index
  <1>1. b.text \in Seq(Letters) /\ b.sign \in Words /\ b.index \in Nat \cup {NoIndex}
    BY ABlock
  <1>2. SoFar(b.text, n) \in Seq(Letters)
    BY <1>1, SoFarSeq
  <1> QED
    BY <1>1, <1>2, WordsAssumption DEF BlockSoFar, Blocks

LEMMA BlockBegins ==
    ASSUME NEW b \in Blocks
    PROVE  BlockFragment(b, 1) = BlockSoFar(b, 1)
  <1>1. b.text \in Seq(Letters) /\ Len(b.text) \in Nat
    BY ABlock
  <1>2. CASE b.index = NoIndex
    BY <1>2, FragmentOfBlock DEF BlockSoFar
  <1>3. CASE b.index # NoIndex /\ 1 <= Len(b.text)
    <2>1. BlockFragment(b, 1) = [index |-> b.index, text |-> <<b.text[1]>>, sign |-> NoWord]
      BY <1>3, FragmentOfBlock
    <2>2. SoFar(b.text, 1) = <<b.text[1]>>
      <3>1. SoFar(b.text, 0) \o <<b.text[0 + 1]>> = SoFar(b.text, 0 + 1)
        BY <1>1, <1>3, SoFarMore
      <3>2. SoFar(b.text, 0) = <<>>
        BY <1>1, SoFarNone
      <3>3. <<>> \o <<b.text[1]>> = <<b.text[1]>>
        OBVIOUS
      <3> QED
        BY <3>1, <3>2, <3>3
    <2> QED
      BY <1>1, <1>3, <2>1, <2>2 DEF BlockSoFar
  <1>4. CASE b.index # NoIndex /\ ~(1 <= Len(b.text))
    <2>1. Len(b.text) = 0 /\ 1 > Len(b.text)
      BY <1>1, <1>4
    <2>2. BlockFragment(b, 1) = [index |-> b.index, text |-> <<>>, sign |-> b.sign]
      BY <1>4, <2>1, FragmentOfBlock
    <2>3. SoFar(b.text, 1) = <<>>
      BY <1>1, <2>1 DEF SoFar
    <2> QED
      BY <1>4, <2>1, <2>2, <2>3 DEF BlockSoFar
  <1> QED
    BY <1>2, <1>3, <1>4

LEMMA BlockGoesOn ==
    ASSUME NEW b \in Blocks, b.index # NoIndex, NEW n \in Nat, n <= Len(b.text)
    PROVE  Merged(BlockSoFar(b, n), BlockFragment(b, n + 1)) = BlockSoFar(b, n + 1)
  <1>1. b.text \in Seq(Letters) /\ Len(b.text) \in Nat
    BY ABlock
  <1>2. BlockSoFar(b, n) = [index |-> b.index, text |-> SoFar(b.text, n), sign |-> NoWord]
    BY <1>1 DEF BlockSoFar
  <1>3. BlockSoFar(b, n + 1) = [index |-> b.index, text |-> SoFar(b.text, n + 1), sign |-> IF n + 1 > Len(b.text) THEN b.sign ELSE NoWord]
    BY DEF BlockSoFar
  <1>4. CASE n + 1 <= Len(b.text)
    <2>1. BlockFragment(b, n + 1) = [index |-> b.index, text |-> <<b.text[n + 1]>>, sign |-> NoWord]
      BY <1>4, FragmentOfBlock
    <2>2. SoFar(b.text, n) \o <<b.text[n + 1]>> = SoFar(b.text, n + 1)
      <3>1. PICK t : t = b.text
        OBVIOUS
      <3>2. t \in Seq(Letters) /\ n < Len(t)
        BY <1>1, <1>4, <3>1
      <3>3. SoFar(t, n) \o <<t[n + 1]>> = SoFar(t, n + 1)
        BY <3>2, SoFarMore
      <3> QED
        BY <3>1, <3>3
    <2>3. ~(n + 1 > Len(b.text))
      BY <1>1, <1>4
    <2>4. Merged(BlockSoFar(b, n), BlockFragment(b, n + 1))
             = [index |-> b.index, text |-> SoFar(b.text, n) \o <<b.text[n + 1]>>, sign |-> NoWord]
      <3>1. PICK i, t, u : i = b.index /\ t = SoFar(b.text, n) /\ u = <<b.text[n + 1]>>
        OBVIOUS
      <3>2. PICK h : h = NoWord
        OBVIOUS
      <3>3. Merged([index |-> i, text |-> t, sign |-> NoWord], [index |-> i, text |-> u, sign |-> h])
               = [index |-> i, text |-> t \o u, sign |-> IF h = NoWord THEN NoWord ELSE h]
        BY DEF Merged, Latest
      <3>4. BlockSoFar(b, n) = [index |-> i, text |-> t, sign |-> NoWord]
        BY <1>2, <3>1
      <3>5. BlockFragment(b, n + 1) = [index |-> i, text |-> u, sign |-> h]
        BY <2>1, <3>1, <3>2
      <3> HIDE DEF Merged
      <3> QED
        BY <3>1, <3>2, <3>3, <3>4, <3>5
    <2> QED
      BY <1>3, <2>2, <2>3, <2>4
  <1>5. CASE ~(n + 1 <= Len(b.text))
    <2>1. n = Len(b.text) /\ n + 1 > Len(b.text)
      BY <1>1, <1>5
    <2>2. BlockFragment(b, n + 1) = [index |-> b.index, text |-> <<>>, sign |-> b.sign]
      BY <2>1, FragmentOfBlock
    <2>3. SoFar(b.text, n) = b.text /\ SoFar(b.text, n + 1) = b.text
      BY <1>1, <2>1, SoFarAll
    <2>4. b.text \o <<>> = b.text
      BY <1>1
    <2>5. Merged(BlockSoFar(b, n), BlockFragment(b, n + 1))
             = [index |-> b.index, text |-> SoFar(b.text, n) \o <<>>, sign |-> IF b.sign = NoWord THEN NoWord ELSE b.sign]
      <3>1. PICK i, t, u : i = b.index /\ t = SoFar(b.text, n) /\ u = <<>>
        OBVIOUS
      <3>2. PICK h : h = b.sign
        OBVIOUS
      <3>3. Merged([index |-> i, text |-> t, sign |-> NoWord], [index |-> i, text |-> u, sign |-> h])
               = [index |-> i, text |-> t \o u, sign |-> IF h = NoWord THEN NoWord ELSE h]
        BY DEF Merged, Latest
      <3>4. BlockSoFar(b, n) = [index |-> i, text |-> t, sign |-> NoWord]
        BY <1>2, <3>1
      <3>5. BlockFragment(b, n + 1) = [index |-> i, text |-> u, sign |-> h]
        BY <2>2, <3>1, <3>2
      <3> HIDE DEF Merged
      <3> QED
        BY <3>1, <3>2, <3>3, <3>4, <3>5
    <2>6. BlockSoFar(b, n + 1) = [index |-> b.index, text |-> b.text, sign |-> b.sign]
      BY <1>3, <2>1, <2>3
    <2> QED
      BY <2>3, <2>4, <2>5, <2>6
  <1> QED
    BY <1>4, <1>5

(* Blocks: a fragment begins one or goes on with one.                      *)
LEMMA BlocksStay ==
    ASSUME NEW a \in ModelAnswers, NEW s, NEW z, \A i \in DOMAIN a.blocks : z[<<"block", i>>] = s[<<"block", i>>],
           NEW bs, BlocksIn(bs, a, s)
    PROVE  BlocksIn(bs, a, z)
  <1>1. BlocksBegun(a, z) = BlocksBegun(a, s)
    BY DEF BlocksBegun
  <1>2. {BlockSoFar(a.blocks[i], z[<<"block", i>>]) : i \in BlocksBegun(a, s)}
          = {BlockSoFar(a.blocks[i], s[<<"block", i>>]) : i \in BlocksBegun(a, s)}
    BY DEF BlocksBegun
  <1> QED
    BY <1>1, <1>2 DEF BlocksIn

LEMMA CallsStay ==
    ASSUME NEW a \in ModelAnswers, NEW s, NEW z, \A i \in DOMAIN a.calls : z[<<"call", i>>] = s[<<"call", i>>],
           NEW calls, CallsIn(calls, a, s)
    PROVE  CallsIn(calls, a, z)
  <1>1. CallsBegun(a, z) = CallsBegun(a, s)
    BY DEF CallsBegun
  <1>2. \A i \in CallsBegun(a, s) : z[<<"call", i>>] = s[<<"call", i>>]
    BY DEF CallsBegun
  <1> QED
    BY <1>1, <1>2 DEF CallsIn

(* Of the blocks begun, those with one's index are this one.               *)
LEMMA BlockAmong ==
    ASSUME NEW a \in ModelAnswers, NEW s \in [Parts(a) -> Nat], NEW bs \in Seq(Blocks), BlocksIn(bs, a, s),
           NEW k \in DOMAIN bs
    PROVE  \E j \in BlocksBegun(a, s) : /\ bs[k] = BlockSoFar(a.blocks[j], s[<<"block", j>>])
                                        /\ bs[k].index = a.blocks[j].index
  <1>1. bs[k] \in Range(bs)
    BY DEF Range
  <1>2. PICK j \in BlocksBegun(a, s) : bs[k] = BlockSoFar(a.blocks[j], s[<<"block", j>>])
    BY <1>1 DEF BlocksIn
  <1>3. j \in DOMAIN a.blocks /\ <<"block", j>> \in Parts(a) /\ a.blocks[j] \in Blocks
    BY AnswerIs, BlockPart DEF BlocksBegun
  <1>4. s[<<"block", j>>] \in Nat
    BY <1>3
  <1>5. \A b \in Blocks : \A n \in Nat : BlockSoFar(b, n).index = b.index
    BY BlockSoFarIs
  <1>6. BlockSoFar(a.blocks[j], s[<<"block", j>>]).index = a.blocks[j].index
    BY <1>3, <1>4, <1>5, Zenon
  <1> QED
    BY <1>2, <1>6

LEMMA BlocksGrow ==
    ASSUME NEW a \in ModelAnswers, NEW s \in [Parts(a) -> Nat], NEW i \in DOMAIN a.blocks,
           s[<<"block", i>>] < Pieces(a, <<"block", i>>), NEW bs, BlocksFit(bs), BlocksIn(bs, a, s)
    PROVE  BlocksIn(AddBlock(bs, BlockFragment(a.blocks[i], s[<<"block", i>>] + 1)), a, [s EXCEPT ![<<"block", i>>] = @ + 1])
  <1>0. a.blocks \in Seq(Blocks) /\ Distinct(a.blocks) /\ bs \in Seq(Blocks) /\ Distinct(bs)
    BY AnswerIs DEF BlocksFit
  <1>1. PICK p : p = <<"block", i>>
    OBVIOUS
  <1>2. p \in Parts(a) /\ s[p] \in Nat
    BY <1>1, BlockPart
  <1>3. PICK b \in Blocks : b = a.blocks[i]
    BY <1>0
  <1>4. PICK n \in Nat : n = s[p]
    BY <1>2
  <1>5. PICK z : z = [s EXCEPT ![p] = @ + 1]
    OBVIOUS
  <1>6. z[p] = n + 1 /\ \A q \in Parts(a) : q # p => z[q] = s[q]
    BY <1>2, <1>4, <1>5
  <1>7. \A j \in DOMAIN a.blocks : <<"block", j>> \in Parts(a) /\ (j # i => z[<<"block", j>>] = s[<<"block", j>>])
    BY <1>1, <1>6, BlockPart
  <1>8. \A j \in DOMAIN a.blocks : j \in BlocksBegun(a, z) <=> j \in BlocksBegun(a, s) \/ j = i
    <2>1. z[<<"block", i>>] > 0
      BY <1>1, <1>4, <1>6
    <2> QED
      BY <1>7, <2>1 DEF BlocksBegun
  <1>9. BlocksBegun(a, z) = BlocksBegun(a, s) \cup {i}
    BY <1>8 DEF BlocksBegun
  <1>10. BlocksBegun(a, s) \subseteq DOMAIN a.blocks /\ (i \in BlocksBegun(a, s) <=> n > 0)
    BY <1>1, <1>4 DEF BlocksBegun
  <1>11. PICK item \in Blocks : item = BlockFragment(b, n + 1) /\ item.index = b.index
    <2>1. BlockFragment(b, n + 1) \in Blocks
      BY FragmentOfBlock
    <2>2. BlockFragment(b, n + 1).index = b.index
      <3>1. n + 1 \in Nat /\ n + 1 > 0
        OBVIOUS
      <3>2. CASE b.index = NoIndex
        BY <3>1, <3>2, FragmentOfBlock
      <3>3. CASE b.index # NoIndex /\ n + 1 <= Len(b.text)
        BY <3>1, <3>3, FragmentOfBlock
      <3>4. CASE b.index # NoIndex /\ n + 1 > Len(b.text)
        BY <3>1, <3>4, FragmentOfBlock
      <3>5. Len(b.text) \in Nat
        BY ABlock
      <3> QED
        BY <3>2, <3>3, <3>4, <3>5
    <2> QED
      BY <2>1, <2>2
  <1>12. ASSUME NEW k \in DOMAIN bs, item.index # NoIndex, bs[k].index = item.index
         PROVE  n > 0 /\ bs[k] = BlockSoFar(b, n)
    <2>1. PICK j \in BlocksBegun(a, s) : bs[k] = BlockSoFar(a.blocks[j], s[<<"block", j>>]) /\ bs[k].index = a.blocks[j].index
      BY <1>0, BlockAmong
    <2>2. j \in DOMAIN a.blocks /\ a.blocks[j].index = a.blocks[i].index /\ a.blocks[j].index # NoIndex
      BY <1>3, <1>10, <1>11, <1>12, <2>1
    <2>3. j = i
      BY <1>0, <2>2 DEF Distinct
    <2> QED
      BY <1>1, <1>3, <1>4, <1>10, <2>1, <2>3
  <1>13. CASE n = 0
    <2>1. PICK new : new = AddBlock(bs, item)
      OBVIOUS
    <2>2. new = Append(bs, item)
      <3>1. \A k \in DOMAIN bs : item.index # NoIndex => bs[k].index # item.index
        BY <1>12, <1>13
      <3> QED
        BY <2>1, <3>1, NewBlock
    <2>3. Len(new) = Len(bs) + 1
      BY <1>0, <2>2
    <2>4. Range(new) = Range(bs) \cup {item}
      <3>1. DOMAIN new = DOMAIN bs \cup {Len(bs) + 1} /\ new[Len(bs) + 1] = item /\ \A k \in DOMAIN bs : new[k] = bs[k]
        BY <1>0, <2>2
      <3> QED
        BY <3>1 DEF Range
    <2>5. Cardinality(BlocksBegun(a, z)) = Cardinality(BlocksBegun(a, s)) + 1
      <3>1. IsFiniteSet(DOMAIN a.blocks)
        <4>1. DOMAIN a.blocks = 1..Len(a.blocks) /\ Len(a.blocks) \in Nat
          BY <1>0
        <4>2. IsFiniteSet(1..Len(a.blocks))
          BY <4>1, Interval
        <4> QED
          BY <4>1, <4>2
      <3>2. IsFiniteSet(BlocksBegun(a, s))
        BY <3>1, <1>10, FS_Subset
      <3>3. i \notin BlocksBegun(a, s)
        BY <1>10, <1>13
      <3> QED
        BY <1>9, <3>2, <3>3, FS_AddElement
    <2>6. item = BlockSoFar(b, 1)
      BY <1>11, <1>13, BlockBegins
    <2>7. {BlockSoFar(a.blocks[j], z[<<"block", j>>]) : j \in BlocksBegun(a, s) \cup {i}}
            = {BlockSoFar(a.blocks[j], s[<<"block", j>>]) : j \in BlocksBegun(a, s)} \cup {item}
      <3>1. i \notin BlocksBegun(a, s)
        BY <1>10, <1>13
      <3>2. \A j \in BlocksBegun(a, s) : z[<<"block", j>>] = s[<<"block", j>>]
        BY <1>7, <1>10, <3>1
      <3>3. BlockSoFar(a.blocks[i], z[<<"block", i>>]) = item
        BY <1>1, <1>3, <1>6, <1>13, <2>6
      <3> QED
        BY <3>2, <3>3
    <2>8. BlocksIn(new, a, z)
      BY <1>9, <2>3, <2>4, <2>5, <2>7 DEF BlocksIn
    <2> QED
      BY <1>1, <1>3, <1>4, <1>5, <1>11, <2>1, <2>8
  <1>14. CASE n > 0
    <2>1. b.index # NoIndex /\ n <= Len(b.text)
      <3>1. n < Pieces(a, p) /\ Pieces(a, p) = IF b.index = NoIndex THEN 1 ELSE Len(b.text) + 1
        BY <1>1, <1>3, <1>4, BlockPart
      <3>2. Len(b.text) \in Nat
        BY ABlock
      <3> QED
        BY <3>1, <3>2, <1>14
    <2>2. i \in BlocksBegun(a, s) /\ BlocksBegun(a, z) = BlocksBegun(a, s)
      BY <1>9, <1>10, <1>14
    <2>3. PICK k \in DOMAIN bs : bs[k] = BlockSoFar(b, n)
      <3>1. BlockSoFar(b, n) \in Range(bs)
        BY <1>1, <1>3, <1>4, <2>2 DEF BlocksIn
      <3> QED
        BY <3>1 DEF Range
    <2>4. bs[k].index = item.index /\ item.index # NoIndex
      BY <1>11, <2>1, <2>3, BlockSoFarIs
    <2>5. PICK new : new = AddBlock(bs, item)
      OBVIOUS
    <2>6. new = [x \in DOMAIN bs |-> IF x = k THEN Merged(bs[k], item) ELSE bs[x]]
      BY <1>0, <2>4, <2>5, OldBlock
    <2>7. Merged(bs[k], item) = BlockSoFar(b, n + 1)
      BY <1>11, <2>1, <2>3, BlockGoesOn
    <2>8. DOMAIN new = DOMAIN bs /\ new[k] = BlockSoFar(b, n + 1) /\ \A x \in DOMAIN bs : x # k => new[x] = bs[x]
      BY <2>6, <2>7
    <2>9. Len(new) = Len(bs)
      <3>1. DOMAIN bs = 1..Len(bs) /\ Len(bs) \in Nat
        BY <1>0
      <3> QED
        BY <3>1, <2>6
    <2>10. ASSUME NEW y \in Range(new)
           PROVE  \E j \in BlocksBegun(a, s) : y = BlockSoFar(a.blocks[j], z[<<"block", j>>])
      <3>1. PICK x \in DOMAIN bs : y = new[x]
        BY <2>8, <2>10 DEF Range
      <3>2. CASE x = k
        BY <1>1, <1>3, <1>6, <2>2, <2>8, <3>1, <3>2
      <3>3. CASE x # k
        <4>1. PICK j \in BlocksBegun(a, s) : bs[x] = BlockSoFar(a.blocks[j], s[<<"block", j>>]) /\ bs[x].index = a.blocks[j].index
          BY <1>0, BlockAmong
        <4>2. j # i
          <5>1. CASE j = i
            <6>1. bs[x].index = bs[k].index /\ bs[x].index # NoIndex
              BY <1>3, <1>11, <2>4, <4>1, <5>1
            <6> QED
              BY <1>0, <3>3, <6>1 DEF Distinct
          <5> QED
            BY <5>1
        <4> QED
          BY <1>7, <1>10, <2>8, <3>1, <3>3, <4>1, <4>2
      <3> QED
        BY <3>2, <3>3
    <2>11. ASSUME NEW j \in BlocksBegun(a, s) PROVE BlockSoFar(a.blocks[j], z[<<"block", j>>]) \in Range(new)
      <3>1. CASE j = i
        BY <1>1, <1>3, <1>6, <2>8, <3>1 DEF Range
      <3>2. CASE j # i
        <4>1. j \in DOMAIN a.blocks /\ z[<<"block", j>>] = s[<<"block", j>>]
          BY <1>7, <1>10, <3>2
        <4>2. BlockSoFar(a.blocks[j], s[<<"block", j>>]) \in Range(bs)
          BY DEF BlocksIn
        <4>3. PICK x \in DOMAIN bs : bs[x] = BlockSoFar(a.blocks[j], s[<<"block", j>>])
          BY <4>2 DEF Range
        <4>4. x # k
          <5>1. CASE x = k
            <6>1. bs[x].index = a.blocks[j].index
              <7>1. a.blocks[j] \in Blocks /\ s[<<"block", j>>] \in Nat
                BY <1>0, <1>7, <4>1
              <7> QED
                BY <7>1, <4>3, BlockSoFarIs
            <6>2. a.blocks[j].index = a.blocks[i].index /\ a.blocks[j].index # NoIndex
              BY <1>3, <1>11, <2>4, <5>1, <6>1
            <6> QED
              BY <1>0, <3>2, <4>1, <6>2 DEF Distinct
          <5> QED
            BY <5>1
        <4> QED
          BY <2>8, <4>1, <4>3, <4>4 DEF Range
      <3> QED
        BY <3>1, <3>2
    <2>12. Range(new) = {BlockSoFar(a.blocks[j], z[<<"block", j>>]) : j \in BlocksBegun(a, s)}
      BY <2>10, <2>11
    <2>13. BlocksIn(new, a, z)
      BY <2>2, <2>9, <2>12 DEF BlocksIn
    <2> QED
      BY <1>1, <1>3, <1>4, <1>5, <1>11, <2>5, <2>13
  <1> QED
    BY <1>13, <1>14

(* Calls: the first fragment of one names it, the others add to it.        *)
LEMMA CallsGrow ==
    ASSUME NEW a \in ModelAnswers, NEW s \in [Parts(a) -> Nat], NEW i \in DOMAIN a.calls,
           s[<<"call", i>>] < Pieces(a, <<"call", i>>), NEW calls, CallsIn(calls, a, s)
    PROVE  CallsIn(AddCall(calls, CallFragment(a.calls[i], s[<<"call", i>>] + 1)), a, [s EXCEPT ![<<"call", i>>] = @ + 1])
  <1>0. a.calls \in Seq(ToolCalls) /\ Distinct(a.calls)
    BY AnswerIs
  <1>1. PICK p : p = <<"call", i>>
    OBVIOUS
  <1>2. p \in Parts(a) /\ s[p] \in Nat
    BY <1>1, CallPart
  <1>3. PICK c \in ToolCalls : c = a.calls[i]
    BY <1>0
  <1>4. PICK n \in Nat : n = s[p]
    BY <1>2
  <1>5. PICK z : z = [s EXCEPT ![p] = @ + 1]
    OBVIOUS
  <1>6. z[p] = n + 1 /\ \A q \in Parts(a) : q # p => z[q] = s[q]
    BY <1>2, <1>4, <1>5
  <1>7. \A j \in DOMAIN a.calls : <<"call", j>> \in Parts(a) /\ (j # i => z[<<"call", j>>] = s[<<"call", j>>])
    BY <1>1, <1>6, CallPart
  <1>8. \A j \in DOMAIN a.calls : j \in CallsBegun(a, z) <=> j \in CallsBegun(a, s) \/ j = i
    <2>1. z[<<"call", i>>] > 0
      BY <1>1, <1>4, <1>6
    <2> QED
      BY <1>7, <2>1 DEF CallsBegun
  <1>9. CallsBegun(a, z) = CallsBegun(a, s) \cup {i}
    BY <1>8 DEF CallsBegun
  <1>10. CallsBegun(a, s) \subseteq DOMAIN a.calls /\ (i \in CallsBegun(a, s) <=> n > 0)
    BY <1>1, <1>4 DEF CallsBegun
  <1>11. \A j \in DOMAIN a.calls : a.calls[j].index = c.index => j = i
    <2>1. c.index # NoIndex
      <3>1. c.index \in Nat
        BY ACall
      <3> QED
        BY <3>1 DEF NoIndex
    <2> QED
      BY <1>0, <1>3, <2>1 DEF Distinct
  <1>12. c.args \in Seq(Letters) /\ Len(c.args) \in Nat /\ n <= Len(c.args) /\ n + 1 > 0 /\ n + 1 <= Len(c.args) + 1
    <2>1. n < Len(c.args) + 1
      BY <1>1, <1>3, <1>4, CallPart
    <2>2. c.args \in Seq(Letters) /\ Len(c.args) \in Nat
      BY ACall
    <2> QED
      BY <2>1, <2>2
  <1>13. PICK frag : frag = CallFragment(c, n + 1)
    OBVIOUS
  <1>14. PICK cur : cur = IF frag.index \in DOMAIN calls THEN calls[frag.index] ELSE NewCall
    OBVIOUS
  <1>15. frag.index = c.index
    <2>1. CASE n = 0
      BY <1>12, <1>13, <2>1, FragmentOfCall
    <2>2. CASE n # 0
      BY <1>12, <1>13, <2>2, FragmentOfCall
    <2> QED
      BY <2>1, <2>2
  <1>16. PICK put : put = [id |-> Latest(frag.id, cur.id), name |-> Latest(frag.name, cur.name), args |-> cur.args \o frag.args]
    OBVIOUS
  <1>17. put = CallSoFar(c, n + 1)
    <2>1. CASE n = 0
      <3>1. frag = [index |-> c.index, id |-> c.id, name |-> c.name, args |-> <<>>]
        BY <1>12, <1>13, <2>1, FragmentOfCall
      <3>2. c.index \notin DOMAIN calls
        <4>1. \A j \in CallsBegun(a, s) : a.calls[j].index # c.index
          BY <1>10, <1>11, <2>1
        <4> QED
          BY <4>1 DEF CallsIn
      <3>3. cur = NewCall
        BY <1>14, <1>15, <3>2
      <3>4. cur.id = NoWord /\ cur.name = NoWord /\ cur.args = <<>>
        BY <3>3 DEF NewCall
      <3>5. frag.id = c.id /\ frag.name = c.name /\ frag.args = <<>>
        BY <3>1
      <3>6. put = [id |-> c.id, name |-> c.name, args |-> <<>>]
        <4>1. Latest(frag.id, cur.id) = c.id /\ Latest(frag.name, cur.name) = c.name
          BY <3>4, <3>5 DEF Latest
        <4>2. cur.args \o frag.args = <<>>
          BY <3>4, <3>5
        <4> QED
          BY <1>16, <4>1, <4>2
      <3>7. SoFar(c.args, (n + 1) - 1) = <<>>
        BY <1>12, <2>1, SoFarNone
      <3> QED
        BY <3>6, <3>7 DEF CallSoFar
    <2>2. CASE n # 0
      <3>1. frag = [index |-> c.index, id |-> NoWord, name |-> NoWord, args |-> <<c.args[n]>>]
        <4>1. n + 1 # 1 /\ (n + 1) - 1 = n
          BY <2>2
        <4> QED
          BY <1>12, <1>13, <4>1, FragmentOfCall
      <3>2. i \in CallsBegun(a, s)
        BY <1>10, <2>2
      <3>3. c.index \in DOMAIN calls /\ calls[c.index] = CallSoFar(c, n)
        BY <1>1, <1>3, <1>4, <3>2 DEF CallsIn
      <3>4. cur = CallSoFar(c, n)
        BY <1>14, <1>15, <3>3
      <3>5. cur.id = c.id /\ cur.name = c.name /\ cur.args = SoFar(c.args, n - 1)
        BY <3>4 DEF CallSoFar
      <3>6. frag.id = NoWord /\ frag.name = NoWord /\ frag.args = <<c.args[n]>>
        BY <3>1
      <3>7. SoFar(c.args, n - 1) \o <<c.args[n]>> = SoFar(c.args, n)
        <4>1. n - 1 \in Nat /\ n - 1 < Len(c.args) /\ (n - 1) + 1 = n
          BY <1>12, <2>2
        <4>2. SoFar(c.args, n - 1) \o <<c.args[(n - 1) + 1]>> = SoFar(c.args, (n - 1) + 1)
          BY <1>12, <4>1, SoFarMore
        <4> QED
          BY <4>1, <4>2
      <3>8. put = [id |-> c.id, name |-> c.name, args |-> SoFar(c.args, n)]
        <4>1. Latest(frag.id, cur.id) = c.id /\ Latest(frag.name, cur.name) = c.name
          BY <3>5, <3>6 DEF Latest
        <4>2. cur.args \o frag.args = SoFar(c.args, n)
          BY <3>5, <3>6, <3>7
        <4> QED
          BY <1>16, <4>1, <4>2
      <3>9. (n + 1) - 1 = n
        OBVIOUS
      <3> QED
        BY <3>8, <3>9 DEF CallSoFar
    <2> QED
      BY <2>1, <2>2
  <1>18. PICK new : new = [x \in DOMAIN calls \cup {c.index} |-> IF x = c.index THEN put ELSE calls[x]]
    OBVIOUS
  <1>19. new = AddCall(calls, frag)
    BY <1>14, <1>15, <1>16, <1>18 DEF AddCall
  <1>20. DOMAIN new = DOMAIN calls \cup {c.index} /\ new[c.index] = put /\ \A x \in DOMAIN calls : x # c.index => new[x] = calls[x]
    BY <1>18
  <1>21. DOMAIN new = {a.calls[j].index : j \in CallsBegun(a, z)}
    <2>1. DOMAIN calls = {a.calls[j].index : j \in CallsBegun(a, s)}
      BY DEF CallsIn
    <2> QED
      BY <1>3, <1>9, <1>20, <2>1
  <1>22. ASSUME NEW j \in CallsBegun(a, z) PROVE new[a.calls[j].index] = CallSoFar(a.calls[j], z[<<"call", j>>])
    <2>1. CASE j = i
      BY <1>1, <1>3, <1>6, <1>17, <1>20, <2>1
    <2>2. CASE j # i
      <3>1. j \in CallsBegun(a, s) /\ j \in DOMAIN a.calls /\ z[<<"call", j>>] = s[<<"call", j>>]
        BY <1>7, <1>9, <1>10, <2>2
      <3>2. a.calls[j].index \in DOMAIN calls /\ calls[a.calls[j].index] = CallSoFar(a.calls[j], s[<<"call", j>>])
        BY <3>1 DEF CallsIn
      <3>3. a.calls[j].index # c.index
        BY <1>11, <2>2, <3>1
      <3> QED
        BY <1>20, <3>1, <3>2, <3>3
    <2> QED
      BY <2>1, <2>2
  <1>23. CallsIn(new, a, z)
    BY <1>21, <1>22 DEF CallsIn
  <1> QED
    BY <1>1, <1>3, <1>4, <1>5, <1>13, <1>19, <1>23

-----------------------------------------------------------------------------
(* The calls of a result, in the order of their indices                    *)

Rank(D, i) == Cardinality({j \in D : j <= i})
Lined(calls) ==
    [n \in 1..Cardinality(DOMAIN calls) |->
        calls[CHOOSE i \in DOMAIN calls : Cardinality({j \in DOMAIN calls : j <= i}) = n]]

LEMMA ResultIs == ASSUME NEW a PROVE Result(a) = [a EXCEPT !.calls = Lined(a.calls)]
  BY DEF Result, Lined

LEMMA RankIs ==
    ASSUME NEW D \in SUBSET Nat, IsFiniteSet(D), NEW i \in D
    PROVE  /\ Rank(D, i) \in 1..Cardinality(D)
           /\ \A j \in D : Rank(D, j) = Rank(D, i) => j = i
  <1>1. \A k \in D : IsFiniteSet({j \in D : j <= k}) /\ Rank(D, k) \in Nat
    <2>1. \A k \in D : {j \in D : j <= k} \in SUBSET D
      OBVIOUS
    <2>2. \A k \in D : IsFiniteSet({j \in D : j <= k})
      BY <2>1, FS_Subset
    <2> QED
      BY <2>2, FS_CardinalityType DEF Rank
  <1>2. Rank(D, i) <= Cardinality(D) /\ Cardinality(D) \in Nat
    <2>1. {j \in D : j <= i} \in SUBSET D
      OBVIOUS
    <2> QED
      BY <2>1, FS_Subset, FS_CardinalityType DEF Rank
  <1>3. Rank(D, i) # 0
    <2>1. i \in {j \in D : j <= i}
      OBVIOUS
    <2> QED
      BY <1>1, <2>1, FS_EmptySet DEF Rank
  <1>4. ASSUME NEW j \in D, NEW k \in D, j < k PROVE Rank(D, j) # Rank(D, k)
    <2>1. {x \in D : x <= j} \in SUBSET {x \in D : x <= k}
      <3>1. j \in Nat /\ k \in Nat
        OBVIOUS
      <3>2. \A x \in Nat : x <= j => x <= k
        BY <1>4, <3>1
      <3>3. \A x \in D : x \in Nat
        OBVIOUS
      <3> QED
        BY <3>2, <3>3
    <2>2. k \in {x \in D : x <= k} /\ k \notin {x \in D : x <= j}
      BY <1>4
    <2>3. CASE Rank(D, j) = Rank(D, k)
      <3>1. {x \in D : x <= k} = {x \in D : x <= j}
        BY <1>1, <2>1, <2>3, FS_Subset DEF Rank
      <3> QED
        BY <2>2, <3>1
    <2> QED
      BY <2>3
  <1>5. \A j \in D : Rank(D, j) = Rank(D, i) => j = i
    <2>1. SUFFICES ASSUME NEW j \in D, Rank(D, j) = Rank(D, i), j # i PROVE FALSE
      OBVIOUS
    <2>2. j < i \/ i < j
      BY <2>1
    <2> QED
      BY <1>4, <2>1, <2>2
  <1>6. Rank(D, i) \in Nat
    BY <1>1
  <1>7. Rank(D, i) \in 1..Cardinality(D)
    <2>1. PICK r, m : r = Rank(D, i) /\ m = Cardinality(D)
      OBVIOUS
    <2>2. r \in Nat /\ m \in Nat /\ r <= m /\ r # 0
      BY <1>2, <1>3, <1>6, <2>1
    <2>3. r \in 1..m
      BY <2>2
    <2> QED
      BY <2>1, <2>3
  <1> QED
    BY <1>5, <1>7

LEMMA LinedAt ==
    ASSUME NEW calls, CallsMap(calls), NEW i \in DOMAIN calls
    PROVE  /\ Rank(DOMAIN calls, i) \in 1..Cardinality(DOMAIN calls)
           /\ Lined(calls)[Rank(DOMAIN calls, i)] = calls[i]
  <1>1. PICK D \in SUBSET Nat : D = DOMAIN calls /\ IsFiniteSet(D)
    BY DEF CallsMap
  <1>2. PICK n : n = Rank(D, i)
    OBVIOUS
  <1>3. n \in 1..Cardinality(D) /\ \A j \in D : Rank(D, j) = n => j = i
    BY <1>1, <1>2, RankIs
  <1>4. (CHOOSE x \in D : Rank(D, x) = n) = i
    BY <1>1, <1>2, <1>3
  <1>5. Lined(calls) = [k \in 1..Cardinality(D) |-> calls[CHOOSE x \in D : Rank(D, x) = k]]
    BY <1>1 DEF Lined, Rank
  <1>6. Lined(calls)[n] = calls[CHOOSE x \in D : Rank(D, x) = n]
    BY <1>3, <1>5
  <1> QED
    BY <1>1, <1>2, <1>3, <1>4, <1>6

(* Each place is some call's.                                              *)
LEMMA LinedFrom ==
    ASSUME NEW calls, CallsMap(calls)
    PROVE  Lined(calls) \in Seq(Bodies) /\ Len(Lined(calls)) = Cardinality(DOMAIN calls)
  <1>1. PICK D \in SUBSET Nat : D = DOMAIN calls /\ IsFiniteSet(D)
    BY DEF CallsMap
  <1>2. PICK m \in Nat : m = Cardinality(D)
    BY <1>1, FS_CardinalityType
  <1>3. PICK r : r = [i \in D |-> Rank(D, i)]
    OBVIOUS
  <1>4. r \in Injection(D, 1..m)
    <2>1. \A i \in D : r[i] \in 1..m /\ \A j \in D : r[j] = r[i] => j = i
      BY <1>1, <1>2, <1>3, RankIs
    <2> QED
      BY <1>3, <2>1 DEF Injection, IsInjective
  <1>5. r \in Surjection(D, 1..m)
    <2>1. IsFiniteSet(1..m) /\ Cardinality(1..m) = m
      BY Interval
    <2> QED
      BY <1>2, <1>4, <2>1, FS_Injection
  <1>6. \A n \in 1..m : \E i \in D : Rank(D, i) = n
    BY <1>3, <1>5 DEF Surjection
  <1>7. ASSUME NEW n \in 1..m PROVE Lined(calls)[n] \in Bodies
    <2>1. PICK i \in D : Rank(D, i) = n
      BY <1>6
    <2>2. Lined(calls)[n] = calls[i]
      BY <1>1, <2>1, LinedAt
    <2> QED
      BY <1>1, <2>1, <2>2 DEF CallsMap
  <1>8. DOMAIN Lined(calls) = 1..m
    BY <1>1, <1>2 DEF Lined
  <1>9. Lined(calls) = [n \in 1..m |-> Lined(calls)[n]]
    BY <1>1, <1>2 DEF Lined
  <1>10. PICK l : l = Lined(calls)
    OBVIOUS
  <1>11. l \in Seq(Bodies) /\ Len(l) = m
    BY <1>7, <1>8, <1>9, <1>10
  <1> QED
    BY <1>1, <1>2, <1>10, <1>11

LEMMA Gathering == ASSUME NEW a, Gathered(a) PROVE Storable(Result(a))
  <1>1. PICK l : l = Lined(a.calls) /\ l \in Seq(Bodies)
    BY LinedFrom DEF Gathered
  <1>2. Result(a) = [text |-> a.text, blocks |-> a.blocks, calls |-> l, finish |-> a.finish,
                     provider |-> a.provider, usage |-> a.usage]
    BY <1>1, ResultIs DEF Gathered, Fields
  <1> QED
    BY <1>1, <1>2 DEF Storable, Gathered, Fields

-----------------------------------------------------------------------------
(* When everything has come                                                *)

Complete(a, s) == \A part \in Parts(a) : s[part] = Pieces(a, part)

LEMMA TextDone ==
    ASSUME NEW a \in ModelAnswers, NEW s, Complete(a, s), NEW text, TextIn(text, a, s)
    PROVE  text = a.text
  <1>1. a.text \in Seq(Letters) /\ s[<<"text", 1>>] = Len(a.text)
    BY AnswerIs, TextPart DEF Complete
  <1> QED
    BY <1>1, SoFarAll DEF TextIn

LEMMA BlocksDone ==
    ASSUME NEW a \in ModelAnswers, NEW s, Complete(a, s), NEW bs, BlocksIn(bs, a, s)
    PROVE  Range(bs) = Range(a.blocks) /\ Len(bs) = Len(a.blocks)
  <1>0. a.blocks \in Seq(Blocks)
    BY AnswerIs
  <1>1. ASSUME NEW i \in DOMAIN a.blocks
        PROVE  s[<<"block", i>>] > 0 /\ BlockSoFar(a.blocks[i], s[<<"block", i>>]) = a.blocks[i]
    <2>1. PICK b \in Blocks : b = a.blocks[i]
      BY <1>0
    <2>2. PICK n : n = s[<<"block", i>>]
      OBVIOUS
    <2>3. n = IF b.index = NoIndex THEN 1 ELSE Len(b.text) + 1
      BY <2>1, <2>2, BlockPart DEF Complete
    <2>4. b.text \in Seq(Letters) /\ Len(b.text) \in Nat /\ b = [index |-> b.index, text |-> b.text, sign |-> b.sign]
      BY ABlock
    <2>5. CASE b.index = NoIndex
      BY <2>1, <2>2, <2>3, <2>5 DEF BlockSoFar
    <2>6. CASE b.index # NoIndex
      <3>1. n > Len(b.text) /\ n \in Nat /\ n > 0
        BY <2>3, <2>4, <2>6
      <3>2. SoFar(b.text, n) = b.text
        BY <2>4, <3>1, SoFarAll
      <3>3. BlockSoFar(b, n) = [index |-> b.index, text |-> b.text, sign |-> b.sign]
        BY <2>6, <3>1, <3>2 DEF BlockSoFar
      <3> QED
        BY <2>1, <2>2, <2>4, <3>1, <3>3
    <2> QED
      BY <2>5, <2>6
  <1>2. BlocksBegun(a, s) = DOMAIN a.blocks
    BY <1>1 DEF BlocksBegun
  <1>3. Cardinality(DOMAIN a.blocks) = Len(a.blocks)
    <2>1. DOMAIN a.blocks = 1..Len(a.blocks) /\ Len(a.blocks) \in Nat
      BY <1>0
    <2>2. Cardinality(1..Len(a.blocks)) = Len(a.blocks)
      BY <2>1, Interval
    <2> QED
      BY <2>1, <2>2
  <1>4. Range(bs) = {a.blocks[i] : i \in DOMAIN a.blocks}
    <2>1. {BlockSoFar(a.blocks[i], s[<<"block", i>>]) : i \in DOMAIN a.blocks} = {a.blocks[i] : i \in DOMAIN a.blocks}
      BY <1>1
    <2> QED
      BY <1>2, <2>1 DEF BlocksIn
  <1>5. Range(a.blocks) = {a.blocks[i] : i \in DOMAIN a.blocks}
    BY DEF Range
  <1> QED
    BY <1>2, <1>3, <1>4, <1>5 DEF BlocksIn

LEMMA CallsDone ==
    ASSUME NEW a \in ModelAnswers, NEW s, Complete(a, s), NEW calls, CallsMap(calls), CallsIn(calls, a, s)
    PROVE  InOrder(Lined(calls), a.calls)
  <1>0. a.calls \in Seq(ToolCalls) /\ Distinct(a.calls)
    BY AnswerIs
  <1>1. PICK m \in Nat : m = Len(a.calls) /\ DOMAIN a.calls = 1..m
    BY <1>0
  <1>2. PICK x : x = [i \in 1..m |-> a.calls[i].index]
    OBVIOUS
  <1>3. \A i \in 1..m : x[i] = a.calls[i].index /\ x[i] \in Nat
    <2>1. \A i \in 1..m : a.calls[i] \in ToolCalls
      BY <1>0, <1>1
    <2> QED
      BY <1>2, <2>1, ACall
  <1>4. \A i, j \in 1..m : x[i] = x[j] => i = j
    <2>1. \A i \in 1..m : x[i] # NoIndex
      BY <1>3 DEF NoIndex
    <2> QED
      BY <1>0, <1>1, <1>3, <2>1 DEF Distinct
  <1>5. ASSUME NEW i \in 1..m PROVE s[<<"call", i>>] > 0 /\ CallSoFar(a.calls[i], s[<<"call", i>>]) = Unindexed(a.calls[i])
    <2>1. PICK c \in ToolCalls : c = a.calls[i]
      BY <1>0, <1>1
    <2>2. PICK n : n = s[<<"call", i>>]
      OBVIOUS
    <2>3. n = Len(c.args) + 1
      BY <1>1, <2>1, <2>2, CallPart DEF Complete
    <2>4. c.args \in Seq(Letters) /\ Len(c.args) \in Nat
      BY ACall
    <2>5. n > 0 /\ n - 1 \in Nat /\ n - 1 >= Len(c.args)
      BY <2>3, <2>4
    <2>6. SoFar(c.args, n - 1) = c.args
      BY <2>4, <2>5, SoFarAll
    <2>7. CallSoFar(c, n) = Unindexed(c)
      BY <2>6 DEF CallSoFar, Unindexed
    <2> QED
      BY <2>1, <2>2, <2>5, <2>7
  <1>6. CallsBegun(a, s) = 1..m
    BY <1>1, <1>5 DEF CallsBegun
  <1>7. PICK D \in SUBSET Nat : D = DOMAIN calls /\ IsFiniteSet(D)
    BY DEF CallsMap
  <1>8. D = {x[i] : i \in 1..m}
    BY <1>3, <1>6, <1>7 DEF CallsIn
  <1>9. \A i \in 1..m : calls[x[i]] = Unindexed(a.calls[i])
    BY <1>3, <1>5, <1>6 DEF CallsIn
  <1>10. IsFiniteSet(1..m) /\ Cardinality(1..m) = m
    BY Interval
  <1>11. ASSUME NEW S \in SUBSET (1..m) PROVE Cardinality({x[i] : i \in S}) = Cardinality(S)
    <2>1. PICK T : T = {x[i] : i \in S}
      OBVIOUS
    <2>2. PICK f : f = [i \in S |-> x[i]]
      OBVIOUS
    <2>3. f \in Bijection(S, T)
      <3>1. f \in [S -> T] /\ (\A i, j \in S : f[i] = f[j] => i = j) /\ \A t \in T : \E i \in S : f[i] = t
        BY <1>4, <2>1, <2>2
      <3> QED
        BY <3>1 DEF Bijection, Injection, Surjection, IsInjective
    <2>4. IsFiniteSet(S)
      BY <1>10, FS_Subset
    <2>5. ExistsBijection(S, T)
      BY <2>3 DEF ExistsBijection
    <2> QED
      BY <2>1, <2>4, <2>5, FS_Bijection
  <1>12. Cardinality(D) = m
    BY <1>8, <1>10, <1>11
  <1>13. ASSUME NEW i \in 1..m PROVE Rank(D, x[i]) = Place(a.calls, i)
    <2>1. PICK S \in SUBSET (1..m) : S = {j \in 1..m : x[j] <= x[i]}
      OBVIOUS
    <2>2. {y \in D : y <= x[i]} = {x[j] : j \in S}
      BY <1>8, <2>1
    <2>3. S = {j \in DOMAIN a.calls : a.calls[j].index <= a.calls[i].index}
      BY <1>1, <1>3, <2>1
    <2> QED
      BY <1>11, <2>2, <2>3 DEF Rank, Place
  <1>14. ASSUME NEW i \in 1..m PROVE Lined(calls)[Place(a.calls, i)] = Unindexed(a.calls[i])
    <2>1. x[i] \in DOMAIN calls
      BY <1>7, <1>8
    <2>2. Lined(calls)[Rank(DOMAIN calls, x[i])] = calls[x[i]]
      BY <2>1, LinedAt
    <2> QED
      BY <1>7, <1>9, <1>13, <2>2
  <1>15. Len(Lined(calls)) = m
    BY <1>7, <1>12, LinedFrom
  <1> QED
    BY <1>1, <1>14, <1>15 DEF InOrder

-----------------------------------------------------------------------------
(* A result replayed is the result                                         *)

LEMMA BlocksAgain == ASSUME NEW bs, BlocksFit(bs) PROVE AddAll(<<>>, bs) = bs
  <1>0. bs \in Seq(Blocks) /\ Distinct(bs)
    BY DEF BlocksFit
  <1>1. PICK m \in Nat : m = Len(bs) /\ DOMAIN bs = 1..m
    BY <1>0
  <1>2. PICK z : z = <<>>
    OBVIOUS
  <1>3. PICK u : FB!Trail(u, z, bs, m)
    BY <1>1, FB!FoldSteps
  <1>4. u[0] = z /\ u[m] = AddAll(z, bs) /\ \A n \in 1..m : u[n] = AddBlock(u[n - 1], bs[n])
    BY <1>3, FoldBlocksIs DEF FB!Trail
  <1> DEFINE T == {n \in Nat : u[n] = SubSeq(bs, 1, n)}
  <1>5. 0 \in T
    <2>1. SubSeq(bs, 1, 0) = <<>>
      BY <1>0
    <2>2. u[0] = SubSeq(bs, 1, 0)
      BY <1>2, <1>4, <2>1
    <2> QED
      BY <2>2
  <1>6. ASSUME NEW n \in Nat, n < m, n \in T PROVE n + 1 \in T
    <2>1. n + 1 \in 1..m /\ (n + 1) - 1 = n /\ u[n + 1] = AddBlock(u[n], bs[n + 1])
      <3>1. n + 1 \in 1..m /\ (n + 1) - 1 = n
        BY <1>6
      <3> QED
        BY <1>4, <3>1
    <2>2. PICK s : s = SubSeq(bs, 1, n)
      OBVIOUS
    <2>3. DOMAIN s = 1..n /\ \A k \in 1..n : s[k] = bs[k]
      BY <1>0, <1>1, <1>6, <2>2
    <2>4. AddBlock(s, bs[n + 1]) = Append(s, bs[n + 1])
      <3>1. ASSUME NEW k \in DOMAIN s, bs[n + 1].index # NoIndex PROVE s[k].index # bs[n + 1].index
        <4>1. k \in DOMAIN bs /\ n + 1 \in DOMAIN bs /\ k # n + 1 /\ s[k] = bs[k]
          BY <1>1, <1>6, <2>3
        <4> QED
          BY <1>0, <3>1, <4>1 DEF Distinct
      <3> QED
        BY <3>1, NewBlock
    <2>5. Append(SubSeq(bs, 1, n), bs[n + 1]) = SubSeq(bs, 1, n + 1)
      BY <1>0, <1>1, <1>6
    <2>6. u[n] = SubSeq(bs, 1, n)
      BY <1>6
    <2>7. u[n + 1] = SubSeq(bs, 1, n + 1)
      BY <2>1, <2>2, <2>4, <2>5, <2>6
    <2> QED
      BY <2>7
  <1>7. m \in T
    <2>1. m \in 0..m
      OBVIOUS
    <2> HIDE DEF T
    <2> QED
      BY <1>5, <1>6, <2>1, FB!UpTo
  <1>8. SubSeq(bs, 1, m) = bs
    BY <1>0, <1>1
  <1> QED
    BY <1>2, <1>4, <1>7, <1>8

(* The first calls of a sequence of them, by index from 0.                 *)
Taken(calls, n) == [x \in 0..(n - 1) |-> calls[x + 1]]
Frag(calls, i) == [index |-> i - 1, id |-> calls[i].id, name |-> calls[i].name, args |-> calls[i].args]

LEMMA ACallBody ==
    ASSUME NEW b \in Bodies
    PROVE  b = [id |-> b.id, name |-> b.name, args |-> b.args] /\ b.id \in Words /\ b.name \in Words /\ b.args \in Seq(Letters)
  BY DEF Bodies

LEMMA FragIs ==
    ASSUME NEW calls \in Seq(Bodies), NEW i \in 1..Len(calls)
    PROVE  /\ Frag(calls, i) \in ToolCalls /\ Frag(calls, i).index = i - 1
           /\ Frag(calls, i).id = calls[i].id /\ Frag(calls, i).name = calls[i].name /\ Frag(calls, i).args = calls[i].args
  <1>1. PICK b \in Bodies : b = calls[i]
    OBVIOUS
  <1>2. Frag(calls, i) = [index |-> i - 1, id |-> b.id, name |-> b.name, args |-> b.args]
    BY <1>1 DEF Frag
  <1>3. i - 1 \in Nat
    OBVIOUS
  <1>4. b.id \in Words /\ b.name \in Words /\ b.args \in Seq(Letters)
    BY ACallBody
  <1>5. [index |-> i - 1, id |-> b.id, name |-> b.name, args |-> b.args] \in ToolCalls
    BY <1>3, <1>4 DEF ToolCalls
  <1> QED
    BY <1>1, <1>2, <1>5

LEMMA TakenMore ==
    ASSUME NEW calls \in Seq(Bodies), NEW n \in Nat, n < Len(calls)
    PROVE  AddCall(Taken(calls, n), Frag(calls, n + 1)) = Taken(calls, n + 1)
  <1>1. PICK frag : frag = Frag(calls, n + 1)
    OBVIOUS
  <1>2. n + 1 \in 1..Len(calls) /\ (n + 1) - 1 = n
    OBVIOUS
  <1>3. PICK b \in Bodies : b = calls[n + 1]
    BY <1>2
  <1>4. frag.index = n /\ frag.id = b.id /\ frag.name = b.name /\ frag.args = b.args
    BY <1>1, <1>2, <1>3, FragIs
  <1>5. b = [id |-> b.id, name |-> b.name, args |-> b.args] /\ b.args \in Seq(Letters)
    BY ACallBody
  <1>6. PICK t : t = Taken(calls, n)
    OBVIOUS
  <1>7. DOMAIN t = 0..(n - 1) /\ \A x \in 0..(n - 1) : t[x] = calls[x + 1]
    BY <1>6 DEF Taken
  <1>8. n \notin DOMAIN t /\ DOMAIN t \cup {n} = 0..n
    BY <1>7
  <1>9. PICK put : put = [id |-> Latest(frag.id, NewCall.id), name |-> Latest(frag.name, NewCall.name), args |-> NewCall.args \o frag.args]
    OBVIOUS
  <1>10. put = b
    <2>1. Latest(frag.id, NewCall.id) = b.id /\ Latest(frag.name, NewCall.name) = b.name
      BY <1>4 DEF Latest, NewCall
    <2>2. NewCall.args \o frag.args = b.args
      BY <1>4, <1>5 DEF NewCall
    <2> QED
      BY <1>5, <1>9, <2>1, <2>2
  <1>11. AddCall(t, frag) = [x \in DOMAIN t \cup {n} |-> IF x = n THEN put ELSE t[x]]
    BY <1>4, <1>8, <1>9 DEF AddCall
  <1>12. [x \in DOMAIN t \cup {n} |-> IF x = n THEN put ELSE t[x]] = [x \in 0..((n + 1) - 1) |-> calls[x + 1]]
    <2>1. \A x \in 0..n : (IF x = n THEN put ELSE t[x]) = calls[x + 1]
      BY <1>3, <1>7, <1>10
    <2>2. 0..((n + 1) - 1) = 0..n
      BY <1>2
    <2> QED
      BY <1>8, <2>1, <2>2
  <1> QED
    BY <1>1, <1>6, <1>11, <1>12 DEF Taken

LEMMA CallsAgain ==
    ASSUME NEW calls \in Seq(Bodies), NEW a, Fields(a), a.calls = <<>>
    PROVE  Fold(a, [i \in DOMAIN calls |-> Event("call", Frag(calls, i))]) = [a EXCEPT !.calls = Taken(calls, Len(calls))]
  <1>1. PICK m \in Nat : m = Len(calls) /\ DOMAIN calls = 1..m
    OBVIOUS
  <1>2. PICK evs : evs = [i \in 1..m |-> Event("call", Frag(calls, i))]
    OBVIOUS
  <1>3. DOMAIN evs = 1..m /\ \A i \in 1..m : evs[i] = Event("call", Frag(calls, i))
    BY <1>2
  <1>4. PICK u : FE!Trail(u, a, evs, m)
    BY <1>3, FE!FoldSteps
  <1>5. u[0] = a /\ u[m] = Fold(a, evs) /\ \A n \in 1..m : u[n] = Accumulate(u[n - 1], evs[n])
    BY <1>4, FoldEventsIs DEF FE!Trail
  <1> DEFINE T == {n \in Nat : u[n] = [a EXCEPT !.calls = Taken(calls, n)]}
  <1>6. 0 \in T
    <2>1. Taken(calls, 0) = <<>>
      BY DEF Taken
    <2>2. [a EXCEPT !.calls = <<>>] = a
      BY DEF Fields
    <2> QED
      BY <1>5, <2>1, <2>2
  <1>7. ASSUME NEW n \in Nat, n < m, n \in T PROVE n + 1 \in T
    <2>1. n + 1 \in 1..m /\ (n + 1) - 1 = n
      BY <1>7
    <2>2. u[n + 1] = Accumulate(u[n], Event("call", Frag(calls, n + 1)))
      BY <1>3, <1>5, <2>1
    <2>3. u[n + 1] = [u[n] EXCEPT !.calls = AddCall(@, Frag(calls, n + 1))]
      BY <2>2, CallEvent
    <2>4. u[n] = [a EXCEPT !.calls = Taken(calls, n)]
      BY <1>7
    <2>5. u[n].calls = Taken(calls, n)
      BY <2>4 DEF Fields
    <2>6. AddCall(u[n].calls, Frag(calls, n + 1)) = Taken(calls, n + 1)
      BY <1>1, <1>7, <2>5, TakenMore
    <2>7. u[n + 1] = [u[n] EXCEPT !.calls = Taken(calls, n + 1)]
      BY <2>3, <2>6
    <2>8. [u[n] EXCEPT !.calls = Taken(calls, n + 1)] = [a EXCEPT !.calls = Taken(calls, n + 1)]
      BY <2>4 DEF Fields
    <2> QED
      BY <2>7, <2>8
  <1>8. m \in T
    <2>1. m \in 0..m
      OBVIOUS
    <2> HIDE DEF T
    <2> QED
      BY <1>6, <1>7, <2>1, FE!UpTo
  <1> QED
    BY <1>1, <1>2, <1>5, <1>8

LEMMA TakenMap ==
    ASSUME NEW calls \in Seq(Bodies)
    PROVE  CallsMap(Taken(calls, Len(calls)))
  <1>1. PICK m \in Nat : m = Len(calls) /\ DOMAIN calls = 1..m
    OBVIOUS
  <1>2. PICK t : t = [x \in 0..(m - 1) |-> calls[x + 1]]
    OBVIOUS
  <1>3. \A x \in 0..(m - 1) : calls[x + 1] \in Bodies
    BY <1>1
  <1>4. t \in [0..(m - 1) -> Bodies] /\ DOMAIN t = 0..(m - 1)
    BY <1>2, <1>3
  <1>5. IsFiniteSet(0..(m - 1)) /\ 0..(m - 1) \in SUBSET Nat
    BY FS_Interval
  <1> QED
    BY <1>1, <1>2, <1>4, <1>5 DEF CallsMap, Taken

LEMMA LinedAgain ==
    ASSUME NEW calls \in Seq(Bodies)
    PROVE  Lined(Taken(calls, Len(calls))) = calls
  <1>1. PICK m \in Nat : m = Len(calls) /\ DOMAIN calls = 1..m
    OBVIOUS
  <1>2. PICK t : t = Taken(calls, m)
    OBVIOUS
  <1>3. DOMAIN t = 0..(m - 1) /\ \A x \in 0..(m - 1) : t[x] = calls[x + 1]
    BY <1>2 DEF Taken
  <1>4. IsFiniteSet(0..(m - 1)) /\ Cardinality(0..(m - 1)) = m
    <2>1. IsFiniteSet(0..(m - 1)) /\ Cardinality(0..(m - 1)) = IF 0 > m - 1 THEN 0 ELSE (m - 1) - 0 + 1
      BY FS_Interval
    <2> QED
      BY <2>1
  <1>5. CallsMap(t)
    BY <1>1, <1>2, TakenMap
  <1>6. ASSUME NEW n \in 1..m PROVE Lined(t)[n] = calls[n]
    <2>1. PICK i \in 0..(m - 1) : i = n - 1 /\ n = i + 1
      <3>1. n - 1 \in 0..(m - 1) /\ n = (n - 1) + 1
        OBVIOUS
      <3> QED
        BY <3>1
    <2>2. Rank(DOMAIN t, i) = n
      <3>1. {j \in 0..(m - 1) : j <= i} = 0..i
        OBVIOUS
      <3>2. Cardinality(0..i) = IF 0 > i THEN 0 ELSE i - 0 + 1
        BY FS_Interval
      <3>3. Cardinality(0..i) = n
        BY <2>1, <3>2
      <3> QED
        BY <1>3, <3>1, <3>3 DEF Rank
    <2>3. Lined(t)[Rank(DOMAIN t, i)] = t[i]
      BY <1>3, <1>5, LinedAt
    <2> QED
      BY <1>3, <2>1, <2>2, <2>3
  <1>7. DOMAIN Lined(t) = 1..m /\ Lined(t) = [n \in 1..m |-> Lined(t)[n]]
    BY <1>3, <1>4 DEF Lined
  <1>8. calls = [n \in 1..m |-> calls[n]]
    BY <1>1
  <1>9. Lined(t) = calls
    BY <1>6, <1>7, <1>8
  <1> QED
    BY <1>1, <1>2, <1>9

LEMMA RoundTrip ==
    ASSUME NEW r, Storable(r)
    PROVE  Gathered(Fold(Nothing, Replay(r))) /\ Result(Fold(Nothing, Replay(r))) = r
  <1>1. /\ r = [text |-> r.text, blocks |-> r.blocks, calls |-> r.calls, finish |-> r.finish, provider |-> r.provider, usage |-> r.usage]
        /\ r.text \in Seq(Letters) /\ BlocksFit(r.blocks) /\ r.blocks \in Seq(Blocks) /\ r.calls \in Seq(Bodies)
        /\ r.finish \in Finishes /\ r.provider \in Words /\ r.usage \in {0, 1}
    BY DEF Storable, Fields, BlocksFit
  <1>2. PICK cs : cs = [i \in DOMAIN r.calls |-> Frag(r.calls, i)]
    OBVIOUS
  <1>3. DOMAIN cs = DOMAIN r.calls /\ cs \in Seq(ToolCalls) /\ \A i \in DOMAIN r.calls : cs[i] = Frag(r.calls, i)
    <2>1. PICK m \in Nat : m = Len(r.calls) /\ DOMAIN r.calls = 1..m
      BY <1>1
    <2>2. \A i \in 1..m : Frag(r.calls, i) \in ToolCalls
      BY <1>1, <2>1, FragIs
    <2> QED
      BY <1>2, <2>1, <2>2
  <1>4. PICK c : c = [text |-> r.text, details |-> r.blocks, calls |-> cs, finish |-> r.finish, provider |-> r.provider, usage |-> r.usage]
    OBVIOUS
  <1>5. c.text = r.text /\ c.details = r.blocks /\ c.calls = cs /\ c.finish = r.finish /\ c.provider = r.provider /\ c.usage = r.usage
    BY <1>4
  <1>6. c \in Chunks
    BY <1>1, <1>3, <1>4 DEF Chunks
  <1>7. r.finish # NoWord
    BY <1>1 DEF Finishes, NoWord
  <1>8. PICK e1 : e1 = When(r.blocks # <<>>, Event("details", r.blocks))
    OBVIOUS
  <1>9. PICK e2 : e2 = When(r.text # <<>>, Event("text", r.text))
    OBVIOUS
  <1>10. PICK e3 : e3 = [i \in DOMAIN r.calls |-> Event("call", Frag(r.calls, i))]
    OBVIOUS
  <1>11. PICK e4 : e4 = When(r.finish # NoWord, Event("finish", r.finish))
    OBVIOUS
  <1>12. PICK e5 : e5 = When(r.provider # NoWord, Event("provider", r.provider))
    OBVIOUS
  <1>13. PICK e6 : e6 = When(r.usage # 0, Event("usage", r.usage))
    OBVIOUS
  <1>14. e3 = CallEvents(c)
    BY <1>3, <1>5, <1>10 DEF CallEvents
  <1>15. /\ e1 \in Seq(Events) /\ e2 \in Seq(Events) /\ e3 \in Seq(Events)
         /\ e4 \in Seq(Events) /\ e5 \in Seq(Events) /\ e6 \in Seq(Events)
    BY <1>5, <1>6, <1>8, <1>9, <1>11, <1>12, <1>13, <1>14, EventsAre
  <1>16. Replay(r) = ((((e1 \o e2) \o e3) \o e4) \o e5) \o e6
    <2>1. e4 = <<Event("finish", r.finish)>>
      BY <1>7, <1>11 DEF When
    <2> QED
      BY <1>8, <1>9, <1>10, <1>12, <1>13, <2>1 DEF Replay, Frag
  <1>17. Fold(Nothing, Replay(r)) = Fold(Fold(Fold(Fold(Fold(Fold(Nothing, e1), e2), e3), e4), e5), e6)
    BY <1>15, <1>16, SixParts
  <1>18. PICK a1 : a1 = [Nothing EXCEPT !.blocks = r.blocks]
    OBVIOUS
  <1>19. Fold(Nothing, e1) = a1
    <2>1. Fold(Nothing, e1) = WithDetails(Nothing, c)
      BY <1>5, <1>8, EventsFold
    <2>2. CASE r.blocks = <<>>
      BY <1>5, <1>18, <2>1, <2>2 DEF WithDetails, Nothing
    <2>3. CASE r.blocks # <<>>
      <3>1. WithDetails(Nothing, c) = [Nothing EXCEPT !.blocks = AddAll(@, r.blocks)]
        BY <1>5, <2>3, DetailsEvent DEF WithDetails
      <3>2. Nothing.blocks = <<>>
        BY DEF Nothing
      <3>3. AddAll(Nothing.blocks, r.blocks) = r.blocks
        BY <1>1, <3>2, BlocksAgain
      <3> QED
        BY <1>18, <2>1, <3>1, <3>3
    <2> QED
      BY <2>2, <2>3
  <1>20. PICK a2 : a2 = [a1 EXCEPT !.text = r.text]
    OBVIOUS
  <1>21. a1 = [text |-> <<>>, blocks |-> r.blocks, calls |-> <<>>, finish |-> "stop", provider |-> NoWord, usage |-> 0]
    BY <1>18 DEF Nothing
  <1>22. a2 = [text |-> r.text, blocks |-> r.blocks, calls |-> <<>>, finish |-> "stop", provider |-> NoWord, usage |-> 0]
    BY <1>20, <1>21
  <1>23. Fold(a1, e2) = a2
    <2>1. Fold(a1, e2) = WithText(a1, c)
      BY <1>5, <1>9, EventsFold
    <2>2. CASE r.text = <<>>
      BY <1>5, <1>21, <1>22, <2>1, <2>2 DEF WithText
    <2>3. CASE r.text # <<>>
      <3>1. WithText(a1, c) = [a1 EXCEPT !.text = @ \o r.text]
        BY <1>5, <2>3, TextEvent DEF WithText
      <3>2. a1.text \o r.text = r.text
        BY <1>1, <1>21
      <3> QED
        BY <1>20, <2>1, <3>1, <3>2
    <2> QED
      BY <2>2, <2>3
  <1>24. PICK t : t = Taken(r.calls, Len(r.calls))
    OBVIOUS
  <1>25. PICK a3 : a3 = [text |-> r.text, blocks |-> r.blocks, calls |-> t, finish |-> "stop", provider |-> NoWord, usage |-> 0]
    OBVIOUS
  <1>26. Fold(a2, e3) = a3
    <2>1. Fields(a2) /\ a2.calls = <<>>
      BY <1>22 DEF Fields
    <2>2. Fold(a2, e3) = [a2 EXCEPT !.calls = t]
      BY <1>1, <1>10, <1>24, <2>1, CallsAgain
    <2> QED
      BY <1>22, <1>25, <2>2
  <1>27. PICK a4 : a4 = [text |-> r.text, blocks |-> r.blocks, calls |-> t, finish |-> r.finish, provider |-> NoWord, usage |-> 0]
    OBVIOUS
  <1>28. Fold(a3, e4) = a4
    <2>1. Fold(a3, e4) = WithFinish(a3, c)
      BY <1>5, <1>11, EventsFold
    <2>2. WithFinish(a3, c) = [a3 EXCEPT !.finish = r.finish]
      BY <1>5, <1>7, FinishEvent DEF WithFinish
    <2> QED
      BY <1>25, <1>27, <2>1, <2>2
  <1>29. PICK a5 : a5 = [text |-> r.text, blocks |-> r.blocks, calls |-> t, finish |-> r.finish, provider |-> r.provider, usage |-> 0]
    OBVIOUS
  <1>30. Fold(a4, e5) = a5
    <2>1. Fold(a4, e5) = WithProvider(a4, c)
      BY <1>5, <1>12, EventsFold
    <2>2. Fields(a4)
      BY <1>27 DEF Fields
    <2>3. WithProvider(a4, c) = [a4 EXCEPT !.provider = First(@, r.provider)]
      BY <1>5, <2>2, ProviderStays
    <2>4. First(a4.provider, r.provider) = r.provider
      BY <1>27 DEF First
    <2> QED
      BY <1>27, <1>29, <2>1, <2>3, <2>4
  <1>31. PICK a6 : a6 = [text |-> r.text, blocks |-> r.blocks, calls |-> t, finish |-> r.finish, provider |-> r.provider, usage |-> r.usage]
    OBVIOUS
  <1>32. Fold(a5, e6) = a6
    <2>1. Fold(a5, e6) = WithUsage(a5, c)
      BY <1>5, <1>13, EventsFold
    <2>2. CASE r.usage = 0
      BY <1>5, <1>29, <1>31, <2>1, <2>2 DEF WithUsage
    <2>3. CASE r.usage # 0
      <3>1. WithUsage(a5, c) = [a5 EXCEPT !.usage = r.usage]
        BY <1>5, <2>3, UsageEvent DEF WithUsage
      <3> QED
        BY <1>29, <1>31, <2>1, <3>1
    <2> QED
      BY <2>2, <2>3
  <1>33. Fold(Nothing, Replay(r)) = a6
    BY <1>17, <1>19, <1>23, <1>26, <1>28, <1>30, <1>32
  <1>34. Result(a6) = r
    <2>1. Lined(t) = r.calls
      BY <1>1, <1>24, LinedAgain
    <2>2. Result(a6) = [a6 EXCEPT !.calls = r.calls]
      BY <1>31, <2>1, ResultIs
    <2>3. [a6 EXCEPT !.calls = r.calls] = [text |-> r.text, blocks |-> r.blocks, calls |-> r.calls, finish |-> r.finish,
                                          provider |-> r.provider, usage |-> r.usage]
      BY <1>31
    <2> QED
      BY <1>1, <2>2, <2>3
  <1>35. CallsMap(t)
    BY <1>1, <1>24, TakenMap
  <1>36. Gathered(a6)
    BY <1>1, <1>31, <1>35 DEF Gathered, Fields
  <1> QED
    BY <1>33, <1>34, <1>36

-----------------------------------------------------------------------------
(* Every step keeps it                                                     *)

LEMMA NothingIs ==
    /\ Gathered(Nothing) /\ Nothing.provider = NoWord
    /\ Nothing.text = <<>> /\ Nothing.blocks = <<>> /\ Nothing.calls = <<>>
  <1>1. /\ Nothing.text = <<>> /\ Nothing.blocks = <<>> /\ Nothing.calls = <<>>
        /\ Nothing.finish = "stop" /\ Nothing.provider = NoWord /\ Nothing.usage = 0 /\ Fields(Nothing)
    BY DEF Nothing, Fields
  <1>2. BlocksFit(<<>>)
    BY DEF BlocksFit, Distinct
  <1>3. CallsMap(<<>>)
    <2>1. DOMAIN <<>> = {} /\ <<>> \in [{} -> Bodies]
      OBVIOUS
    <2> QED
      BY <2>1, FS_EmptySet DEF CallsMap
  <1>4. <<>> \in Seq(Letters)
    OBVIOUS
  <1> QED
    BY <1>1, <1>2, <1>3, <1>4, WordsAssumption DEF Gathered, Finishes

LEMMA NothingIn ==
    ASSUME NEW a \in ModelAnswers, NEW s, \A part \in Parts(a) : s[part] = 0
    PROVE  TextIn(<<>>, a, s) /\ BlocksIn(<<>>, a, s) /\ CallsIn(<<>>, a, s)
  <1>1. TextIn(<<>>, a, s)
    BY AnswerIs, TextPart, SoFarNone DEF TextIn
  <1>2. BlocksBegun(a, s) = {}
    BY BlockPart DEF BlocksBegun
  <1>3. CallsBegun(a, s) = {}
    BY CallPart DEF CallsBegun
  <1>4. BlocksIn(<<>>, a, s)
    <2>1. Len(<<>>) = 0 /\ Range(<<>>) = {}
      BY DEF Range
    <2> QED
      BY <1>2, <2>1, FS_EmptySet DEF BlocksIn
  <1>5. CallsIn(<<>>, a, s)
    <2>1. DOMAIN <<>> = {}
      OBVIOUS
    <2> QED
      BY <1>3, <2>1 DEF CallsIn
  <1> QED
    BY <1>1, <1>4, <1>5

LEMMA StreamStarts == StreamInit => StreamInv
  <1>1. SUFFICES ASSUME StreamInit PROVE StreamInv
    OBVIOUS
  <1>2. Gathered(acc)
    BY <1>1, NothingIs DEF StreamInit
  <1>3. PartsOK
    <2>1. \A part \in Parts(answer) : sent[part] = 0 /\ Pieces(answer, part) \in Nat
      BY <1>1, PiecesAre DEF StreamInit
    <2>2. sent \in [Parts(answer) -> Nat] /\ answer \in ModelAnswers
      BY <1>1 DEF StreamInit
    <2> QED
      BY <2>1, <2>2 DEF PartsOK
  <1>4. TogetherOK
    BY <1>1 DEF StreamInit, TogetherOK
  <1>5. KeptOK
    BY <1>1 DEF StreamInit, KeptOK
  <1>6. AnswerIsKept
    BY <1>1 DEF StreamInit, AnswerIsKept
  <1> QED
    BY <1>1, <1>2, <1>3, <1>4, <1>5, <1>6 DEF StreamInv, StreamInit

LEMMA HitSteps == ASSUME StreamInv, NEW r \in Asked, Hit(r) PROVE StreamInv'
  <1>1. PICK k : k = kept[Signature(r)]
    OBVIOUS
  <1>2. Storable(k)
    BY <1>1 DEF StreamInv, KeptOK, Hit
  <1>3. /\ asked' = r /\ call' = "answered" /\ acc' = Fold(Nothing, Replay(k)) /\ ended' = FALSE
        /\ answer' = answer /\ sent' = sent /\ garbled' = garbled /\ kept' = kept
    BY <1>1 DEF Hit
  <1>4. Gathered(acc') /\ Result(acc') = k
    BY <1>2, <1>3, RoundTrip
  <1>5. PartsOK' /\ KeptOK'
    BY <1>3 DEF StreamInv, PartsOK, KeptOK
  <1>6. TogetherOK'
    BY <1>3 DEF TogetherOK
  <1>7. AnswerIsKept'
    BY <1>1, <1>3, <1>4 DEF AnswerIsKept
  <1>8. (asked \in Asked)' /\ (ended \in BOOLEAN)' /\ (garbled \in BOOLEAN)'
    BY <1>3 DEF StreamInv
  <1> QED
    BY <1>4, <1>5, <1>6, <1>7, <1>8 DEF StreamInv

LEMMA MissSteps ==
    ASSUME StreamInv, NEW r \in Asked, NEW a \in ModelAnswers, Miss(r, a)
    PROVE  StreamInv'
  <1>1. /\ asked' = r /\ call' = "streaming" /\ answer' = a /\ sent' = [part \in Parts(a) |-> 0]
        /\ ended' = FALSE /\ garbled' = FALSE /\ acc' = Nothing /\ kept' = kept /\ kept[Signature(r)] = NotKept
    BY DEF Miss
  <1>2. \A part \in Parts(a) : sent'[part] = 0 /\ Pieces(a, part) \in Nat
    BY <1>1, PiecesAre
  <1>3. PartsOK'
    <2>1. sent' \in [Parts(a) -> Nat]
      BY <1>1
    <2> QED
      BY <1>1, <1>2, <2>1 DEF PartsOK
  <1>4. KeptOK'
    BY <1>1 DEF StreamInv, KeptOK
  <1>5. TogetherOK'
    <2>1. EndOK'
      BY <1>1, NothingIs DEF EndOK
    <2>2. TextIn(<<>>, a, sent') /\ BlocksIn(<<>>, a, sent') /\ CallsIn(<<>>, a, sent')
      BY <1>2, NothingIn
    <2>3. acc'.text = <<>> /\ acc'.blocks = <<>> /\ acc'.calls = <<>>
      BY <1>1, NothingIs
    <2> QED
      BY <1>1, <2>1, <2>2, <2>3 DEF TogetherOK
  <1>6. AnswerIsKept'
    BY <1>1 DEF AnswerIsKept
  <1>7. Gathered(acc')
    BY <1>1, NothingIs
  <1>8. (asked \in Asked)' /\ (ended \in BOOLEAN)' /\ (garbled \in BOOLEAN)'
    BY <1>1
  <1> QED
    BY <1>3, <1>4, <1>5, <1>6, <1>7, <1>8 DEF StreamInv

(* A call that ends without an answer.                                     *)
LEMMA EndsSteps ==
    ASSUME StreamInv, call = "streaming", call' \in {"failed", "left"},
           UNCHANGED <<asked, answer, sent, ended, garbled, acc, kept>>
    PROVE  StreamInv'
  <1>1. /\ asked' = asked /\ answer' = answer /\ sent' = sent /\ ended' = ended /\ garbled' = garbled
        /\ acc' = acc /\ kept' = kept
    OBVIOUS
  <1>2. Gathered(acc') /\ PartsOK' /\ KeptOK'
    BY <1>1 DEF StreamInv, PartsOK, KeptOK
  <1>3. TogetherOK'
    <2>1. EndOK /\ (~garbled => TextIn(acc.text, answer, sent) /\ BlocksIn(acc.blocks, answer, sent) /\ CallsIn(acc.calls, answer, sent))
      BY DEF StreamInv, TogetherOK
    <2>2. EndOK'
      BY <1>1, <2>1 DEF EndOK
    <2> QED
      BY <1>1, <2>1, <2>2 DEF TogetherOK
  <1>4. AnswerIsKept'
    BY <1>1 DEF StreamInv, AnswerIsKept
  <1>5. (asked \in Asked)' /\ (ended \in BOOLEAN)' /\ (garbled \in BOOLEAN)'
    BY <1>1 DEF StreamInv
  <1> QED
    BY <1>2, <1>3, <1>4, <1>5 DEF StreamInv

LEMMA OneMoreSent ==
    ASSUME StreamInv, NEW part \in Parts(answer), sent[part] < Pieces(answer, part),
           sent' = [sent EXCEPT ![part] = @ + 1], answer' = answer
    PROVE  PartsOK'
  <1>1. sent \in [Parts(answer) -> Nat] /\ answer \in ModelAnswers /\ \A q \in Parts(answer) : sent[q] <= Pieces(answer, q)
    BY DEF StreamInv, PartsOK
  <1>2. Pieces(answer, part) \in Nat /\ sent[part] \in Nat
    BY <1>1, PiecesAre
  <1>3. sent'[part] = sent[part] + 1 /\ \A q \in Parts(answer) : q # part => sent'[q] = sent[q]
    BY <1>1
  <1>4. sent' \in [Parts(answer) -> Nat]
    BY <1>1
  <1>5. sent[part] + 1 <= Pieces(answer, part)
    BY <1>2
  <1>6. \A q \in Parts(answer) : sent'[q] <= Pieces(answer, q)
    BY <1>1, <1>3, <1>5
  <1> QED
    BY <1>1, <1>4, <1>6 DEF PartsOK

LEMMA GarbledSteps == ASSUME StreamInv, NEW part \in Parts(answer), Garbled(part) PROVE StreamInv'
  <1>1. /\ asked' = asked /\ answer' = answer /\ ended' = ended /\ ~ended /\ garbled' = TRUE
        /\ acc' = acc /\ kept' = kept /\ call' = call /\ call = "streaming"
    BY DEF Garbled
  <1>2. PartsOK'
    BY OneMoreSent DEF Garbled
  <1>3. Gathered(acc') /\ KeptOK'
    BY <1>1 DEF StreamInv, KeptOK
  <1>4. TogetherOK'
    BY <1>1 DEF StreamInv, TogetherOK, EndOK
  <1>5. AnswerIsKept'
    BY <1>1 DEF StreamInv, AnswerIsKept
  <1>6. (asked \in Asked)' /\ (ended \in BOOLEAN)' /\ (garbled \in BOOLEAN)'
    BY <1>1 DEF StreamInv
  <1> QED
    BY <1>2, <1>3, <1>4, <1>5, <1>6 DEF StreamInv

(* What a data line does to what is put together.                          *)
LEMMA ChunkPuts ==
    ASSUME StreamInv, NEW part \in Parts(answer), Chunk(part)
    PROVE  /\ Gathered(acc') /\ acc'.provider = First(acc.provider, answer.provider)
           /\ (~garbled => TextIn(acc'.text, answer, sent') /\ BlocksIn(acc'.blocks, answer, sent')
                           /\ CallsIn(acc'.calls, answer, sent'))
  <1>1. PICK a \in ModelAnswers : a = answer
    BY DEF StreamInv, PartsOK
  <1>2. PICK s \in [Parts(a) -> Nat] : s = sent
    BY <1>1 DEF StreamInv, PartsOK
  <1>3. PICK z : z = sent'
    OBVIOUS
  <1>4. PICK n \in Nat : n = s[part]
    BY <1>1, <1>2
  <1>5. PICK x : x = acc
    OBVIOUS
  <1>6. Gathered(x) /\ Fields(x) /\ (~garbled => TextIn(x.text, a, s) /\ BlocksIn(x.blocks, a, s) /\ CallsIn(x.calls, a, s))
    BY <1>1, <1>2, <1>5 DEF StreamInv, TogetherOK, Chunk, Gathered
  <1>7. /\ z = [s EXCEPT ![part] = @ + 1] /\ n < Pieces(a, part)
        /\ acc' = Fold(x, ChunkToEvents(Piece(a, part, n + 1)))
    BY <1>1, <1>2, <1>3, <1>4, <1>5 DEF Chunk
  <1>8. /\ a.text \in Seq(Letters) /\ a.blocks \in Seq(Blocks) /\ a.calls \in Seq(ToolCalls) /\ a.provider \in Words
        /\ Len(a.text) \in Nat
    BY AnswerIs
  <1>9. z[part] = n + 1 /\ \A q \in Parts(a) : q # part => z[q] = s[q]
    BY <1>1, <1>4, <1>7
  <1>10. CASE part = <<"text", 1>>
    <2>1. n < Len(a.text) /\ n + 1 \in 1..Len(a.text)
      BY <1>7, <1>8, <1>10, TextPart
    <2>2. PICK l \in Letters : l = a.text[n + 1]
      BY <1>8, <2>1
    <2>3. acc' = [x EXCEPT !.text = @ \o <<l>>, !.provider = First(@, a.provider)]
      <3>1. Piece(a, part, n + 1) = [Empty(a.provider) EXCEPT !.text = <<l>>]
        BY <1>10, <2>2, TextPart
      <3>2. Fields(x) /\ a.provider \in Words
        BY <1>6, <1>8
      <3>3. Fold(x, ChunkToEvents([Empty(a.provider) EXCEPT !.text = <<l>>])) =
               [x EXCEPT !.text = @ \o <<l>>, !.provider = First(@, a.provider)]
        BY <3>2, TextPiece
      <3>4. acc' = Fold(x, ChunkToEvents([Empty(a.provider) EXCEPT !.text = <<l>>]))
        BY <1>7, <3>1
      <3> QED
        BY <3>3, <3>4
    <2>4. Gathered(acc')
      BY <1>6, <1>8, <2>3, PutTogether
    <2>5. acc'.text = x.text \o <<l>> /\ acc'.blocks = x.blocks /\ acc'.calls = x.calls /\ acc'.provider = First(x.provider, a.provider)
      BY <1>6, <2>3 DEF Fields
    <2>6. ASSUME ~garbled PROVE TextIn(acc'.text, a, z) /\ BlocksIn(acc'.blocks, a, z) /\ CallsIn(acc'.calls, a, z)
      <3>1. x.text = SoFar(a.text, n)
        BY <1>4, <1>6, <1>10, <2>6 DEF TextIn
      <3>2. SoFar(a.text, n) \o <<a.text[n + 1]>> = SoFar(a.text, n + 1)
        BY <1>8, <2>1, SoFarMore
      <3>3. TextIn(acc'.text, a, z)
        BY <1>9, <1>10, <2>2, <2>5, <3>1, <3>2 DEF TextIn
      <3>4. \A i \in DOMAIN a.blocks : z[<<"block", i>>] = s[<<"block", i>>]
        BY <1>9, <1>10, BlockPart
      <3>5. \A i \in DOMAIN a.calls : z[<<"call", i>>] = s[<<"call", i>>]
        BY <1>9, <1>10, CallPart
      <3> QED
        BY <1>6, <2>5, <2>6, <3>3, <3>4, <3>5, BlocksStay, CallsStay
    <2> QED
      BY <1>1, <1>3, <1>5, <2>4, <2>5, <2>6
  <1>11. ASSUME NEW i \in DOMAIN a.blocks, part = <<"block", i>>
         PROVE  /\ Gathered(acc') /\ acc'.provider = First(x.provider, a.provider)
                /\ (~garbled => TextIn(acc'.text, a, z) /\ BlocksIn(acc'.blocks, a, z) /\ CallsIn(acc'.calls, a, z))
    <2>1. PICK item \in Blocks : item = BlockFragment(a.blocks[i], n + 1)
      <3>1. a.blocks[i] \in Blocks
        BY <1>8
      <3> QED
        BY <3>1, FragmentOfBlock
    <2>2. Piece(a, part, n + 1) = [Empty(a.provider) EXCEPT !.details = <<item>>]
      BY <1>11, <2>1, BlockPart, SMTT(30)
    <2>3. acc' = [x EXCEPT !.blocks = AddBlock(@, item), !.provider = First(@, a.provider)]
      <3>1. Fields(x) /\ a.provider \in Words
        BY <1>6, <1>8
      <3>2. Fold(x, ChunkToEvents([Empty(a.provider) EXCEPT !.details = <<item>>])) =
               [x EXCEPT !.blocks = AddBlock(@, item), !.provider = First(@, a.provider)]
        BY <3>1, BlockPiece
      <3>3. acc' = Fold(x, ChunkToEvents([Empty(a.provider) EXCEPT !.details = <<item>>]))
        BY <1>7, <2>2
      <3> QED
        BY <3>2, <3>3
    <2>4. Gathered(acc')
      BY <1>6, <1>8, <2>3, PutTogether
    <2>5. acc'.text = x.text /\ acc'.blocks = AddBlock(x.blocks, item) /\ acc'.calls = x.calls /\ acc'.provider = First(x.provider, a.provider)
      BY <1>6, <2>3 DEF Fields
    <2>6. ASSUME ~garbled PROVE TextIn(acc'.text, a, z) /\ BlocksIn(acc'.blocks, a, z) /\ CallsIn(acc'.calls, a, z)
      <3>1. <<"text", 1>> # part /\ z[<<"text", 1>>] = s[<<"text", 1>>]
        BY <1>9, <1>11, TextPart
      <3>2. TextIn(acc'.text, a, z)
        BY <1>6, <2>5, <2>6, <3>1 DEF TextIn
      <3>3. \A j \in DOMAIN a.calls : z[<<"call", j>>] = s[<<"call", j>>]
        BY <1>9, <1>11, CallPart
      <3>4. CallsIn(acc'.calls, a, z)
        BY <1>6, <2>5, <2>6, <3>3, CallsStay
      <3>5. BlocksFit(x.blocks) /\ BlocksIn(x.blocks, a, s)
        BY <1>6, <2>6 DEF Gathered
      <3>6. BlocksIn(AddBlock(x.blocks, BlockFragment(a.blocks[i], s[<<"block", i>>] + 1)), a, [s EXCEPT ![<<"block", i>>] = @ + 1])
        BY <1>4, <1>7, <1>11, <3>5, BlocksGrow
      <3>7. BlocksIn(acc'.blocks, a, z)
        BY <1>4, <1>7, <1>11, <2>1, <2>5, <3>6
      <3> QED
        BY <3>2, <3>4, <3>7
    <2> QED
      BY <2>4, <2>5, <2>6
  <1>12. ASSUME NEW i \in DOMAIN a.calls, part = <<"call", i>>
         PROVE  /\ Gathered(acc') /\ acc'.provider = First(x.provider, a.provider)
                /\ (~garbled => TextIn(acc'.text, a, z) /\ BlocksIn(acc'.blocks, a, z) /\ CallsIn(acc'.calls, a, z))
    <2>1. PICK frag \in ToolCalls : frag = CallFragment(a.calls[i], n + 1)
      <3>1. a.calls[i] \in ToolCalls
        BY <1>8
      <3>2. Len(a.calls[i].args) \in Nat
        BY <3>1, ACall
      <3>3. n < Len(a.calls[i].args) + 1
        BY <1>7, <1>12, CallPart
      <3>4. n + 1 \in Nat /\ n + 1 > 0 /\ n + 1 <= Len(a.calls[i].args) + 1
        BY <3>2, <3>3
      <3> QED
        BY <3>1, <3>4, FragmentOfCall
    <2>2. Piece(a, part, n + 1) = [Empty(a.provider) EXCEPT !.calls = <<frag>>]
      BY <1>12, <2>1, CallPart
    <2>3. acc' = [x EXCEPT !.calls = AddCall(@, frag), !.provider = First(@, a.provider)]
      <3>1. Fields(x) /\ a.provider \in Words
        BY <1>6, <1>8
      <3>2. Fold(x, ChunkToEvents([Empty(a.provider) EXCEPT !.calls = <<frag>>])) =
               [x EXCEPT !.calls = AddCall(@, frag), !.provider = First(@, a.provider)]
        BY <3>1, CallPiece
      <3>3. acc' = Fold(x, ChunkToEvents([Empty(a.provider) EXCEPT !.calls = <<frag>>]))
        BY <1>7, <2>2
      <3> QED
        BY <3>2, <3>3
    <2>4. Gathered(acc')
      BY <1>6, <1>8, <2>3, PutTogether
    <2>5. acc'.text = x.text /\ acc'.blocks = x.blocks /\ acc'.calls = AddCall(x.calls, frag) /\ acc'.provider = First(x.provider, a.provider)
      BY <1>6, <2>3 DEF Fields
    <2>6. ASSUME ~garbled PROVE TextIn(acc'.text, a, z) /\ BlocksIn(acc'.blocks, a, z) /\ CallsIn(acc'.calls, a, z)
      <3>1. <<"text", 1>> # part /\ z[<<"text", 1>>] = s[<<"text", 1>>]
        BY <1>9, <1>12, TextPart
      <3>2. TextIn(acc'.text, a, z)
        BY <1>6, <2>5, <2>6, <3>1 DEF TextIn
      <3>3. \A j \in DOMAIN a.blocks : z[<<"block", j>>] = s[<<"block", j>>]
        BY <1>9, <1>12, BlockPart
      <3>4. BlocksIn(acc'.blocks, a, z)
        BY <1>6, <2>5, <2>6, <3>3, BlocksStay
      <3>5. CallsIn(x.calls, a, s)
        BY <1>6, <2>6
      <3>6. CallsIn(AddCall(x.calls, CallFragment(a.calls[i], s[<<"call", i>>] + 1)), a, [s EXCEPT ![<<"call", i>>] = @ + 1])
        BY <1>4, <1>7, <1>12, <3>5, CallsGrow
      <3>7. CallsIn(acc'.calls, a, z)
        BY <1>4, <1>7, <1>12, <2>1, <2>5, <3>6
      <3> QED
        BY <3>2, <3>4, <3>7
    <2> QED
      BY <2>4, <2>5, <2>6
  <1>13. \/ part = <<"text", 1>>
         \/ \E i \in DOMAIN a.blocks : part = <<"block", i>>
         \/ \E i \in DOMAIN a.calls : part = <<"call", i>>
    BY <1>1, PartsAre
  <1> QED
    BY <1>1, <1>3, <1>5, <1>10, <1>11, <1>12, <1>13

LEMMA ChunkSteps == ASSUME StreamInv, NEW part \in Parts(answer), Chunk(part) PROVE StreamInv'
  <1>1. /\ asked' = asked /\ answer' = answer /\ ended' = ended /\ ~ended /\ garbled' = garbled
        /\ kept' = kept /\ call' = call /\ call = "streaming"
    BY DEF Chunk
  <1>2. PartsOK'
    BY OneMoreSent DEF Chunk
  <1>3. KeptOK'
    BY <1>1 DEF StreamInv, KeptOK
  <1>4. Gathered(acc')
    BY ChunkPuts
  <1>5. TogetherOK'
    <2>1. acc'.provider = First(acc.provider, answer.provider)
      BY ChunkPuts
    <2>2. acc.provider \in {NoWord, answer.provider}
      BY <1>1 DEF StreamInv, TogetherOK, EndOK
    <2>3. EndOK'
      BY <1>1, <2>1, <2>2 DEF EndOK, First
    <2>4. ~garbled => TextIn(acc'.text, answer, sent') /\ BlocksIn(acc'.blocks, answer, sent') /\ CallsIn(acc'.calls, answer, sent')
      BY ChunkPuts
    <2> QED
      BY <1>1, <2>3, <2>4 DEF TogetherOK
  <1>6. AnswerIsKept'
    BY <1>1 DEF StreamInv, AnswerIsKept
  <1>7. (asked \in Asked)' /\ (ended \in BOOLEAN)' /\ (garbled \in BOOLEAN)'
    BY <1>1 DEF StreamInv
  <1> QED
    BY <1>2, <1>3, <1>4, <1>5, <1>6, <1>7 DEF StreamInv

LEMMA LastChunkSteps == ASSUME StreamInv, LastChunk PROVE StreamInv'
  <1>1. /\ asked' = asked /\ answer' = answer /\ ended' = TRUE /\ ~ended /\ garbled' = garbled
        /\ kept' = kept /\ call' = call /\ call = "streaming" /\ sent' = sent
        /\ \A part \in Parts(answer) : sent[part] = Pieces(answer, part)
    BY DEF LastChunk
  <1>2. PICK a \in ModelAnswers : a = answer
    BY DEF StreamInv, PartsOK
  <1>3. PICK f \in Finishes : f = FinishOf(a)
    BY DEF FinishOf, Finishes
  <1>4. acc' = [acc EXCEPT !.finish = f, !.provider = First(@, a.provider), !.usage = 1]
    <2>1. acc' = Fold(acc, ChunkToEvents([Empty(a.provider) EXCEPT !.finish = f, !.usage = 1]))
      BY <1>2, <1>3 DEF LastChunk
    <2>2. Fields(acc) /\ a.provider \in Words
      BY AnswerIs DEF StreamInv, Gathered
    <2> QED
      BY <2>1, <2>2, LastPiece
  <1>5. Gathered(acc')
    BY <1>4, AnswerIs, PutTogether DEF StreamInv
  <1>6. /\ acc'.text = acc.text /\ acc'.blocks = acc.blocks /\ acc'.calls = acc.calls
        /\ acc'.finish = f /\ acc'.provider = First(acc.provider, a.provider) /\ acc'.usage = 1
    BY <1>4 DEF StreamInv, Gathered, Fields
  <1>7. PartsOK' /\ KeptOK'
    BY <1>1 DEF StreamInv, PartsOK, KeptOK
  <1>8. TogetherOK'
    <2>1. acc.provider \in {NoWord, answer.provider} /\ (~garbled => TextIn(acc.text, answer, sent)
              /\ BlocksIn(acc.blocks, answer, sent) /\ CallsIn(acc.calls, answer, sent))
      BY <1>1 DEF StreamInv, TogetherOK, EndOK
    <2>2. First(acc.provider, a.provider) = answer.provider
      BY <1>2, <2>1 DEF First
    <2>3. EndOK'
      BY <1>1, <1>2, <1>3, <1>6, <2>2 DEF EndOK, FinishOf
    <2> QED
      BY <1>1, <1>6, <2>1, <2>3 DEF TogetherOK
  <1>9. AnswerIsKept'
    BY <1>1 DEF StreamInv, AnswerIsKept
  <1>10. (asked \in Asked)' /\ (ended \in BOOLEAN)' /\ (garbled \in BOOLEAN)'
    BY <1>1 DEF StreamInv
  <1> QED
    BY <1>5, <1>7, <1>8, <1>9, <1>10 DEF StreamInv

LEMMA ClosesSteps == ASSUME StreamInv, Closes PROVE StreamInv'
  <1>1. /\ asked' = asked /\ answer' = answer /\ ended' = ended /\ garbled' = garbled /\ acc' = acc
        /\ sent' = sent /\ call = "streaming" /\ call' = "answered"
        /\ kept' = [kept EXCEPT ![Signature(asked)] = Result(acc)]
    BY DEF Closes
  <1>2. Signature(asked) \in DOMAIN kept /\ Storable(Result(acc))
    BY Gathering DEF StreamInv, KeptOK
  <1>3. kept'[Signature(asked)] = Result(acc)
    BY <1>1, <1>2
  <1>4. KeptOK'
    <2>1. DOMAIN kept' = DOMAIN kept /\ \A w \in DOMAIN kept : kept'[w] = kept[w] \/ kept'[w] = Result(acc)
      BY <1>1
    <2> QED
      BY <1>2, <2>1 DEF StreamInv, KeptOK
  <1>5. Gathered(acc') /\ PartsOK'
    BY <1>1 DEF StreamInv, PartsOK
  <1>6. EndOK /\ (~garbled => TextIn(acc.text, answer, sent) /\ BlocksIn(acc.blocks, answer, sent) /\ CallsIn(acc.calls, answer, sent))
    BY <1>1 DEF StreamInv, TogetherOK
  <1>7. TogetherOK'
    <2>1. EndOK'
      BY <1>1, <1>6 DEF EndOK
    <2> QED
      BY <1>1, <1>6, <2>1 DEF TogetherOK
  <1>8. ASSUME ended, ~garbled PROVE Whole(Result(acc))
    <2>1. PICK a \in ModelAnswers : a = answer
      BY DEF StreamInv, PartsOK
    <2>2. Complete(a, sent)
      BY <1>6, <1>8, <2>1 DEF EndOK, Complete
    <2>3. acc.text = a.text
      BY <1>6, <1>8, <2>1, <2>2, TextDone
    <2>4. Range(acc.blocks) = Range(a.blocks) /\ Len(acc.blocks) = Len(a.blocks)
      BY <1>6, <1>8, <2>1, <2>2, BlocksDone
    <2>5. InOrder(Lined(acc.calls), a.calls)
      BY <1>6, <1>8, <2>1, <2>2, CallsDone DEF StreamInv, Gathered
    <2>6. PICK r : r = Result(acc)
      OBVIOUS
    <2>7. /\ r.text = acc.text /\ r.blocks = acc.blocks /\ r.calls = Lined(acc.calls)
          /\ r.finish = acc.finish /\ r.provider = acc.provider /\ r.usage = acc.usage
      BY <2>6, ResultIs DEF StreamInv, Gathered, Fields
    <2> QED
      BY <1>6, <1>8, <2>1, <2>3, <2>4, <2>5, <2>6, <2>7 DEF Whole, EndOK
  <1>9. AnswerIsKept'
    <2>1. ended' /\ ~garbled' => Whole(Result(acc))'
      BY <1>1, <1>8 DEF Whole
    <2> QED
      BY <1>1, <1>3, <2>1 DEF AnswerIsKept
  <1>10. (asked \in Asked)' /\ (ended \in BOOLEAN)' /\ (garbled \in BOOLEAN)'
    BY <1>1 DEF StreamInv
  <1> QED
    BY <1>4, <1>5, <1>7, <1>9, <1>10 DEF StreamInv

LEMMA StreamSteps == StreamInv /\ [StreamNext]_streamVars => StreamInv'
  <1>1. SUFFICES ASSUME StreamInv, [StreamNext]_streamVars PROVE StreamInv'
    OBVIOUS
  <1>2. ASSUME NEW r \in Asked, Hit(r) PROVE StreamInv'
    BY <1>1, <1>2, HitSteps
  <1>3. ASSUME NEW r \in Asked, NEW a \in ModelAnswers, Miss(r, a) PROVE StreamInv'
    BY <1>1, <1>3, MissSteps
  <1>4. ASSUME NEW failure, Refused(failure) PROVE StreamInv'
    BY <1>1, <1>4, EndsSteps DEF Refused, Fails
  <1>5. ASSUME NEW part \in Parts(answer), Chunk(part) PROVE StreamInv'
    BY <1>1, <1>5, ChunkSteps
  <1>6. ASSUME NEW part \in Parts(answer), Garbled(part) PROVE StreamInv'
    BY <1>1, <1>6, GarbledSteps
  <1>7. CASE LastChunk
    BY <1>1, <1>7, LastChunkSteps
  <1>8. CASE Breaks
    BY <1>1, <1>8, EndsSteps DEF Breaks, Fails
  <1>9. CASE Closes
    BY <1>1, <1>9, ClosesSteps
  <1>10. CASE PutFails
    BY <1>1, <1>10, EndsSteps DEF PutFails, Fails
  <1>11. CASE Leaves
    BY <1>1, <1>11, EndsSteps DEF Leaves
  <1>12. CASE UNCHANGED streamVars
    BY <1>1, <1>12 DEF streamVars, StreamInv, PartsOK, TogetherOK, EndOK, KeptOK, AnswerIsKept, Whole
  <1> QED
    BY <1>1, <1>2, <1>3, <1>4, <1>5, <1>6, <1>7, <1>8, <1>9, <1>10, <1>11, <1>12 DEF StreamNext

(* Whatever is sent, lost, refused or left, and whatever was kept before.  *)
THEOREM StreamInvariant == StreamSpec => []StreamInv
  BY StreamStarts, StreamSteps, PTL DEF StreamSpec

(* An answer is put together as the provider gave it, however its fragments*)
(* were interleaved; what is kept of it is what it was, and what broke off *)
(* is not kept.                                                            *)
THEOREM AnswersComeWhole == StreamSpec => []AnswerIsKept
  <1>1. StreamInv => AnswerIsKept
    BY DEF StreamInv
  <1> QED
    BY <1>1, StreamInvariant, PTL

-----------------------------------------------------------------------------
(* What holds of Tasks for any number of commands, any overlap and any     *)
(* configurations.  Life says of one task where its child, its record, its *)
(* clocks and its result stand together; every step keeps it.              *)

Unborn(t) ==
    /\ status[t] = "none" /\ killReason[t] = "none" /\ exitCode[t] = "none" /\ ~done[t]
    /\ ~callTimer[t] /\ ~watchTimer[t] /\ ~asking[t] /\ result[t] = "nothing"

Working(t) ==
    /\ status[t] \in {"running", "killed"} /\ ~done[t] /\ result[t] = "nothing"
    /\ exitCode[t] = "none"

Over(t) ==
    /\ status[t] \in {"exited", "killed"} /\ done[t] /\ ~callTimer[t] /\ ~watchTimer[t]
    /\ status[t] = "exited" => exitCode[t] \in ExitCodes /\ result[t] = exitCode[t]
    /\ status[t] = "killed" => result[t] = killReason[t]

Life(t) ==
    /\ proc[t] = "none" => Unborn(t)
    /\ proc[t] \in {"alive", "held", "over"} => Working(t)
    /\ proc[t] \in {"failed", "closed"} => Over(t)
    /\ killReason[t] # "none" <=> status[t] = "killed"
    /\ watchTimer[t] => ~asking[t]

TaskInv == TypeOK /\ \A t \in Tasks : Life(t)

USE DEF ProcStates, Results, Reasons, ExitCodes

-----------------------------------------------------------------------------
(* The three operators the handlers are built from                         *)

LEMMA KillType ==
    ASSUME TypeOK, NEW S \in SUBSET Tasks, NEW reason \in Reasons, Kill(S, reason)
    PROVE  /\ proc' \in [Tasks -> ProcStates]
           /\ status' \in [Tasks -> {"none", "running", "exited", "killed"}]
           /\ killReason' \in [Tasks -> {"none"} \cup Reasons]
           /\ exitCode' = exitCode /\ done' = done
  BY DEF TypeOK, Kill

(* Only a working task is hit, and it goes on working.                     *)
LEMMA KillSpares ==
    ASSUME TypeOK, NEW S \in SUBSET Tasks, NEW reason \in Reasons, Kill(S, reason),
           NEW t \in Tasks, Life(t)
    PROVE  \/ /\ proc[t] \in {"alive", "held", "over"} /\ proc'[t] \in {"alive", "held", "over"}
              /\ status'[t] = "killed" /\ killReason'[t] = reason /\ status[t] = "running"
           \/ proc'[t] = proc[t] /\ status'[t] = status[t] /\ killReason'[t] = killReason[t]
  <1>1. CASE t \in S /\ Killable(t)
    BY <1>1 DEF TypeOK, Kill, Killable, Life, Unborn, Working, Over
  <1>2. CASE ~(t \in S /\ Killable(t))
    BY <1>2 DEF TypeOK, Kill
  <1> QED
    BY <1>1, <1>2

LEMMA KillKeepsLife ==
    ASSUME TypeOK, NEW S \in SUBSET Tasks, NEW reason \in Reasons, Kill(S, reason),
           NEW t \in Tasks, Life(t), result' = result,
           callTimer'[t] => callTimer[t],
           asking'[t] => asking[t], watchTimer'[t] => watchTimer[t]
    PROVE  Life(t)'
  <1>1. exitCode' = exitCode /\ done' = done
    BY DEF Kill
  <1> QED
    BY <1>1, KillSpares DEF TypeOK, Life, Unborn, Working, Over

LEMMA InitType == Init => TaskInv
  BY WatchAssumption DEF Init, TaskInv, TypeOK, Life, Unborn

-----------------------------------------------------------------------------
(* Each handler keeps the invariant.                                       *)

LEMMA BirthKeeps ==
    ASSUME TaskInv, NEW t \in Tasks, Start(t) \/ SpawnFails(t)
    PROVE  TaskInv'
  <1>1. proc[t] = "none" /\ Unborn(t)
    BY DEF Start, SpawnFails, TaskInv, Life
  <1>2. CASE Start(t)
    <2>1. TypeOK'
      BY <1>2, ZenonT(60) DEF TaskInv, TypeOK, Start
    <2>2. ASSUME NEW u \in Tasks PROVE Life(u)'
      BY <1>1, <1>2, <2>1 DEF TaskInv, TypeOK, Start, Life, Unborn, Working, Over
    <2> QED
      BY <2>1, <2>2 DEF TaskInv
  <1>3. CASE SpawnFails(t)
    <2>1. TypeOK'
      BY <1>1, <1>3 DEF TaskInv, TypeOK, SpawnFails, Finish, Disarm, Unborn
    <2>2. ASSUME NEW u \in Tasks PROVE Life(u)'
      BY <1>1, <1>3, <2>1 DEF TaskInv, TypeOK, SpawnFails, Finish, Disarm, Life, Unborn, Working, Over
    <2> QED
      BY <2>1, <2>2 DEF TaskInv
  <1> QED
    BY <1>2, <1>3

LEMMA ChildKeeps ==
    ASSUME TaskInv, NEW t \in Tasks, ChildExits(t) \/ PipesClose(t)
    PROVE  TaskInv'
  <1>1. TypeOK'
    BY DEF TaskInv, TypeOK, ChildExits, PipesClose, registryVars, timerVars
  <1>2. ASSUME NEW u \in Tasks PROVE Life(u)'
    BY <1>1 DEF TaskInv, TypeOK, ChildExits, PipesClose, registryVars, timerVars, Life, Unborn, Working, Over
  <1> QED
    BY <1>1, <1>2 DEF TaskInv

LEMMA CloseKeeps ==
    ASSUME TaskInv, NEW t \in Tasks, Closed(t)
    PROVE  TaskInv'
  <1>1. PICK code \in ExitCodes :
             /\ Finish(t, code)
             /\ result' = [result EXCEPT ![t] = IF @ = "nothing" THEN Note(t, code) ELSE @]
    BY DEF Closed
  <1>2. TypeOK'
    <2>1. result' \in [Tasks -> Results] /\ proc' \in [Tasks -> ProcStates]
      BY <1>1 DEF TaskInv, TypeOK, Closed, Note, Life
    <2>2. CASE done[t]
      BY <1>1, <2>1, <2>2 DEF TaskInv, TypeOK, Closed, Finish
    <2>3. CASE ~done[t]
      <3>1. /\ done' = [done EXCEPT ![t] = TRUE]
            /\ status' = [status EXCEPT ![t] = IF @ # "killed" THEN "exited" ELSE @]
            /\ exitCode' = [exitCode EXCEPT ![t] = IF status[t] # "killed" THEN code ELSE @]
            /\ watchTimer' = [watchTimer EXCEPT ![t] = FALSE]
        BY <1>1, <2>3 DEF Finish, Disarm
      <3> QED
        BY <3>1, <2>1 DEF TaskInv, TypeOK, Closed
    <2> QED
      BY <2>2, <2>3
  <1>3. ASSUME NEW u \in Tasks PROVE Life(u)'
    <2>1. CASE u # t
      BY <1>1, <1>2, <2>1 DEF TaskInv, TypeOK, Closed, Finish, Disarm, Life, Unborn, Working, Over
    <2>2. CASE u = t /\ proc[t] = "over"
      BY <1>1, <1>2, <2>2 DEF TaskInv, TypeOK, Closed, Finish, Disarm, Note, Life, Unborn, Working, Over
    <2>3. CASE u = t /\ proc[t] = "failed"
      BY <1>1, <1>2, <2>3 DEF TaskInv, TypeOK, Closed, Finish, Disarm, Note, Life, Unborn, Working, Over
    <2> QED
      BY <2>1, <2>2, <2>3 DEF Closed
  <1> QED
    BY <1>2, <1>3 DEF TaskInv

LEMMA KillersKeep ==
    ASSUME TaskInv,
           StopHard \/ \E t \in Tasks : CallTimesOut(t) \/ KillTask(t)
    PROVE  TaskInv'
  <1>1. PICK S \in SUBSET Tasks, reason \in Reasons : Kill(S, reason)
    <2>1. CASE StopHard
      BY <2>1 DEF StopHard
    <2>2. CASE \E t \in Tasks : CallTimesOut(t) \/ KillTask(t)
      BY <2>2 DEF CallTimesOut, KillTask
    <2> QED
      BY <2>1, <2>2
  <1>2. /\ result' = result /\ watch' = watch /\ asking' = asking /\ watchTimer' = watchTimer
        /\ callTimer' \in [Tasks -> BOOLEAN] /\ \A t \in Tasks : callTimer'[t] => callTimer[t]
    <2>1. CASE StopHard
      BY <2>1 DEF TaskInv, TypeOK, StopHard, timerVars
    <2>2. ASSUME NEW t \in Tasks, CallTimesOut(t) \/ KillTask(t)
          PROVE  /\ result' = result /\ watch' = watch /\ asking' = asking /\ watchTimer' = watchTimer
                 /\ callTimer' \in [Tasks -> BOOLEAN] /\ \A u \in Tasks : callTimer'[u] => callTimer[u]
      BY <2>2, ZenonT(60) DEF TaskInv, TypeOK, CallTimesOut, KillTask, timerVars
    <2> QED
      BY <2>1, <2>2
  <1>3. TypeOK'
    BY <1>1, <1>2, KillType DEF TaskInv, TypeOK
  <1>4. ASSUME NEW u \in Tasks PROVE Life(u)'
    BY <1>1, <1>2, KillKeepsLife DEF TaskInv
  <1> QED
    BY <1>3, <1>4 DEF TaskInv

LEMMA WatchKeeps ==
    ASSUME TaskInv, NEW t \in Tasks, WatchdogCheck(t) \/ WatchdogAnswers(t)
    PROVE  TaskInv'
  <1>1. CASE WatchdogCheck(t)
    <2>1. TypeOK'
      BY <1>1 DEF TaskInv, TypeOK, WatchdogCheck, registryVars
    <2>2. ASSUME NEW u \in Tasks PROVE Life(u)'
      BY <1>1, <2>1 DEF TaskInv, TypeOK, WatchdogCheck, registryVars, Life, Unborn, Working, Over
    <2> QED
      BY <2>1, <2>2 DEF TaskInv
  <1>2. CASE WatchdogAnswers(t) /\ Kill({t}, "watchdog") /\ UNCHANGED watchTimer
    <2>1. TypeOK'
      BY <1>2, KillType DEF TaskInv, TypeOK, WatchdogAnswers
    <2>2. {t} \in SUBSET Tasks /\ "watchdog" \in Reasons /\ Kill({t}, "watchdog")
      BY <1>2
    <2>3. ASSUME NEW u \in Tasks PROVE Life(u)'
      <3>1. TypeOK /\ Life(u)
        BY DEF TaskInv
      <3>2. /\ result' = result /\ (callTimer'[u] => callTimer[u])
            /\ (asking'[u] => asking[u]) /\ (watchTimer'[u] => watchTimer[u])
        BY <1>2 DEF TaskInv, TypeOK, WatchdogAnswers
      <3>3. \E S \in SUBSET Tasks, reason \in Reasons : Kill(S, reason)
        <4> WITNESS {t} \in SUBSET Tasks, "watchdog" \in Reasons
        <4> QED
          BY <2>2
      <3> QED
        BY <3>1, <3>2, <3>3, KillKeepsLife
    <2> QED
      BY <2>1, <2>3 DEF TaskInv
  <1>3. CASE /\ WatchdogAnswers(t) /\ UNCHANGED <<proc, registryVars>>
             /\ UNCHANGED watchTimer \/ (~EndedMeanwhile(t) /\ ArmWatchdog(t))
    <2>1. TypeOK'
      BY <1>3 DEF TaskInv, TypeOK, WatchdogAnswers, ArmWatchdog, registryVars
    <2>2. ASSUME NEW u \in Tasks PROVE Life(u)'
      BY <1>3, <2>1 DEF TaskInv, TypeOK, WatchdogAnswers, ArmWatchdog, EndedMeanwhile, registryVars,
                        Life, Unborn, Working, Over
    <2> QED
      BY <2>1, <2>2 DEF TaskInv
  <1> QED
    BY <1>1, <1>2, <1>3 DEF WatchdogAnswers

LEMMA TaskStep == TaskInv /\ [Next]_vars => TaskInv'
  <1> SUFFICES ASSUME TaskInv, [Next]_vars PROVE TaskInv'
    OBVIOUS
  <1>1. CASE AdoptConfig
    BY <1>1, WatchAssumption
       DEF TaskInv, TypeOK, AdoptConfig, registryVars, timerVars, Life, Unborn, Working, Over
  <1>2. CASE UNCHANGED vars
    BY <1>2 DEF TaskInv, TypeOK, vars, registryVars, timerVars, Life, Unborn, Working, Over
  <1> QED
    BY <1>1, <1>2, BirthKeeps, ChildKeeps, CloseKeeps, KillersKeep, WatchKeeps DEF Next

LEMMA TaskInvariance == Spec => []TaskInv
  <1> QED
    BY InitType, TaskStep, PTL DEF Spec

(* Every variable keeps its type.                                          *)
THEOREM TasksTypeCorrect == Spec => []TypeOK
  <1>1. TaskInv => TypeOK
    BY DEF TaskInv
  <1> QED
    BY TaskInvariance, <1>1, PTL

(* One clock at most per task, none on a task that ended.                  *)
THEOREM ClocksInStep == Spec => []OneClock
  <1>1. TaskInv => OneClock
    BY DEF TaskInv, TypeOK, OneClock, Life, Unborn, Working, Over
  <1> QED
    BY TaskInvariance, <1>1, PTL

-----------------------------------------------------------------------------
(* What a step does to the record of one task: nothing, or one of these.   *)

Record(t) == <<status[t], killReason[t], exitCode[t], result[t]>>
BornNow(t)   == Unborn(t) /\ status'[t] = "running" /\ result'[t] = "nothing"
FailedNow(t) == Unborn(t) /\ status'[t] = "exited" /\ exitCode'[t] = "null" /\ result'[t] = "null"
KilledNow(t) ==
    /\ status[t] = "running" /\ status'[t] = "killed" /\ killReason'[t] \in Reasons
    /\ result[t] = "nothing" /\ result'[t] = "nothing"
ReturnsNow(t) ==
    /\ result[t] = "nothing" /\ killReason'[t] = killReason[t]
    /\ \/ status[t] = "running" /\ status'[t] = "exited" /\ exitCode'[t] \in ExitCodes /\ result'[t] = exitCode'[t]
       \/ status[t] = "killed" /\ status'[t] = "killed" /\ result'[t] = killReason[t] /\ killReason[t] \in Reasons
Moves(t) == Record(t)' = Record(t) \/ BornNow(t) \/ FailedNow(t) \/ KilledNow(t) \/ ReturnsNow(t)

LEMMA KillMoves ==
    ASSUME TypeOK, NEW S \in SUBSET Tasks, NEW reason \in Reasons, Kill(S, reason),
           result' = result, NEW t \in Tasks, Life(t)
    PROVE  Moves(t)
  <1>1. exitCode' = exitCode
    BY DEF Kill
  <1> QED
    BY <1>1, KillSpares DEF Moves, Record, KilledNow, Life, Working

LEMMA BirthMoves ==
    ASSUME TaskInv, NEW b \in Tasks, Start(b) \/ SpawnFails(b), NEW t \in Tasks
    PROVE  Moves(t)
  <1>1. proc[b] = "none" /\ Unborn(b)
    BY DEF Start, SpawnFails, TaskInv, Life
  <1>2. CASE t = b
    BY <1>1, <1>2 DEF TaskInv, TypeOK, Start, SpawnFails, Finish, Disarm, Unborn, Moves, BornNow, FailedNow
  <1>3. CASE t # b
    BY <1>1, <1>3 DEF TaskInv, TypeOK, Start, SpawnFails, Finish, Disarm, Unborn, Moves, Record
  <1> QED
    BY <1>2, <1>3

LEMMA CloseMoves ==
    ASSUME TaskInv, NEW c \in Tasks, Closed(c), NEW t \in Tasks
    PROVE  Moves(t)
  <1>1. PICK code \in ExitCodes :
             /\ Finish(c, code)
             /\ result' = [result EXCEPT ![c] = IF @ = "nothing" THEN Note(c, code) ELSE @]
    BY DEF Closed
  <1>2. CASE t # c
    BY <1>1, <1>2 DEF TaskInv, TypeOK, Closed, Finish, Disarm, Moves, Record
  <1>3. CASE t = c /\ proc[c] = "over"
    <2>1. Working(c) /\ (killReason[c] # "none" <=> status[c] = "killed")
      BY <1>3 DEF TaskInv, Life
    <2>2. ReturnsNow(c)
      BY <1>1, <2>1 DEF TaskInv, TypeOK, Closed, Finish, Disarm, Note, Working, ReturnsNow
    <2> QED
      BY <1>3, <2>2 DEF Moves
  <1>4. CASE t = c /\ proc[c] = "failed"
    <2>1. done[c] /\ result[c] # "nothing"
      BY <1>4 DEF TaskInv, TypeOK, Life, Over
    <2> QED
      BY <1>1, <1>4, <2>1 DEF TaskInv, TypeOK, Closed, Finish, Moves, Record
  <1> QED
    BY <1>2, <1>3, <1>4 DEF Closed

LEMMA WatchMoves ==
    ASSUME TaskInv, NEW w \in Tasks, WatchdogAnswers(w), NEW t \in Tasks
    PROVE  Moves(t)
  <1>1. TypeOK /\ Life(t) /\ result' = result
    BY DEF TaskInv, WatchdogAnswers
  <1>2. CASE UNCHANGED registryVars
    BY <1>1, <1>2 DEF registryVars, Moves, Record
  <1>3. CASE Kill({w}, "watchdog")
    <2>1. \E S \in SUBSET Tasks, reason \in Reasons : Kill(S, reason)
      <3> WITNESS {w} \in SUBSET Tasks, "watchdog" \in Reasons
      <3> QED
        BY <1>3
    <2> QED
      BY <1>1, <2>1, KillMoves
  <1> QED
    BY <1>2, <1>3 DEF WatchdogAnswers

LEMMA PersonMoves ==
    ASSUME TaskInv, StopHard \/ \E k \in Tasks : CallTimesOut(k) \/ KillTask(k), NEW t \in Tasks
    PROVE  Moves(t)
  <1>1. \E S \in SUBSET Tasks, reason \in Reasons : Kill(S, reason)
    <2>1. CASE StopHard
      BY <2>1 DEF StopHard
    <2>2. CASE \E k \in Tasks : CallTimesOut(k) \/ KillTask(k)
      BY <2>2 DEF CallTimesOut, KillTask
    <2> QED
      BY <2>1, <2>2
  <1>2. TypeOK /\ Life(t) /\ result' = result
    BY DEF TaskInv, StopHard, CallTimesOut, KillTask
  <1> QED
    BY <1>1, <1>2, KillMoves

LEMMA EveryStepMoves ==
    ASSUME TaskInv, [Next]_vars, NEW t \in Tasks
    PROVE  Moves(t)
  <1>1. CASE AdoptConfig \/ UNCHANGED vars
    BY <1>1 DEF AdoptConfig, vars, registryVars, Moves, Record
  <1>2. CASE \E u \in Tasks : ChildExits(u) \/ PipesClose(u) \/ WatchdogCheck(u)
    BY <1>2 DEF ChildExits, PipesClose, WatchdogCheck, registryVars, Moves, Record
  <1> QED
    BY <1>1, <1>2, BirthMoves, CloseMoves, WatchMoves, PersonMoves DEF Next

(* Each command ends for one reason that is decided once, and run_command  *)
(* tells the model that reason.                                            *)
THEOREM TasksImplementVerdict == Spec => ImplementsTaskVerdict
  <1>1. Init => Promise!Init
    BY DEF Init, Promise!Init, Verdict
  <1>2. TaskInv /\ [Next]_vars => [Promise!Next]_(Promise!verdictVars)
    <2> SUFFICES ASSUME TaskInv, [Next]_vars PROVE Promise!Next
      OBVIOUS
    <2>1. ASSUME NEW t \in Tasks PROVE Promise!Decided(t) /\ Promise!Told(t)
      <3>1. Moves(t) /\ Life(t) /\ Life(t)' /\ TypeOK /\ TypeOK'
        BY EveryStepMoves, TaskStep DEF TaskInv
      <3>2. /\ [u \in Tasks |-> Verdict(u)][t] = Verdict(t)
            /\ ([u \in Tasks |-> Verdict(u)]')[t] = Verdict(t)'
        OBVIOUS
      <3>3. CASE Record(t)' = Record(t)
        BY <3>2, <3>3 DEF Record, Verdict, Promise!Decided, Promise!Told
      <3>4. CASE BornNow(t)
        BY <3>2, <3>4 DEF BornNow, Unborn, Verdict, Promise!Decided, Promise!Told
      <3>5. CASE FailedNow(t)
        BY <3>2, <3>5 DEF FailedNow, Unborn, Verdict, Promise!Decided, Promise!Told
      <3>6. CASE KilledNow(t)
        BY <3>2, <3>6 DEF KilledNow, Verdict, Promise!Decided, Promise!Told
      <3>7. CASE ReturnsNow(t)
        BY <3>2, <3>7 DEF ReturnsNow, Verdict, Promise!Decided, Promise!Told
      <3> QED
        BY <3>1, <3>3, <3>4, <3>5, <3>6, <3>7 DEF Moves
    <2> QED
      BY <2>1 DEF Promise!Next
  <1> QED
    BY <1>1, <1>2, TaskInvariance, PTL DEF Spec, ImplementsTaskVerdict, Promise!Spec

(* While the watchdog is on, a running command under watch stays under it. *)
THEOREM WatchKeepsUp == Spec => NeverSlipsOut
  <1> DEFINE Kept == \A t \in Tasks : Watched(t) /\ status'[t] = "running" /\ watch => Watched(t)'
  <1>1. TaskInv /\ [Next]_vars => Kept
    <2> SUFFICES ASSUME TaskInv, [Next]_vars, NEW t \in Tasks, Watched(t), status'[t] = "running", watch
                 PROVE  Watched(t)'
      OBVIOUS
    <2>1. CASE \E u \in Tasks : ChildExits(u) \/ PipesClose(u) \/ CallTimesOut(u) \/ KillTask(u)
      BY <2>1 DEF Watched, ChildExits, PipesClose, CallTimesOut, KillTask, timerVars
    <2>2. CASE StopHard \/ AdoptConfig \/ UNCHANGED vars
      BY <2>2 DEF Watched, StopHard, AdoptConfig, vars, timerVars
    <2>3. ASSUME NEW u \in Tasks, Start(u) \/ SpawnFails(u) PROVE Watched(t)'
      <3>1. u # t
        BY <2>3 DEF TaskInv, Life, Unborn, Watched, Start, SpawnFails
      <3>2. CASE Start(u)
        BY <3>1, <3>2 DEF TaskInv, TypeOK, Watched, Start
      <3>3. CASE SpawnFails(u)
        BY <3>1, <3>3 DEF TaskInv, TypeOK, Watched, SpawnFails, Finish, Disarm
      <3> QED
        BY <2>3, <3>2, <3>3
    <2>4. ASSUME NEW u \in Tasks, Closed(u) PROVE Watched(t)'
      <3>1. CASE u # t
        BY <2>4, <3>1 DEF TaskInv, TypeOK, Watched, Closed, Finish, Disarm
      <3>2. CASE u = t /\ done[t]
        BY <2>4, <3>2 DEF TaskInv, TypeOK, Watched, Closed, Finish
      <3>3. CASE u = t /\ ~done[t]
        BY <2>4, <3>3 DEF TaskInv, TypeOK, Closed, Finish
      <3> QED
        BY <3>1, <3>2, <3>3
    <2>5. ASSUME NEW u \in Tasks, WatchdogCheck(u) PROVE Watched(t)'
      BY <2>5 DEF TaskInv, TypeOK, Watched, WatchdogCheck, registryVars
    <2>6. ASSUME NEW u \in Tasks, WatchdogAnswers(u) PROVE Watched(t)'
      <3>1. CASE u # t
        BY <2>6, <3>1 DEF TaskInv, TypeOK, Watched, WatchdogAnswers, ArmWatchdog
      <3>2. CASE u = t /\ EndedMeanwhile(t)
        BY <2>6, <3>2 DEF TaskInv, TypeOK, EndedMeanwhile, WatchdogAnswers, registryVars
      <3>3. CASE u = t /\ Kill({t}, "watchdog") /\ ~EndedMeanwhile(t)
        BY <3>3 DEF TaskInv, TypeOK, EndedMeanwhile, Kill, Killable, Life, Unborn, Working, Over
      <3>4. CASE u = t /\ ArmWatchdog(t)
        BY <3>4 DEF TaskInv, TypeOK, Watched, ArmWatchdog
      <3> QED
        BY <2>6, <3>1, <3>2, <3>3, <3>4 DEF WatchdogAnswers
    <2> QED
      BY <2>1, <2>2, <2>3, <2>4, <2>5, <2>6 DEF Next
  <1>2. Kept => [\A t \in Tasks : Watched(t) /\ status'[t] = "running" /\ watch => Watched(t)']_vars
    OBVIOUS
  <1> QED
    BY <1>1, <1>2, TaskInvariance, PTL DEF Spec, NeverSlipsOut

HIDE DEF ProcStates, Results, Reasons, ExitCodes

-----------------------------------------------------------------------------
(* What holds of Speech for any keys, any number of looks and any number of*)
(* reads.  ReadInv says what is armed and what the engine holds while a    *)
(* read settles, while it is under way, and when there is none.            *)

Silent   == current = None /\ timers = {} /\ queued = {} /\ voice = None
Settling ==
    /\ current \in Keys /\ gen # 0
    /\ \E kind \in {"settle", "drain"} : timers = {Timer(kind)}
    /\ queued = {} /\ voice = None
UnderWay ==
    /\ current \in Keys
    /\ timers = Watchdogs \/ timers = Watchdogs \ {Timer("start")}
    /\ queued \subseteq {gen} /\ voice \in {None, gen}

ReadInv == SpeechTypeOK /\ (Silent \/ Settling \/ UnderWay)

USE TriesAssumption, KeysAssumption, GenAssumption DEF speaker, engine, Kinds, Timer

LEMMA SpeechInitHolds == SpeechInit => ReadInv
  <1> SUFFICES ASSUME SpeechInit  PROVE SpeechTypeOK /\ Silent
    BY DEF ReadInv
  <1>1. gen \in Nat /\ tries \in 0..CancelSettleTries
    BY DEF SpeechInit
  <1>2. timers \subseteq [kind : Kinds, mine : 0..gen]
    BY Zenon DEF SpeechInit
  <1> QED
    BY <1>1, <1>2 DEF SpeechInit, SpeechTypeOK, Silent

(* stop leaves nothing armed and nothing heard.                            *)
LEMMA StopSilences ==
    ASSUME ReadInv, PutBack, Cancelled, UNCHANGED <<gesture, tries, started>>
    PROVE  ReadInv'
  BY DEF ReadInv, SpeechTypeOK, PutBack, Cancelled, Silent

LEMMA SpeakSettles ==
    ASSUME ReadInv, NEW key \in Keys, Speak(key), gesture' \in BOOLEAN
    PROVE  ReadInv'
  <1>1. SpeechTypeOK'
    BY DEF ReadInv, SpeechTypeOK, Speak, SettlesFirst, Cancelled
  <1>2. Settling'
    BY DEF Speak, SettlesFirst, Cancelled, Settling, ReadInv, SpeechTypeOK
  <1> QED
    BY <1>1, <1>2 DEF ReadInv

LEMMA PersonKeeps ==
    ASSUME ReadInv,
           \/ \E key \in Keys : Toggle(key) \/ ReadAloud(key)
           \/ Arm \/ Hush
    PROVE  ReadInv'
  <1>1. ASSUME NEW key \in Keys, Toggle(key)  PROVE ReadInv'
    <2>1. CASE Speak(key)
      BY <1>1, <2>1, SpeakSettles DEF Toggle
    <2>2. CASE PutBack /\ Cancelled /\ UNCHANGED <<tries, started>>
      BY <1>1, <2>2 DEF Toggle, ReadInv, SpeechTypeOK, PutBack, Cancelled, Silent
    <2> QED
      BY <1>1, <2>1, <2>2 DEF Toggle
  <1>2. ASSUME NEW key \in Keys, ReadAloud(key)  PROVE ReadInv'
    BY <1>2, SpeakSettles DEF ReadAloud, ReadInv, SpeechTypeOK
  <1>3. CASE Arm
    BY <1>3 DEF Arm, ReadInv, SpeechTypeOK, Silent, Settling, UnderWay, Watchdogs
  <1>4. CASE Hush
    BY <1>4, StopSilences DEF Hush, StopsAndCancels
  <1> QED
    BY <1>1, <1>2, <1>3, <1>4

(* The engine is looked at only while a read settles.                      *)
LEMMA LookingSettles ==
    ASSUME ReadInv, NEW t \in Looking
    PROVE  Settling /\ timers = {t} /\ t.mine = gen
  BY DEF ReadInv, Looking, Silent, Settling, UnderWay, Watchdogs

LEMMA DrainKeeps ==
    ASSUME ReadInv, StillBusy \/ HandsOver \/ EngineThrows
    PROVE  ReadInv'
  <1>1. CASE StillBusy
    <2> PICK t \in Looking : timers' = (timers \ {t}) \cup {Timer("drain")}
      BY <1>1 DEF StillBusy
    <2>1. Settling /\ timers = {t}
      BY LookingSettles
    <2>2. Settling'
      BY <1>1, <2>1 DEF StillBusy, Settling
    <2> QED
      BY <1>1, <2>2 DEF StillBusy, MayWait, ReadInv, SpeechTypeOK
  <1>2. CASE HandsOver
    <2> PICK t \in Looking : timers' = (timers \ {t}) \cup Watchdogs
      BY <1>2 DEF HandsOver
    <2>1. Settling /\ timers = {t} /\ gen \in Nat
      BY LookingSettles DEF ReadInv, SpeechTypeOK
    <2>2. gen \in 1..gen
      BY <2>1 DEF Settling
    <2>3. UnderWay'
      BY <1>2, <2>1 DEF HandsOver, Settling, UnderWay, Watchdogs
    <2>4. Watchdogs \subseteq [kind : Kinds, mine : 0..gen]
      BY <2>1 DEF Watchdogs
    <2>5. SpeechTypeOK'
      BY <1>2, <2>1, <2>2, <2>4 DEF HandsOver, ReadInv, SpeechTypeOK
    <2> QED
      BY <2>3, <2>5 DEF ReadInv
  <1>3. CASE EngineThrows
    BY <1>3, LookingSettles DEF EngineThrows, PutBack, Settling, Silent, ReadInv, SpeechTypeOK
  <1> QED
    BY <1>1, <1>2, <1>3

LEMMA WatchdogsKeep ==
    ASSUME ReadInv, NeverBegan \/ BeganInTime \/ NeverEnded \/ KeepAlive
    PROVE  ReadInv'
  <1>1. CASE NeverBegan \/ NeverEnded
    BY <1>1, StopSilences DEF NeverBegan, NeverEnded, StopsAndCancels
  <1>2. CASE BeganInTime
    <2>1. UnderWay
      BY <1>2 DEF BeganInTime, ReadInv, Silent, Settling
    <2>2. UnderWay'
      BY <1>2, <2>1 DEF BeganInTime, UnderWay, Watchdogs
    <2> QED
      BY <1>2, <2>2 DEF BeganInTime, ReadInv, SpeechTypeOK
  <1>3. CASE KeepAlive
    BY <1>3 DEF KeepAlive, ReadInv, SpeechTypeOK, Silent, Settling, UnderWay, Watchdogs
  <1> QED
    BY <1>1, <1>2, <1>3

LEMMA EngineKeeps ==
    ASSUME ReadInv,
           \/ \E g \in owing : Begins(g) \/ Terminal(g) \/ Drops(g)
           \/ Pauses
    PROVE  ReadInv'
  <1>1. ASSUME NEW g \in owing, Begins(g)  PROVE ReadInv'
    <2>1. UnderWay /\ g = gen /\ g \in 1..gen
      BY <1>1 DEF Begins, ReadInv, SpeechTypeOK, Silent, Settling, UnderWay
    <2>2. UnderWay'
      BY <1>1, <2>1 DEF Begins, UnderWay, Watchdogs
    <2> QED
      BY <1>1, <2>1, <2>2 DEF Begins, ReadInv, SpeechTypeOK
  <1>2. ASSUME NEW g \in owing, Terminal(g)  PROVE ReadInv'
    <2>1. CASE g = gen
      BY <1>2, <2>1 DEF Terminal, Mine, PutBack, ReadInv, SpeechTypeOK, Silent, Settling, UnderWay
    <2>2. CASE g # gen
      BY <1>2, <2>2 DEF Terminal, Mine, ReadInv, SpeechTypeOK, Silent, Settling, UnderWay, Watchdogs
    <2> QED
      BY <2>1, <2>2
  <1>3. ASSUME NEW g \in owing, Drops(g)  PROVE ReadInv'
    BY <1>3 DEF Drops, ReadInv, SpeechTypeOK, Silent, Settling, UnderWay, Watchdogs
  <1>4. CASE Pauses
    BY <1>4 DEF Pauses, ReadInv, SpeechTypeOK, Silent, Settling, UnderWay, Watchdogs
  <1> QED
    BY <1>1, <1>2, <1>3, <1>4

LEMMA SpeechStep == ReadInv /\ [SpeechNext]_speechVars => ReadInv'
  <1> SUFFICES ASSUME ReadInv, [SpeechNext]_speechVars  PROVE ReadInv'
    OBVIOUS
  <1>1. CASE UNCHANGED speechVars
    BY <1>1 DEF speechVars, ReadInv, SpeechTypeOK, Silent, Settling, UnderWay, Watchdogs
  <1>2. CASE SpeechNext
    BY <1>2, PersonKeeps, DrainKeeps, WatchdogsKeep, EngineKeeps DEF SpeechNext
  <1> QED
    BY <1>1, <1>2

LEMMA SpeechInvariance == SpeechSpec => []ReadInv
  BY SpeechInitHolds, SpeechStep, PTL DEF SpeechSpec

(* Every variable keeps its type; the looks are never counted below zero.  *)
THEOREM SpeechTypeCorrect == SpeechSpec => []SpeechTypeOK
  BY SpeechInvariance, PTL DEF ReadInv

(* Whatever the engine does, a read that is shown has a timer that moves it*)
(* on or ends it, and no timer outlives its read.                          *)
THEOREM ReadIsAttended == SpeechSpec => []Attended
  <1>1. ReadInv => Attended
    <2>1. Silent => Attended
      BY DEF Silent, Attended
    <2>2. Settling => Attended
      <3> SUFFICES ASSUME Settling  PROVE Attended
        OBVIOUS
      <3>1. PICK kind \in {"settle", "drain"} : timers = {Timer(kind)}
        BY DEF Settling
      <3>2. Timer(kind) \in Looking
        BY <3>1 DEF Looking
      <3> QED
        BY <3>1, <3>2 DEF Settling, Attended
    <2>3. UnderWay => Attended
      BY DEF UnderWay, Watchdogs, Attended
    <2> QED
      BY <2>1, <2>2, <2>3 DEF ReadInv
  <1> QED
    BY <1>1, SpeechInvariance, PTL

(* Only the read that is shown is ever heard.                              *)
THEOREM OnlyTheShownIsHeard == SpeechSpec => []HeardIsLit
  <1>1. ReadInv => HeardIsLit
    BY DEF ReadInv, Silent, Settling, UnderWay, HeardIsLit
  <1> QED
    BY <1>1, SpeechInvariance, PTL

HIDE DEF speaker, engine, Kinds, Timer

-----------------------------------------------------------------------------
(* What holds of Windows for any models, windows, settings and measures.   *)
(* WindowsInv says that no catalog has a window that cannot be used, that  *)
(* the open session is what its settings derive from the catalog in the    *)
(* process, and that a measured prefix past the threshold is to be folded. *)

AllUsable(windows) == \A m \in DOMAIN windows : windows[m] \in Nat \ {0}

CatalogsOK == offered \in Offers /\ AllUsable(disk.windows) /\ AllUsable(held.windows)
ThreadOK   ==
    thread # NoThread =>
        /\ held # NotRunning
        /\ thread.settings \in Configurations /\ thread = Derive(thread.settings)
FoldsOK    ==
    /\ prefix \in Nat
    /\ thread # NoThread /\ measured /\ prefix > CompactionBudget(thread).threshold => folds
LearnedOK  == learned # "none" => LookupWindow(held.windows, learned) # Unset

WindowsInv == CatalogsOK /\ ThreadOK /\ FoldsOK /\ LearnedOK

USE TokensAssumption, ConfigurationsAssumption DEF Unset

-----------------------------------------------------------------------------
(* The operators                                                           *)

(* What is looked up is not known, or can be used.                         *)
LEMMA LookupIsUsable ==
    ASSUME NEW windows, AllUsable(windows), NEW id
    PROVE  LookupWindow(windows, id) \in Nat
  BY DEF AllUsable, LookupWindow

(* Only what can be used is taken from the provider's list.                *)
LEMMA ParsedIsUsable ==
    ASSUME NEW o \in Offers
    PROVE  AllUsable(ParseModels(o))
  BY DEF AllUsable, ParseModels

LEMMA RefreshIsUsable ==
    ASSUME NEW c, AllUsable(c.windows), offered \in Offers, NEW reached \in BOOLEAN
    PROVE  AllUsable(Refreshed(c, reached).windows)
  BY ParsedIsUsable DEF Refreshed, Catalog

(* A model that the provider lists is known once it was asked for.         *)
LEMMA AskedIsKnown ==
    ASSUME NEW c, NEW id, LookupWindow(ParseModels(offered), id) # Unset
    PROVE  LookupWindow(EnsureKnown(c, id, TRUE).windows, id) # Unset
  <1>1. DOMAIN ParseModels(offered) # {}
    BY DEF LookupWindow
  <1> QED
    BY <1>1 DEF EnsureKnown, Refreshed, Catalog

(* The window of a derived session is never empty.                         *)
LEMMA DerivedWindows ==
    ASSUME AllUsable(held.windows), NEW s \in Configurations
    PROVE  /\ Derive(s).settings = s
           /\ Derive(s).window \in Nat \ {0} /\ Derive(s).compactorWindow \in Nat
           /\ s.length = Unset /\ LookupWindow(held.windows, s.model) # Unset => Derive(s).source = "catalog"
  <1>1. ResolveWindow(s.model, s.length).window \in Nat \ {0}
    BY LookupIsUsable DEF ResolveWindow, Resolved
  <1>2. s.length = Unset /\ LookupWindow(held.windows, s.model) # Unset
          => ResolveWindow(s.model, s.length).source = "catalog"
    BY DEF ResolveWindow, Resolved
  <1> QED
    BY <1>1, <1>2, LookupIsUsable DEF Derive

Budgets == [threshold : Nat, source : {"buffer", "absolute"}, refused : Int]

LEMMA BufferIsPositive ==
    ASSUME NEW s \in Configurations
    PROVE  Buffer(s) \in Nat \ {0}
  BY DEF Buffer

(* The budget stays below the window; a threshold that does not fit is     *)
(* named as refused.                                                       *)
LEMMA BudgetFits ==
    ASSUME NEW s \in Configurations, NEW window \in Nat \ {0}
    PROVE  /\ ComputeBudget(window, s) \in Budgets
           /\ ComputeBudget(window, s).threshold < window
           /\ ComputeBudget(window, s).source = "buffer" => ComputeBudget(window, s).refused = s.threshold
  BY BufferIsPositive DEF ComputeBudget, ThresholdFitsWindow, Positive, Budgets

(* The fit only lowers it, as far as the model that summarises needs.      *)
LEMMA CompactorLeavesRoom ==
    ASSUME NEW s \in Configurations, NEW full \in Budgets, NEW compactorWindow \in Nat
    PROVE  LET b == ApplyCompactorFit(full, compactorWindow, s)
           IN  /\ b.threshold \in Nat /\ b.threshold <= full.threshold
               /\ compactorWindow # Unset =>
                    b.threshold + (IF compactorWindow > Buffer(s) THEN Buffer(s) ELSE 0) <= compactorWindow
               /\ b.source = "buffer" => full.source = "buffer" /\ b.refused = full.refused
  <1> DEFINE fits == Positive(compactorWindow - Buffer(s))
  <1>1. Buffer(s) \in Nat \ {0} /\ full.threshold \in Nat
    BY BufferIsPositive DEF Budgets
  <1>2. /\ fits \in Nat
        /\ compactorWindow # Unset => fits + (IF compactorWindow > Buffer(s) THEN Buffer(s) ELSE 0) <= compactorWindow
    BY <1>1 DEF Positive
  <1>3. ApplyCompactorFit(full, compactorWindow, s) =
          IF compactorWindow = Unset \/ fits >= full.threshold THEN full
          ELSE [full EXCEPT !.threshold = fits, !.source = "compactor-fit"]
    BY DEF ApplyCompactorFit
  <1> HIDE DEF fits
  <1>4. CASE compactorWindow = Unset \/ fits >= full.threshold
    BY <1>1, <1>2, <1>3, <1>4
  <1>5. CASE ~(compactorWindow = Unset \/ fits >= full.threshold)
    BY <1>1, <1>2, <1>3, <1>5 DEF Budgets
  <1> QED
    BY <1>4, <1>5

(* Both at once, for the session that is open.                             *)
LEMMA OpenSessionFits ==
    ASSUME CatalogsOK, ThreadOK, thread # NoThread
    PROVE  LET s == thread.settings
               b == CompactionBudget(thread)
           IN  /\ thread.window > 0 /\ thread.window \in Nat
               /\ b.threshold \in Nat /\ b.threshold < thread.window
               /\ thread.compactorWindow # Unset =>
                    b.threshold + (IF thread.compactorWindow > Buffer(s) THEN Buffer(s) ELSE 0) <= thread.compactorWindow
               /\ b.source = "buffer" => b.refused = s.threshold
               /\ s.length = Unset /\ LookupWindow(held.windows, s.model) # Unset => thread.source = "catalog"
  <1>1. /\ thread.settings \in Configurations
        /\ thread.window \in Nat \ {0} /\ thread.compactorWindow \in Nat
        /\ thread.settings.length = Unset /\ LookupWindow(held.windows, thread.settings.model) # Unset
             => thread.source = "catalog"
    BY DerivedWindows DEF CatalogsOK, ThreadOK
  <1> DEFINE full == ComputeBudget(thread.window, thread.settings)
  <1>2. /\ full \in Budgets /\ full.threshold < thread.window /\ full.threshold \in Nat
        /\ full.source = "buffer" => full.refused = thread.settings.threshold
    BY <1>1, BudgetFits DEF Budgets
  <1>3. CompactionBudget(thread) = ApplyCompactorFit(full, thread.compactorWindow, thread.settings)
    BY DEF CompactionBudget
  <1> HIDE DEF full
  <1> QED
    BY <1>1, <1>2, <1>3, CompactorLeavesRoom

-----------------------------------------------------------------------------
(* The invariant                                                           *)

LEMMA WindowsInitHolds == WindowsInit => WindowsInv
  <1> SUFFICES ASSUME WindowsInit  PROVE WindowsInv
    OBVIOUS
  <1>1. AllUsable(NoList)
    BY DEF AllUsable, NoList
  <1>2. CatalogsOK
    BY <1>1, ParsedIsUsable DEF WindowsInit, CatalogsOK, NoCache, NotRunning, Catalog
  <1> QED
    BY <1>2 DEF WindowsInit, WindowsInv, ThreadOK, FoldsOK, LearnedOK

LEMMA LaunchKeeps ==
    ASSUME WindowsInv, NEW s \in Configurations, Launch(s)
    PROVE  WindowsInv'
  <1>1. PICK reached \in BOOLEAN, written \in BOOLEAN :
          LET c == EnsureKnown(disk, s.model, reached)
          IN  /\ held = NotRunning
              /\ held' = Catalog(c.windows, FALSE)
              /\ disk' = IF written THEN c ELSE disk
              /\ learned' = IF reached /\ LookupWindow(ParseModels(offered), s.model) # Unset THEN s.model ELSE "none"
              /\ UNCHANGED <<offered, thread, prefix, measured, folds, changes>>
    BY DEF Launch
  <1> DEFINE c == EnsureKnown(disk, s.model, reached)
  <1>2. AllUsable(c.windows)
    BY RefreshIsUsable DEF WindowsInv, CatalogsOK, EnsureKnown
  <1>3. held'.windows = c.windows
    BY <1>1 DEF Catalog
  <1>4. CatalogsOK'
    BY <1>1, <1>2, <1>3 DEF WindowsInv, CatalogsOK
  <1>5. ThreadOK' /\ FoldsOK'
    BY <1>1 DEF WindowsInv, ThreadOK, FoldsOK
  <1>6. LearnedOK'
    BY <1>1, <1>3, AskedIsKnown DEF LearnedOK
  <1> QED
    BY <1>4, <1>5, <1>6 DEF WindowsInv

LEMMA SessionKeeps ==
    ASSUME WindowsInv, NEW s \in Configurations, Open(s) \/ AdoptSettings(s)
    PROVE  WindowsInv'
  <1>1. held # NotRunning
    BY DEF WindowsInv, ThreadOK, Open, AdoptSettings
  <1>2. /\ thread' = Derive(s) /\ measured' = FALSE /\ prefix' \in Nat
        /\ UNCHANGED <<offered, disk, held, learned>>
    BY DEF Open, AdoptSettings, WindowsInv, FoldsOK
  <1>3. ThreadOK'
    BY <1>1, <1>2, DerivedWindows DEF WindowsInv, CatalogsOK, ThreadOK, Derive, ResolveWindow
  <1> QED
    BY <1>2, <1>3 DEF WindowsInv, CatalogsOK, FoldsOK, LearnedOK

LEMMA OthersKeep ==
    ASSUME WindowsInv,
           \/ \E o \in Offers : Releases(o)
           \/ \E tokens \in Measures : Measure(tokens)
           \/ Exit \/ Folds \/ ADayPasses \/ Elsewhere
    PROVE  WindowsInv'
  <1>1. ASSUME NEW o \in Offers, NEW d, AllUsable(d.windows), Outside(o, d)  PROVE WindowsInv'
    BY <1>1 DEF Outside, WindowsInv, CatalogsOK, ThreadOK, FoldsOK, LearnedOK, Derive, ResolveWindow
  <1>2. CASE \E o \in Offers : Releases(o)
    BY <1>1, <1>2 DEF Releases, WindowsInv, CatalogsOK
  <1>3. ASSUME NEW tokens \in Measures, Measure(tokens)  PROVE WindowsInv'
    <2>1. ThreadOK'
      BY <1>3 DEF Measure, WindowsInv, ThreadOK, Derive, ResolveWindow
    <2>2. FoldsOK'
      BY <1>3 DEF Measure, WindowsInv, FoldsOK
    <2> QED
      BY <1>3, <2>1, <2>2 DEF Measure, WindowsInv, CatalogsOK, LearnedOK
  <1>4. CASE Exit
    <2>1. AllUsable(NotRunning.windows)
      BY DEF AllUsable, NotRunning, Catalog, NoList
    <2> QED
      BY <1>4, <2>1 DEF Exit, WindowsInv, CatalogsOK, ThreadOK, FoldsOK, LearnedOK
  <1>5. CASE Folds
    BY <1>5 DEF Folds, WindowsInv, CatalogsOK, ThreadOK, FoldsOK, LearnedOK, Derive, ResolveWindow
  <1>6. CASE ADayPasses
    <2>1. AllUsable([disk EXCEPT !.stale = TRUE].windows)
      BY DEF WindowsInv, CatalogsOK, AllUsable
    <2> QED
      BY <1>1, <1>6, <2>1 DEF ADayPasses, WindowsInv, CatalogsOK
  <1>7. CASE Elsewhere
    BY <1>1, <1>7, RefreshIsUsable DEF Elsewhere, WindowsInv, CatalogsOK
  <1> QED
    BY <1>2, <1>3, <1>4, <1>5, <1>6, <1>7

LEMMA WindowsStep == WindowsInv /\ [WindowsNext]_windowVars => WindowsInv'
  <1> SUFFICES ASSUME WindowsInv, [WindowsNext]_windowVars  PROVE WindowsInv'
    OBVIOUS
  <1>1. CASE UNCHANGED windowVars
    BY <1>1 DEF windowVars, WindowsInv, CatalogsOK, ThreadOK, FoldsOK, LearnedOK, Derive, ResolveWindow
  <1>2. CASE WindowsNext
    BY <1>2, LaunchKeeps, SessionKeeps, OthersKeep DEF WindowsNext
  <1> QED
    BY <1>1, <1>2

LEMMA WindowsInvariance == WindowsSpec => []WindowsInv
  BY WindowsInitHolds, WindowsStep, PTL DEF WindowsSpec

(* For any catalog, whatever of it is stale or was never read, and for any *)
(* settings: the budget of an open session can fire below its window, fits *)
(* the model that summarises, and is not a guess where it need not be.     *)
THEOREM BudgetFires == WindowsSpec => []BudgetIsReal
  <1>1. WindowsInv => BudgetIsReal
    <2> SUFFICES ASSUME WindowsInv, thread # NoThread
                 PROVE  BudgetIsReal
      BY DEF BudgetIsReal
    <2>1. thread.window \in Nat /\ CompactionBudget(thread).threshold \in Nat /\ prefix \in Nat
      BY OpenSessionFits DEF WindowsInv, FoldsOK
    <2>2. measured /\ prefix >= thread.window => folds
      BY <2>1, OpenSessionFits DEF WindowsInv, FoldsOK
    <2>3. thread.settings.model = learned /\ thread.settings.length = Unset => thread.source = "catalog"
      BY OpenSessionFits DEF WindowsInv, ThreadOK, LearnedOK
    <2> QED
      BY <2>2, <2>3, OpenSessionFits DEF WindowsInv, BudgetIsReal
  <1> QED
    BY <1>1, WindowsInvariance, PTL

HIDE DEF Unset

-----------------------------------------------------------------------------
(* What holds of Serving for any ports, any block of candidates and any    *)
(* number of calls.  ServingInv says what is true between two steps: the   *)
(* scan stays inside its candidates, nothing listens before it is over,    *)
(* what is lost has already turned the exit code, and the code is set only *)
(* by a loss, by a second signal, or after everything is flushed.          *)

ScanOK ==
    /\ requestedPort \in {0} \cup Ports /\ tried \in Nat /\ tried < Len(Candidates)
    /\ taken \subseteq Ports
    /\ run = "binding" => bound = 0

BoundOK ==
    bound # 0 => /\ bound \notin taken
                 /\ requestedPort # 0 => bound = requestedPort
                 /\ requestedPort = 0 /\ tried < PortScanCount => bound = DefaultPort + tried

FlushOK ==
    /\ flushing \in [Writers -> {"open", "pending", "flushed", "lost"}]
    /\ run \in {"binding", "up"} => ~closed /\ \A w \in Writers : flushing[w] = "open"

ExitOK ==
    /\ (\E w \in Writers : flushing[w] = "lost") => processExit = "bad"
    /\ closed => FlushOver
    /\ processExit = "ok" => \A w \in Writers : flushing[w] = "flushed"

ServingInv == ScanOK /\ BoundOK /\ FlushOK /\ ExitOK

USE PortsAssumption, ScanAssumption

(* The candidates: the port asked for, or the block and then the system's. *)
LEMMA CandidatesAre ==
    ASSUME requestedPort \in {0} \cup Ports
    PROVE  /\ requestedPort # 0 => Len(Candidates) = 1 /\ Candidates[1] = requestedPort
           /\ requestedPort = 0 =>
                /\ Len(Candidates) = PortScanCount + 1
                /\ \A n \in Nat : n < PortScanCount => Candidates[n + 1] = DefaultPort + n
  <1>1. CASE requestedPort # 0
    BY <1>1 DEF Candidates
  <1>2. CASE requestedPort = 0
    <2> DEFINE block == [i \in 1..PortScanCount |-> DefaultPort + i - 1]
    <2>1. block \in Seq(Nat) /\ Len(block) = PortScanCount
      OBVIOUS
    <2>2. Candidates = block \o <<0>>
      BY <1>2 DEF Candidates
    <2>3. ASSUME NEW n \in Nat, n < PortScanCount  PROVE block[n + 1] = DefaultPort + n
      BY <2>3
    <2> HIDE DEF block
    <2> QED
      BY <1>2, <2>1, <2>2, <2>3
  <1> QED
    BY <1>1, <1>2

LEMMA ServingInitHolds == ServingInit => ServingInv
  <1> SUFFICES ASSUME ServingInit  PROVE ServingInv
    OBVIOUS
  <1>1. ScanOK
    BY CandidatesAre DEF ServingInit, ScanOK
  <1> QED
    BY <1>1 DEF ServingInit, ServingInv, BoundOK, FlushOK, ExitOK, Writers

(* Where the candidates and what is taken stay, the scan and its port do.  *)
LEMMA BindingStays ==
    ASSUME ServingInv, UNCHANGED Binding, run' = "binding" => run = "binding"
    PROVE  ScanOK' /\ BoundOK'
  BY DEF ServingInv, ScanOK, BoundOK, Binding, Candidates

LEMMA ScanKeeps ==
    ASSUME ServingInv,
           (\E p \in Ports : Listens(p) \/ OthersListen(p)) \/ WalksOn \/ CannotListen
    PROVE  ServingInv'
  <1>1. ASSUME NEW p \in Ports, Listens(p)  PROVE ServingInv'
    <2>1. ScanOK'
      BY <1>1 DEF ServingInv, ScanOK, Listens, Candidates
    <2>2. BoundOK'
      <3>1. Candidate \in {0, p} /\ bound' = p /\ p \notin taken /\ UNCHANGED <<requestedPort, tried, taken>>
        BY <1>1 DEF Listens
      <3>2. CASE requestedPort # 0
        BY <3>1, <3>2, CandidatesAre DEF ServingInv, ScanOK, BoundOK, Candidate
      <3>3. CASE requestedPort = 0
        BY <3>1, <3>3, CandidatesAre DEF ServingInv, ScanOK, BoundOK, Candidate
      <3> QED
        BY <3>2, <3>3
    <2> QED
      BY <1>1, <2>1, <2>2 DEF ServingInv, FlushOK, ExitOK, FlushOver, Listens, Shutting
  <1>2. ASSUME NEW p \in Ports, OthersListen(p)  PROVE ServingInv'
    BY <1>2 DEF ServingInv, ScanOK, BoundOK, FlushOK, ExitOK, FlushOver, OthersListen, Shutting, Candidates
  <1>3. CASE WalksOn
    <2>1. tried' = tried + 1 /\ tried + 1 # Len(Candidates) /\ Len(Candidates) \in Nat
      BY <1>3, CandidatesAre DEF WalksOn, LastCandidate, ServingInv, ScanOK
    <2>2. Candidates' = Candidates /\ UNCHANGED <<run, requestedPort, bound, taken>> /\ run = "binding"
      BY <1>3 DEF WalksOn, Candidates
    <2>3. ScanOK' /\ BoundOK'
      BY <2>1, <2>2 DEF ServingInv, ScanOK, BoundOK
    <2> QED
      BY <1>3, <2>3 DEF ServingInv, FlushOK, ExitOK, FlushOver, WalksOn, Shutting
  <1>4. CASE CannotListen
    BY <1>4 DEF ServingInv, ScanOK, BoundOK, FlushOK, ExitOK, FlushOver, CannotListen, Shutting, Candidates
  <1> QED
    BY <1>1, <1>2, <1>3, <1>4

(* Asking for a shutdown, once or often, leaves the exit code alone.       *)
LEMMA AskingKeeps ==
    ASSUME ServingInv,
           (\E s \in {"open", "quiet"} : Browser(s)) \/ PostShutdown \/ TimerFires \/ Signal \/ SignalAgain
    PROVE  ServingInv'
  <1>1. UNCHANGED Binding /\ run' # "binding"
    BY DEF Browser, PostShutdown, TimerFires, Signal, SignalAgain, Shutdown
  <1>2. FlushOK' /\ ExitOK'
    <2>1. CASE UNCHANGED flushing /\ UNCHANGED <<closed, processExit>> /\ run' = run
      BY <2>1 DEF ServingInv, FlushOK, ExitOK, FlushOver
    <2>2. CASE run = "up" /\ Shutdown /\ UNCHANGED <<closed, processExit>>
      BY <2>2 DEF ServingInv, FlushOK, ExitOK, FlushOver, Shutdown, Writers
    <2>3. CASE SignalAgain
      BY <2>3 DEF ServingInv, FlushOK, ExitOK, FlushOver, SignalAgain, Shutting
    <2> QED
      BY <2>1, <2>2, <2>3 DEF Browser, PostShutdown, TimerFires, Signal, Shutdown
  <1> QED
    BY <1>1, <1>2, BindingStays DEF ServingInv

(* Tearing down: a loss turns the code, and only a full flush leaves it.   *)
LEMMA TeardownKeeps ==
    ASSUME ServingInv,
           (\E w \in Writers : Flushed(w) \/ FlushRejects(w)) \/ CloseSockets \/ Exits
    PROVE  ServingInv'
  <1>1. UNCHANGED Binding /\ run' # "binding"
    BY DEF Flushed, FlushRejects, CloseSockets, Exits
  <1>2. FlushOK' /\ ExitOK'
    <2>1. ASSUME NEW w \in Writers, Flushed(w)  PROVE FlushOK' /\ ExitOK'
      BY <2>1 DEF ServingInv, FlushOK, ExitOK, FlushOver, Flushed
    <2>2. ASSUME NEW w \in Writers, FlushRejects(w)  PROVE FlushOK' /\ ExitOK'
      BY <2>2 DEF ServingInv, FlushOK, ExitOK, FlushOver, FlushRejects, GoesRed
    <2>3. CASE CloseSockets
      BY <2>3 DEF ServingInv, FlushOK, ExitOK, FlushOver, CloseSockets
    <2>4. CASE Exits
      BY <2>4 DEF ServingInv, FlushOK, ExitOK, FlushOver, Exits, Shutting
    <2> QED
      BY <2>1, <2>2, <2>3, <2>4
  <1> QED
    BY <1>1, <1>2, BindingStays DEF ServingInv

LEMMA ServingStep == ServingInv /\ [ServingNext]_servingVars => ServingInv'
  <1> SUFFICES ASSUME ServingInv, [ServingNext]_servingVars  PROVE ServingInv'
    OBVIOUS
  <1>1. CASE UNCHANGED servingVars
    BY <1>1 DEF servingVars, ServingInv, ScanOK, BoundOK, FlushOK, ExitOK, FlushOver, Candidates
  <1>2. CASE ServingNext
    BY <1>2, ScanKeeps, AskingKeeps, TeardownKeeps DEF ServingNext
  <1> QED
    BY <1>1, <1>2

LEMMA ServingInvariance == ServingSpec => []ServingInv
  BY ServingInitHolds, ServingStep, PTL DEF ServingSpec

(* Whoever asks for the shutdown, how often and in whatever order the      *)
(* writers settle: a clean exit code means that nothing was lost, and the  *)
(* port is the one promised.                                               *)
THEOREM CleanExitVouches == ServingSpec => []ExitVouches
  <1>1. ServingInv => ExitVouches
    BY DEF ServingInv, BoundOK, ExitOK, ExitVouches
  <1> QED
    BY <1>1, ServingInvariance, PTL

-----------------------------------------------------------------------------
(* What holds of McpServers for any servers, any files and any number of    *)
(* questions, imports and edits by hand.  McpInv says that the file an      *)
(* instance loads from keeps what was answered, and that people's own      *)
(* entries stay as they left them.                                         *)

USE NoEntryAssumption

(* What a server's entry says of itself: an answer kept in the file that   *)
(* the instance loads, and an entry that people left usable.               *)
Document == [parses : BOOLEAN, entry : [McpNames -> Entries \cup {NoEntry}]]

Holdings == [McpNames -> [config : Entries \cup {NoEntry}, scope : Scopes]]
FilesOK ==
    /\ settingsFile \in [Scopes -> Document]
    /\ servers \in Holdings
    /\ settled \subseteq McpNames \X Questions
    /\ byHand \subseteq Scopes \X McpNames \X BOOLEAN

Kept(a) == LoadSettings(a[1]).config # NoEntry /\ LoadSettings(a[1]).config.learned[a[2]] # "none"
Left(h) ==
    LET f == settingsFile[h[1]]
    IN  f.parses /\ Usable(f.entry[h[2]]) /\ f.entry[h[2]].disabled = h[3]

(* Only a server with an entry is ever begun with.                         *)
Begun == \A s \in McpNames : conn[s] # "none" => servers[s].config # NoEntry
ConnOK == DOMAIN conn = McpNames /\ conn = [s \in McpNames |-> conn[s]] /\ Begun

McpInv == FilesOK /\ ConnOK /\ (\A a \in settled : Kept(a)) /\ (\A h \in byHand : Left(h))

LEMMA Constants ==
    /\ Unasked \in [Questions -> {"none", "yes", "no"}]
    /\ \A x, y, z \in BOOLEAN : Entry(x, y, z) \in Entries
    /\ Plain \in Entries /\ Blank \in Entries /\ Usable(Plain) /\ Plain.disabled = FALSE
    /\ Plain = Entry(TRUE, TRUE, FALSE)
  <1>1. Unasked \in [Questions -> {"none", "yes", "no"}]
    BY DEF Unasked
  <1>2. \A x, y, z \in BOOLEAN : Entry(x, y, z) \in Entries
    BY <1>1 DEF Entry, Entries
  <1>3. Plain \in Entries /\ Blank \in Entries /\ Plain.disabled = FALSE /\ Plain.command /\ Plain.wellFormed
    BY <1>2 DEF Plain, Blank, Entry
  <1> QED
    BY <1>1, <1>2, <1>3 DEF Plain, Usable

LEMMA LoadedIsAnEntry ==
    ASSUME FilesOK, NEW s \in McpNames
    PROVE  LoadSettings(s) \in [config : Entries \cup {NoEntry}, scope : Scopes]
  BY DEF FilesOK, LoadSettings, ReadSettingsFile, Document, Scopes

(* What is loaded of a server hangs on what can be used of its entries.    *)
LEMMA LoadsTheSame ==
    ASSUME NEW s \in McpNames,
           \A c \in Scopes : ReadSettingsFile(settingsFile[c])'[s] = ReadSettingsFile(settingsFile[c])[s]
    PROVE  LoadSettings(s)' = LoadSettings(s)
  BY DEF LoadSettings, Scopes

LEMMA McpInitHolds == McpInit => McpInv
  <1> SUFFICES ASSUME McpInit PROVE McpInv
    OBVIOUS
  <1>1. settingsFile \in [Scopes -> Document]
    BY Constants DEF McpInit, Document
  <1>2. \A s \in McpNames : LoadSettings(s) \in [config : Entries \cup {NoEntry}, scope : Scopes]
    BY <1>1 DEF LoadSettings, ReadSettingsFile, Document, Scopes
  <1>3. servers \in Holdings /\ ConnOK
    BY <1>2 DEF McpInit, Holdings, ConnOK, Begun
  <1>4. byHand \subseteq Scopes \X McpNames \X BOOLEAN
    <2>1. \A s \in McpNames : <<"global", s, FALSE>> \in Scopes \X McpNames \X BOOLEAN
      BY DEF Scopes
    <2> QED
      BY <2>1 DEF McpInit
  <1>5. ASSUME NEW h \in byHand PROVE Left(h)
    <2>1. PICK s \in McpNames : h = <<"global", s, FALSE>>
      BY DEF McpInit
    <2>2. settingsFile["global"].parses /\ settingsFile["global"].entry[s] = Plain
      BY DEF McpInit, Scopes
    <2> QED
      BY <2>1, <2>2, Constants DEF Left
  <1> QED
    BY <1>1, <1>3, <1>4, <1>5 DEF McpInit, McpInv, FilesOK

(* A step that leaves the files alone.                                     *)
LEMMA FilesStay ==
    ASSUME McpInv, UNCHANGED Files, ConnOK', servers' = servers \/ servers' = [s \in McpNames |-> LoadSettings(s)]
    PROVE  McpInv'
  <1>1. servers' \in Holdings
    BY LoadedIsAnEntry DEF McpInv, FilesOK, Holdings
  <1>2. \A a \in settled' : Kept(a)'
    BY DEF McpInv, Kept, Files, LoadSettings
  <1>3. \A h \in byHand' : Left(h)'
    BY DEF McpInv, Left, Files
  <1> QED
    BY <1>1, <1>2, <1>3 DEF McpInv, FilesOK, Files

(* What updateServerEntry leaves of a file.                                *)
AnswerOnly(f, s, q, said, u) ==
    /\ u \in Document /\ u.parses
    /\ \A t \in McpNames \ {s} : /\ ReadSettingsFile(u)[t] = ReadSettingsFile(f)[t]
                                 /\ f.parses => u.entry[t] = f.entry[t]
    /\ ReadSettingsFile(f)[s] = NoEntry => ReadSettingsFile(u)[s] = NoEntry
    /\ ReadSettingsFile(f)[s] # NoEntry =>
         /\ ReadSettingsFile(u)[s] = [ReadSettingsFile(f)[s] EXCEPT !.learned[q] = said]
         /\ u.entry[s] = ReadSettingsFile(u)[s] /\ Usable(u.entry[s])

LEMMA UpdateLeaves ==
    ASSUME NEW f \in Document, NEW s \in McpNames, NEW q \in Questions, NEW said \in {"yes", "no"},
           NEW u, u = UpdateServerEntry(f, s, q, said)
    PROVE  AnswerOnly(f, s, q, said, u)
  <1> DEFINE there == IF f.parses /\ f.entry[s] # NoEntry THEN f.entry[s] ELSE Blank
             live == ReadSettingsFile(f)[s] # NoEntry
             put == [there EXCEPT !.command = live, !.learned[q] = said]
  <1>1. there \in Entries /\ live \in BOOLEAN
    BY Constants DEF Document
  <1>2. put \in Entries /\ put.command = live /\ put.wellFormed = there.wellFormed /\ put.disabled = there.disabled
    BY <1>1 DEF Entries
  <1>3. u = [parses |-> TRUE, entry |-> [t \in McpNames |-> IF t = s THEN put ELSE IF f.parses THEN f.entry[t] ELSE NoEntry]]
    BY DEF UpdateServerEntry
  <1>4. u \in Document /\ u.parses /\ u.entry[s] = put
    BY <1>2, <1>3 DEF Document
  <1>5. \A t \in McpNames \ {s} : ReadSettingsFile(u)[t] = ReadSettingsFile(f)[t] /\ (f.parses => u.entry[t] = f.entry[t])
    <2> HIDE DEF put
    <2>2. u.parses /\ u.entry = [t \in McpNames |-> IF t = s THEN put ELSE IF f.parses THEN f.entry[t] ELSE NoEntry]
      BY <1>3
    <2>1. \A t \in McpNames \ {s} : u.parses /\ u.entry[t] = IF f.parses THEN f.entry[t] ELSE NoEntry
      BY <2>2
    <2> QED
      BY <2>1 DEF ReadSettingsFile, Usable
  <1>6. ~live => ReadSettingsFile(u)[s] = NoEntry
    BY <1>2, <1>4 DEF ReadSettingsFile, Usable
  <1>7. ASSUME live
        PROVE  /\ ReadSettingsFile(u)[s] = [ReadSettingsFile(f)[s] EXCEPT !.learned[q] = said]
               /\ u.entry[s] = ReadSettingsFile(u)[s] /\ Usable(u.entry[s])
    <2>1. f.parses /\ Usable(f.entry[s]) /\ ReadSettingsFile(f)[s] = f.entry[s] /\ f.entry[s] \in Entries
      BY <1>7 DEF ReadSettingsFile, Document
    <2>2. there = f.entry[s] /\ there.command /\ there.wellFormed
      BY <2>1 DEF Usable
    <2>3. put = [there EXCEPT !.learned[q] = said]
      BY <1>1, <1>7, <2>2 DEF Entries
    <2>4. Usable(put)
      BY <1>2, <1>7, <2>2 DEF Usable
    <2> QED
      BY <1>4, <2>1, <2>2, <2>3, <2>4 DEF ReadSettingsFile
  <1> QED
    BY <1>4, <1>5, <1>6, <1>7 DEF AnswerOnly

LEMMA RememberKeeps ==
    ASSUME McpInv, NEW s \in McpNames, NEW q \in Questions, NEW said \in {"yes", "no"}, Remember(s, q, said)
    PROVE  McpInv'
  <1> DEFINE c == servers[s].scope
             f == settingsFile[c]
             u == UpdateServerEntry(f, s, q, said)
  <1>0. /\ FilesOK /\ c \in Scopes /\ f \in Document 
        /\ \A a \in settled : Kept(a)
        /\ \A h \in byHand : Left(h)
    BY DEF McpInv, FilesOK, Holdings
  <1>1. servers' \in Holdings /\ ConnOK'
    <2>1. servers[s].config \in Entries /\ servers \in Holdings
      BY DEF McpInv, FilesOK, ConnOK, Begun, Remember, Holdings
    <2>2. PICK e \in Entries : e = [servers[s].config EXCEPT !.learned[q] = said]
      BY <2>1 DEF Entries
    <2>0. servers' = [servers EXCEPT ![s].config.learned[q] = said]
      BY DEF Remember
    <2>5. [servers[s] EXCEPT !.config.learned[q] = said] = [config |-> e, scope |-> servers[s].scope]
      BY <2>1, <2>2 DEF Holdings
    <2>3. servers' = [servers EXCEPT ![s] = [config |-> e, scope |-> servers[s].scope]]
      BY <2>0, <2>5, Zenon
    <2>4. conn' = conn /\ ConnOK
      BY DEF Remember, McpInv
    <2> QED
      BY <2>1, <2>3, <2>4 DEF ConnOK, Begun, Holdings
  <1>2. CASE UNCHANGED settingsFile /\ settled' = settled \ {<<s, q>>} /\ UNCHANGED byHand
    <2>1. \A a \in settled' : Kept(a)'
      BY <1>0, <1>2 DEF Kept, LoadSettings
    <2>2. \A h \in byHand' : Left(h)'
      BY <1>0, <1>2 DEF Left
    <2> QED
      BY <1>0, <1>1, <1>2, <2>1, <2>2 DEF McpInv, FilesOK
  <1>3. CASE /\ settingsFile' = [settingsFile EXCEPT ![c] = u] /\ UNCHANGED byHand
             /\ settled' = IF LoadSettings(s).config # NoEntry /\ LoadSettings(s).scope = c
                           THEN settled \cup {<<s, q>>} ELSE settled
    <2>0. u = UpdateServerEntry(f, s, q, said) /\ f = settingsFile[c]
      OBVIOUS
    <2> HIDE DEF u, f, c
    <2>1. AnswerOnly(f, s, q, said, u)
      BY <1>0, <2>0, UpdateLeaves, Zenon
    <2>2. settingsFile' \in [Scopes -> Document] /\ settingsFile'[c] = u
          /\ \A d \in Scopes \ {c} : settingsFile'[d] = settingsFile[d]
      BY <1>0, <1>3, <2>1 DEF FilesOK, AnswerOnly
    <2>3. \A t \in McpNames \ {s} : LoadSettings(t)' = LoadSettings(t)
      BY <2>1, <2>2, LoadsTheSame DEF f, AnswerOnly
    <2>4. \A h \in byHand : Left(h)'
      <3>1. SUFFICES ASSUME NEW h \in byHand PROVE Left(h)'
        OBVIOUS
      <3>2. h[1] \in Scopes /\ h[2] \in McpNames /\ Left(h)
        BY <1>0, <3>1 DEF FilesOK
      <3>3. CASE h[1] # c
        BY <2>2, <3>2, <3>3 DEF Left
      <3>4. CASE h[1] = c /\ h[2] # s
        BY <2>1, <2>2, <3>2, <3>4 DEF Left, f, AnswerOnly
      <3>5. CASE h[1] = c /\ h[2] = s
        <4>1. f.parses /\ Usable(f.entry[s]) /\ f.entry[s].disabled = h[3] /\ f.entry[s] \in Entries
          BY <1>0, <3>2, <3>5 DEF Left, f, Usable, Document
        <4>2. ReadSettingsFile(f)[s] = f.entry[s] /\ f.entry[s] # NoEntry
          BY <4>1 DEF ReadSettingsFile, Usable
        <4>3. u.entry[s] = [f.entry[s] EXCEPT !.learned[q] = said] /\ Usable(u.entry[s])
          BY <2>1, <4>2 DEF AnswerOnly
        <4>4. u.entry[s].disabled = h[3]
          BY <4>1, <4>3 DEF Entries
        <4> QED
          BY <2>1, <2>2, <3>5, <4>3, <4>4 DEF Left, AnswerOnly
      <3> QED
        BY <3>3, <3>4, <3>5
    <2>5. ASSUME NEW a \in settled' PROVE Kept(a)'
      <3>1. a[1] \in McpNames /\ a[2] \in Questions
        BY <1>0, <1>3 DEF FilesOK
      <3>2. CASE a[1] # s
        <4>1. a \in settled
          BY <1>3, <3>2
        <4> QED
          BY <1>0, <2>3, <3>1, <3>2, <4>1 DEF Kept
      <3>3. CASE a[1] = s /\ ~(LoadSettings(s).config # NoEntry /\ LoadSettings(s).scope = c)
        <4>1. a \in settled /\ LoadSettings(s).config # NoEntry /\ LoadSettings(s).scope # c
          BY <1>0, <1>3, <3>3 DEF Kept
        <4>2. LoadSettings(s)' = LoadSettings(s)
          <5>1. CASE c = "workspace"
            <6>1. ReadSettingsFile(f)[s] = NoEntry /\ settingsFile["workspace"] = f
              BY <2>0, <4>1, <5>1 DEF LoadSettings
            <6>2. ReadSettingsFile(u)[s] = NoEntry /\ settingsFile'["workspace"] = u
              BY <2>1, <2>2, <5>1, <6>1 DEF AnswerOnly
            <6>3. settingsFile'["global"] = settingsFile["global"]
              BY <2>2, <5>1 DEF Scopes
            <6> QED
              BY <6>1, <6>2, <6>3 DEF LoadSettings
          <5>2. CASE c = "global"
            <6>1. ReadSettingsFile(settingsFile["workspace"])[s] # NoEntry
              BY <4>1, <5>2 DEF LoadSettings
            <6>2. settingsFile'["workspace"] = settingsFile["workspace"]
              BY <2>2, <5>2 DEF Scopes
            <6> QED
              BY <6>1, <6>2 DEF LoadSettings
          <5> QED
            BY <1>0, <5>1, <5>2 DEF Scopes
        <4> QED
          BY <1>0, <3>3, <4>1, <4>2 DEF Kept
      <3>4. CASE a[1] = s /\ LoadSettings(s).config # NoEntry /\ LoadSettings(s).scope = c
        <4>1. LoadSettings(s).config = ReadSettingsFile(f)[s]
          BY <3>4 DEF LoadSettings, f
        <4>0. ReadSettingsFile(u)[s] = [ReadSettingsFile(f)[s] EXCEPT !.learned[q] = said] /\ Usable(u.entry[s])
              /\ ReadSettingsFile(u)[s] = u.entry[s]
          BY <2>1, <3>4, <4>1 DEF AnswerOnly
        <4>6. ReadSettingsFile(u)[s] # NoEntry
          BY <4>0 DEF Usable
        <4>7. LoadSettings(s)'.config = ReadSettingsFile(u)[s]
          <5>1. CASE c = "workspace"
            BY <2>2, <4>6, <5>1 DEF LoadSettings
          <5>2. CASE c = "global"
            <6>1. ReadSettingsFile(settingsFile["workspace"])[s] = NoEntry
              BY <3>4, <5>2 DEF LoadSettings
            <6>2. settingsFile'["workspace"] = settingsFile["workspace"] /\ settingsFile'["global"] = u
              BY <2>2, <5>2 DEF Scopes
            <6> QED
              BY <6>1, <6>2 DEF LoadSettings
          <5> QED
            BY <1>0, <5>1, <5>2 DEF Scopes
        <4>2. LoadSettings(s)'.config = [LoadSettings(s).config EXCEPT !.learned[q] = said]
          BY <4>0, <4>1, <4>7
        <4>3. LoadSettings(s).config \in Entries
          BY <1>0, <3>4, LoadedIsAnEntry
        <4>4. /\ LoadSettings(s)'.config \in Entries
              /\ \A r \in Questions : LoadSettings(s)'.config.learned[r] =
                                        IF r = q THEN said ELSE LoadSettings(s).config.learned[r]
          BY <4>2, <4>3 DEF Entries
        <4>5. a[2] # q => a \in settled
          BY <1>3
        <4> QED
          BY <1>0, <3>1, <3>4, <4>4, <4>5 DEF Kept
      <3> QED
        BY <3>2, <3>3, <3>4
    <2>6. settled' \subseteq McpNames \X Questions
      BY <1>0, <1>3 DEF FilesOK
    <2> QED
      BY <1>0, <1>1, <1>3, <2>2, <2>4, <2>5, <2>6 DEF McpInv, FilesOK
  <1> QED
    BY <1>2, <1>3 DEF Remember

LEMMA HandsKeep ==
    ASSUME McpInv, NEW c \in Scopes, NEW s \in McpNames, NEW e \in Entries \cup {NoEntry}, EditEntry(c, s, e)
    PROVE  McpInv'
  <1> DEFINE f == settingsFile[c]
             g == [f EXCEPT !.entry[s] = e]
  <1>1. f \in Document /\ f.parses /\ settingsFile' = [settingsFile EXCEPT ![c] = g]
    BY DEF McpInv, FilesOK, EditEntry, Edited
  <1>2. /\ g \in Document /\ g.parses /\ g.entry[s] = e
        /\ \A t \in McpNames \ {s} : g.entry[t] = f.entry[t]
    BY <1>1 DEF Document
  <1>3. /\ settingsFile' \in [Scopes -> Document] /\ settingsFile'[c] = g
        /\ \A d \in Scopes \ {c} : settingsFile'[d] = settingsFile[d]
    BY <1>1, <1>2 DEF McpInv, FilesOK
  <1>4. \A t \in McpNames \ {s} : LoadSettings(t)' = LoadSettings(t)
    BY <1>1, <1>2, <1>3, LoadsTheSame DEF ReadSettingsFile
  <1> HIDE DEF g
  <1>5. ASSUME NEW a \in settled' PROVE Kept(a)'
    <2>1. a \in settled /\ a[1] # s /\ a[1] \in McpNames
      BY DEF EditEntry, McpInv, FilesOK
    <2> QED
      BY <1>4, <2>1 DEF McpInv, Kept
  <1>6. ASSUME NEW h \in byHand' PROVE Left(h)'
    <2>1. CASE h \in byHand /\ ~(h[1] = c /\ h[2] = s)
      BY <1>1, <1>2, <1>3, <2>1 DEF McpInv, FilesOK, Left
    <2>2. CASE h = <<c, s, e.disabled>> /\ Usable(e)
      BY <1>2, <1>3, <2>2 DEF Left
    <2>3. byHand \subseteq Scopes \X McpNames \X BOOLEAN
      BY DEF McpInv, FilesOK
    <2> QED
      BY <2>1, <2>2, <2>3 DEF EditEntry
  <1>7. byHand' \subseteq Scopes \X McpNames \X BOOLEAN /\ settled' \subseteq McpNames \X Questions
    <2>1. Usable(e) => e.disabled \in BOOLEAN
      BY DEF Usable, Entries
    <2> QED
      BY <2>1 DEF McpInv, FilesOK, EditEntry
  <1> QED
    BY <1>3, <1>5, <1>6, <1>7 DEF McpInv, FilesOK, EditEntry, instance, ConnOK, Begun

LEMMA BreakKeeps ==
    ASSUME McpInv, NEW c \in Scopes, BreakFile(c)
    PROVE  McpInv'
  <1>1. /\ settingsFile' \in [Scopes -> Document]
        /\ \A d \in Scopes \ {c} : settingsFile'[d] = settingsFile[d]
    BY DEF McpInv, FilesOK, BreakFile, Edited, Document
  <1>2. ASSUME NEW h \in byHand' PROVE Left(h)'
    <2>1. h \in byHand /\ h[1] \in Scopes \ {c}
      BY DEF BreakFile, McpInv, FilesOK
    <2> QED
      BY <1>1, <2>1 DEF McpInv, Left
  <1> QED
    BY <1>1, <1>2 DEF McpInv, FilesOK, BreakFile, instance, ConnOK, Begun

LEMMA ImportKeeps ==
    ASSUME McpInv, NEW source \in SUBSET McpNames, NEW force \in BOOLEAN, Import(source, force)
    PROVE  McpInv'
  <1> DEFINE there == ReadSettingsFile(settingsFile["global"])
             added == {s \in source : force \/ there[s] = NoEntry}
             g == [parses |-> TRUE, entry |-> [s \in McpNames |-> IF s \in added THEN Plain ELSE there[s]]]
  <1>1. there \in [McpNames -> Entries \cup {NoEntry}]
    BY DEF McpInv, FilesOK, ReadSettingsFile, Scopes, Document
  <1>2. /\ settingsFile' = [settingsFile EXCEPT !["global"] = g]
        /\ settled' = settled \ (added \X Questions)
        /\ byHand' = (byHand \ ({"global"} \X added \X BOOLEAN)) \cup ({"global"} \X added \X {FALSE})
    BY DEF Import, Edited
  <1> HIDE DEF added
  <1>3. g \in Document /\ g.parses /\ \A s \in McpNames : g.entry[s] = IF s \in added THEN Plain ELSE there[s]
    BY <1>1, Constants DEF Document
  <1>4. /\ settingsFile' \in [Scopes -> Document] /\ settingsFile'["global"] = g
        /\ settingsFile'["workspace"] = settingsFile["workspace"] /\ "global" \in Scopes
    BY <1>2, <1>3 DEF McpInv, FilesOK, Scopes
  <1> HIDE DEF g
  <1>5. ASSUME NEW s \in McpNames \ added PROVE LoadSettings(s)' = LoadSettings(s)
    <2>1. ReadSettingsFile(g)[s] = there[s]
      BY <1>3, <1>5 DEF ReadSettingsFile
    <2> QED
      BY <1>4, <2>1, LoadsTheSame DEF Scopes
  <1>6. ASSUME NEW a \in settled' PROVE Kept(a)'
    <2>1. a \in settled /\ a[1] \in McpNames \ added
      BY <1>2 DEF McpInv, FilesOK
    <2> QED
      BY <1>5, <2>1 DEF McpInv, Kept
  <1>7. ASSUME NEW h \in byHand' PROVE Left(h)'
    <2>1. CASE h \in byHand /\ h[1] = "workspace"
      BY <1>4, <2>1 DEF McpInv, Left
    <2>2. CASE h \in byHand /\ h[1] = "global" /\ h[2] \notin added
      <3>1. h[2] \in McpNames /\ Left(h)
        BY <2>2 DEF McpInv, FilesOK
      <3>2. there[h[2]] = settingsFile["global"].entry[h[2]]
        BY <2>2, <3>1 DEF Left, ReadSettingsFile
      <3> QED
        BY <1>3, <1>4, <2>2, <3>1, <3>2 DEF Left
    <2>3. CASE h[1] = "global" /\ h[2] \in added /\ h[3] = FALSE
      <3>1. h[2] \in McpNames
        BY <2>3 DEF added
      <3> QED
        <4>1. g.parses /\ g.entry[h[2]] = Plain /\ h[2] \in McpNames
          BY <1>3, <2>3, <3>1
        <4> QED
          BY <1>4, <2>3, <4>1, Constants DEF Left
    <2>4. byHand \subseteq Scopes \X McpNames \X BOOLEAN
      BY DEF McpInv, FilesOK
    <2> QED
      BY <1>2, <2>1, <2>2, <2>3, <2>4 DEF Scopes
  <1>8. byHand' \subseteq Scopes \X McpNames \X BOOLEAN /\ settled' \subseteq McpNames \X Questions
    BY <1>2 DEF McpInv, FilesOK, added, Scopes
  <1> QED
    BY <1>4, <1>6, <1>7, <1>8 DEF McpInv, FilesOK, Import, instance, ConnOK, Begun

LEMMA McpInvStep == McpInv /\ [McpNext]_mcpVars => McpInv'
  <1> SUFFICES ASSUME McpInv, [McpNext]_mcpVars PROVE McpInv'
    OBVIOUS
  <1>0. ConnOK
    BY DEF McpInv
  <1>1. CASE UNCHANGED mcpVars
    <2>1. ConnOK' /\ UNCHANGED <<servers, Files>>
      BY <1>0, <1>1 DEF mcpVars, Files, ConnOK, Begun
    <2> QED
      BY <2>1, FilesStay
  <1>2. CASE StartServers
    <2>1. /\ UNCHANGED Files /\ servers' = [s \in McpNames |-> LoadSettings(s)]
          /\ conn' = [s \in McpNames |-> conn'[s]]
      BY <1>2 DEF StartServers
    <2>2. \A s \in McpNames : conn'[s] # "none" => servers'[s].config # NoEntry
      BY <1>2 DEF StartServers
    <2> QED
      BY <2>1, <2>2, FilesStay DEF ConnOK, Begun
  <1>3. CASE Started \/ Close
    <2>1. ConnOK' /\ UNCHANGED <<servers, Files>>
      BY <1>0, <1>3 DEF Started, Close, ConnOK, Begun
    <2> QED
      BY <2>1, FilesStay
  <1>4. ASSUME NEW s \in McpNames,
               Spawns(s) \/ Initializes(s) \/ InitializeFails(s) \/ ListsTools(s) \/ ListToolsFails(s) \/ ChildDies(s)
        PROVE  McpInv'
    <2>1. UNCHANGED <<servers, Files>>
      BY <1>4 DEF Spawns, Initializes, InitializeFails, ListsTools, ListToolsFails, ChildDies, Becomes
    <2>2. conn' = conn \/ (conn[s] # "none" /\ \E state : conn' = [conn EXCEPT ![s] = state])
      BY <1>4 DEF Spawns, Initializes, InitializeFails, ListsTools, ListToolsFails, ChildDies, Becomes
    <2>3. ConnOK'
      BY <1>0, <2>1, <2>2 DEF ConnOK, Begun
    <2> QED
      BY <2>1, <2>3, FilesStay
  <1>5. ASSUME NEW s \in McpNames, NEW c \in Scopes,
               NEW e \in {NoEntry, Plain, Entry(TRUE, FALSE, FALSE), Entry(TRUE, TRUE, TRUE)}, EditEntry(c, s, e)
        PROVE  McpInv'
    <2>1. e \in Entries \cup {NoEntry}
      BY Constants
    <2> QED
      BY <1>5, <2>1, HandsKeep
  <1> QED
    BY <1>1, <1>2, <1>3, <1>4, <1>5, RememberKeeps, BreakKeeps, ImportKeeps DEF McpNext

(* What a person answered of a server is in the file that an instance      *)
(* loads, and what people wrote themselves stays as they left it, in any   *)
(* order of answers, imports and edits (client.ts persist,                 *)
(* config.ts updateServerEntry).                                           *)
THEOREM AnswersAreKept == McpSpec => []AskedOnce
  <1>1. McpInv => AskedOnce
    BY DEF McpInv, Kept, Left, AskedOnce
  <1> QED
    BY <1>1, McpInitHolds, McpInvStep, PTL DEF McpSpec
=============================================================================
