------------------------------- MODULE Stream -------------------------------
(* One call of the model (llm/client.ts, stream.ts) and the cache in front *)
(* of it (caching-driver.ts, cache.ts).  The provider cuts its answer into *)
(* fragments and sends them interleaved; the client puts them together.    *)
(* The stream may break, be cut short, be refused or be left by the caller.*)
(***************************************************************************)
EXTENDS Integers, Sequences, FiniteSets, SequencesExt

CONSTANTS
    Asked,          \* requests: what is asked, and how it is routed
    Letters,        \* what texts, reasoning and arguments are made of
    Words,          \* ids, names, signatures and backends
    ModelAnswers,   \* what the provider may answer, see AnswerOf
    MaxAttempts     \* bound: calls of the driver

VARIABLES
    asked,          \* the request under way
    answer,         \* what the provider is saying
    sent,           \* how much of each part of it has been sent
    ended,          \* its last chunk, with the finish reason and the usage, is sent
    garbled,        \* one of its chunks did not parse
    acc,            \* the events folded so far
    call,           \* "none", "streaming", "answered", "failed", "left"
    again,          \* the failure is one that asking again may help
    kept,           \* the cache: from what was asked to the result
    attempts

streamVars == <<asked, answer, sent, ended, garbled, acc, call, again, kept, attempts>>

-----------------------------------------------------------------------------
(* accumulate, one event at a time                                         *)

NoIndex == -1
NoWord == ""
Nothing == [text |-> <<>>, blocks |-> <<>>, calls |-> <<>>, finish |-> "stop", provider |-> NoWord, usage |-> 0]
NotKept == [Nothing EXCEPT !.finish = NoWord]

(* A reasoning block and a call as the protocol has them: what belongs to  *)
(* one block, and to one call, bears one index.                            *)
Blocks == [index : Nat \cup {NoIndex}, text : Seq(Letters), sign : Words]
ToolCalls == [index : Nat, id : Words, name : Words, args : Seq(Letters)]
Answers == [text : Seq(Letters), blocks : Seq(Blocks), calls : Seq(ToolCalls), provider : Words]
Distinct(parts) ==
    \A i, j \in DOMAIN parts : parts[i].index = parts[j].index => i = j \/ parts[i].index = NoIndex

ASSUME WordsAssumption == NoWord \in Words
ASSUME AnswersAssumption == \A a \in ModelAnswers : a \in Answers /\ Distinct(a.blocks) /\ Distinct(a.calls)

Latest(new, old) == IF new = NoWord THEN old ELSE new
First(old, new) == IF old = NoWord THEN new ELSE old

(* ReasoningAssembler.add: fragments with an index are one block; the text *)
(* accumulates and the signature, which covers it, lands in the last.      *)
AppendBlock(blocks, item) == Append(blocks, item)        \* mutant: each fragment a block of its own (H-04)
Merged(block, item) ==
    [index |-> block.index, text |-> block.text \o item.text, sign |-> Latest(item.sign, block.sign)]
AddBlock(blocks, item) ==
    LET same == {i \in DOMAIN blocks : item.index # NoIndex /\ blocks[i].index = item.index}
    IN  IF same = {} THEN Append(blocks, item)
        ELSE [i \in DOMAIN blocks |-> IF i \in same THEN Merged(blocks[i], item) ELSE blocks[i]]

NewCall == [id |-> NoWord, name |-> NoWord, args |-> <<>>]
AddCall(calls, frag) ==
    LET cur == IF frag.index \in DOMAIN calls THEN calls[frag.index] ELSE NewCall
        put == [id |-> Latest(frag.id, cur.id), name |-> Latest(frag.name, cur.name), args |-> cur.args \o frag.args]
    IN  [i \in DOMAIN calls \cup {frag.index} |-> IF i = frag.index THEN put ELSE calls[i]]

Accumulate(a, ev) ==
    CASE ev.type = "text"     -> [a EXCEPT !.text = @ \o ev.value]
      [] ev.type = "details"  -> [a EXCEPT !.blocks = FoldLeft(AddBlock, @, ev.value)]
      [] ev.type = "call"     -> [a EXCEPT !.calls = AddCall(@, ev.value)]
      [] ev.type = "finish"   -> [a EXCEPT !.finish = ev.value]
      [] ev.type = "provider" -> [a EXCEPT !.provider = First(@, ev.value)]
      [] ev.type = "usage"    -> [a EXCEPT !.usage = ev.value]

(* The result has the calls in the order of their indices, without them.   *)
Result(a) ==
    [a EXCEPT !.calls = [n \in 1..Cardinality(DOMAIN a.calls) |->
        a.calls[CHOOSE i \in DOMAIN a.calls : Cardinality({j \in DOMAIN a.calls : j <= i}) = n]]]

-----------------------------------------------------------------------------
(* chunkToEvents                                                           *)

Event(type, value) == [type |-> type, value |-> value]
When(cond, ev) == IF cond THEN <<ev>> ELSE <<>>

ChunkToEvents(chunk) ==
    When(chunk.text # <<>>, Event("text", chunk.text))
    \o When(chunk.details # <<>>, Event("details", chunk.details))
    \o [i \in DOMAIN chunk.calls |-> Event("call", chunk.calls[i])]
    \o When(chunk.finish # NoWord, Event("finish", chunk.finish))
    \o When(chunk.provider # NoWord, Event("provider", chunk.provider))
    \o When(chunk.usage # 0, Event("usage", chunk.usage))

Fold(a, events) == FoldLeft(Accumulate, a, events)

-----------------------------------------------------------------------------
(* The provider.  The parts of an answer are its text, its reasoning blocks*)
(* and its tool calls; a part is sent in order, the parts interleaved.     *)

AnswerOf(text, blocks, calls, provider) ==
    [text |-> text, blocks |-> blocks, calls |-> calls, provider |-> provider]

Parts(a) ==
    {<<"text", 1>>} \cup {<<"block", i>> : i \in DOMAIN a.blocks} \cup {<<"call", i>> : i \in DOMAIN a.calls}

Pieces(a, part) ==
    CASE part[1] = "text"  -> Len(a.text)
      [] part[1] = "block" -> IF a.blocks[part[2]].index = NoIndex THEN 1 ELSE Len(a.blocks[part[2]].text) + 1
      [] part[1] = "call"  -> Len(a.calls[part[2]].args) + 1

FinishOf(a) == IF a.calls = <<>> THEN "stop" ELSE "tool_calls"

Empty(provider) ==
    [text |-> <<>>, details |-> <<>>, calls |-> <<>>, finish |-> NoWord, provider |-> provider, usage |-> 0]

(* The n-th piece of a part: a block without an index comes whole; of the  *)
(* others the signature comes last, without text; a call begins with its id*)
(* and its name.                                                           *)
BlockFragment(b, n) ==
    IF b.index = NoIndex THEN b
    ELSE IF n <= Len(b.text) THEN [b EXCEPT !.text = <<b.text[n]>>, !.sign = NoWord]
    ELSE [b EXCEPT !.text = <<>>]
CallFragment(c, n) ==
    IF n = 1 THEN [c EXCEPT !.args = <<>>]
    ELSE [c EXCEPT !.id = NoWord, !.name = NoWord, !.args = <<c.args[n - 1]>>]
Piece(a, part, n) ==
    LET e == Empty(a.provider)
    IN  CASE part[1] = "text"  -> [e EXCEPT !.text = <<a.text[n]>>]
          [] part[1] = "block" -> [e EXCEPT !.details = <<BlockFragment(a.blocks[part[2]], n)>>]
          [] part[1] = "call"  -> [e EXCEPT !.calls = <<CallFragment(a.calls[part[2]], n)>>]

-----------------------------------------------------------------------------
(* CachingDriver.streamChat                                                *)

(* requestSignature: routing does not change what comes out.               *)
Signature(r) == r.what

(* replay: what accumulate folds back into the result it was made from.    *)
Replay(r) ==
    When(r.blocks # <<>>, Event("details", r.blocks))
    \o When(r.text # <<>>, Event("text", r.text))
    \o [i \in DOMAIN r.calls |->
            Event("call", [index |-> i - 1, id |-> r.calls[i].id, name |-> r.calls[i].name, args |-> r.calls[i].args])]
    \o <<Event("finish", r.finish)>>
    \o When(r.provider # NoWord, Event("provider", r.provider))
    \o When(r.usage # 0, Event("usage", r.usage))

Free == call # "streaming" /\ attempts < MaxAttempts

StreamInit ==
    /\ asked \in Asked /\ answer \in ModelAnswers /\ sent = [part \in Parts(answer) |-> 0]
    /\ ended = FALSE /\ garbled = FALSE /\ acc = Nothing
    /\ call = "none" /\ again = FALSE /\ attempts = 0
    /\ kept = [w \in {Signature(r) : r \in Asked} |-> NotKept]

Hit(r) ==
    /\ Free /\ kept[Signature(r)] # NotKept
    /\ asked' = r /\ attempts' = attempts + 1 /\ call' = "answered" /\ again' = FALSE
    /\ acc' = Fold(Nothing, Replay(kept[Signature(r)]))
    /\ ended' = FALSE
    /\ UNCHANGED <<answer, sent, garbled, kept>>

Miss(r, a) ==
    /\ Free /\ kept[Signature(r)] = NotKept
    /\ asked' = r /\ attempts' = attempts + 1 /\ call' = "streaming" /\ again' = FALSE
    /\ answer' = a /\ sent' = [part \in Parts(a) |-> 0] /\ ended' = FALSE /\ garbled' = FALSE
    /\ acc' = Nothing
    /\ UNCHANGED kept

(* isTransientError: a busy provider, a gateway, the network; a fact about *)
(* the request or the account is not one that asking again changes.        *)
Transient(failure) == failure \in {"busy", "gateway", "network"}

Fails(failure) ==
    /\ call' = "failed" /\ again' = Transient(failure)
    /\ UNCHANGED <<asked, answer, sent, ended, garbled, acc, kept, attempts>>

Refused(failure) ==
    /\ call = "streaming" /\ (\A part \in Parts(answer) : sent[part] = 0)
    /\ Fails(failure)
Breaks == call = "streaming" /\ Fails("network")

(* A data line.                                                            *)
Chunk(part) ==
    /\ call = "streaming" /\ ~ended /\ sent[part] < Pieces(answer, part)
    /\ sent' = [sent EXCEPT ![part] = @ + 1]
    /\ acc' = Fold(acc, ChunkToEvents(Piece(answer, part, sent[part] + 1)))
    /\ UNCHANGED <<asked, answer, ended, garbled, call, again, kept, attempts>>

(* A line that does not parse, or that the body ends in the middle of, is  *)
(* passed over (here at most one of a call).                               *)
Garbled(part) ==
    /\ call = "streaming" /\ ~ended /\ ~garbled /\ sent[part] < Pieces(answer, part)
    /\ sent' = [sent EXCEPT ![part] = @ + 1] /\ garbled' = TRUE
    /\ UNCHANGED <<asked, answer, ended, acc, call, again, kept, attempts>>

LastChunk ==
    /\ call = "streaming" /\ ~ended
    /\ \A part \in Parts(answer) : sent[part] = Pieces(answer, part)
    /\ ended' = TRUE
    /\ acc' = Fold(acc, ChunkToEvents([Empty(answer.provider) EXCEPT !.finish = FinishOf(answer), !.usage = 1]))
    /\ UNCHANGED <<asked, answer, sent, garbled, call, again, kept, attempts>>

(* [DONE], or the body simply ends: nobody asks which.  The result is put  *)
(* in the cache, and when that fails so does the call.                     *)
Closes ==
    /\ call = "streaming" /\ call' = "answered"
    /\ kept' = [kept EXCEPT ![Signature(asked)] = Result(acc)]
    /\ UNCHANGED <<asked, answer, sent, ended, garbled, acc, again, attempts>>
PutFails == call = "streaming" /\ ended /\ Fails("disk")

(* The caller stops listening, or aborts the request.                      *)
Leaves ==
    /\ call = "streaming" /\ call' = "left"
    /\ UNCHANGED <<asked, answer, sent, ended, garbled, acc, again, kept, attempts>>

StreamNext ==
    \/ \E r \in Asked : Hit(r) \/ \E a \in ModelAnswers : Miss(r, a)
    \/ \E failure \in {"busy", "gateway", "network", "request", "account"} : Refused(failure)
    \/ \E part \in Parts(answer) : Chunk(part) \/ Garbled(part)
    \/ LastChunk \/ Breaks \/ Closes \/ PutFails \/ Leaves

StreamSpec == StreamInit /\ [][StreamNext]_streamVars

-----------------------------------------------------------------------------
(* Properties                                                              *)

Unindexed(c) == [id |-> c.id, name |-> c.name, args |-> c.args]
Place(calls, i) == Cardinality({j \in DOMAIN calls : calls[j].index <= calls[i].index})
InOrder(put, calls) ==
    Len(put) = Len(calls) /\ \A i \in DOMAIN calls : put[Place(calls, i)] = Unindexed(calls[i])

Whole(r) ==
    /\ r.text = answer.text /\ InOrder(r.calls, answer.calls) /\ r.provider = answer.provider
    /\ Range(r.blocks) = Range(answer.blocks) /\ Len(r.blocks) = Len(answer.blocks)
    /\ r.finish = FinishOf(answer) /\ r.usage = 1

(* However the fragments of an answer are interleaved, what is put together*)
(* is the answer the provider gave: each call with its own arguments, each *)
(* reasoning block once, whole and with the signature that covers it       *)
(* (H-04), and nothing of an attempt that broke off before.  What an answer*)
(* leaves in the cache gives the same answer back, the backend to pin to   *)
(* included; a call that did not come to its end leaves nothing there.     *)
AnswerIsKept ==
    /\ call = "answered" /\ ended /\ ~garbled => Whole(Result(acc))
    /\ call = "answered" => kept[Signature(asked)] = Result(acc)
    /\ call # "answered" => kept[Signature(asked)] = NotKept
=============================================================================
