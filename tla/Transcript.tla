----------------------------- MODULE Transcript -----------------------------
(* What goes on the wire: the messages built from the active branch        *)
(* (conversation/wire.ts), the cache breakpoints put on them               *)
(* (llm/cache-breakpoints.ts), and the requests of a session that carry    *)
(* them: turns, folds (session/compaction.ts) and titles (session/title.ts)*)
(* Session has the control of these requests; here it is cut down to what  *)
(* decides which entries follow each other.                                *)
(***************************************************************************)
EXTENDS Naturals, Sequences, FiniteSets, SequencesExt

CONSTANTS
    Providers,      \* backends that may serve a request
    Unknown,        \* no backend recorded, or none asked for
    MaxCalls,       \* tool calls in one answer
    MinTurns,       \* RETITLE_MIN_TURNS
    Growth,         \* RETITLE_GROWTH
    MaxMade         \* bound: entries ever appended

ASSUME TitlesAssumption == MinTurns \in Nat /\ Growth \in Nat
ASSUME AnswersAssumption == MaxCalls \in Nat

VARIABLES
    path,           \* the active branch
    made,           \* entries made so far, each with a number of its own
    at,             \* "idle", "boundary", "sent", "tools"
    unanswered,     \* calls of the last answer that have no result yet
    left,           \* answers whose calls nobody will answer any more
    asked,          \* the request that is out, or the last title or fold
    written,        \* the prefixes some answered request left in the cache
    lastWrite,      \* the longest that the branch still extends
    mark,           \* titleMark, or that no title was asked for yet
    retitles        \* titles asked for since the first, or since a fold was followed by one

transcriptVars == <<path, made, at, unanswered, left, asked, written, lastWrite, mark, retitles>>

-----------------------------------------------------------------------------
(* Entries and messages                                                    *)

Entry(type, id, text) ==
    [type |-> type, id |-> id, text |-> text, calls |-> 0, image |-> FALSE, provider |-> Unknown]

(* typed: a string, not parts. full: there is something to put a marker on.*)
(* sig: the backend whose signatures its reasoning_details carry.          *)
Message(role, of, typed, full) ==
    [role |-> role, of |-> of, typed |-> typed, full |-> full, calls |-> 0, sig |-> Unknown]
System == Message("system", <<>>, TRUE, TRUE)
Instruction == Message("user", <<0>>, TRUE, TRUE)
Attachments(run) == Message("user", run, FALSE, TRUE)

(* A user turn is never empty: it is stamped.                              *)
Plain(e) == Message(e.type, <<e.id>>, TRUE, e.text)
Stamped(e) == Message("user", <<e.id>>, TRUE, TRUE)
Called(e) == [Plain(e) EXCEPT !.calls = e.calls, !.sig = e.provider]

(* The images of a run of results, as one user message after the run.      *)
Flushed(a) == IF a.pending = <<>> THEN a.ms ELSE Append(a.ms, Attachments(a.pending))
Pairs(a, e) ==                        \* mutant: each image right after its result
    [ms |-> Append(a.ms, Plain(e)) \o IF e.image THEN <<Attachments(<<e.id>>)>> ELSE <<>>,
     pending |-> <<>>]
Answered(a, e) ==
    [ms |-> Append(a.ms, Plain(e)),
     pending |-> IF e.image THEN Append(a.pending, e.id) ELSE a.pending]

Replayed(a, e) ==
    CASE e.type = "compaction" -> [ms |-> <<Stamped(e)>>, pending |-> <<>>]
      [] e.type = "user"       -> [ms |-> Append(Flushed(a), Stamped(e)), pending |-> <<>>]
      [] e.type = "assistant"  -> [ms |-> Append(Flushed(a), Called(e)), pending |-> <<>>]
      [] e.type = "tool"       -> Answered(a, e)

NoMessages == [ms |-> <<>>, pending |-> <<>>]
BuildWireMessages(p) == <<System>> \o Flushed(FoldLeft(Replayed, NoMessages, p))

EndsWithUnansweredToolCall(w) == Last(w).role = "assistant" /\ Last(w).calls > 0

(* The first backend that is recorded since the last cut.                  *)
PinStep(pin, e) ==
    CASE e.type = "compaction" -> Unknown
      [] e.type = "assistant" /\ pin = Unknown -> e.provider
      [] OTHER -> pin
PinnedProvider(p) == FoldLeft(PinStep, Unknown, p)

(* For another model: no calls, no signatures; results as words of the user*)
CrossStep(ms, e) ==
    IF e.type = "compaction" THEN <<Stamped(e)>>
    ELSE Append(ms, CASE e.type = "user" -> Stamped(e)
                      [] e.type = "assistant" -> Plain(e)
                      [] e.type = "tool" -> Message("user", <<e.id>>, TRUE, TRUE))
BuildCrossModelSummaryInput(p) == <<System>> \o FoldLeft(CrossStep, <<>>, p)

(* The tails of the results only: no longer the prefix that was cached. 0: *)
(* what is cut, no entry's.                                                *)
TruncateToolOutputs(w) ==
    [i \in DOMAIN w |-> IF w[i].role = "tool" THEN [w[i] EXCEPT !.of = @ \o <<0>>] ELSE w[i]]

-----------------------------------------------------------------------------
(* applyCacheBreakpoints, for a model that honours them                    *)

Latest(S) == IF S = {} THEN 0 ELSE CHOOSE i \in S : \A j \in S : j <= i

WritePoint(w) == Latest({i \in 2..Len(w) : w[i].full})
MessageBefore(w) == Latest({i \in 2..(WritePoint(w) - 1) : w[i].full})  \* mutant: whatever can be marked
Anchor(w) ==
    Latest({i \in 2..(WritePoint(w) - 1) : w[i].role = "user" /\ w[i].typed /\ w[i].full})

Marks(w) == {1, Anchor(w), WritePoint(w)} \ {0}
PrefixTo(w, i) == SubSeq(w, 1, i)
MarkedPrefixes(w) == {PrefixTo(w, i) : i \in Marks(w)}

-----------------------------------------------------------------------------
(* Requests                                                                *)

Request(w) == [wire |-> w, provider |-> PinnedProvider(path)]
Ask(w) == Request(Append(w, Instruction))
NoRequest == [wire |-> <<System>>, provider |-> Unknown]

(* A request to the working model was served: what it marked is cached.    *)
Cached(req) == written' = written \cup MarkedPrefixes(req.wire)

Room(n) == made + n <= MaxMade
Appends(es) == path' = path \o es /\ made' = made + Len(es)
User == Entry("user", made + 1, TRUE)

-----------------------------------------------------------------------------
TranscriptInit ==
    /\ path = <<>> /\ made = 0 /\ at = "idle" /\ unanswered = 0 /\ left = {}
    /\ asked = NoRequest
    /\ written = {} /\ lastWrite = <<>>
    /\ mark = [turns |-> 0, folds |-> 0, asked |-> FALSE] /\ retitles = 0

cacheVars == <<written, lastWrite>>
titleVars == <<mark, retitles>>

(* send, and the first of a drained queue; FlushUser has the others.       *)
SendUser ==
    /\ at = "idle" /\ Room(1)
    /\ Appends(<<User>>) /\ at' = "boundary"
    /\ asked' = NoRequest
    /\ UNCHANGED <<unanswered, left, cacheVars, titleVars>>

(* editFork: the branch up to a message, and another one instead of it.    *)
EditUser(i) ==
    /\ at = "idle" /\ Room(1)
    /\ path[i].type = "user"
    /\ path' = Append(SubSeq(path, 1, i - 1), User) /\ made' = made + 1
    /\ at' = "boundary" /\ lastWrite' = <<>>
    /\ asked' = NoRequest
    /\ UNCHANGED <<unanswered, left, written, titleVars>>

(* flushPendingUser, once the batch is drained.                            *)
FlushUser ==
    /\ at = "boundary" /\ Room(1)
    /\ Appends(<<User>>)
    /\ asked' = NoRequest
    /\ UNCHANGED <<at, unanswered, left, cacheVars, titleVars>>

SendTurn ==
    /\ at = "boundary"
    /\ asked' = Request(BuildWireMessages(path))
    /\ at' = "sent"
    /\ UNCHANGED <<path, made, unanswered, left, cacheVars, titleVars>>

(* Rejected, aborted or lost; it may be tried again.                       *)
TurnFails ==
    /\ at = "sent" /\ at' \in {"idle", "boundary"}
    /\ asked' = NoRequest
    /\ UNCHANGED <<path, made, unanswered, left, cacheVars, titleVars>>

(* The answer comes from the backend that was asked for, if one was. Cut   *)
(* off at max_tokens, its calls are not run.                               *)
AnswerLands(calls, cut) ==
    /\ at = "sent" /\ Room(1)
    /\ \E text \in BOOLEAN, by \in IF asked.provider = Unknown THEN Providers \cup {Unknown} ELSE {asked.provider} :
          Appends(<<[Entry("assistant", made + 1, text) EXCEPT !.calls = calls, !.provider = by]>>)
    /\ Cached(asked) /\ lastWrite' = PrefixTo(asked.wire, WritePoint(asked.wire))
    /\ IF calls = 0 \/ cut
       THEN at' = "idle" /\ unanswered' = 0 /\ left' = IF calls > 0 THEN left \cup {made + 1} ELSE left
       ELSE at' = "tools" /\ unanswered' = calls /\ UNCHANGED left
    /\ asked' = NoRequest
    /\ UNCHANGED titleVars

ToolAnswers ==
    /\ at = "tools" /\ Room(1)
    /\ \E text \in BOOLEAN, image \in BOOLEAN :
          Appends(<<[Entry("tool", made + 1, text) EXCEPT !.image = image]>>)
    /\ unanswered' = unanswered - 1
    /\ at' = IF unanswered = 1 THEN "boundary" ELSE "tools"
    /\ UNCHANGED <<left, asked, cacheVars, titleVars>>

(* A hard stop drops the calls that are left; a pause or the end of the    *)
(* turn at a boundary leaves none.                                         *)
Stop ==
    /\ at \in {"tools", "boundary"} /\ at' = "idle"
    /\ unanswered' = 0
    /\ left' = IF at = "tools" THEN left \cup {e.id : e \in {f \in ToSet(path) : f.calls > 0}} ELSE left
    /\ UNCHANGED <<path, made, asked, cacheVars, titleVars>>

(* compact, at a boundary or while idle: with this model, with its input   *)
(* cut to fit, or with another model.                                      *)
FoldInput(how) ==
    CASE how = "fold"   -> BuildWireMessages(path)
      [] how = "forced" -> TruncateToolOutputs(BuildWireMessages(path))
      [] how = "cross"  -> BuildCrossModelSummaryInput(path)

Compact(how) ==
    /\ at \in {"idle", "boundary"} /\ path # <<>> /\ Room(1)
    /\ asked' = [Ask(FoldInput(how)) EXCEPT !.provider = IF how = "cross" THEN Unknown ELSE @]
    /\ \/ /\ Appends(<<Entry("compaction", made + 1, TRUE)>>)
          /\ IF how = "cross" THEN UNCHANGED written ELSE Cached(asked')
          /\ lastWrite' = <<>>
       \/ UNCHANGED <<path, made, cacheVars>>        \* the call failed, or said nothing
    /\ UNCHANGED <<at, unanswered, left, titleVars>>

(* maybeAutoTitle                                                          *)
Now == [turns |-> Cardinality({i \in DOMAIN path : path[i].type = "user"}),
        folds |-> Cardinality({i \in DOMAIN path : path[i].type = "compaction"}),
        asked |-> TRUE]
Folded == Now.folds > mark.folds
Grown == Now.turns >= mark.turns + MinTurns /\ Now.turns >= mark.turns * Growth
DriftedEnough == Folded \/ Grown

AskTitle ==
    /\ at \in {"idle", "boundary"}
    /\ \E e \in ToSet(path) : e.type = "assistant" /\ e.text
    /\ mark.asked => DriftedEnough
    /\ ~EndsWithUnansweredToolCall(BuildWireMessages(path))
    /\ asked' = Ask(BuildWireMessages(path))
    /\ mark' = Now
    /\ retitles' = IF mark.asked /\ ~Folded THEN retitles + 1 ELSE 0
    /\ Cached(asked')
    /\ UNCHANGED <<path, made, at, unanswered, left, lastWrite>>

TranscriptNext ==
    \/ SendUser \/ \E i \in DOMAIN path : EditUser(i)
    \/ FlushUser \/ SendTurn \/ TurnFails
    \/ \E calls \in 0..MaxCalls, cut \in BOOLEAN : AnswerLands(calls, cut)
    \/ ToolAnswers \/ Stop
    \/ \E how \in {"fold", "forced", "cross"} : Compact(how)
    \/ AskTitle

TranscriptSpec == TranscriptInit /\ [][TranscriptNext]_transcriptVars

-----------------------------------------------------------------------------
(* Properties                                                              *)

(* Any request can be sent.  Each call of an answer is followed by its     *)
(* result, unbroken ("every tool message must sit unbroken after the       *)
(* assistant turn that called it"); images come after the whole run. What a*)
(* cut-off or a hard stop left unanswered stays so, and nothing else.  And *)
(* signatures go back to the backend that minted them and to nobody else: a*)
(* request is tied to a backend only while something of it is replayed, so *)
(* that a fold sets the conversation free again.                           *)
CallsAnswered(w) ==
    \A i \in DOMAIN w : w[i].calls > 0 /\ w[i].of[1] \notin left =>
       \A j \in (i + 1)..(i + w[i].calls) : j \in DOMAIN w /\ w[j].role = "tool"
Signers(w) == {m.sig : m \in ToSet(w)} \ {Unknown}
Sendable == CallsAnswered(asked.wire) /\ Signers(asked.wire) = {asked.provider} \ {Unknown}

(* Titles are rare: from one fold to the next each one takes twice the turns*)
(* of the one before, so their number grows with the logarithm.            *)
Times(n, by) == n * by
TitlesAreRare == retitles > 0 => made >= FoldLeft(Times, 1 + MinTurns, [i \in 1..(retitles - 1) |-> Growth])

(* The cache is read where it was written: the request of a turn repeats   *)
(* the last served request up to its write point, and its anchor marks a   *)
(* prefix some earlier request wrote, unless it is the summary of a new    *)
(* window, or the person said something more before the model was asked    *)
(* (two messages drained together).  And titles are few.                   *)
RequestsStayCheap ==
    LET w == asked.wire
        a == Anchor(w)
    IN  /\ at = "sent" => IsPrefix(lastWrite, w)
        /\ at = "sent" /\ a > 2 /\ w[a + 1].role # "user" => PrefixTo(w, a) \in written
        /\ TitlesAreRare
=============================================================================
