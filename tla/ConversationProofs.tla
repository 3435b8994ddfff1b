------------------------ MODULE ConversationProofs -------------------------
(* Proofs about the conversation, for every value of the constants.  As it *)
(* is sent (Transcript): every request is well formed, its signatures go   *)
(* back to who minted them, and what it repeats is in the cache.  As it is *)
(* kept (ConversationStore): a log that was neither discarded from nor     *)
(* written by two sessions replays to what the session shows, and its every*)
(* prefix to what a session showed.                                        *)
EXTENDS ConversationStore, Transcript, SequenceTheorems, FiniteSetTheorems, TLAPS

FR == INSTANCE Folding WITH Step <- Replayed
FP == INSTANCE Folding WITH Step <- PinStep
FC == INSTANCE Folding WITH Step <- CrossStep
FG == INSTANCE Folding WITH Step <- Times

-----------------------------------------------------------------------------
(* Entries and messages, as sets.                                          *)
Backends == Providers \cup {Unknown}
Entries ==
    [type : {"user", "assistant", "tool", "compaction"}, id : Nat, text : BOOLEAN, calls : Nat, image : BOOLEAN,
     provider : Backends]
Messages ==
    {m \in [role : {"system", "user", "assistant", "tool"}, of : Seq(Nat), typed : BOOLEAN, full : BOOLEAN,
            calls : Nat, sig : Backends] : m.role = "tool" => m.calls = 0}
Replays == [ms : Seq(Messages), pending : Seq(Nat)]

(* The replay of the first n entries, and the backend they pin.            *)
ReplayTo(p, n) == FoldLeft(Replayed, NoMessages, SubSeq(p, 1, n))
PinTo(p, n) == FoldLeft(PinStep, Unknown, SubSeq(p, 1, n))

(* s is what t begins with.                                                *)
Carries(s, t) == Len(s) <= Len(t) /\ \A i \in 1..Len(s) : t[i] = s[i]

-----------------------------------------------------------------------------
(* The first n elements                                                    *)

LEMMA FrontIs ==
    ASSUME NEW S, NEW p \in Seq(S), NEW n \in 0..Len(p)
    PROVE  /\ SubSeq(p, 1, n) \in Seq(S) /\ Len(SubSeq(p, 1, n)) = n /\ DOMAIN SubSeq(p, 1, n) = 1..n
           /\ \A i \in 1..n : SubSeq(p, 1, n)[i] = p[i] /\ i \in DOMAIN p
  OBVIOUS

LEMMA FrontWhole == ASSUME NEW S, NEW p \in Seq(S) PROVE SubSeq(p, 1, Len(p)) = p
  BY SubSeqFull

LEMMA FrontSame ==
    ASSUME NEW S, NEW p \in Seq(S), NEW q \in Seq(S), NEW n \in Nat, n <= Len(p), n <= Len(q),
           \A i \in 1..n : p[i] = q[i]
    PROVE  SubSeq(p, 1, n) = SubSeq(q, 1, n)
  <1>2. /\ SubSeq(p, 1, n) \in Seq(S) /\ Len(SubSeq(p, 1, n)) = n
        /\ \A i \in 1..n : SubSeq(p, 1, n)[i] = p[i]
    OBVIOUS
  <1>3. /\ SubSeq(q, 1, n) \in Seq(S) /\ Len(SubSeq(q, 1, n)) = n
        /\ \A i \in 1..n : SubSeq(q, 1, n)[i] = q[i]
    OBVIOUS
  <1> QED
    BY <1>2, <1>3, SeqEqual

-----------------------------------------------------------------------------
(* The replay, entry by entry                                              *)

LEMMA EntryIs == ASSUME NEW p \in Seq(Entries), NEW n \in 1..Len(p) PROVE p[n] \in Entries
  BY ElementOfSeq

LEMMA ReplayTypes ==
    ASSUME NEW r \in Replays, NEW e \in Entries
    PROVE  Replayed(r, e) \in Replays /\ Flushed(r) \in Seq(Messages)
  <1>1. Unknown \in Backends /\ e.type \in {"user", "assistant", "tool", "compaction"} /\ e.id \in Nat
        /\ e.text \in BOOLEAN /\ e.calls \in Nat /\ e.image \in BOOLEAN /\ e.provider \in Backends
    BY DEF Entries, Backends
  <1>2. r.ms \in Seq(Messages) /\ r.pending \in Seq(Nat)
    BY DEF Replays
  <1>3. <<e.id>> \in Seq(Nat)
    BY <1>1
  <1>4. Stamped(e) \in Messages /\ (e.type # "compaction" => Plain(e) \in Messages)
        /\ (e.type = "assistant" => Called(e) \in Messages)
    BY <1>1, <1>3 DEF Stamped, Plain, Called, Message, Messages
  <1>5. Attachments(r.pending) \in Messages
    BY <1>1, <1>2 DEF Attachments, Message, Messages
  <1>6. Flushed(r) \in Seq(Messages)
    BY <1>2, <1>5 DEF Flushed
  <1>7. <<>> \in Seq(Nat) /\ Append(r.pending, e.id) \in Seq(Nat)
    BY <1>1, <1>2
  <1>8. CASE e.type = "compaction"
    BY <1>4, <1>6, <1>7, <1>8 DEF Replayed, Replays
  <1>9. CASE e.type = "user"
    BY <1>4, <1>6, <1>7, <1>9 DEF Replayed, Replays
  <1>10. CASE e.type = "assistant"
    BY <1>4, <1>6, <1>7, <1>10 DEF Replayed, Replays
  <1>11. CASE e.type = "tool"
    <2>1. Append(r.ms, Plain(e)) \in Seq(Messages)
      BY <1>2, <1>4, <1>11
    <2> QED
      BY <1>2, <1>6, <1>7, <1>11, <2>1 DEF Replayed, Replays, Answered
  <1> QED
    BY <1>1, <1>6, <1>8, <1>9, <1>10, <1>11

LEMMA ReplayFold == ASSUME NEW p PROVE FoldLeft(Replayed, NoMessages, p) = FR!FoldOf(NoMessages, p)
  BY DEF FR!FoldOf, FoldLeft, MapThenFoldSet, FR!FoldLeft, FR!MapThenFoldSet, Max, FR!Max

LEMMA PinFold == ASSUME NEW p PROVE FoldLeft(PinStep, Unknown, p) = FP!FoldOf(Unknown, p)
  BY DEF FP!FoldOf, FoldLeft, MapThenFoldSet, FP!FoldLeft, FP!MapThenFoldSet, Max, FP!Max

LEMMA ReplayNone == ASSUME NEW p \in Seq(Entries) PROVE ReplayTo(p, 0) = NoMessages /\ PinTo(p, 0) = Unknown
  <1>1. SubSeq(p, 1, 0) = <<>>
    BY SubSeqEmpty
  <1> QED
    BY <1>1, ReplayFold, PinFold, FR!FoldNone, FP!FoldNone DEF ReplayTo, PinTo

LEMMA ReplayNext ==
    ASSUME NEW p \in Seq(Entries), NEW n \in Nat, n < Len(p)
    PROVE  /\ ReplayTo(p, n + 1) = Replayed(ReplayTo(p, n), p[n + 1])
           /\ PinTo(p, n + 1) = PinStep(PinTo(p, n), p[n + 1])
  <1>1. n \in 0..Len(p) /\ n + 1 \in 0..Len(p)
    OBVIOUS
  <1>s. PICK s : s = SubSeq(p, 1, n)
    OBVIOUS
  <1>z. PICK z : z = SubSeq(p, 1, n + 1)
    OBVIOUS
  <1>2. DOMAIN s = 1..n /\ \A i \in 1..n : s[i] = p[i]
    BY <1>1, <1>s
  <1>3. DOMAIN z = 1..(n + 1) /\ \A i \in 1..(n + 1) : z[i] = p[i]
    BY <1>1, <1>z
  <1>4. (\A i \in 1..n : z[i] = s[i]) /\ z[n + 1] = p[n + 1]
    BY <1>2, <1>3
  <1>5. FR!FoldOf(NoMessages, z) = Replayed(FR!FoldOf(NoMessages, s), z[n + 1])
    <2>1. \A none : FR!FoldOf(none, z) = Replayed(FR!FoldOf(none, s), z[n + 1])
      BY <1>2, <1>3, <1>4, FR!FoldMore
    <2> QED
      BY <2>1
  <1>6. FP!FoldOf(Unknown, z) = PinStep(FP!FoldOf(Unknown, s), z[n + 1])
    BY <1>2, <1>3, <1>4, FP!FoldMore
  <1>7. ReplayTo(p, n) = FR!FoldOf(NoMessages, s) /\ ReplayTo(p, n + 1) = FR!FoldOf(NoMessages, z)
    BY <1>s, <1>z, ReplayFold DEF ReplayTo
  <1>8. PinTo(p, n) = FP!FoldOf(Unknown, s) /\ PinTo(p, n + 1) = FP!FoldOf(Unknown, z)
    BY <1>s, <1>z, PinFold DEF PinTo
  <1> QED
    BY <1>4, <1>5, <1>6, <1>7, <1>8

LEMMA ReplaysAre == ASSUME NEW p \in Seq(Entries) PROVE \A n \in 0..Len(p) : ReplayTo(p, n) \in Replays
  <1> DEFINE T == {n \in Nat : ReplayTo(p, n) \in Replays}
  <1>1. 0 \in T
    <2>1. NoMessages \in Replays
      BY DEF NoMessages, Replays
    <2> QED
      BY <2>1, ReplayNone
  <1>2. ASSUME NEW n \in Nat, n < Len(p), n \in T PROVE n + 1 \in T
    <2>1. p[n + 1] \in Entries
      BY <1>2, EntryIs
    <2> QED
      BY <1>2, <2>1, ReplayTypes, ReplayNext
  <1>3. \A n \in 0..Len(p) : n \in T
    <2> HIDE DEF T
    <2> QED
      BY <1>1, <1>2, LenProperties, FR!UpTo
  <1> QED
    BY <1>3

LEMMA PinsAre == ASSUME NEW p \in Seq(Entries) PROVE PinTo(p, Len(p)) \in Backends
  <1> DEFINE T == {n \in Nat : PinTo(p, n) \in Backends}
  <1>0. Len(p) \in Nat
    BY LenProperties
  <1>1. 0 \in T
    BY ReplayNone DEF Backends
  <1>2. ASSUME NEW n \in Nat, n < Len(p), n \in T PROVE n + 1 \in T
    <2>1. p[n + 1] \in Entries
      BY <1>2, EntryIs
    <2>2. PinTo(p, n + 1) = PinStep(PinTo(p, n), p[n + 1])
      BY <1>2, ReplayNext
    <2>3. \A e \in Entries, pin \in Backends : PinStep(pin, e) \in Backends
      BY DEF PinStep, Backends, Entries
    <2> QED
      BY <1>2, <2>1, <2>2, <2>3
  <1>3. \A n \in 0..Len(p) : n \in T
    <2> HIDE DEF T
    <2> QED
      BY <1>0, <1>1, <1>2, FP!UpTo
  <1> QED
    BY <1>0, <1>3

(* Of the entries further on nothing is replayed.                          *)
LEMMA ReplaySame ==
    ASSUME NEW p \in Seq(Entries), NEW q \in Seq(Entries), NEW n \in Nat, n <= Len(p), n <= Len(q),
           \A i \in 1..n : p[i] = q[i]
    PROVE  ReplayTo(p, n) = ReplayTo(q, n) /\ PinTo(p, n) = PinTo(q, n)
  BY FrontSame DEF ReplayTo, PinTo

LEMMA BuildIs ==
    ASSUME NEW p \in Seq(Entries)
    PROVE  /\ BuildWireMessages(p) = <<System>> \o Flushed(ReplayTo(p, Len(p)))
           /\ PinnedProvider(p) = PinTo(p, Len(p))
  BY FrontWhole DEF BuildWireMessages, PinnedProvider, ReplayTo, PinTo

(* What a step adds: after the messages there were, unless it is a fold.   *)
LEMMA FlushAdds ==
    ASSUME NEW r \in Replays
    PROVE  /\ Flushed(r) \in Seq(Messages) /\ Carries(r.ms, Flushed(r))
           /\ r.pending = <<>> => Flushed(r) = r.ms
           /\ \A i \in DOMAIN Flushed(r) : i > Len(r.ms) =>
                 /\ i = Len(r.ms) + 1 /\ Flushed(r)[i] = Attachments(r.pending)
                 /\ Len(Flushed(r)) = Len(r.ms) + 1
  <1>1. r.ms \in Seq(Messages) /\ r.pending \in Seq(Nat)
    BY DEF Replays
  <1>2. Attachments(r.pending) \in Messages
    BY <1>1 DEF Attachments, Message, Messages, Backends
  <1>3. CASE r.pending = <<>>
    BY <1>1, <1>3 DEF Flushed, Carries
  <1>4. CASE r.pending # <<>>
    <2>1. Flushed(r) = Append(r.ms, Attachments(r.pending))
      BY <1>4 DEF Flushed
    <2> QED
      BY <1>1, <1>2, <1>4, <2>1 DEF Carries
  <1> QED
    BY <1>3, <1>4

(* What an entry becomes, and what its step leaves as it was.              *)
Becomes(e) == IF e.type = "user" THEN Stamped(e) ELSE IF e.type = "assistant" THEN Called(e) ELSE Plain(e)

LEMMA StepAdds ==
    ASSUME NEW r \in Replays, NEW e \in Entries, e.type # "compaction", NEW s, s = Replayed(r, e)
    PROVE  /\ s \in Replays /\ Len(s.ms) >= Len(r.ms) + 1 /\ Carries(r.ms, s.ms)
           /\ s.ms[Len(s.ms)] = Becomes(e)
           /\ e.type = "tool" => Len(s.ms) = Len(r.ms) + 1
           /\ e.type # "tool" =>
                 Carries(Flushed(r), s.ms) /\ s.pending = <<>> /\ Len(s.ms) = Len(Flushed(r)) + 1
           /\ \A i \in DOMAIN s.ms : i > Len(r.ms) /\ i < Len(s.ms) =>
                 i = Len(r.ms) + 1 /\ s.ms[i] = Attachments(r.pending)
  <1>1. r.ms \in Seq(Messages) /\ r.pending \in Seq(Nat) /\ e.type \in {"user", "assistant", "tool"}
    BY DEF Replays, Entries
  <1>2. s \in Replays /\ s.ms \in Seq(Messages)
    BY ReplayTypes DEF Replays
  <1>3. CASE e.type = "tool"
    <2>1. s.ms = Append(r.ms, Plain(e))
      BY <1>3 DEF Replayed, Answered
    <2>2. Becomes(e) = Plain(e)
      BY <1>3 DEF Becomes
    <2>3. /\ Len(s.ms) = Len(r.ms) + 1 /\ s.ms[Len(s.ms)] = Plain(e)
          /\ \A i \in 1..Len(r.ms) : s.ms[i] = r.ms[i]
      BY <1>1, <2>1
    <2> QED
      BY <1>1, <1>2, <1>3, <2>2, <2>3, LenProperties DEF Carries
  <1>4. CASE e.type # "tool"
    <2>1. s.ms = Append(Flushed(r), Becomes(e)) /\ s.pending = <<>>
      BY <1>1, <1>4 DEF Replayed, Becomes
    <2> DEFINE f == Flushed(r)
    <2>2. /\ f \in Seq(Messages) /\ Carries(r.ms, f)
          /\ \A i \in DOMAIN f : i > Len(r.ms) => i = Len(r.ms) + 1 /\ f[i] = Attachments(r.pending)
      BY FlushAdds
    <2>3. f \in Seq(Messages) /\ Len(f) \in Nat /\ DOMAIN f = 1..Len(f) /\ Len(r.ms) \in Nat
          /\ DOMAIN s.ms = 1..Len(s.ms) /\ Len(s.ms) \in Nat
      BY <1>1, <1>2, <2>2, LenProperties
    <2> HIDE DEF f
    <2>4. /\ Len(s.ms) = Len(f) + 1 /\ s.ms[Len(s.ms)] = Becomes(e)
          /\ \A i \in 1..Len(f) : s.ms[i] = f[i]
      <3>1. s.ms = Append(f, Becomes(e))
        BY <2>1 DEF f
      <3> QED
        BY <2>3, <3>1
    <2>5. Carries(f, s.ms) /\ Carries(r.ms, s.ms)
      BY <2>2, <2>3, <2>4 DEF Carries
    <2>6. \A i \in DOMAIN s.ms : i > Len(r.ms) /\ i < Len(s.ms) =>
             i = Len(r.ms) + 1 /\ s.ms[i] = Attachments(r.pending)
      BY <2>2, <2>3, <2>4
    <2>7. Len(s.ms) >= Len(r.ms) + 1
      BY <2>2, <2>3, <2>4 DEF Carries
    <2> QED
      BY <1>2, <1>4, <2>1, <2>4, <2>5, <2>6, <2>7 DEF f
  <1> QED
    BY <1>3, <1>4

LEMMA StepLeaves ==
    ASSUME NEW r \in Replays, NEW e \in Entries, e.type # "compaction", NEW s, s = Replayed(r, e)
    PROVE  /\ Len(s.ms) >= Len(r.ms) + 1 /\ \A j \in 1..Len(r.ms) : s.ms[j] = r.ms[j]
           /\ s.ms[Len(s.ms)] = Becomes(e)
           /\ \A j \in DOMAIN s.ms : j > Len(r.ms) /\ j < Len(s.ms) => s.ms[j] = Attachments(r.pending)
  BY StepAdds DEF Carries

LEMMA FoldIsOne ==
    ASSUME NEW r, NEW e \in Entries, e.type = "compaction", NEW s, s = Replayed(r, e)
    PROVE  s.ms = <<Stamped(e)>> /\ s.pending = <<>>
  BY DEF Replayed

-----------------------------------------------------------------------------
(* The path                                                                *)

Settled(p, k) == \A j \in (k + 1)..(k + p[k].calls) : j \in DOMAIN p /\ p[j].type = "tool"
Owed(p, dropped, k) == k \in DOMAIN p /\ p[k].calls > 0 /\ p[k].id \notin dropped

AllSettled(p, dropped) == \A k : Owed(p, dropped, k) => Settled(p, k)

PathShape(p) ==
    /\ p \in Seq(Entries)
    /\ p # <<>> => p[1].type = "user"
    /\ \A k \in DOMAIN p : p[k].type # "assistant" => p[k].calls = 0
    /\ \A k \in DOMAIN p : p[k].type = "tool" => k > 1 /\ p[k - 1].type \in {"assistant", "tool"}

PathIs ==
    /\ PathShape(path) /\ made \in Nat /\ Len(path) <= made
    /\ at \in {"idle", "boundary", "sent", "tools"} /\ unanswered \in Nat
    /\ at # "idle" => path # <<>>

-----------------------------------------------------------------------------
(* Every call is followed by its result                                    *)

(* Message i is the answer of entry k; its results follow it as far as the *)
(* path goes, and nothing else does before the last of them.               *)
AnswersAt(ms, n, i, k) ==
    /\ Owed(path, left, k) /\ k <= n /\ path[k].calls = ms[i].calls
    /\ \A j \in 1..ms[i].calls : j <= n - k => i + j \in DOMAIN ms /\ ms[i + j].role = "tool"
    /\ n - k < ms[i].calls => Len(ms) = i + (n - k)

AllAnswered(n) ==
    \A i \in DOMAIN ReplayTo(path, n).ms :
       ReplayTo(path, n).ms[i].calls > 0 /\ ReplayTo(path, n).ms[i].of[1] \notin left =>
          \E k \in DOMAIN path : AnswersAt(ReplayTo(path, n).ms, n, i, k)

LEMMA CallsBecome ==
    ASSUME NEW e \in Entries
    PROVE  /\ Becomes(e).calls > 0 => e.type = "assistant" /\ Becomes(e).calls = e.calls /\ Becomes(e).of[1] = e.id
           /\ e.type = "tool" => Becomes(e).role = "tool"
           /\ Stamped(e).calls = 0
  BY DEF Entries, Becomes, Stamped, Plain, Called, Message

LEMMA StepAnswers ==
    ASSUME PathIs, AllSettled(path, left), NEW n \in Nat, n < Len(path), AllAnswered(n)
    PROVE  AllAnswered(n + 1)
  <1>1. path \in Seq(Entries) /\ n + 1 \in 1..Len(path) /\ path[n + 1] \in Entries /\ DOMAIN path = 1..Len(path)
    BY EntryIs DEF PathIs, PathShape
  <1>2. PICK e \in Entries : e = path[n + 1]
    BY <1>1
  <1>3. PICK r : r = ReplayTo(path, n)
    OBVIOUS
  <1>4. PICK s : s = ReplayTo(path, n + 1)
    OBVIOUS
  <1>5. s = Replayed(r, e) /\ r \in Replays /\ s \in Replays
    BY <1>1, <1>2, <1>3, <1>4, ReplayNext, ReplaysAre
  <1>6. r.ms \in Seq(Messages) /\ s.ms \in Seq(Messages) /\ Len(r.ms) \in Nat /\ Len(s.ms) \in Nat
        /\ DOMAIN r.ms = 1..Len(r.ms) /\ DOMAIN s.ms = 1..Len(s.ms)
    BY <1>5, LenProperties DEF Replays
  <1>7. SUFFICES ASSUME NEW i \in DOMAIN s.ms, s.ms[i].calls > 0, s.ms[i].of[1] \notin left
                 PROVE  \E k \in DOMAIN path : AnswersAt(s.ms, n + 1, i, k)
    BY <1>4 DEF AllAnswered
  <1>8. e.type # "compaction"
    <2>1. SUFFICES ASSUME e.type = "compaction" PROVE FALSE
      OBVIOUS
    <2>2. s.ms = <<Stamped(e)>>
      BY <1>5, <2>1, FoldIsOne
    <2> QED
      BY <1>7, <2>2, CallsBecome
  <1>9. /\ Len(s.ms) >= Len(r.ms) + 1 /\ \A j \in 1..Len(r.ms) : s.ms[j] = r.ms[j]
        /\ s.ms[Len(s.ms)] = Becomes(e)
        /\ e.type = "tool" => Len(s.ms) = Len(r.ms) + 1
        /\ \A j \in DOMAIN s.ms : j > Len(r.ms) /\ j < Len(s.ms) => s.ms[j] = Attachments(r.pending)
    BY <1>5, <1>8, StepAdds, SMTT(30) DEF Carries
  <1>10. CASE i <= Len(r.ms)
    <2>1. i \in DOMAIN r.ms /\ s.ms[i] = r.ms[i] /\ i \in Nat
      BY <1>6, <1>9, <1>10
    <2>2. PICK k \in DOMAIN path : AnswersAt(r.ms, n, i, k)
      BY <1>3, <1>7, <2>1 DEF AllAnswered
    <2>3. Owed(path, left, k) /\ Settled(path, k) /\ k \in Nat /\ k <= n /\ path[k].calls = r.ms[i].calls /\ r.ms[i].calls \in Nat
      <3>1. r.ms[i] \in Messages
        BY <1>6, <2>1, ElementOfSeq
      <3> QED
        BY <1>1, <2>2, <3>1 DEF AnswersAt, AllSettled, Messages
    <2>4. ASSUME n - k < r.ms[i].calls PROVE e.type = "tool" /\ Len(r.ms) = i + (n - k) /\ Len(s.ms) = i + (n - k) + 1
      <3>1. n + 1 \in (k + 1)..(k + path[k].calls)
        BY <2>3, <2>4
      <3>2. path[n + 1].type = "tool"
        BY <2>3, <3>1 DEF Settled
      <3>3. Len(r.ms) = i + (n - k)
        BY <2>2, <2>4 DEF AnswersAt
      <3> QED
        BY <1>2, <1>9, <3>2, <3>3
    <2>5. ASSUME NEW j \in 1..s.ms[i].calls, j <= n + 1 - k
          PROVE  i + j \in DOMAIN s.ms /\ s.ms[i + j].role = "tool"
      <3>1. CASE j <= n - k
        <4>1. i + j \in DOMAIN r.ms /\ r.ms[i + j].role = "tool"
          BY <2>1, <2>2, <2>5, <3>1 DEF AnswersAt
        <4> QED
          BY <1>6, <1>9, <4>1
      <3>2. CASE j > n - k
        <4>1. j = n + 1 - k /\ n - k < r.ms[i].calls
          BY <2>1, <2>3, <2>5, <3>2
        <4>2. i + j = Len(s.ms) /\ e.type = "tool"
          BY <2>1, <2>3, <2>4, <4>1
        <4>3. s.ms[i + j].role = "tool"
          BY <1>9, <4>2, CallsBecome
        <4> QED
          BY <1>6, <1>9, <4>2, <4>3, SMTT(30)
      <3> QED
        BY <2>1, <2>3, <2>5, <3>1, <3>2
    <2>6. n + 1 - k < s.ms[i].calls => Len(s.ms) = i + (n + 1 - k)
      BY <2>1, <2>3, <2>4
    <2>7. AnswersAt(s.ms, n + 1, i, k)
      BY <2>1, <2>3, <2>5, <2>6 DEF AnswersAt
    <2> QED
      BY <2>7
  <1>11. CASE i > Len(r.ms)
    <2>1. i = Len(s.ms)
      <3>1. Attachments(r.pending).calls = 0
        BY DEF Attachments, Message
      <3> QED
        BY <1>6, <1>7, <1>9, <1>11, <3>1
    <2>2. s.ms[i] = Becomes(e)
      BY <1>9, <2>1
    <2>3. s.ms[i].calls = e.calls /\ e.calls > 0 /\ e.id \notin left /\ e.calls \in Nat
      BY <1>7, <2>2, CallsBecome DEF Entries
    <2>4. Owed(path, left, n + 1)
      BY <1>1, <1>2, <2>3 DEF Owed
    <2>5. AnswersAt(s.ms, n + 1, i, n + 1)
      <3>1. n + 1 - (n + 1) = 0 /\ \A j \in 1..s.ms[i].calls : ~(j <= 0)
        BY <2>3
      <3>2. Len(s.ms) = i + 0
        BY <1>6, <2>1
      <3>3. path[n + 1].calls = s.ms[i].calls /\ n + 1 <= n + 1
        BY <1>2, <2>3
      <3> DEFINE k == n + 1
      <3>4. Owed(path, left, k) /\ k <= n + 1 /\ path[k].calls = s.ms[i].calls /\ (n + 1) - k = 0
        BY <2>4, <3>1, <3>3
      <3> HIDE DEF k
      <3>5. AnswersAt(s.ms, n + 1, i, k)
        BY <3>1, <3>2, <3>4 DEF AnswersAt
      <3> QED
        BY <3>5 DEF k
    <2> QED
      BY <1>1, <2>5
  <1> QED
    BY <1>6, <1>10, <1>11

LEMMA AllAreAnswered ==
    ASSUME PathIs, AllSettled(path, left)
    PROVE  AllAnswered(Len(path))
  <1> DEFINE T == {n \in Nat : AllAnswered(n)}
  <1>0. path \in Seq(Entries) /\ Len(path) \in Nat
    BY DEF PathIs, PathShape
  <1>1. 0 \in T
    <2>1. ReplayTo(path, 0).ms = <<>>
      BY <1>0, ReplayNone DEF NoMessages
    <2> QED
      BY <2>1 DEF AllAnswered
  <1>2. ASSUME NEW n \in Nat, n < Len(path), n \in T PROVE n + 1 \in T
    BY <1>2, StepAnswers
  <1>3. \A n \in 0..Len(path) : n \in T
    <2> HIDE DEF T
    <2> QED
      BY <1>0, <1>1, <1>2, FR!UpTo
  <1> QED
    BY <1>0, <1>3

(* The whole wire: the system's message, the replay, a pending attachment. *)
LEMMA WireIs ==
    ASSUME NEW p \in Seq(Entries), NEW r, r = ReplayTo(p, Len(p)), NEW w, w = BuildWireMessages(p)
    PROVE  /\ r \in Replays /\ Len(r.ms) \in Nat /\ DOMAIN r.ms = 1..Len(r.ms) /\ w \in Seq(Messages)
           /\ Len(w) = Len(Flushed(r)) + 1 /\ DOMAIN w = 1..Len(w) /\ Len(w) \in Nat /\ Len(w) >= Len(r.ms) + 1
           /\ w[1] = System
           /\ \A i \in 1..Len(r.ms) : i + 1 \in DOMAIN w /\ w[i + 1] = r.ms[i]
           /\ \A i \in DOMAIN w : i > Len(r.ms) + 1 => w[i] = Attachments(r.pending)
           /\ r.pending = <<>> => Len(w) = Len(r.ms) + 1
  <1> DEFINE f == Flushed(r)
  <1>1. r \in Replays /\ w = <<System>> \o f
    BY BuildIs, ReplaysAre, LenProperties
  <1>2. r.ms \in Seq(Messages) /\ System \in Messages
    BY <1>1 DEF Replays, System, Messages, Message, Backends
  <1>3. /\ f \in Seq(Messages) /\ Carries(r.ms, f)
        /\ r.pending = <<>> => f = r.ms
        /\ \A i \in DOMAIN f : i > Len(r.ms) => f[i] = Attachments(r.pending)
    BY <1>1, FlushAdds
  <1> HIDE DEF f
  <1>4. /\ w \in Seq(Messages) /\ Len(w) = Len(f) + 1 /\ w[1] = System
        /\ \A i \in 2..Len(w) : w[i] = f[i - 1]
    BY <1>1, <1>2, <1>3
  <1>5. Len(f) \in Nat /\ DOMAIN f = 1..Len(f) /\ DOMAIN w = 1..Len(w) /\ Len(w) \in Nat
        /\ Len(r.ms) \in Nat /\ DOMAIN r.ms = 1..Len(r.ms)
    BY <1>2, <1>3, <1>4, LenProperties
  <1>6. Len(r.ms) <= Len(f) /\ \A i \in 1..Len(r.ms) : f[i] = r.ms[i]
    BY <1>3 DEF Carries
  <1>7. ASSUME NEW i \in 1..Len(r.ms) PROVE i + 1 \in DOMAIN w /\ w[i + 1] = r.ms[i]
    <2>1. i + 1 \in 2..Len(w) /\ (i + 1) - 1 = i
      BY <1>4, <1>5, <1>6
    <2> QED
      BY <1>4, <1>5, <1>6, <2>1
  <1>8. ASSUME NEW i \in DOMAIN w, i > Len(r.ms) + 1 PROVE w[i] = Attachments(r.pending)
    <2>1. i \in 2..Len(w) /\ i - 1 \in DOMAIN f /\ i - 1 > Len(r.ms)
      BY <1>4, <1>5, <1>8
    <2> QED
      BY <1>3, <1>4, <2>1
  <1>9. r.pending = <<>> => Len(w) = Len(r.ms) + 1
    BY <1>3, <1>4
  <1>10. Len(w) >= Len(r.ms) + 1
    BY <1>4, <1>5, <1>6
  <1> QED
    BY <1>1, <1>4, <1>5, <1>7, <1>8, <1>9, <1>10 DEF f

LEMMA WireRepeats ==
    ASSUME NEW p \in Seq(Entries), NEW r, r = ReplayTo(p, Len(p)), NEW w, w = BuildWireMessages(p)
    PROVE  \A i \in 1..Len(r.ms) : i + 1 \in DOMAIN w /\ w[i + 1] = r.ms[i]
  BY WireIs

LEMMA WireAnswers ==
    ASSUME PathIs, AllSettled(path, left)
    PROVE  CallsAnswered(BuildWireMessages(path))
  <1>1. path \in Seq(Entries) /\ Len(path) \in Nat /\ DOMAIN path = 1..Len(path)
    BY LenProperties DEF PathIs, PathShape
  <1>2. PICK r : r = ReplayTo(path, Len(path))
    OBVIOUS
  <1>3. PICK w : w = BuildWireMessages(path)
    OBVIOUS
  <1>4. /\ Len(r.ms) \in Nat /\ DOMAIN r.ms = 1..Len(r.ms) /\ DOMAIN w = 1..Len(w) /\ Len(w) \in Nat
        /\ w[1] = System /\ w \in Seq(Messages)
        /\ \A i \in 1..Len(r.ms) : i + 1 \in DOMAIN w /\ w[i + 1] = r.ms[i]
        /\ \A i \in DOMAIN w : i > Len(r.ms) + 1 => w[i] = Attachments(r.pending)
    BY <1>1, <1>2, <1>3, WireIs
  <1>5. AllAnswered(Len(path))
    BY AllAreAnswered
  <1>6. SUFFICES ASSUME NEW i \in DOMAIN w, w[i].calls > 0, w[i].of[1] \notin left,
                        NEW j \in (i + 1)..(i + w[i].calls)
                 PROVE  j \in DOMAIN w /\ w[j].role = "tool"
    BY <1>3 DEF CallsAnswered
  <1>7. System.calls = 0 /\ Attachments(r.pending).calls = 0
    BY DEF System, Attachments, Message
  <1>8. i \in 2..(Len(r.ms) + 1) /\ w[i].calls \in Nat
    <2>1. i # 1 /\ ~(i > Len(r.ms) + 1)
      BY <1>4, <1>6, <1>7
    <2>2. w[i] \in Messages
      BY <1>4, ElementOfSeq
    <2> QED
      BY <1>4, <2>1, <2>2, SMTT(30) DEF Messages
  <1>9. PICK m \in DOMAIN r.ms : i = m + 1 /\ w[i] = r.ms[m]
    <2>1. i - 1 \in 1..Len(r.ms) /\ i = (i - 1) + 1
      BY <1>4, <1>8
    <2> QED
      BY <1>4, <2>1
  <1>10. PICK k \in DOMAIN path : AnswersAt(r.ms, Len(path), m, k)
    BY <1>2, <1>5, <1>6, <1>9 DEF AllAnswered
  <1>11. Owed(path, left, k) /\ Settled(path, k) /\ path[k].calls = w[i].calls
    BY <1>9, <1>10 DEF AnswersAt, AllSettled
  <1>12. k + w[i].calls <= Len(path)
    <2>1. k + w[i].calls \in (k + 1)..(k + w[i].calls)
      BY <1>1, <1>6, <1>8
    <2> QED
      BY <1>1, <1>11, <2>1 DEF Settled
  <1>13. PICK d \in 1..w[i].calls : j = i + d
    <2>1. j - i \in 1..w[i].calls /\ j = i + (j - i)
      BY <1>6, <1>8
    <2> QED
      BY <2>1
  <1>14. m + d \in DOMAIN r.ms /\ r.ms[m + d].role = "tool"
    <2>1. d <= Len(path) - k /\ d \in 1..r.ms[m].calls
      BY <1>1, <1>8, <1>9, <1>12, <1>13
    <2> QED
      BY <1>10, <2>1 DEF AnswersAt
  <1>15. j = (m + d) + 1
    BY <1>4, <1>9, <1>8, <1>13
  <1> QED
    BY <1>4, <1>14, <1>15

(* The instruction at the end, and shorter results, change none of it.     *)
LEMMA InstructionAnswers ==
    ASSUME NEW w \in Seq(Messages), CallsAnswered(w)
    PROVE  CallsAnswered(Append(w, Instruction))
  <1>1. Instruction.calls = 0 /\ Instruction \in Messages
    BY DEF Instruction, Message, Messages, Backends
  <1>2. PICK z : z = Append(w, Instruction)
    OBVIOUS
  <1>3. Len(w) \in Nat /\ DOMAIN w = 1..Len(w) /\ DOMAIN z = 1..(Len(w) + 1)
        /\ z[Len(w) + 1] = Instruction /\ \A i \in 1..Len(w) : z[i] = w[i]
    BY <1>1, <1>2, LenProperties, AppendProperties
  <1>4. SUFFICES ASSUME NEW i \in DOMAIN z, z[i].calls > 0, z[i].of[1] \notin left,
                        NEW j \in (i + 1)..(i + z[i].calls)
                 PROVE  j \in DOMAIN z /\ z[j].role = "tool"
    BY <1>2 DEF CallsAnswered
  <1>5. i \in DOMAIN w /\ z[i] = w[i]
    BY <1>1, <1>3, <1>4
  <1>6. j \in DOMAIN w /\ w[j].role = "tool"
    BY <1>4, <1>5 DEF CallsAnswered
  <1> QED
    BY <1>3, <1>6

LEMMA CutIs ==
    ASSUME NEW w \in Seq(Messages), NEW z, z = TruncateToolOutputs(w)
    PROVE  /\ z \in Seq(Messages) /\ DOMAIN z = DOMAIN w
           /\ \A i \in DOMAIN w : /\ z[i].role = w[i].role /\ z[i].calls = w[i].calls /\ z[i].sig = w[i].sig
                                  /\ w[i].calls > 0 => z[i] = w[i]
  <1>1. Len(w) \in Nat /\ DOMAIN w = 1..Len(w)
    BY LenProperties
  <1>2. ASSUME NEW i \in DOMAIN w
        PROVE  /\ z[i] \in Messages /\ z[i].role = w[i].role /\ z[i].calls = w[i].calls /\ z[i].sig = w[i].sig
               /\ w[i].calls > 0 => z[i] = w[i]
    <2>1. w[i] \in Messages
      BY ElementOfSeq, <1>1
    <2>2. CASE w[i].role = "tool"
      <3>1. z[i] = [w[i] EXCEPT !.of = w[i].of \o <<0>>]
        BY <2>2 DEF TruncateToolOutputs
      <3>2. w[i].of \o <<0>> \in Seq(Nat)
        BY <2>1 DEF Messages
      <3>a. PICK m \in Messages : m = w[i]
        BY <2>1
      <3>b. PICK of \in Seq(Nat) : of = w[i].of \o <<0>>
        BY <3>2
      <3>c. z[i] = [m EXCEPT !.of = of]
        BY <3>1, <3>a, <3>b
      <3>3. z[i] \in Messages /\ z[i].role = m.role /\ z[i].calls = m.calls /\ z[i].sig = m.sig
        BY <3>c DEF Messages
      <3>4. w[i].calls = 0
        BY <2>1, <2>2 DEF Messages
      <3> QED
        BY <3>a, <3>3, <3>4
    <2>3. CASE w[i].role # "tool"
      BY <2>1, <2>3 DEF TruncateToolOutputs
    <2> QED
      BY <2>2, <2>3
  <1>3. z = [i \in 1..Len(w) |-> z[i]]
    BY <1>1 DEF TruncateToolOutputs
  <1>4. z \in Seq(Messages)
    <2>1. \A i \in 1..Len(w) : z[i] \in Messages
      BY <1>1, <1>2
    <2>2. z \in [1..Len(w) -> Messages]
      BY <1>3, <2>1
    <2> QED
      BY <1>1, <2>2
  <1> QED
    BY <1>1, <1>2, <1>3, <1>4

LEMMA CutAnswers ==
    ASSUME NEW w \in Seq(Messages), CallsAnswered(w)
    PROVE  CallsAnswered(TruncateToolOutputs(w))
  <1>1. PICK z : z = TruncateToolOutputs(w)
    OBVIOUS
  <1>2. /\ DOMAIN z = DOMAIN w
        /\ \A i \in DOMAIN w : z[i].role = w[i].role /\ z[i].calls = w[i].calls /\ (w[i].calls > 0 => z[i] = w[i])
    BY <1>1, CutIs
  <1>3. SUFFICES ASSUME NEW i \in DOMAIN z, z[i].calls > 0, z[i].of[1] \notin left,
                        NEW j \in (i + 1)..(i + z[i].calls)
                 PROVE  j \in DOMAIN z /\ z[j].role = "tool"
    BY <1>1 DEF CallsAnswered
  <1>4. z[i] = w[i] /\ i \in DOMAIN w
    BY <1>2, <1>3
  <1>5. j \in DOMAIN w /\ w[j].role = "tool"
    BY <1>3, <1>4 DEF CallsAnswered
  <1> QED
    BY <1>2, <1>5

-----------------------------------------------------------------------------
(* Signatures go back to who minted them                                   *)

SignedBy(ms, pin) ==
    /\ \A i \in DOMAIN ms : ms[i].sig # Unknown => ms[i].sig = pin
    /\ pin # Unknown => \E i \in DOMAIN ms : ms[i].sig = pin

(* An answer comes from the backend that is pinned.                        *)
PinsHold(p) ==
    \A n \in DOMAIN p : p[n].type = "assistant" /\ p[n].provider # Unknown => PinTo(p, n) = p[n].provider

LEMMA SignersAre == ASSUME NEW w, NEW pin, SignedBy(w, pin) PROVE Signers(w) = {pin} \ {Unknown}
  BY DEF SignedBy, Signers, ToSet

LEMMA SigBecomes ==
    ASSUME NEW e \in Entries
    PROVE  /\ e.type = "assistant" => Becomes(e).sig = e.provider
           /\ e.type # "assistant" => Becomes(e).sig = Unknown
           /\ Stamped(e).sig = Unknown /\ Plain(e).sig = Unknown
  BY DEF Entries, Becomes, Stamped, Plain, Called, Message

LEMMA NobodySigned ==
    ASSUME NEW of
    PROVE  Attachments(of).sig = Unknown /\ System.sig = Unknown /\ Instruction.sig = Unknown
  BY DEF Message, Attachments, System, Instruction

LEMMA PinSteps ==
    ASSUME NEW e \in Entries, NEW pin
    PROVE  /\ e.type = "compaction" => PinStep(pin, e) = Unknown
           /\ e.type = "assistant" /\ pin = Unknown => PinStep(pin, e) = e.provider
           /\ e.type # "compaction" /\ (e.type # "assistant" \/ pin # Unknown) => PinStep(pin, e) = pin
  BY DEF PinStep

LEMMA StepSigned ==
    ASSUME NEW p \in Seq(Entries), PinsHold(p), NEW n \in Nat, n < Len(p),
           SignedBy(ReplayTo(p, n).ms, PinTo(p, n))
    PROVE  SignedBy(ReplayTo(p, n + 1).ms, PinTo(p, n + 1))
  <1>1. n + 1 \in 1..Len(p) /\ p[n + 1] \in Entries /\ DOMAIN p = 1..Len(p)
    BY EntryIs
  <1>2. PICK e \in Entries : e = p[n + 1]
    BY <1>1
  <1>3. PICK r, s : r = ReplayTo(p, n) /\ s = ReplayTo(p, n + 1)
    OBVIOUS
  <1>4. PICK pin, next : pin = PinTo(p, n) /\ next = PinTo(p, n + 1)
    OBVIOUS
  <1>5. s = Replayed(r, e) /\ next = PinStep(pin, e) /\ r \in Replays /\ s \in Replays
    BY <1>1, <1>2, <1>3, <1>4, ReplayNext, ReplaysAre
  <1>6. Len(r.ms) \in Nat /\ Len(s.ms) \in Nat /\ DOMAIN r.ms = 1..Len(r.ms) /\ DOMAIN s.ms = 1..Len(s.ms)
    BY <1>5, LenProperties DEF Replays
  <1>7. SignedBy(r.ms, pin)
    BY <1>3, <1>4
  <1>8. e.type = "assistant" /\ e.provider # Unknown => next = e.provider
    BY <1>1, <1>2, <1>4 DEF PinsHold
  <1>9. CASE e.type = "compaction"
    <2>1. s.ms = <<Stamped(e)>> /\ next = Unknown
      BY <1>5, <1>9, FoldIsOne, PinSteps
    <2> QED
      BY <1>3, <1>4, <2>1, SigBecomes DEF SignedBy
  <1>10. CASE e.type # "compaction"
    <2>1. /\ Len(s.ms) >= Len(r.ms) + 1 /\ \A j \in 1..Len(r.ms) : s.ms[j] = r.ms[j]
          /\ s.ms[Len(s.ms)] = Becomes(e)
          /\ \A j \in DOMAIN s.ms : j > Len(r.ms) /\ j < Len(s.ms) => s.ms[j] = Attachments(r.pending)
      BY <1>5, <1>10, StepLeaves
    <2>2. ASSUME NEW i \in DOMAIN s.ms
          PROVE  \/ i \in DOMAIN r.ms /\ s.ms[i] = r.ms[i]
                 \/ s.ms[i].sig = Unknown
                 \/ s.ms[i] = Becomes(e)
      BY <1>6, <2>1, NobodySigned
    <2>3. Len(s.ms) \in DOMAIN s.ms /\ \A i \in DOMAIN r.ms : i \in DOMAIN s.ms /\ s.ms[i] = r.ms[i]
      BY <1>6, <2>1
    <2>4. Becomes(e).sig # Unknown => Becomes(e).sig = next
      BY <1>8, SigBecomes
    <2>5. CASE next = pin
      <3>1. \A i \in DOMAIN s.ms : s.ms[i].sig # Unknown => s.ms[i].sig = next
        BY <1>7, <2>2, <2>4, <2>5 DEF SignedBy
      <3>2. next # Unknown => \E i \in DOMAIN s.ms : s.ms[i].sig = next
        BY <1>7, <2>3, <2>5 DEF SignedBy
      <3> QED
        BY <1>3, <1>4, <3>1, <3>2 DEF SignedBy
    <2>6. CASE next # pin
      <3>1. e.type = "assistant" /\ pin = Unknown /\ next = e.provider
        BY <1>5, <1>10, <2>6, PinSteps
      <3>2. \A i \in DOMAIN s.ms : s.ms[i].sig # Unknown => s.ms[i].sig = next
        BY <1>7, <2>2, <2>4, <3>1 DEF SignedBy
      <3>3. \E i \in DOMAIN s.ms : s.ms[i].sig = next
        BY <2>1, <2>3, <3>1, SigBecomes
      <3> QED
        BY <1>3, <1>4, <3>2, <3>3 DEF SignedBy
    <2> QED
      BY <2>5, <2>6
  <1> QED
    BY <1>9, <1>10

LEMMA AllSigned ==
    ASSUME NEW p \in Seq(Entries), PinsHold(p)
    PROVE  SignedBy(ReplayTo(p, Len(p)).ms, PinTo(p, Len(p)))
  <1> DEFINE T == {n \in Nat : SignedBy(ReplayTo(p, n).ms, PinTo(p, n))}
  <1>0. Len(p) \in Nat
    BY LenProperties
  <1>1. 0 \in T
    <2>1. ReplayTo(p, 0).ms = <<>> /\ PinTo(p, 0) = Unknown
      BY ReplayNone DEF NoMessages
    <2> QED
      BY <2>1 DEF SignedBy
  <1>2. ASSUME NEW n \in Nat, n < Len(p), n \in T PROVE n + 1 \in T
    BY <1>2, StepSigned
  <1>3. \A n \in 0..Len(p) : n \in T
    <2> HIDE DEF T
    <2> QED
      BY <1>0, <1>1, <1>2, FR!UpTo
  <1> QED
    BY <1>0, <1>3

LEMMA WireSigned ==
    ASSUME NEW p \in Seq(Entries), PinsHold(p)
    PROVE  SignedBy(BuildWireMessages(p), PinnedProvider(p))
  <1>1. PICK r : r = ReplayTo(p, Len(p))
    OBVIOUS
  <1>2. PICK w : w = BuildWireMessages(p)
    OBVIOUS
  <1>3. /\ Len(r.ms) \in Nat /\ DOMAIN r.ms = 1..Len(r.ms) /\ DOMAIN w = 1..Len(w) /\ Len(w) \in Nat
        /\ w[1] = System
        /\ \A i \in 1..Len(r.ms) : i + 1 \in DOMAIN w /\ w[i + 1] = r.ms[i]
        /\ \A i \in DOMAIN w : i > Len(r.ms) + 1 => w[i] = Attachments(r.pending)
    BY <1>1, <1>2, WireIs
  <1>4. PICK pin : pin = PinTo(p, Len(p))
    OBVIOUS
  <1>5. SignedBy(r.ms, pin) /\ PinnedProvider(p) = pin
    BY <1>1, <1>4, AllSigned, BuildIs
  <1>6. ASSUME NEW i \in DOMAIN w, w[i].sig # Unknown PROVE w[i].sig = pin
    <2>1. i # 1 /\ ~(i > Len(r.ms) + 1)
      BY <1>3, <1>6, NobodySigned
    <2>2. i - 1 \in 1..Len(r.ms) /\ i = (i - 1) + 1
      BY <1>3, <2>1
    <2>3. w[i] = r.ms[i - 1]
      BY <1>3, <2>2
    <2> QED
      BY <1>3, <1>5, <1>6, <2>2, <2>3 DEF SignedBy
  <1>7. pin # Unknown => \E i \in DOMAIN w : w[i].sig = pin
    BY <1>3, <1>5 DEF SignedBy
  <1> QED
    BY <1>2, <1>5, <1>6, <1>7 DEF SignedBy

LEMMA InstructionSigned ==
    ASSUME NEW w \in Seq(Messages), NEW pin, SignedBy(w, pin)
    PROVE  SignedBy(Append(w, Instruction), pin)
  <1>1. PICK z : z = Append(w, Instruction)
    OBVIOUS
  <1>2. Instruction \in Messages
    BY DEF Instruction, Message, Messages, Backends
  <1>3. Len(w) \in Nat /\ DOMAIN w = 1..Len(w) /\ DOMAIN z = 1..(Len(w) + 1)
        /\ z[Len(w) + 1] = Instruction /\ \A i \in 1..Len(w) : z[i] = w[i]
    BY <1>1, <1>2, LenProperties, AppendProperties
  <1>4. \A i \in DOMAIN w : i \in DOMAIN z /\ z[i] = w[i]
    BY <1>3
  <1>5. \A i \in DOMAIN z : z[i].sig # Unknown => i \in DOMAIN w
    BY <1>3, NobodySigned
  <1> QED
    BY <1>1, <1>4, <1>5 DEF SignedBy

LEMMA CutSigned ==
    ASSUME NEW w \in Seq(Messages), NEW pin, SignedBy(w, pin)
    PROVE  SignedBy(TruncateToolOutputs(w), pin)
  BY CutIs DEF SignedBy

(* For another model: no calls, no signatures.                             *)
LEMMA CrossIs ==
    ASSUME NEW p \in Seq(Entries), NEW w, w = BuildCrossModelSummaryInput(p)
    PROVE  w \in Seq(Messages) /\ \A i \in DOMAIN w : w[i].calls = 0 /\ w[i].sig = Unknown
  <1> DEFINE Bare == {m \in Messages : m.calls = 0 /\ m.sig = Unknown}
  <1>1. PICK k \in Nat : k = Len(p) /\ DOMAIN p = 1..k
    BY LenProperties
  <1>2. PICK none : none = <<>>
    OBVIOUS
  <1>3. PICK u : FC!Trail(u, none, p, k)
    BY <1>1, FC!FoldSteps
  <1>4. u[0] = none /\ u[k] = FC!FoldOf(none, p) /\ \A n \in 1..k : u[n] = CrossStep(u[n - 1], p[n])
    BY <1>3 DEF FC!Trail
  <1>5. ASSUME NEW e \in Entries, NEW ms \in Seq(Bare) PROVE CrossStep(ms, e) \in Seq(Bare)
    <2>1. Unknown \in Backends /\ e.type \in {"user", "assistant", "tool", "compaction"} /\ <<e.id>> \in Seq(Nat)
          /\ e.text \in BOOLEAN
      BY DEF Entries, Backends
    <2>2. Stamped(e) \in Bare /\ Message("user", <<e.id>>, TRUE, TRUE) \in Bare
          /\ (e.type = "assistant" => Plain(e) \in Bare)
      BY <2>1 DEF Messages, Message, Stamped, Plain
    <2> HIDE DEF Bare
    <2>3. CASE e.type = "compaction"
      BY <2>2, <2>3 DEF CrossStep
    <2>4. CASE e.type = "user"
      BY <2>2, <2>4 DEF CrossStep
    <2>5. CASE e.type = "assistant"
      BY <2>2, <2>5 DEF CrossStep
    <2>6. CASE e.type = "tool"
      <3>1. CrossStep(ms, e) = Append(ms, Message("user", <<e.id>>, TRUE, TRUE))
        BY <2>6 DEF CrossStep
      <3>2. PICK m : m = Message("user", <<e.id>>, TRUE, TRUE)
        OBVIOUS
      <3>3. m \in Bare /\ CrossStep(ms, e) = Append(ms, m)
        BY <2>2, <3>1, <3>2, Zenon
      <3> QED
        BY <3>3
    <2> QED
      BY <2>1, <2>3, <2>4, <2>5, <2>6
  <1> DEFINE T == {n \in Nat : n <= k => u[n] \in Seq(Bare)}
  <1>6. 0 \in T
    <2> HIDE DEF Bare
    <2>1. none \in Seq(Bare)
      BY <1>2
    <2> QED
      BY <1>4, <2>1
  <1>7. ASSUME NEW n \in Nat, n < k, n \in T PROVE n + 1 \in T
    <2> HIDE DEF Bare
    <2>1. u[n + 1] = CrossStep(u[n], p[n + 1]) /\ u[n] \in Seq(Bare) /\ p[n + 1] \in Entries
      BY <1>1, <1>4, <1>7, EntryIs
    <2> QED
      BY <1>5, <2>1
  <1>8. \A n \in 0..k : n \in T
    <2> HIDE DEF T
    <2> QED
      BY <1>6, <1>7, FC!UpTo
  <1>9. u[k] \in Seq(Bare)
    BY <1>8
  <1>10. FoldLeft(CrossStep, none, p) = FC!FoldOf(none, p)
    BY DEF FC!FoldOf, FoldLeft, MapThenFoldSet, FC!FoldLeft, FC!MapThenFoldSet, Max, FC!Max
  <1>11. w = <<System>> \o u[k]
    BY <1>2, <1>4, <1>10 DEF BuildCrossModelSummaryInput
  <1>12. System \in Bare
    BY DEF System, Message, Messages, Backends
  <1>13. w \in Seq(Bare)
    <2> HIDE DEF Bare
    <2> QED
      BY <1>9, <1>11, <1>12
  <1>14. \A i \in DOMAIN w : w[i] \in Bare
    <2> HIDE DEF Bare
    <2> QED
      BY <1>13
  <1>15. w \in Seq(Messages)
    BY <1>13, SeqMonotonic
  <1> QED
    BY <1>14, <1>15

(* What is asked at a fold, or for a title.                                *)
LEMMA FoldIsSendable ==
    ASSUME PathIs, AllSettled(path, left), PinsHold(path), NEW how \in {"fold", "forced", "cross"}
    PROVE  /\ FoldInput(how) \in Seq(Messages)
           /\ CallsAnswered(Append(FoldInput(how), Instruction))
           /\ SignedBy(Append(FoldInput(how), Instruction), IF how = "cross" THEN Unknown ELSE PinnedProvider(path))
  <1>1. path \in Seq(Entries)
    BY DEF PathIs, PathShape
  <1>2. PICK w : w = BuildWireMessages(path)
    OBVIOUS
  <1>3. w \in Seq(Messages) /\ CallsAnswered(w) /\ SignedBy(w, PinnedProvider(path))
    BY <1>1, <1>2, WireIs, WireAnswers, WireSigned
  <1>4. CASE how = "fold"
    <2>1. FoldInput(how) = w
      BY <1>2, <1>4 DEF FoldInput
    <2> QED
      BY <1>3, <1>4, <2>1, InstructionAnswers, InstructionSigned
  <1>5. CASE how = "forced"
    <2>1. PICK z : z = TruncateToolOutputs(w)
      OBVIOUS
    <2>2. FoldInput(how) = z
      BY <1>2, <1>5, <2>1 DEF FoldInput
    <2>3. z \in Seq(Messages) /\ CallsAnswered(z) /\ SignedBy(z, PinnedProvider(path))
      BY <1>3, <2>1, CutIs, CutAnswers, CutSigned
    <2> QED
      BY <1>5, <2>2, <2>3, InstructionAnswers, InstructionSigned
  <1>6. CASE how = "cross"
    <2>1. PICK z : z = BuildCrossModelSummaryInput(path)
      OBVIOUS
    <2>2. FoldInput(how) = z
      BY <1>6, <2>1 DEF FoldInput
    <2>3. z \in Seq(Messages) /\ \A i \in DOMAIN z : z[i].calls = 0 /\ z[i].sig = Unknown
      BY <1>1, <2>1, CrossIs
    <2>4. CallsAnswered(z) /\ SignedBy(z, Unknown)
      BY <2>3 DEF CallsAnswered, SignedBy
    <2> QED
      BY <1>6, <2>2, <2>3, <2>4, InstructionAnswers, InstructionSigned
  <1> QED
    BY <1>4, <1>5, <1>6

-----------------------------------------------------------------------------
(* Where the markers go                                                    *)

LEMMA LatestIs ==
    ASSUME NEW n \in Nat, NEW S, S \subseteq 1..n, S # {}
    PROVE  Latest(S) \in S /\ \A j \in S : j <= Latest(S)
  <1> DEFINE T == {m \in Nat : \A j \in S : j <= m}
  <1>1. T \subseteq Nat /\ n \in T
    OBVIOUS
  <1>2. PICK m \in T : \A l \in T : m <= l
    <2> HIDE DEF T
    <2> QED
      BY <1>1, FR!Least
  <1>3. m \in S
    <2>1. SUFFICES ASSUME m \notin S PROVE FALSE
      OBVIOUS
    <2>2. PICK j \in S : TRUE
      OBVIOUS
    <2>3. j \in 1..n /\ j <= m /\ m \in Nat /\ m # 0
      BY <1>2
    <2>4. ASSUME NEW i \in S PROVE i <= m - 1
      BY <1>2, <2>1, <2>4
    <2>5. m - 1 \in T /\ ~(m <= m - 1)
      BY <2>3, <2>4
    <2> QED
      BY <1>2, <2>5
  <1>4. \E i \in S : \A j \in S : j <= i
    BY <1>2, <1>3
  <1> QED
    BY <1>4, Zenon DEF Latest

LEMMA WritePointIs ==
    ASSUME NEW w \in Seq(Messages)
    PROVE  /\ WritePoint(w) \in 0..Len(w)
           /\ Len(w) > 1 /\ w[Len(w)].full => WritePoint(w) = Len(w)
  <1>1. PICK n \in Nat : n = Len(w)
    BY LenProperties
  <1>2. PICK S : S = {i \in 2..n : w[i].full}
    OBVIOUS
  <1>3. WritePoint(w) = Latest(S) /\ S \subseteq 1..n
    BY <1>1, <1>2 DEF WritePoint
  <1>4. S # {} => Latest(S) \in S /\ \A j \in S : j <= Latest(S)
    BY <1>3, LatestIs
  <1>5. S = {} => Latest(S) = 0
    BY DEF Latest
  <1>6. n > 1 /\ w[n].full => n \in S
    BY <1>2
  <1>7. WritePoint(w) \in 0..n
    <2>1. CASE S = {}
      BY <1>3, <1>5, <2>1
    <2>2. CASE S # {}
      <3>1. Latest(S) \in 1..n
        BY <1>3, <1>4, <2>2
      <3> QED
        BY <1>3, <3>1
    <2> QED
      BY <2>1, <2>2
  <1>8. n > 1 /\ w[n].full => WritePoint(w) = n
    <2>1. SUFFICES ASSUME n > 1 /\ w[n].full PROVE WritePoint(w) = n
      OBVIOUS
    <2>2. n \in S
      BY <1>6, <2>1
    <2>3. n <= Latest(S) /\ Latest(S) \in 1..n
      BY <1>3, <1>4, <2>2
    <2> QED
      BY <1>3, <2>3
  <1> QED
    BY <1>1, <1>7, <1>8

LEMMA AnchorIs ==
    ASSUME NEW w \in Seq(Messages), NEW a, a = Anchor(w), a > 2
    PROVE  a \in Nat /\ a < Len(w) /\ w[a].role = "user" /\ w[a].typed
  <1>1. PICK n \in Nat : n = Len(w)
    BY LenProperties
  <1>2. PICK k \in 0..n : k = WritePoint(w)
    BY <1>1, WritePointIs
  <1>3. PICK S : S = {i \in 2..(k - 1) : w[i].role = "user" /\ w[i].typed /\ w[i].full}
    OBVIOUS
  <1>4. a = Latest(S) /\ S \subseteq 1..n
    BY <1>2, <1>3 DEF Anchor
  <1>5. S # {}
    <2>1. S = {} => Latest(S) = 0
      BY DEF Latest
    <2> QED
      BY <1>4, <2>1
  <1>6. a \in S
    BY <1>4, <1>5, LatestIs
  <1> QED
    BY <1>1, <1>2, <1>3, <1>6

-----------------------------------------------------------------------------
(* The anchor is a turn that was sent                                      *)

(* Message i is what entry j ended with, and the messages up to it are what*)
(* was replayed then; and after it came another turn, or no fold.          *)
TurnAt(p, n, i, j) ==
    /\ j <= n /\ p[j].type = "user" /\ Len(ReplayTo(p, j).ms) = i
    /\ \A m \in 1..i : ReplayTo(p, n).ms[m] = ReplayTo(p, j).ms[m]
    /\ j < n => p[j + 1].type # "compaction"
    /\ j < n /\ p[j + 1].type = "user" => i + 1 \in DOMAIN ReplayTo(p, n).ms /\ ReplayTo(p, n).ms[i + 1].role = "user"

AllTurns(p, n) ==
    \A i \in DOMAIN ReplayTo(p, n).ms :
       i > 1 /\ ReplayTo(p, n).ms[i].role = "user" /\ ReplayTo(p, n).ms[i].typed =>
          \E j \in DOMAIN p : TurnAt(p, n, i, j)

LEMMA RolesBecome ==
    ASSUME NEW e \in Entries, e.type # "compaction", NEW of
    PROVE  /\ Becomes(e).role = e.type
           /\ Attachments(of).role = "user" /\ Attachments(of).typed = FALSE
  BY DEF Entries, Becomes, Stamped, Plain, Called, Message, Attachments

LEMMA StepTurns ==
    ASSUME NEW p \in Seq(Entries), NEW n \in Nat, n < Len(p), AllTurns(p, n)
    PROVE  AllTurns(p, n + 1)
  <1>1. n + 1 \in 1..Len(p) /\ p[n + 1] \in Entries /\ DOMAIN p = 1..Len(p) /\ Len(p) \in Nat
    BY EntryIs, LenProperties
  <1>2. PICK e \in Entries : e = p[n + 1]
    BY <1>1
  <1>3. PICK r, s : r = ReplayTo(p, n) /\ s = ReplayTo(p, n + 1)
    OBVIOUS
  <1>4. s = Replayed(r, e) /\ r \in Replays /\ s \in Replays
    BY <1>1, <1>2, <1>3, ReplayNext, ReplaysAre
  <1>5. Len(r.ms) \in Nat /\ Len(s.ms) \in Nat /\ DOMAIN r.ms = 1..Len(r.ms) /\ DOMAIN s.ms = 1..Len(s.ms)
    BY <1>4, LenProperties DEF Replays
  <1>6. SUFFICES ASSUME NEW i \in DOMAIN s.ms, i > 1, s.ms[i].role = "user", s.ms[i].typed
                 PROVE  \E j \in DOMAIN p : TurnAt(p, n + 1, i, j)
    BY <1>3 DEF AllTurns
  <1>7. e.type # "compaction"
    <2>1. SUFFICES ASSUME e.type = "compaction" PROVE FALSE
      OBVIOUS
    <2>2. s.ms = <<Stamped(e)>>
      BY <1>4, <2>1, FoldIsOne
    <2> QED
      BY <1>6, <2>2
  <1>8. /\ Len(s.ms) >= Len(r.ms) + 1 /\ \A j \in 1..Len(r.ms) : s.ms[j] = r.ms[j]
        /\ s.ms[Len(s.ms)] = Becomes(e)
        /\ \A j \in DOMAIN s.ms : j > Len(r.ms) /\ j < Len(s.ms) => s.ms[j] = Attachments(r.pending)
    BY <1>4, <1>7, StepLeaves
  <1>9. Becomes(e).role = e.type /\ Attachments(r.pending).role = "user" /\ Attachments(r.pending).typed = FALSE
    BY <1>7, RolesBecome
  <1>10. CASE i <= Len(r.ms)
    <2>1. i \in DOMAIN r.ms /\ s.ms[i] = r.ms[i] /\ i \in Nat
      BY <1>5, <1>8, <1>10
    <2>2. PICK j \in DOMAIN p : TurnAt(p, n, i, j)
      BY <1>3, <1>6, <2>1 DEF AllTurns
    <2>3. /\ j \in Nat /\ j <= n /\ p[j].type = "user" /\ Len(ReplayTo(p, j).ms) = i
          /\ \A m \in 1..i : r.ms[m] = ReplayTo(p, j).ms[m]
          /\ j < n => p[j + 1].type # "compaction"
          /\ j < n /\ p[j + 1].type = "user" => i + 1 \in DOMAIN r.ms /\ r.ms[i + 1].role = "user"
      BY <1>1, <1>3, <2>2 DEF TurnAt
    <2>4. \A m \in 1..i : s.ms[m] = ReplayTo(p, j).ms[m]
      BY <1>5, <1>8, <1>10, <2>1, <2>3
    <2>5. p[j + 1].type # "compaction"
      <3>1. CASE j = n
        BY <1>2, <1>7, <3>1
      <3>2. CASE j # n
        BY <2>3, <3>2
      <3> QED
        BY <3>1, <3>2
    <2>6. ASSUME p[j + 1].type = "user" PROVE i + 1 \in DOMAIN s.ms /\ s.ms[i + 1].role = "user"
      <3>1. CASE j = n
        <4>1. i = Len(r.ms) /\ e.type = "user"
          BY <1>2, <1>3, <2>3, <2>6, <3>1
        <4>2. i + 1 \in DOMAIN s.ms
          BY <1>5, <1>8, <4>1
        <4>3. CASE i + 1 = Len(s.ms)
          BY <1>8, <1>9, <4>1, <4>2, <4>3
        <4>4. CASE i + 1 # Len(s.ms)
          BY <1>5, <1>8, <1>9, <4>1, <4>2, <4>4, SMTT(30)
        <4> QED
          BY <4>2, <4>3, <4>4
      <3>2. CASE j # n
        <4>1. i + 1 \in DOMAIN r.ms /\ r.ms[i + 1].role = "user"
          BY <2>3, <2>6, <3>2
        <4> QED
          BY <1>5, <1>8, <4>1
      <3> QED
        BY <3>1, <3>2
    <2>7. TurnAt(p, n + 1, i, j)
      BY <1>3, <2>3, <2>4, <2>5, <2>6 DEF TurnAt
    <2> QED
      BY <2>7
  <1>11. CASE i > Len(r.ms)
    <2>1. i = Len(s.ms)
      BY <1>5, <1>6, <1>8, <1>9, <1>11
    <2>2. e.type = "user"
      BY <1>6, <1>8, <1>9, <2>1
    <2>3. TurnAt(p, n + 1, i, n + 1)
      BY <1>2, <1>3, <2>1, <2>2 DEF TurnAt
    <2> QED
      BY <1>1, <2>3
  <1> QED
    BY <1>5, <1>10, <1>11

LEMMA EveryTurn == ASSUME NEW p \in Seq(Entries) PROVE AllTurns(p, Len(p))
  <1> DEFINE T == {n \in Nat : AllTurns(p, n)}
  <1>0. Len(p) \in Nat
    BY LenProperties
  <1>1. 0 \in T
    <2>1. ReplayTo(p, 0).ms = <<>>
      BY ReplayNone DEF NoMessages
    <2> QED
      BY <2>1 DEF AllTurns
  <1>2. ASSUME NEW n \in Nat, n < Len(p), n \in T PROVE n + 1 \in T
    BY <1>2, StepTurns
  <1>3. \A n \in 0..Len(p) : n \in T
    <2> HIDE DEF T
    <2> QED
      BY <1>0, <1>1, <1>2, FR!UpTo
  <1> QED
    BY <1>0, <1>3

(* After a turn there is no attachment to come, and the last message is its*)
(* own.                                                                    *)
LEMMA TurnReplay ==
    ASSUME NEW p \in Seq(Entries), NEW j \in DOMAIN p, p[j].type = "user", NEW r, r = ReplayTo(p, j)
    PROVE  r.pending = <<>> /\ Len(r.ms) >= 1 /\ r.ms[Len(r.ms)] = Stamped(p[j])
  <1>1. DOMAIN p = 1..Len(p) /\ Len(p) \in Nat
    BY LenProperties
  <1>2. j - 1 \in Nat /\ j - 1 < Len(p) /\ (j - 1) + 1 = j /\ j - 1 \in 0..Len(p) /\ p[j] \in Entries
    BY <1>1, EntryIs
  <1>3. PICK e \in Entries : e = p[j] /\ e.type = "user"
    BY <1>2
  <1>4. PICK o \in Replays : o = ReplayTo(p, j - 1)
    BY <1>2, ReplaysAre
  <1>5. r = Replayed(o, e)
    BY <1>2, <1>3, <1>4, ReplayNext
  <1>6. r.pending = <<>> /\ Len(r.ms) >= Len(o.ms) + 1 /\ r.ms[Len(r.ms)] = Becomes(e)
    BY <1>3, <1>5, StepAdds
  <1>7. Len(o.ms) \in Nat /\ r.ms \in Seq(Messages)
    BY <1>3, <1>4, <1>5, ReplayTypes, LenProperties DEF Replays
  <1> QED
    BY <1>3, <1>6, <1>7, LenProperties DEF Becomes

Served(p, c) ==
    \A j \in DOMAIN p : j + 1 \in DOMAIN p /\ p[j].type = "user" /\ p[j + 1].type = "assistant" =>
       BuildWireMessages(SubSeq(p, 1, j)) \in c

LEMMA FrontWire ==
    ASSUME NEW p \in Seq(Entries), NEW j \in DOMAIN p, p[j].type = "user"
    PROVE  BuildWireMessages(SubSeq(p, 1, j)) = <<System>> \o ReplayTo(p, j).ms
  <1>1. j \in Nat /\ j <= Len(p) /\ DOMAIN p = 1..Len(p)
    BY LenProperties
  <1>2. PICK q : q = SubSeq(p, 1, j)
    OBVIOUS
  <1>3. q \in Seq(Entries) /\ Len(q) = j /\ \A i \in 1..j : q[i] = p[i]
    BY <1>1, <1>2
  <1>4. ReplayTo(q, j) = ReplayTo(p, j)
    BY <1>1, <1>3, ReplaySame
  <1>5. BuildWireMessages(q) = <<System>> \o Flushed(ReplayTo(p, j))
    BY <1>3, <1>4, BuildIs
  <1>6. ReplayTo(p, j).pending = <<>>
    BY TurnReplay
  <1> QED
    BY <1>2, <1>5, <1>6 DEF Flushed

LEMMA AnchorWasSent ==
    ASSUME PathIs, NEW c, Served(path, c), NEW w, w = BuildWireMessages(path), NEW a, a = Anchor(w), a > 2,
           w[a + 1].role # "user"
    PROVE  PrefixTo(w, a) \in c
  <1>1. path \in Seq(Entries) /\ Len(path) \in Nat /\ DOMAIN path = 1..Len(path)
    BY LenProperties DEF PathIs, PathShape
  <1>2. PICK p \in Seq(Entries) : p = path
    BY <1>1
  <1>3. PICK r : r = ReplayTo(p, Len(p))
    OBVIOUS
  <1>4. /\ r \in Replays /\ Len(r.ms) \in Nat /\ DOMAIN r.ms = 1..Len(r.ms)
        /\ DOMAIN w = 1..Len(w) /\ Len(w) \in Nat
        /\ w \in Seq(Messages) /\ w[1] = System
        /\ \A i \in 1..Len(r.ms) : i + 1 \in DOMAIN w /\ w[i + 1] = r.ms[i]
        /\ \A i \in DOMAIN w : i > Len(r.ms) + 1 => w[i] = Attachments(r.pending)
        /\ r.pending = <<>> => Len(w) = Len(r.ms) + 1
    BY <1>2, <1>3, WireIs
  <1>5. a \in Nat /\ a < Len(w) /\ w[a].role = "user" /\ w[a].typed
    BY <1>4, AnchorIs
  <1>a. Len(r.ms) \in Nat /\ DOMAIN r.ms = 1..Len(r.ms) /\ DOMAIN w = 1..Len(w) /\ Len(w) \in Nat
    BY <1>4
  <1>b. \A i \in 1..Len(r.ms) : w[i + 1] = r.ms[i]
    BY <1>4
  <1>c. a \in Nat /\ a < Len(w) /\ 2 < a
    BY <1>5
  <1>6. PICK i \in DOMAIN r.ms : a = i + 1 /\ i > 1 /\ r.ms[i] = w[a]
    <2>1. ~Attachments(r.pending).typed
      BY DEF Attachments, Message
    <2>3. a \in 1..Len(w)
      BY <1>a, <1>c
    <2>4. a > Len(r.ms) + 1 => w[a] = Attachments(r.pending)
      BY <1>4, <2>3
    <2>5. ~(a > Len(r.ms) + 1)
      BY <1>5, <2>1, <2>4, Zenon
    <2>2. a - 1 \in 1..Len(r.ms) /\ a = (a - 1) + 1 /\ a - 1 > 1
      BY <1>a, <1>c, <2>5
    <2> QED
      BY <1>a, <1>b, <2>2
  <1>7. PICK j \in DOMAIN p : TurnAt(p, Len(p), i, j)
    BY <1>3, <1>5, <1>6, EveryTurn DEF AllTurns
  <1>8. PICK z : z = ReplayTo(p, j)
    OBVIOUS
  <1>9. /\ j \in Nat /\ j <= Len(p) /\ p[j].type = "user" /\ Len(z.ms) = i /\ Len(p) \in Nat
        /\ \A m \in 1..i : r.ms[m] = z.ms[m]
        /\ j < Len(p) => p[j + 1].type # "compaction"
        /\ j < Len(p) /\ p[j + 1].type = "user" => i + 1 \in DOMAIN r.ms /\ r.ms[i + 1].role = "user"
    BY <1>1, <1>2, <1>3, <1>7, <1>8 DEF TurnAt
  <1>10. j < Len(p)
    <2>1. SUFFICES ASSUME j = Len(p) PROVE FALSE
      BY <1>9
    <2>2. z = r /\ r.pending = <<>>
      BY <1>3, <1>8, <1>9, <2>1, TurnReplay
    <2>3. Len(w) = Len(r.ms) + 1 /\ Len(r.ms) = i
      BY <1>4, <1>9, <2>2
    <2> QED
      BY <1>4, <1>5, <1>6, <2>3
  <1>11. j + 1 \in DOMAIN p /\ p[j + 1] \in Entries
    <2>1. j + 1 \in 1..Len(p)
      BY <1>9, <1>10
    <2> QED
      BY <1>1, <1>2, <2>1, EntryIs
  <1>12. p[j + 1].type = "assistant"
    <2>1. p[j + 1].type \in {"user", "assistant", "tool", "compaction"}
      BY <1>11 DEF Entries
    <2>2. p[j + 1].type # "user"
      <3>1. SUFFICES ASSUME p[j + 1].type = "user" PROVE FALSE
        OBVIOUS
      <3>2. i + 1 \in 1..Len(r.ms) /\ r.ms[i + 1].role = "user"
        BY <1>4, <1>9, <1>10, <3>1
      <3>3. w[(i + 1) + 1] = r.ms[i + 1]
        BY <1>4, <3>2
      <3> QED
        BY <1>6, <3>2, <3>3
    <2>3. p[j + 1].type # "tool"
      <3>1. SUFFICES ASSUME p[j + 1].type = "tool" PROVE FALSE
        OBVIOUS
      <3>2. (j + 1) - 1 = j
        BY <1>9
      <3>3. p[j].type \in {"assistant", "tool"}
        BY <1>2, <1>11, <3>1, <3>2 DEF PathIs, PathShape
      <3> QED
        BY <1>9, <3>3
    <2> QED
      BY <1>9, <1>10, <2>1, <2>2, <2>3
  <1>13. BuildWireMessages(SubSeq(p, 1, j)) \in c
    BY <1>2, <1>9, <1>11, <1>12 DEF Served
  <1>14. PrefixTo(w, a) = <<System>> \o z.ms
    <2>1. z \in Replays
      BY <1>8, <1>9, ReplaysAre
    <2>2. z.ms \in Seq(Messages) /\ System \in Messages
      BY <2>1 DEF Replays, System, Message, Messages, Backends
    <2>i. i \in Nat /\ i <= Len(r.ms) /\ a = i + 1
      BY <1>a, <1>6
    <2>3. ASSUME NEW m \in 1..i PROVE w[m + 1] = z.ms[m]
      <3>1. m \in 1..Len(r.ms)
        BY <1>a, <2>i
      <3>2. w[m + 1] = r.ms[m]
        BY <1>b, <3>1
      <3> QED
        BY <1>9, <3>2
    <2>4. PICK x : x = <<System>> \o z.ms
      OBVIOUS
    <2>5. x \in Seq(Messages) /\ Len(x) = a /\ x[1] = System /\ \A m \in 2..a : x[m] = z.ms[m - 1]
      <3>1. Len(z.ms) = i
        BY <1>9
      <3> QED
        BY <2>i, <2>2, <2>4, <3>1
    <2>6. ASSUME NEW m \in 1..a PROVE w[m] = x[m]
      <3>1. CASE m = 1
        BY <1>4, <2>5, <3>1
      <3>2. CASE m # 1
        <4>1. m \in 2..a /\ m - 1 \in 1..i /\ (m - 1) + 1 = m
          BY <2>i, <3>2
        <4> QED
          BY <2>3, <2>5, <4>1
      <3> QED
        BY <3>1, <3>2
    <2>7. SubSeq(w, 1, a) = SubSeq(x, 1, a)
      <3>1. a \in Nat /\ a <= Len(w) /\ a <= Len(x) /\ x \in Seq(Messages) /\ w \in Seq(Messages)
        <4>1. a <= Len(x) /\ x \in Seq(Messages)
          BY <1>c, <2>5
        <4>2. a \in Nat /\ a <= Len(w)
          BY <1>a, <1>c
        <4>3. w \in Seq(Messages)
          BY <1>4, Zenon
        <4> QED
          BY <4>1, <4>2, <4>3, Zenon
      <3> QED
        BY <2>6, <3>1, FrontSame
    <2>8. SubSeq(x, 1, a) = x
      BY <2>5, FrontWhole
    <2> QED
      BY <2>4, <2>7, <2>8 DEF PrefixTo
  <1> QED
    BY <1>8, <1>9, <1>13, <1>14, FrontWire

-----------------------------------------------------------------------------
(* One more entry                                                          *)

(* What every request that a turn sends repeats.                           *)
Sent(p) == <<System>> \o ReplayTo(p, Len(p)).ms

LEMMA Extended ==
    ASSUME NEW p \in Seq(Entries), NEW e \in Entries, NEW q, q = p \o <<e>>
    PROVE  /\ q \in Seq(Entries) /\ Len(p) \in Nat /\ Len(q) = Len(p) + 1 /\ DOMAIN p = 1..Len(p)
           /\ DOMAIN q = 1..(Len(p) + 1) /\ q[Len(p) + 1] = e
           /\ \A i \in 1..Len(p) : q[i] = p[i]
           /\ \A n \in 0..Len(p) : ReplayTo(q, n) = ReplayTo(p, n) /\ PinTo(q, n) = PinTo(p, n)
           /\ ReplayTo(q, Len(q)) = Replayed(ReplayTo(p, Len(p)), e)
           /\ PinTo(q, Len(q)) = PinStep(PinTo(p, Len(p)), e)
  <1>1. /\ q \in Seq(Entries) /\ Len(p) \in Nat /\ Len(q) = Len(p) + 1 /\ DOMAIN p = 1..Len(p)
        /\ DOMAIN q = 1..(Len(p) + 1) /\ q[Len(p) + 1] = e
        /\ \A i \in 1..Len(p) : q[i] = p[i]
    OBVIOUS
  <1>2. PICK k \in Nat : k = Len(p) /\ Len(q) = k + 1
    BY <1>1
  <1>3. ASSUME NEW n \in 0..k PROVE ReplayTo(q, n) = ReplayTo(p, n) /\ PinTo(q, n) = PinTo(p, n)
    <2>1. n \in Nat /\ n <= Len(p) /\ n <= Len(q)
      BY <1>2
    <2>2. \A i \in 1..n : q[i] = p[i]
      BY <1>1, <1>2
    <2> QED
      BY <1>1, <2>1, <2>2, ReplaySame
  <1>4. ReplayTo(q, k + 1) = Replayed(ReplayTo(q, k), q[k + 1]) /\ PinTo(q, k + 1) = PinStep(PinTo(q, k), q[k + 1])
    <2>1. k < Len(q) /\ q \in Seq(Entries)
      BY <1>1, <1>2
    <2> QED
      BY <2>1, ReplayNext
  <1>5. ReplayTo(q, k) = ReplayTo(p, k) /\ PinTo(q, k) = PinTo(p, k)
    BY <1>2, <1>3
  <1> QED
    BY <1>1, <1>2, <1>3, <1>4, <1>5

LEMMA ExtendedPin ==
    ASSUME NEW p \in Seq(Entries), NEW e \in Entries, NEW q, q = p \o <<e>>
    PROVE  (\A n \in 0..Len(p) : PinTo(q, n) = PinTo(p, n)) /\ PinTo(q, Len(q)) = PinStep(PinTo(p, Len(p)), e)
  BY Extended, ZenonT(40)

LEMMA ExtendShape ==
    ASSUME NEW p, PathShape(p), NEW e \in Entries, NEW q, q = p \o <<e>>,
           p = <<>> => e.type = "user", e.type # "assistant" => e.calls = 0,
           e.type = "tool" => p # <<>> /\ p[Len(p)].type \in {"assistant", "tool"}
    PROVE  PathShape(q) /\ q # <<>> /\ Len(q) = Len(p) + 1 /\ Len(p) \in Nat
  <1>1. p \in Seq(Entries)
    BY DEF PathShape
  <1>2. /\ q \in Seq(Entries) /\ Len(p) \in Nat /\ Len(q) = Len(p) + 1 /\ DOMAIN p = 1..Len(p)
        /\ DOMAIN q = 1..(Len(p) + 1) /\ q[Len(p) + 1] = e
        /\ \A i \in 1..Len(p) : q[i] = p[i]
    BY <1>1, Extended
  <1>3. q[1].type = "user"
    <2>1. CASE p = <<>>
      BY <1>2, <2>1
    <2>2. CASE p # <<>>
      <3>1. 1 \in 1..Len(p)
        BY <1>1, <1>2, <2>2
      <3> QED
        BY <1>2, <2>2, <3>1 DEF PathShape
    <2> QED
      BY <2>1, <2>2
  <1>4. ASSUME NEW k \in DOMAIN q
        PROVE  /\ q[k].type # "assistant" => q[k].calls = 0
               /\ q[k].type = "tool" => k > 1 /\ q[k - 1].type \in {"assistant", "tool"}
    <2>1. CASE k \in 1..Len(p)
      <3>1. q[k] = p[k] /\ k \in DOMAIN p
        BY <1>2, <2>1
      <3>2. q[k].type = "tool" => k > 1 /\ p[k - 1].type \in {"assistant", "tool"}
        BY <3>1 DEF PathShape
      <3>3. k > 1 => q[k - 1] = p[k - 1]
        BY <1>2, <2>1
      <3>4. q[k].type # "assistant" => q[k].calls = 0
        BY <3>1 DEF PathShape
      <3> QED
        BY <3>2, <3>3, <3>4
    <2>2. CASE k = Len(p) + 1
      <3>1. q[k] = e /\ k - 1 = Len(p)
        BY <1>2, <2>2
      <3>2. p # <<>> => k > 1 /\ q[k - 1] = p[Len(p)]
        BY <1>1, <1>2, <2>2, <3>1
      <3> QED
        BY <3>1, <3>2
    <2> QED
      BY <1>2, <2>1, <2>2
  <1> QED
    BY <1>2, <1>3, <1>4 DEF PathShape

LEMMA ExtendPins ==
    ASSUME NEW p \in Seq(Entries), NEW e \in Entries, NEW q, q = p \o <<e>>, PinsHold(p),
           e.type = "assistant" /\ e.provider # Unknown => PinTo(p, Len(p)) \in {Unknown, e.provider}
    PROVE  PinsHold(q)
  <1>1. /\ Len(p) \in Nat /\ Len(q) = Len(p) + 1 /\ DOMAIN p = 1..Len(p) /\ DOMAIN q = 1..(Len(p) + 1)
        /\ q[Len(p) + 1] = e
        /\ \A i \in 1..Len(p) : q[i] = p[i]
        /\ \A n \in 0..Len(p) : PinTo(q, n) = PinTo(p, n)
        /\ PinTo(q, Len(q)) = PinStep(PinTo(p, Len(p)), e)
    <2>1. \A n \in 0..Len(p) : PinTo(q, n) = PinTo(p, n)
      BY ExtendedPin
    <2>2. PinTo(q, Len(q)) = PinStep(PinTo(p, Len(p)), e)
      BY ExtendedPin
    <2>3. /\ Len(p) \in Nat /\ Len(q) = Len(p) + 1 /\ DOMAIN p = 1..Len(p) /\ DOMAIN q = 1..(Len(p) + 1)
          /\ q[Len(p) + 1] = e
          /\ \A i \in 1..Len(p) : q[i] = p[i]
      OBVIOUS
    <2> QED
      BY <2>1, <2>2, <2>3, Zenon
  <1>2. SUFFICES ASSUME NEW n \in DOMAIN q, q[n].type = "assistant", q[n].provider # Unknown
                 PROVE  PinTo(q, n) = q[n].provider
    BY DEF PinsHold
  <1>3. CASE n \in 1..Len(p)
    <2>1. q[n] = p[n] /\ PinTo(q, n) = PinTo(p, n) /\ n \in DOMAIN p
      BY <1>1, <1>3
    <2> QED
      BY <1>2, <2>1 DEF PinsHold
  <1>4. CASE n = Len(p) + 1
    <2>1. PICK pin : pin = PinTo(p, Len(p))
      OBVIOUS
    <2>2. q[n] = e /\ PinTo(q, n) = PinStep(pin, e) /\ pin \in {Unknown, e.provider}
      BY <1>1, <1>2, <1>4, <2>1
    <2> QED
      BY <1>2, <2>2, PinSteps
  <1> QED
    BY <1>1, <1>3, <1>4

LEMMA ExtendServed ==
    ASSUME NEW p \in Seq(Entries), NEW e \in Entries, NEW q, q = p \o <<e>>, NEW c, NEW d, Served(p, c), c \subseteq d,
           e.type = "assistant" /\ p # <<>> /\ p[Len(p)].type = "user" => BuildWireMessages(p) \in d
    PROVE  Served(q, d)
  <1>1. /\ q \in Seq(Entries) /\ Len(p) \in Nat /\ Len(q) = Len(p) + 1 /\ DOMAIN p = 1..Len(p)
        /\ DOMAIN q = 1..(Len(p) + 1) /\ q[Len(p) + 1] = e
        /\ \A i \in 1..Len(p) : q[i] = p[i]
    BY Extended
  <1>2. SUFFICES ASSUME NEW j \in DOMAIN q, j + 1 \in DOMAIN q, q[j].type = "user", q[j + 1].type = "assistant"
                 PROVE  BuildWireMessages(SubSeq(q, 1, j)) \in d
    BY DEF Served
  <1>3. j \in 1..Len(p) /\ j \in Nat
    BY <1>1, <1>2
  <1>4. SubSeq(q, 1, j) = SubSeq(p, 1, j)
    <2>1. \A i \in 1..j : q[i] = p[i]
      BY <1>1, <1>3
    <2>2. j <= Len(p) /\ j <= Len(q)
      BY <1>1, <1>3
    <2> QED
      BY <1>1, <1>3, <2>1, <2>2, FrontSame
  <1>5. CASE j + 1 \in 1..Len(p)
    <2>1. q[j] = p[j] /\ q[j + 1] = p[j + 1] /\ j \in DOMAIN p /\ j + 1 \in DOMAIN p
      BY <1>1, <1>3, <1>5
    <2> QED
      BY <1>2, <1>4, <2>1 DEF Served
  <1>6. CASE j = Len(p)
    <2>1. SubSeq(p, 1, j) = p
      BY <1>6, FrontWhole
    <2>2. e.type = "assistant" /\ p # <<>> /\ p[Len(p)].type = "user"
      BY <1>1, <1>2, <1>3, <1>6
    <2> QED
      BY <1>4, <2>1, <2>2
  <1> QED
    BY <1>1, <1>3, <1>5, <1>6

LEMMA ExtendSettled ==
    ASSUME NEW p \in Seq(Entries), NEW e \in Entries, NEW q, q = p \o <<e>>, NEW L, NEW M, L \subseteq M
    PROVE  /\ \A k \in 1..Len(p) : Owed(q, M, k) => Owed(p, L, k)
           /\ \A k \in 1..Len(p) : Settled(p, k) => Settled(q, k)
           /\ AllSettled(p, L) /\ (e.calls = 0 \/ e.id \in M) => AllSettled(q, M)
  <1>1. /\ Len(p) \in Nat /\ Len(q) = Len(p) + 1 /\ DOMAIN p = 1..Len(p)
        /\ DOMAIN q = 1..(Len(p) + 1) /\ q[Len(p) + 1] = e
        /\ \A i \in 1..Len(p) : q[i] = p[i]
    BY Extended
  <1>2. ASSUME NEW k \in 1..Len(p)
        PROVE  (Owed(q, M, k) => Owed(p, L, k)) /\ (Settled(p, k) => Settled(q, k))
    <2>1. q[k] = p[k] /\ k \in DOMAIN p
      BY <1>1
    <2>2. \A j \in DOMAIN p : j \in DOMAIN q /\ q[j] = p[j]
      BY <1>1
    <2> QED
      BY <2>1, <2>2 DEF Owed, Settled
  <1>3. ASSUME AllSettled(p, L), e.calls = 0 \/ e.id \in M, NEW k, Owed(q, M, k) PROVE Settled(q, k)
    <2>1. k \in 1..Len(p)
      <3>1. k \in 1..(Len(p) + 1) /\ k # Len(p) + 1
        BY <1>1, <1>3 DEF Owed
      <3> QED
        BY <1>1, <3>1
    <2> QED
      BY <1>2, <1>3, <2>1 DEF AllSettled
  <1> QED
    BY <1>2, <1>3 DEF AllSettled

(* The write of the last answer, carried on.                               *)
LEMMA ExtendSent ==
    ASSUME NEW p \in Seq(Entries), NEW e \in Entries, NEW q, q = p \o <<e>>, e.type # "compaction"
    PROVE  Carries(Sent(p), Sent(q)) /\ (e.type # "tool" => Carries(BuildWireMessages(p), Sent(q)))
  <1>1. PICK r : r = ReplayTo(p, Len(p))
    OBVIOUS
  <1>2. PICK s : s = ReplayTo(q, Len(q))
    OBVIOUS
  <1>3. s = Replayed(r, e) /\ r \in Replays
    <2>1. s = Replayed(r, e)
      BY <1>1, <1>2, Extended, ZenonT(40)
    <2>2. Len(p) \in 0..Len(p)
      BY LenProperties
    <2> QED
      BY <1>1, <2>1, <2>2, ReplaysAre
  <1>4. s \in Replays /\ Carries(r.ms, s.ms) /\ (e.type # "tool" => Carries(Flushed(r), s.ms))
    BY <1>3, StepAdds
  <1>5. System \in Messages /\ <<System>>[1] = System /\ r.ms \in Seq(Messages) /\ s.ms \in Seq(Messages) /\ Flushed(r) \in Seq(Messages)
    BY <1>3, <1>4, FlushAdds DEF Replays, System, Message, Messages, Backends
  <1>6. ASSUME NEW a \in Seq(Messages), NEW b \in Seq(Messages), Carries(a, b)
        PROVE  Carries(<<System>> \o a, <<System>> \o b)
    <2>0. <<System>> \in Seq(Messages) /\ Len(<<System>>) = 1
      BY <1>5
    <2>1. PICK x : x = <<System>> \o a
      OBVIOUS
    <2>2. PICK y : y = <<System>> \o b
      OBVIOUS
    <2>3. Len(a) \in Nat /\ Len(b) \in Nat /\ Len(a) <= Len(b) /\ \A i \in 1..Len(a) : b[i] = a[i]
      BY <1>6, LenProperties DEF Carries
    <2>4. /\ Len(x) = Len(a) + 1 /\ Len(y) = Len(b) + 1 /\ x[1] = System /\ y[1] = System
          /\ \A i \in 2..Len(x) : x[i] = a[i - 1]
          /\ \A i \in 2..Len(y) : y[i] = b[i - 1]
      <3>1. Len(x) = Len(a) + 1 /\ x[1] = System /\ \A i \in 2..Len(x) : x[i] = a[i - 1]
        BY <1>5, <2>0, <2>1, <2>3, ConcatProperties
      <3>2. Len(y) = Len(b) + 1 /\ y[1] = System /\ \A i \in 2..Len(y) : y[i] = b[i - 1]
        BY <1>5, <2>0, <2>2, <2>3, ConcatProperties
      <3> QED
        BY <3>1, <3>2
    <2>5. ASSUME NEW i \in 1..Len(x) PROVE y[i] = x[i]
      <3>1. CASE i = 1
        BY <2>4, <3>1
      <3>2. CASE i # 1
        <4>1. i \in 2..Len(x) /\ i \in 2..Len(y) /\ i - 1 \in 1..Len(a)
          BY <2>3, <2>4, <3>2
        <4> QED
          BY <2>3, <2>4, <4>1
      <3> QED
        BY <3>1, <3>2
    <2> QED
      BY <2>1, <2>2, <2>3, <2>4, <2>5 DEF Carries
  <1>7. Sent(p) = <<System>> \o r.ms /\ Sent(q) = <<System>> \o s.ms /\ BuildWireMessages(p) = <<System>> \o Flushed(r)
    BY <1>1, <1>2, BuildIs DEF Sent
  <1> QED
    BY <1>4, <1>5, <1>6, <1>7

LEMMA SentRepeats == ASSUME NEW p \in Seq(Entries) PROVE Carries(Sent(p), BuildWireMessages(p))
  <1>1. PICK r : r = ReplayTo(p, Len(p))
    OBVIOUS
  <1>2. PICK w : w = BuildWireMessages(p)
    OBVIOUS
  <1>3. r \in Replays /\ Len(r.ms) \in Nat /\ w \in Seq(Messages) /\ Len(w) \in Nat
        /\ Len(w) >= Len(r.ms) + 1 /\ w[1] = System
    BY <1>1, <1>2, WireIs
  <1>4. \A i \in 1..Len(r.ms) : i + 1 \in DOMAIN w /\ w[i + 1] = r.ms[i]
    BY <1>1, <1>2, WireRepeats
  <1>5. r.ms \in Seq(Messages) /\ System \in Messages
    BY <1>3 DEF Replays, System, Message, Messages, Backends
  <1>6. PICK s : s = <<System>> \o r.ms
    OBVIOUS
  <1>7. Len(s) = Len(r.ms) + 1 /\ s[1] = System /\ \A i \in 2..Len(s) : s[i] = r.ms[i - 1]
    BY <1>5, <1>6
  <1>8. ASSUME NEW i \in 1..Len(s) PROVE w[i] = s[i]
    <2>1. CASE i = 1
      BY <1>3, <1>7, <2>1
    <2>2. CASE i # 1
      <3>1. i \in 2..Len(s) /\ i - 1 \in 1..Len(r.ms) /\ (i - 1) + 1 = i
        BY <1>3, <1>7, <2>2
      <3> QED
        BY <1>4, <1>7, <3>1
    <2> QED
      BY <2>1, <2>2
  <1>9. Sent(p) = s
    BY <1>1, <1>6 DEF Sent
  <1> QED
    BY <1>2, <1>3, <1>7, <1>8, <1>9 DEF Carries

LEMMA CarriesOn ==
    ASSUME NEW a \in Seq(Messages), NEW b \in Seq(Messages), NEW c \in Seq(Messages), Carries(a, b), Carries(b, c)
    PROVE  Carries(a, c)
  <1>1. Len(a) \in Nat /\ Len(b) \in Nat /\ Len(c) \in Nat
    BY LenProperties
  <1> QED
    BY <1>1 DEF Carries

(* An edit: the path up to a turn.                                         *)
LEMMA CutPath ==
    ASSUME NEW p, PathShape(p), NEW i \in DOMAIN p, p[i].type = "user", NEW f, f = SubSeq(p, 1, i - 1)
    PROVE  /\ PathShape(f) /\ Len(f) <= Len(p) - 1
           /\ PinsHold(p) => PinsHold(f)
           /\ \A c : Served(p, c) => Served(f, c)
           /\ \A dropped : AllSettled(p, dropped) => AllSettled(f, dropped)
  <1>1. p \in Seq(Entries) /\ Len(p) \in Nat /\ DOMAIN p = 1..Len(p) /\ i \in 1..Len(p)
    BY LenProperties DEF PathShape
  <1>2. PICK n \in Nat : n = i - 1 /\ n <= Len(p) - 1 /\ n + 1 = i
    BY <1>1
  <1>3. f \in Seq(Entries) /\ Len(f) = n /\ DOMAIN f = 1..n /\ \A j \in 1..n : f[j] = p[j] /\ j \in DOMAIN p
    BY <1>1, <1>2
  <1>4. PathShape(f)
    <2>1. \A k \in 1..n : k > 1 => k - 1 \in 1..n
      OBVIOUS
    <2>2. f # <<>> => 1 \in 1..n /\ p # <<>>
      BY <1>1, <1>3
    <2>3. f # <<>> => f[1].type = "user"
      BY <1>3, <2>2 DEF PathShape
    <2>4. \A k \in DOMAIN f : f[k].type # "assistant" => f[k].calls = 0
      BY <1>3 DEF PathShape
    <2>5. \A k \in DOMAIN f : f[k].type = "tool" => k > 1 /\ f[k - 1].type \in {"assistant", "tool"}
      BY <1>3, <2>1 DEF PathShape
    <2> QED
      BY <1>3, <2>3, <2>4, <2>5 DEF PathShape
  <1>5. ASSUME PinsHold(p) PROVE PinsHold(f)
    <2>1. ASSUME NEW k \in 1..n PROVE PinTo(f, k) = PinTo(p, k)
      <3>1. k \in Nat /\ k <= Len(f) /\ k <= Len(p) /\ \A j \in 1..k : f[j] = p[j]
        BY <1>1, <1>2, <1>3
      <3> QED
        BY <1>1, <1>3, <3>1, ReplaySame
    <2> QED
      BY <1>3, <1>5, <2>1 DEF PinsHold
  <1>6. ASSUME NEW c, Served(p, c) PROVE Served(f, c)
    <2>1. SUFFICES ASSUME NEW j \in DOMAIN f, j + 1 \in DOMAIN f, f[j].type = "user", f[j + 1].type = "assistant"
                   PROVE  BuildWireMessages(SubSeq(f, 1, j)) \in c
      BY DEF Served
    <2>2. j \in Nat /\ j <= Len(f) /\ j <= Len(p) /\ \A m \in 1..j : f[m] = p[m]
      BY <1>1, <1>2, <1>3, <2>1, SMTT(30)
    <2>3. SubSeq(f, 1, j) = SubSeq(p, 1, j)
      BY <1>1, <1>3, <2>2, FrontSame
    <2> QED
      BY <1>3, <1>6, <2>1, <2>3 DEF Served
  <1>7. ASSUME NEW dropped, AllSettled(p, dropped), NEW k, Owed(f, dropped, k) PROVE Settled(f, k)
    <2>1. k \in 1..n /\ f[k] = p[k] /\ Owed(p, dropped, k)
      BY <1>3, <1>7 DEF Owed
    <2>2. Settled(p, k) /\ p[k].calls \in Nat
      <3>1. p[k] \in Entries
        BY <1>1, <1>3, <2>1, EntryIs
      <3> QED
        BY <1>7, <2>1, <3>1 DEF AllSettled, Entries
    <2>3. k + p[k].calls <= n
      <3>1. SUFFICES ASSUME k + p[k].calls > n PROVE FALSE
        BY <2>1, <2>2
      <3>2. i \in (k + 1)..(k + p[k].calls)
        BY <1>2, <2>1, <2>2, <3>1
      <3> QED
        BY <2>2, <3>2 DEF Settled
    <2> QED
      BY <1>3, <2>1, <2>2, <2>3 DEF Settled
  <1> QED
    BY <1>2, <1>3, <1>4, <1>5, <1>6, <1>7 DEF AllSettled

-----------------------------------------------------------------------------
(* How many titles                                                         *)

GrownBy(n) == FoldLeft(Times, 1 + MinTurns, [i \in 1..n |-> Growth])

LEMMA GrowthFold == ASSUME NEW b, NEW p PROVE FoldLeft(Times, b, p) = FG!FoldOf(b, p)
  BY DEF FG!FoldOf, FoldLeft, MapThenFoldSet, FG!FoldLeft, FG!MapThenFoldSet, Max, FG!Max

LEMMA GrownNone == GrownBy(0) = 1 + MinTurns
  <1>1. [i \in 1..0 |-> Growth] = <<>>
    OBVIOUS
  <1>2. \A b : FG!FoldOf(b, <<>>) = b
    BY FG!FoldNone
  <1> QED
    BY <1>1, <1>2, GrowthFold DEF GrownBy

LEMMA GrownMore == ASSUME NEW n \in Nat PROVE GrownBy(n + 1) = GrownBy(n) * Growth
  <1>1. PICK s : s = [i \in 1..n |-> Growth]
    OBVIOUS
  <1>2. PICK z : z = [i \in 1..(n + 1) |-> Growth]
    OBVIOUS
  <1>3. DOMAIN s = 1..n /\ DOMAIN z = 1..(n + 1) /\ (\A i \in 1..n : z[i] = s[i]) /\ z[n + 1] = Growth
    BY <1>1, <1>2
  <1>4. \A b : FG!FoldOf(b, z) = Times(FG!FoldOf(b, s), z[n + 1])
    BY <1>3, FG!FoldMore
  <1>5. FG!FoldOf(1 + MinTurns, z) = Times(FG!FoldOf(1 + MinTurns, s), Growth)
    BY <1>3, <1>4, Zenon
  <1> QED
    BY <1>1, <1>2, <1>5, GrowthFold, ZenonT(40) DEF GrownBy, Times

LEMMA GrowthIs == ASSUME NEW n \in Nat PROVE GrownBy(n) \in Nat
  <1> DEFINE T == {k \in Nat : GrownBy(k) \in Nat}
  <1>1. 0 \in T
    BY GrownNone, TitlesAssumption
  <1>2. ASSUME NEW k \in Nat, k < n, k \in T PROVE k + 1 \in T
    <2>1. GrownBy(k + 1) = GrownBy(k) * Growth /\ GrownBy(k) \in Nat /\ Growth \in Nat
      BY <1>2, GrownMore, TitlesAssumption
    <2>2. \A x, y \in Nat : x * y \in Nat
      OBVIOUS
    <2> QED
      BY <2>1, <2>2
  <1>3. \A k \in 0..n : k \in T
    <2> HIDE DEF T
    <2> QED
      BY <1>1, <1>2, FG!UpTo
  <1> QED
    BY <1>3

TitlesOK ==
    /\ mark \in [turns : Nat, folds : Nat, asked : BOOLEAN] /\ retitles \in Nat /\ mark.turns <= made
    /\ mark.asked => mark.turns >= 1
    /\ retitles > 0 => mark.asked /\ mark.turns >= GrownBy(retitles - 1)

-----------------------------------------------------------------------------
(* The invariant                                                           *)

(* The batch that is being answered: of its calls the last unanswered have *)
(* no result yet.                                                          *)
Batch(p, open, k) ==
    /\ k \in DOMAIN p /\ p[k].type = "assistant" /\ open \in 1..p[k].calls
    /\ Len(p) + open = k + p[k].calls
    /\ \A j \in (k + 1)..Len(p) : p[j].type = "tool"
BatchOK(p, open, dropped) ==
    \E k \in DOMAIN p : Batch(p, open, k) /\ \A i : Owed(p, dropped, i) /\ i # k => Settled(p, i)
CallsOK == IF at = "tools" THEN BatchOK(path, unanswered, left) ELSE AllSettled(path, left)

SentOK == at = "sent" => asked = Request(BuildWireMessages(path))
CacheOK == lastWrite \in Seq(Messages) /\ Carries(lastWrite, Sent(path)) /\ Served(path, written)

TranscriptInv == PathIs /\ CallsOK /\ PinsHold(path) /\ SentOK /\ CacheOK /\ TitlesOK /\ Sendable

(* What has no calls and no signatures can be sent.                        *)
LEMMA NothingAsked == ASSUME asked' = NoRequest PROVE Sendable'
  <1>1. PICK w : w = <<System>>
    OBVIOUS
  <1>2. asked'.wire = w /\ asked'.provider = Unknown
    BY <1>1 DEF NoRequest
  <1>3. \A i \in DOMAIN w : w[i].calls = 0 /\ w[i].sig = Unknown
    BY <1>1 DEF System, Message
  <1>4. \A i \in DOMAIN w : ~(w[i].calls > 0)
    BY <1>3
  <1>5. SignedBy(w, Unknown)
    BY <1>3 DEF SignedBy
  <1>6. Signers(w) = {Unknown} \ {Unknown}
    BY <1>5, SignersAre
  <1> QED
    BY <1>2, <1>4, <1>6 DEF Sendable, CallsAnswered

LEMMA SomethingAsked ==
    ASSUME NEW w, CallsAnswered(w), SignedBy(w, asked'.provider), asked'.wire = w, left' = left
    PROVE  Sendable'
  <1>1. Signers(w) = {asked'.provider} \ {Unknown}
    BY SignersAre
  <1> QED
    BY <1>1 DEF Sendable, CallsAnswered

LEMMA EntryMade ==
    ASSUME NEW type \in {"user", "assistant", "tool", "compaction"}, NEW id \in Nat, NEW text \in BOOLEAN
    PROVE  /\ Entry(type, id, text) \in Entries /\ Entry(type, id, text).type = type
           /\ Entry(type, id, text).calls = 0 /\ Entry(type, id, text).provider = Unknown
           /\ Entry(type, id, text).id = id
  BY DEF Entry, Entries, Backends

LEMMA Appended == ASSUME NEW e, path \in Seq(Entries), e \in Entries, Appends(<<e>>)
                  PROVE path' = path \o <<e>> /\ made' = made + 1
  BY DEF Appends

(* A turn, a result or a fold at the end of the path.                      *)
LEMMA PathAppends ==
    ASSUME TranscriptInv, NEW e \in Entries, path' = path \o <<e>>, made' = made + 1,
           at' \in {"idle", "boundary", "sent", "tools"}, unanswered' \in Nat,
           path = <<>> => e.type = "user", e.type # "assistant" => e.calls = 0,
           e.type = "tool" => path # <<>> /\ path[Len(path)].type \in {"assistant", "tool"},
           e.type = "assistant" /\ e.provider # Unknown => PinTo(path, Len(path)) \in {Unknown, e.provider}
    PROVE  PathIs' /\ PinsHold(path')
  <1>1. PathShape(path) /\ made \in Nat /\ Len(path) <= made /\ PinsHold(path) /\ path \in Seq(Entries)
    BY DEF TranscriptInv, PathIs, PathShape
  <1>2. PICK q : q = path \o <<e>>
    OBVIOUS
  <1>3. PathShape(q) /\ q # <<>> /\ Len(q) = Len(path) + 1 /\ Len(path) \in Nat
    BY <1>1, <1>2, ExtendShape
  <1>4. PinsHold(q)
    BY <1>1, <1>2, ExtendPins
  <1>5. path' = q
    BY <1>2
  <1> HIDE DEF TranscriptInv
  <1>6. PathShape(path') /\ made' \in Nat /\ Len(path') <= made' /\ path' # <<>>
    <2>1. made' \in Nat /\ Len(q) <= made'
      BY <1>1, <1>3
    <2> QED
      BY <1>3, <1>5, <2>1
  <1> QED
    BY <1>4, <1>5, <1>6 DEF PathIs

LEMMA SentIs == ASSUME NEW p \in Seq(Entries) PROVE Sent(p) \in Seq(Messages) /\ BuildWireMessages(p) \in Seq(Messages)
  <1>1. PICK r : r = ReplayTo(p, Len(p))
    OBVIOUS
  <1>2. r \in Replays
    BY <1>1, ReplaysAre, LenProperties
  <1>3. r.ms \in Seq(Messages) /\ System \in Messages
    BY <1>2 DEF Replays, System, Message, Messages, Backends
  <1>4. <<System>> \o r.ms \in Seq(Messages)
    BY <1>3
  <1> QED
    BY <1>1, <1>4, WireIs DEF Sent

LEMMA CacheAppends ==
    ASSUME CacheOK, path \in Seq(Entries), NEW e \in Entries, path' = path \o <<e>>, e.type \in {"user", "tool"},
           UNCHANGED cacheVars
    PROVE  CacheOK'
  <1>1. PICK q : q = path \o <<e>>
    OBVIOUS
  <1>2. q \in Seq(Entries) /\ path' = q /\ lastWrite' = lastWrite /\ written' = written
    BY <1>1, Extended DEF cacheVars
  <1>3. Served(q, written)
    BY <1>1, ExtendServed DEF CacheOK
  <1>4. Carries(Sent(path), Sent(q))
    BY <1>1, ExtendSent
  <1>5. Carries(lastWrite, Sent(q)) /\ lastWrite \in Seq(Messages)
    BY <1>2, <1>4, SentIs, CarriesOn DEF CacheOK
  <1> QED
    BY <1>2, <1>3, <1>5 DEF CacheOK

LEMMA TitlesSame ==
    ASSUME TitlesOK, UNCHANGED titleVars, made \in Nat, made' \in Nat, made <= made'
    PROVE  TitlesOK'
  BY DEF TitlesOK, titleVars

LEMMA CallsAppend ==
    ASSUME AllSettled(path, left), path \in Seq(Entries), NEW e \in Entries, path' = path \o <<e>>, e.calls = 0,
           left' = left, at' # "tools"
    PROVE  CallsOK'
  <1>1. PICK q : q = path \o <<e>>
    OBVIOUS
  <1>2. AllSettled(q, left)
    BY <1>1, ExtendSettled
  <1> QED
    BY <1>1, <1>2 DEF CallsOK

LEMMA UserMade == ASSUME made \in Nat PROVE User \in Entries /\ User.type = "user" /\ User.calls = 0
  BY DEF User, Entry, Entries, Backends

LEMMA SendUserInv == ASSUME TranscriptInv, SendUser \/ FlushUser PROVE TranscriptInv'
  <1>1. /\ path \in Seq(Entries) /\ made \in Nat /\ at \in {"idle", "boundary"} /\ unanswered \in Nat
        /\ Appends(<<User>>) /\ at' = "boundary" /\ asked' = NoRequest
        /\ UNCHANGED <<unanswered, left, cacheVars, titleVars>>
    BY DEF SendUser, FlushUser, TranscriptInv, PathIs, PathShape
  <1>2. PICK e : e = User
    OBVIOUS
  <1>3. e \in Entries /\ e.type = "user" /\ e.calls = 0
    BY <1>1, <1>2, UserMade
  <1>4. path' = path \o <<e>> /\ made' = made + 1
    BY <1>1, <1>2, <1>3, Appended
  <1>5. PathIs' /\ PinsHold(path')
    BY <1>1, <1>3, <1>4, PathAppends
  <1>6. CallsOK'
    <2>1. AllSettled(path, left)
      BY <1>1 DEF TranscriptInv, CallsOK
    <2> QED
      BY <1>1, <1>3, <1>4, <2>1, CallsAppend
  <1>7. CacheOK'
    BY <1>1, <1>3, <1>4, CacheAppends DEF TranscriptInv
  <1>8. TitlesOK'
    BY <1>1, <1>4, TitlesSame DEF TranscriptInv
  <1>9. Sendable'
    BY <1>1, NothingAsked
  <1>10. SentOK'
    BY <1>1 DEF SentOK
  <1> QED
    BY <1>5, <1>6, <1>7, <1>8, <1>9, <1>10 DEF TranscriptInv

LEMMA EditUserInv == ASSUME TranscriptInv, NEW i \in DOMAIN path, EditUser(i) PROVE TranscriptInv'
  <1>1. /\ PathShape(path) /\ path \in Seq(Entries) /\ made \in Nat /\ Len(path) <= made /\ at = "idle"
        /\ unanswered \in Nat /\ PinsHold(path) /\ path[i].type = "user"
        /\ path' = Append(SubSeq(path, 1, i - 1), User) /\ made' = made + 1
        /\ at' = "boundary" /\ lastWrite' = <<>> /\ asked' = NoRequest
        /\ unanswered' = unanswered /\ left' = left /\ written' = written /\ UNCHANGED titleVars
    BY DEF EditUser, TranscriptInv, PathIs, PathShape
  <1>2. PICK e : e = User
    OBVIOUS
  <1>3. e \in Entries /\ e.type = "user" /\ e.calls = 0
    BY <1>1, <1>2, UserMade
  <1>4. PICK f : f = SubSeq(path, 1, i - 1)
    OBVIOUS
  <1>5. /\ PathShape(f) /\ Len(f) <= Len(path) - 1 /\ PinsHold(f) /\ Served(f, written) /\ AllSettled(f, left)
    <2>1. Served(path, written) /\ AllSettled(path, left)
      BY <1>1 DEF TranscriptInv, CacheOK, CallsOK
    <2>2. PathShape(path) /\ PinsHold(path) /\ i \in DOMAIN path /\ path[i].type = "user"
      BY <1>1
    <2>3. /\ PathShape(f) /\ Len(f) <= Len(path) - 1 /\ (PinsHold(path) => PinsHold(f))
          /\ \A c : Served(path, c) => Served(f, c)
          /\ \A dropped : AllSettled(path, dropped) => AllSettled(f, dropped)
      BY <1>4, <2>2, CutPath, ZenonT(40)
    <2> QED
      BY <2>1, <2>2, <2>3, Zenon
  <1>6. f \in Seq(Entries) /\ Len(f) \in Nat
    BY <1>5, LenProperties DEF PathShape
  <1>7. PICK q : q = f \o <<e>>
    OBVIOUS
  <1>8. path' = q
    BY <1>1, <1>2, <1>3, <1>4, <1>6, <1>7, AppendIsConcat
  <1>9. PathShape(q) /\ q # <<>> /\ Len(q) = Len(f) + 1 /\ q \in Seq(Entries)
    BY <1>3, <1>5, <1>6, <1>7, ExtendShape DEF PathShape
  <1>10. PinsHold(q)
    BY <1>3, <1>5, <1>6, <1>7, ExtendPins
  <1>11. Served(q, written)
    BY <1>3, <1>5, <1>6, <1>7, ExtendServed
  <1>12. AllSettled(q, left)
    BY <1>3, <1>5, <1>6, <1>7, ExtendSettled
  <1>13. PathIs'
    <2>1. Len(path) \in Nat /\ made' \in Nat /\ Len(q) <= made'
      BY <1>1, <1>5, <1>6, <1>9, LenProperties
    <2> QED
      BY <1>1, <1>8, <1>9, <2>1 DEF PathIs
  <1>14. CallsOK' /\ SentOK'
    BY <1>1, <1>8, <1>12 DEF CallsOK, SentOK
  <1>15. CacheOK'
    <2>1. Sent(q) \in Seq(Messages)
      BY <1>9, SentIs
    <2>2. Carries(<<>>, Sent(q))
      BY <2>1 DEF Carries
    <2>3. lastWrite' \in Seq(Messages)
      BY <1>1
    <2>4. Carries(lastWrite', Sent(path')) /\ Served(path', written')
      BY <1>1, <1>8, <1>11, <2>2, Zenon
    <2> QED
      BY <2>3, <2>4 DEF CacheOK
  <1>16. TitlesOK'
    BY <1>1, TitlesSame DEF TranscriptInv
  <1>17. Sendable'
    BY <1>1, NothingAsked
  <1> QED
    BY <1>8, <1>10, <1>13, <1>14, <1>15, <1>16, <1>17 DEF TranscriptInv

LEMMA SendTurnInv == ASSUME TranscriptInv, SendTurn PROVE TranscriptInv'
  <1>1. /\ at = "boundary" /\ asked' = Request(BuildWireMessages(path)) /\ at' = "sent"
        /\ path' = path /\ made' = made /\ unanswered' = unanswered /\ left' = left /\ UNCHANGED <<cacheVars, titleVars>>
    BY DEF SendTurn
  <1>2. PathIs /\ AllSettled(path, left) /\ PinsHold(path) /\ path \in Seq(Entries)
    BY <1>1 DEF TranscriptInv, CallsOK, PathIs, PathShape
  <1>3. PICK w : w = BuildWireMessages(path)
    OBVIOUS
  <1>4. CallsAnswered(w) /\ SignedBy(w, PinnedProvider(path))
    BY <1>2, <1>3, WireAnswers, WireSigned
  <1>5. asked'.wire = w /\ asked'.provider = PinnedProvider(path)
    BY <1>1, <1>3 DEF Request
  <1>6. Sendable'
    BY <1>1, <1>4, <1>5, SomethingAsked
  <1>7. PathIs' /\ CallsOK' /\ PinsHold(path')
    BY <1>1, <1>2 DEF PathIs, CallsOK
  <1>8. SentOK'
    BY <1>1 DEF SentOK, Request
  <1>9. CacheOK' /\ TitlesOK'
    BY <1>1 DEF TranscriptInv, CacheOK, TitlesOK, cacheVars, titleVars
  <1> QED
    BY <1>6, <1>7, <1>8, <1>9 DEF TranscriptInv

LEMMA TurnFailsInv == ASSUME TranscriptInv, TurnFails PROVE TranscriptInv'
  <1>1. /\ at = "sent" /\ at' \in {"idle", "boundary"} /\ asked' = NoRequest
        /\ path' = path /\ made' = made /\ unanswered' = unanswered /\ left' = left /\ UNCHANGED <<cacheVars, titleVars>>
    BY DEF TurnFails
  <1>2. PathIs /\ AllSettled(path, left)
    BY <1>1 DEF TranscriptInv, CallsOK
  <1>3. PathIs'
    BY <1>1, <1>2 DEF PathIs
  <1>4. CallsOK' /\ SentOK'
    BY <1>1, <1>2 DEF CallsOK, SentOK
  <1>5. PinsHold(path') /\ CacheOK' /\ TitlesOK'
    BY <1>1 DEF TranscriptInv, CacheOK, TitlesOK, cacheVars, titleVars
  <1>6. Sendable'
    BY <1>1, NothingAsked
  <1> QED
    BY <1>3, <1>4, <1>5, <1>6 DEF TranscriptInv

(* A request that was served ends in a turn, and marks all of it.          *)
LEMMA ServedIsCached ==
    ASSUME NEW p \in Seq(Entries), p # <<>>, p[Len(p)].type = "user", NEW w, w = BuildWireMessages(p)
    PROVE  w \in MarkedPrefixes(w)
  <1>1. Len(p) \in Nat /\ DOMAIN p = 1..Len(p) /\ Len(p) \in DOMAIN p
    <2>1. Len(p) \in Nat /\ DOMAIN p = 1..Len(p) /\ (Len(p) = 0 <=> p = <<>>)
      BY LenProperties, EmptySeq
    <2> QED
      BY <2>1
  <1>2. PICK r : r = ReplayTo(p, Len(p))
    OBVIOUS
  <1>3. r.pending = <<>> /\ Len(r.ms) >= 1 /\ r.ms[Len(r.ms)] = Stamped(p[Len(p)])
    BY <1>1, <1>2, TurnReplay
  <1>4. Len(r.ms) \in Nat /\ w \in Seq(Messages) /\ Len(w) \in Nat /\ Len(w) = Len(r.ms) + 1
        /\ \A i \in 1..Len(r.ms) : w[i + 1] = r.ms[i]
    <2>1. Len(r.ms) \in Nat /\ w \in Seq(Messages) /\ Len(w) \in Nat /\ (r.pending = <<>> => Len(w) = Len(r.ms) + 1)
      BY <1>2, WireIs
    <2>2. \A i \in 1..Len(r.ms) : i + 1 \in DOMAIN w /\ w[i + 1] = r.ms[i]
      BY <1>2, WireRepeats
    <2> QED
      BY <1>3, <2>1, <2>2
  <1>5. Stamped(p[Len(p)]).full
    BY DEF Stamped, Message
  <1>6. w[Len(w)] = Stamped(p[Len(p)])
    <2>1. Len(r.ms) \in 1..Len(r.ms)
      BY <1>3, <1>4
    <2> QED
      BY <1>3, <1>4, <2>1
  <1>7. Len(w) > 1
    BY <1>3, <1>4
  <1>8. w[Len(w)].full
    BY <1>5, <1>6, Zenon
  <1>9. WritePoint(w) = Len(w)
    BY <1>4, <1>7, <1>8, WritePointIs
  <1>10. Len(w) \in Marks(w)
    BY <1>4, <1>7, <1>9 DEF Marks
  <1>11. PrefixTo(w, Len(w)) = w
    BY <1>4, FrontWhole DEF PrefixTo
  <1>12. PrefixTo(w, Len(w)) \in MarkedPrefixes(w)
    BY <1>10, Zenon DEF MarkedPrefixes
  <1> QED
    BY <1>11, <1>12

LEMMA AnswerLandsInv ==
    ASSUME TranscriptInv, NEW calls \in 0..MaxCalls, NEW cut \in BOOLEAN, AnswerLands(calls, cut)
    PROVE  TranscriptInv'
  <1>1. /\ path \in Seq(Entries) /\ path # <<>> /\ made \in Nat /\ at = "sent" /\ unanswered \in Nat /\ Len(path) <= made
        /\ asked = Request(BuildWireMessages(path)) /\ PinsHold(path) /\ AllSettled(path, left)
        /\ CacheOK /\ TitlesOK
    BY DEF AnswerLands, TranscriptInv, PathIs, PathShape, CallsOK, SentOK
  <1>2. calls \in Nat
    BY AnswersAssumption
  <1>3. PICK w : w = BuildWireMessages(path)
    OBVIOUS
  <1>4. asked.wire = w /\ asked.provider = PinTo(path, Len(path)) /\ w \in Seq(Messages)
    BY <1>1, <1>3, BuildIs, SentIs DEF Request
  <1>5. PICK text \in BOOLEAN, by \in IF asked.provider = Unknown THEN Providers \cup {Unknown} ELSE {asked.provider} :
           Appends(<<[Entry("assistant", made + 1, text) EXCEPT !.calls = calls, !.provider = by]>>)
    BY DEF AnswerLands
  <1>6. PICK e : e = [Entry("assistant", made + 1, text) EXCEPT !.calls = calls, !.provider = by]
    OBVIOUS
  <1>7. PinTo(path, Len(path)) \in Backends
    BY <1>1, PinsAre
  <1>8. by \in Backends /\ PinTo(path, Len(path)) \in {Unknown, by}
    BY <1>4, <1>5, <1>7 DEF Backends
  <1>9. e \in Entries /\ e.type = "assistant" /\ e.calls = calls /\ e.provider = by /\ e.id = made + 1
    <2>1. PICK o : o = Entry("assistant", made + 1, text)
      OBVIOUS
    <2>2. made + 1 \in Nat
      BY <1>1
    <2>3. o \in Entries /\ o.type = "assistant" /\ o.id = made + 1
      BY <2>1, <2>2, EntryMade
    <2>4. e = [o EXCEPT !.calls = calls, !.provider = by]
      BY <1>6, <2>1
    <2> QED
      BY <1>2, <1>8, <2>3, <2>4 DEF Entries
  <1>10. path' = path \o <<e>> /\ made' = made + 1
    BY <1>1, <1>5, <1>6, <1>9, Appended
  <1>11. /\ Cached(asked) /\ lastWrite' = PrefixTo(w, WritePoint(w)) /\ asked' = NoRequest /\ UNCHANGED titleVars
    BY <1>4 DEF AnswerLands
  <1>12. \/ /\ at' = "idle" /\ unanswered' = 0 /\ calls = 0 /\ left' = left
         \/ /\ at' = "idle" /\ unanswered' = 0 /\ calls > 0 /\ left' = left \cup {made + 1}
         \/ /\ at' = "tools" /\ unanswered' = calls /\ calls > 0 /\ left' = left
    BY <1>2 DEF AnswerLands
  <1>13. PathIs' /\ PinsHold(path')
    BY <1>1, <1>2, <1>8, <1>9, <1>10, <1>12, PathAppends
  <1>14. PICK q : q = path \o <<e>>
    OBVIOUS
  <1>15. /\ q \in Seq(Entries) /\ Len(path) \in Nat /\ Len(q) = Len(path) + 1 /\ DOMAIN path = 1..Len(path)
         /\ DOMAIN q = 1..(Len(path) + 1) /\ q[Len(path) + 1] = e
    BY <1>1, <1>9, <1>14, Extended
  <1>16. CallsOK'
    <2>1. CASE at' = "idle"
      <3>1. left \subseteq left' /\ (e.calls = 0 \/ e.id \in left')
        BY <1>9, <1>12, <2>1
      <3>2. AllSettled(q, left')
        BY <1>1, <1>9, <1>14, <3>1, ExtendSettled
      <3> QED
        BY <1>10, <1>14, <2>1, <3>2 DEF CallsOK
    <2>2. CASE at' = "tools"
      <3>1. unanswered' = calls /\ calls > 0 /\ left' = left
        BY <1>12, <2>2
      <3>2. PICK k : k = Len(path) + 1
        OBVIOUS
      <3>3. Batch(q, calls, k)
        <4>1. k \in DOMAIN q /\ q[k].type = "assistant" /\ q[k].calls = calls /\ Len(q) = k /\ k \in Nat
          BY <1>9, <1>15, <3>2
        <4> QED
          BY <1>2, <3>1, <4>1 DEF Batch
      <3>4. ASSUME NEW i, Owed(q, left, i), i # k PROVE Settled(q, i)
        <4>1. i \in 1..Len(path)
          BY <1>15, <3>2, <3>4 DEF Owed
        <4>2. Owed(path, left, i)
          BY <1>1, <1>9, <1>14, <3>4, <4>1, ExtendSettled
        <4>3. Settled(path, i)
          BY <1>1, <4>2 DEF AllSettled
        <4> QED
          BY <1>1, <1>9, <1>14, <4>1, <4>3, ExtendSettled
      <3>5. BatchOK(q, calls, left)
        BY <3>3, <3>4 DEF BatchOK, Batch
      <3> QED
        BY <1>10, <1>14, <2>2, <3>1, <3>5 DEF CallsOK
    <2> QED
      BY <1>12, <2>1, <2>2
  <1>17. CacheOK'
    <2>1. PICK n : n = WritePoint(w)
      OBVIOUS
    <2>2. n \in 0..Len(w)
      BY <1>4, <2>1, WritePointIs
    <2>3. PICK l : l = SubSeq(w, 1, n)
      OBVIOUS
    <2>4. l \in Seq(Messages) /\ Carries(l, w)
      <3>1. l \in Seq(Messages) /\ Len(l) = n /\ \A i \in 1..n : l[i] = w[i]
        BY <1>4, <2>2, <2>3
      <3>2. Len(w) \in Nat
        BY <1>4, LenProperties
      <3> QED
        BY <2>2, <3>1, <3>2 DEF Carries
    <2>5. lastWrite' = l
      BY <1>11, <2>1, <2>3 DEF PrefixTo
    <2>6. Carries(w, Sent(q)) /\ Sent(q) \in Seq(Messages)
      BY <1>1, <1>3, <1>9, <1>14, <1>15, ExtendSent, SentIs
    <2>7. Carries(l, Sent(q))
      BY <1>4, <2>4, <2>6, CarriesOn
    <2>8. written' = written \cup MarkedPrefixes(w)
      BY <1>4, <1>11 DEF Cached
    <2>9. Served(q, written')
      <3>1. Served(path, written) /\ written \subseteq written'
        BY <1>1, <2>8 DEF CacheOK
      <3>2. PICK b : b = written'
        OBVIOUS
      <3>3. \A p \in {path} : p # <<>> /\ p[Len(p)].type = "user" => BuildWireMessages(p) \in b
        BY <1>1, <1>3, <2>8, <3>2, ServedIsCached
      <3>4. Served(q, b)
        BY <1>1, <1>9, <1>14, <3>1, <3>2, <3>3, ExtendServed
      <3> QED
        BY <3>2, <3>4
    <2> QED
      BY <1>10, <1>14, <2>4, <2>5, <2>7, <2>9 DEF CacheOK
  <1>18. TitlesOK'
    BY <1>1, <1>10, <1>11, TitlesSame
  <1>19. Sendable'
    BY <1>11, NothingAsked
  <1>20. SentOK'
    BY <1>12 DEF SentOK
  <1> QED
    BY <1>13, <1>16, <1>17, <1>18, <1>19, <1>20 DEF TranscriptInv

LEMMA ToolAnswersInv == ASSUME TranscriptInv, ToolAnswers PROVE TranscriptInv'
  <1>1. /\ path \in Seq(Entries) /\ path # <<>> /\ made \in Nat /\ unanswered \in Nat /\ Len(path) <= made
        /\ at = "tools" /\ BatchOK(path, unanswered, left) /\ CacheOK /\ TitlesOK /\ Sendable
        /\ unanswered' = unanswered - 1 /\ at' = (IF unanswered = 1 THEN "boundary" ELSE "tools")
        /\ left' = left /\ asked' = asked /\ UNCHANGED cacheVars /\ UNCHANGED titleVars
    BY DEF ToolAnswers, TranscriptInv, PathIs, PathShape, CallsOK
  <1>2. PICK text \in BOOLEAN, image \in BOOLEAN : Appends(<<[Entry("tool", made + 1, text) EXCEPT !.image = image]>>)
    BY DEF ToolAnswers
  <1>3. PICK e : e = [Entry("tool", made + 1, text) EXCEPT !.image = image]
    OBVIOUS
  <1>4. e \in Entries /\ e.type = "tool" /\ e.calls = 0
    <2>1. PICK o : o = Entry("tool", made + 1, text)
      OBVIOUS
    <2>2. made + 1 \in Nat
      BY <1>1
    <2>3. o \in Entries /\ o.type = "tool" /\ o.calls = 0
      BY <2>1, <2>2, EntryMade
    <2>4. e = [o EXCEPT !.image = image]
      BY <1>3, <2>1
    <2> QED
      BY <2>3, <2>4 DEF Entries
  <1>5. path' = path \o <<e>> /\ made' = made + 1
    BY <1>1, <1>2, <1>3, <1>4, Appended
  <1>6. PICK k \in DOMAIN path : Batch(path, unanswered, k) /\ \A i : Owed(path, left, i) /\ i # k => Settled(path, i)
    BY <1>1 DEF BatchOK
  <1>7. Len(path) \in Nat /\ DOMAIN path = 1..Len(path) /\ k \in 1..Len(path) /\ path[k].calls \in Nat
    <2>1. Len(path) \in Nat /\ DOMAIN path = 1..Len(path)
      BY <1>1, LenProperties
    <2>2. path[k] \in Entries
      BY <1>1, <2>1, EntryIs
    <2> QED
      BY <2>1, <2>2 DEF Entries
  <1>8. /\ path[k].type = "assistant" /\ unanswered \in 1..path[k].calls
        /\ Len(path) + unanswered = k + path[k].calls
        /\ \A j \in (k + 1)..Len(path) : path[j].type = "tool"
    BY <1>6 DEF Batch
  <1>9. path[Len(path)].type \in {"assistant", "tool"}
    <2>1. CASE k = Len(path)
      BY <1>8, <2>1
    <2>2. CASE k # Len(path)
      <3>1. Len(path) \in (k + 1)..Len(path)
        BY <1>7, <2>2
      <3> QED
        BY <1>8, <3>1
    <2> QED
      BY <2>1, <2>2
  <1>10. unanswered' \in Nat /\ at' \in {"idle", "boundary", "sent", "tools"} /\ at' # "sent"
    BY <1>1, <1>8
  <1>11. PathIs' /\ PinsHold(path')
    BY <1>1, <1>4, <1>5, <1>9, <1>10, PathAppends
  <1>12. PICK q : q = path \o <<e>>
    OBVIOUS
  <1>13. /\ q \in Seq(Entries) /\ Len(q) = Len(path) + 1 /\ DOMAIN q = 1..(Len(path) + 1) /\ q[Len(path) + 1] = e
         /\ \A i \in 1..Len(path) : q[i] = path[i]
    BY <1>1, <1>4, <1>12, Extended
  <1>14. ASSUME NEW i, Owed(q, left, i) PROVE i \in 1..Len(path) /\ (i # k => Settled(q, i))
    <2>1. i \in 1..Len(path)
      BY <1>4, <1>7, <1>13, <1>14 DEF Owed
    <2>2. Owed(path, left, i)
      BY <1>1, <1>4, <1>12, <1>14, <2>1, ExtendSettled
    <2>3. i # k => Settled(path, i)
      BY <1>6, <2>2
    <2>4. i # k => Settled(q, i)
      BY <1>1, <1>4, <1>12, <2>1, <2>3, ExtendSettled
    <2> QED
      BY <2>1, <2>4
  <1>15. q[k] = path[k] /\ \A j \in (k + 1)..Len(q) : q[j].type = "tool" /\ j \in DOMAIN q
    <2>1. ASSUME NEW j \in (k + 1)..Len(q) PROVE q[j].type = "tool" /\ j \in DOMAIN q
      <3>1. CASE j = Len(path) + 1
        BY <1>4, <1>7, <1>13, <3>1
      <3>2. CASE j # Len(path) + 1
        <4>1. j \in (k + 1)..Len(path) /\ j \in 1..Len(path)
          BY <1>7, <1>13, <3>2
        <4> QED
          BY <1>7, <1>8, <1>13, <4>1
      <3> QED
        BY <3>1, <3>2
    <2>2. q[k] = path[k]
      BY <1>7, <1>13
    <2> QED
      BY <2>1, <2>2
  <1>16. CallsOK'
    <2>1. CASE unanswered = 1
      <3>1. Len(q) = k + q[k].calls
        BY <1>7, <1>8, <1>13, <1>15, <2>1
      <3>2. Settled(q, k)
        BY <1>15, <3>1 DEF Settled
      <3>3. AllSettled(q, left)
        BY <1>14, <3>2 DEF AllSettled
      <3> QED
        BY <1>1, <1>5, <1>12, <2>1, <3>3 DEF CallsOK
    <2>2. CASE unanswered # 1
      <3>1. unanswered - 1 \in 1..q[k].calls /\ Len(q) + (unanswered - 1) = k + q[k].calls
        BY <1>7, <1>8, <1>13, <1>15, <2>2
      <3>2. Batch(q, unanswered - 1, k)
        <4>1. k \in DOMAIN q /\ q[k].type = "assistant"
          BY <1>7, <1>8, <1>13, <1>15
        <4> QED
          BY <1>15, <3>1, <4>1 DEF Batch
      <3>3. BatchOK(q, unanswered - 1, left)
        BY <1>14, <3>2 DEF BatchOK, Batch
      <3> QED
        BY <1>1, <1>5, <1>12, <2>2, <3>3 DEF CallsOK
    <2> QED
      BY <2>1, <2>2
  <1>17. CacheOK'
    BY <1>1, <1>4, <1>5, CacheAppends
  <1>18. TitlesOK'
    BY <1>1, <1>5, TitlesSame
  <1>19. Sendable' /\ SentOK'
    BY <1>1, <1>10 DEF Sendable, CallsAnswered, SentOK
  <1> QED
    BY <1>11, <1>16, <1>17, <1>18, <1>19 DEF TranscriptInv

LEMMA StopInv == ASSUME TranscriptInv, Stop PROVE TranscriptInv'
  <1>1. /\ at \in {"tools", "boundary"} /\ at' = "idle" /\ unanswered' = 0
        /\ left' = (IF at = "tools" THEN left \cup {e.id : e \in {f \in ToSet(path) : f.calls > 0}} ELSE left)
        /\ path' = path /\ made' = made /\ asked' = asked /\ UNCHANGED <<cacheVars, titleVars>>
    BY DEF Stop
  <1>2. PathIs'
    BY <1>1 DEF TranscriptInv, PathIs
  <1>3. left \subseteq left'
    BY <1>1
  <1>4. AllSettled(path, left')
    <2>1. CASE at = "tools"
      <3>1. \A k \in DOMAIN path : path[k].calls > 0 => path[k].id \in left'
        BY <1>1, <2>1 DEF ToSet
      <3> QED
        BY <3>1 DEF AllSettled, Owed
    <2>2. CASE at # "tools"
      BY <1>1, <2>2 DEF TranscriptInv, CallsOK
    <2> QED
      BY <2>1, <2>2
  <1>5. CallsOK' /\ SentOK'
    BY <1>1, <1>4 DEF CallsOK, SentOK
  <1>6. PinsHold(path') /\ CacheOK' /\ TitlesOK'
    BY <1>1 DEF TranscriptInv, CacheOK, TitlesOK, cacheVars, titleVars
  <1>7. Sendable'
    BY <1>1, <1>3 DEF TranscriptInv, Sendable, CallsAnswered
  <1> QED
    BY <1>2, <1>5, <1>6, <1>7 DEF TranscriptInv

LEMMA CompactInv ==
    ASSUME TranscriptInv, NEW how \in {"fold", "forced", "cross"}, Compact(how)
    PROVE  TranscriptInv'
  <1>1. /\ path \in Seq(Entries) /\ path # <<>> /\ made \in Nat /\ Len(path) <= made /\ unanswered \in Nat /\ PathIs
        /\ at \in {"idle", "boundary"} /\ AllSettled(path, left) /\ PinsHold(path) /\ CacheOK /\ TitlesOK
        /\ at' = at /\ unanswered' = unanswered /\ left' = left /\ UNCHANGED titleVars
    BY DEF Compact, TranscriptInv, PathIs, PathShape, CallsOK
  <1>2. PICK w : w = Append(FoldInput(how), Instruction)
    OBVIOUS
  <1>3. CallsAnswered(w) /\ SignedBy(w, IF how = "cross" THEN Unknown ELSE PinnedProvider(path))
    BY <1>1, <1>2, FoldIsSendable
  <1>4. asked'.wire = w /\ asked'.provider = IF how = "cross" THEN Unknown ELSE PinnedProvider(path)
    <2>1. asked' = [Ask(FoldInput(how)) EXCEPT !.provider = IF how = "cross" THEN Unknown ELSE @]
      BY DEF Compact
    <2> QED
      BY <1>2, <2>1 DEF Ask, Request
  <1>5. Sendable'
    BY <1>1, <1>3, <1>4, SomethingAsked
  <1>6. SentOK'
    BY <1>1 DEF SentOK
  <1>7. CASE path' = path /\ made' = made /\ UNCHANGED cacheVars
    <2>1. PathIs' /\ PinsHold(path') /\ CallsOK'
      BY <1>1, <1>7 DEF PathIs, CallsOK
    <2>2. CacheOK' /\ TitlesOK'
      BY <1>1, <1>7 DEF CacheOK, TitlesOK, cacheVars, titleVars
    <2> QED
      BY <1>5, <1>6, <2>1, <2>2 DEF TranscriptInv
  <1>8. CASE /\ Appends(<<Entry("compaction", made + 1, TRUE)>>) /\ lastWrite' = <<>>
             /\ IF how = "cross" THEN UNCHANGED written ELSE Cached(asked')
    <2>1. PICK e : e = Entry("compaction", made + 1, TRUE)
      OBVIOUS
    <2>2. e \in Entries /\ e.type = "compaction" /\ e.calls = 0
      BY <1>1, <2>1 DEF Entry, Entries, Backends
    <2>3. path' = path \o <<e>> /\ made' = made + 1
      BY <1>1, <1>8, <2>1, <2>2, Appended
    <2>4. PathIs' /\ PinsHold(path')
      BY <1>1, <2>2, <2>3, PathAppends
    <2>5. CallsOK'
      BY <1>1, <2>2, <2>3, CallsAppend
    <2>6. CacheOK'
      <3>1. PICK q : q = path \o <<e>>
        OBVIOUS
      <3>2. written \subseteq written'
        BY <1>8 DEF Cached
      <3>3. PICK d : d = written'
        OBVIOUS
      <3>4. Served(q, d)
        BY <1>1, <2>2, <3>1, <3>2, <3>3, ExtendServed DEF CacheOK
      <3>5. q \in Seq(Entries)
        BY <1>1, <2>2, <3>1
      <3>6. Carries(<<>>, Sent(q))
        BY <3>5, SentIs DEF Carries
      <3>7. lastWrite' \in Seq(Messages) /\ lastWrite' = <<>>
        BY <1>8
      <3>8. Carries(lastWrite', Sent(path')) /\ Served(path', written')
        BY <2>3, <3>1, <3>3, <3>4, <3>6, <3>7, Zenon
      <3> QED
        BY <3>7, <3>8 DEF CacheOK
    <2>7. TitlesOK'
      BY <1>1, <2>3, TitlesSame
    <2> QED
      BY <1>5, <1>6, <2>4, <2>5, <2>6, <2>7 DEF TranscriptInv
  <1> QED
    BY <1>7, <1>8 DEF Compact

LEMMA NowIs ==
    ASSUME path \in Seq(Entries), path # <<>>, path[1].type = "user"
    PROVE  Now.turns \in 1..Len(path) /\ Now.folds \in Nat /\ Now.asked = TRUE
  <1>1. Len(path) \in Nat /\ DOMAIN path = 1..Len(path) /\ 1 \in DOMAIN path
    <2>1. Len(path) \in Nat /\ DOMAIN path = 1..Len(path) /\ (Len(path) = 0 <=> path = <<>>)
      BY LenProperties, EmptySeq
    <2> QED
      BY <2>1
  <1>2. PICK n \in Nat : n = Len(path)
    BY <1>1
  <1>3. IsFiniteSet(1..n) /\ Cardinality(1..n) = n
    <2>1. IsFiniteSet(1..n) /\ Cardinality(1..n) = IF 1 > n THEN 0 ELSE n - 1 + 1
      BY FS_Interval
    <2> QED
      BY <2>1
  <1> DEFINE U == {i \in DOMAIN path : path[i].type = "user"}
             C == {i \in DOMAIN path : path[i].type = "compaction"}
  <1>4. U \subseteq 1..n /\ C \subseteq 1..n /\ {1} \subseteq U
    BY <1>1, <1>2
  <1> HIDE DEF U, C
  <1>5. IsFiniteSet(U) /\ Cardinality(U) <= n /\ IsFiniteSet(C)
    BY <1>3, <1>4, FS_Subset
  <1>6. Cardinality({1}) = 1 /\ Cardinality({1}) <= Cardinality(U)
    BY <1>4, <1>5, FS_Subset, FS_Singleton
  <1>7. Cardinality(U) \in Nat /\ Cardinality(C) \in Nat
    BY <1>5, FS_CardinalityType
  <1>8. Now.turns = Cardinality(U) /\ Now.folds = Cardinality(C) /\ Now.asked = TRUE
    BY DEF Now, U, C
  <1> QED
    BY <1>2, <1>5, <1>6, <1>7, <1>8

LEMMA AskTitleInv == ASSUME TranscriptInv, AskTitle PROVE TranscriptInv'
  <1>1. /\ path \in Seq(Entries) /\ made \in Nat /\ Len(path) <= made /\ unanswered \in Nat /\ PathIs
        /\ at \in {"idle", "boundary"} /\ AllSettled(path, left) /\ PinsHold(path) /\ CacheOK /\ TitlesOK
        /\ at' = at /\ unanswered' = unanswered /\ left' = left /\ path' = path /\ made' = made /\ lastWrite' = lastWrite
        /\ Cached(asked') /\ mark' = Now /\ (mark.asked => DriftedEnough)
        /\ retitles' = IF mark.asked /\ ~Folded THEN retitles + 1 ELSE 0
    BY DEF AskTitle, TranscriptInv, PathIs, PathShape, CallsOK
  <1>2. path # <<>> /\ path[1].type = "user"
    <2>1. path # <<>>
      BY DEF AskTitle, ToSet
    <2> QED
      BY <1>1, <2>1 DEF PathIs, PathShape
  <1>3. PICK w : w = Append(BuildWireMessages(path), Instruction)
    OBVIOUS
  <1>4. CallsAnswered(w) /\ SignedBy(w, PinnedProvider(path))
    <2>1. FoldInput("fold") = BuildWireMessages(path)
      BY DEF FoldInput
    <2> QED
      BY <1>1, <1>3, <2>1, FoldIsSendable
  <1>5. asked'.wire = w /\ asked'.provider = PinnedProvider(path)
    <2>1. asked' = Ask(BuildWireMessages(path))
      BY DEF AskTitle
    <2> QED
      BY <1>3, <2>1 DEF Ask, Request
  <1>6. Sendable'
    BY <1>1, <1>4, <1>5, SomethingAsked
  <1>7. PathIs' /\ CallsOK' /\ PinsHold(path') /\ SentOK'
    BY <1>1 DEF PathIs, CallsOK, SentOK
  <1>8. CacheOK'
    <2>1. written \subseteq written'
      BY <1>1 DEF Cached
    <2> QED
      BY <1>1, <2>1 DEF CacheOK, Served
  <1>9. TitlesOK'
    <2>1. Now.turns \in 1..Len(path) /\ Now.folds \in Nat /\ Now.asked = TRUE /\ Len(path) \in Nat
      BY <1>1, <1>2, NowIs, LenProperties
    <2>2. mark' \in [turns : Nat, folds : Nat, asked : BOOLEAN]
      BY <1>1, <2>1 DEF Now
    <2>3. retitles \in Nat /\ mark.turns \in Nat /\ retitles' \in Nat
      BY <1>1 DEF TitlesOK
    <2>4. ASSUME retitles' > 0 PROVE mark'.turns >= GrownBy(retitles' - 1)
      <3>1. mark.asked /\ ~Folded /\ retitles' = retitles + 1
        BY <1>1, <2>3, <2>4
      <3>2. Now.turns >= mark.turns + MinTurns /\ Now.turns >= mark.turns * Growth /\ mark.turns >= 1
        BY <1>1, <3>1 DEF DriftedEnough, Grown, TitlesOK
      <3>3. CASE retitles = 0
        <4>1. GrownBy(retitles' - 1) = 1 + MinTurns
          BY <3>1, <3>3, GrownNone
        <4> QED
          BY <1>1, <2>1, <2>3, <3>2, <4>1, TitlesAssumption
      <3>4. CASE retitles # 0
        <4>1. PICK n \in Nat : n = retitles - 1
          BY <2>3, <3>4
        <4>2. retitles' - 1 = n + 1 /\ mark.turns >= GrownBy(n)
          BY <1>1, <2>3, <3>1, <3>4, <4>1 DEF TitlesOK
        <4>3. GrownBy(n + 1) = GrownBy(n) * Growth
          BY <4>1, GrownMore
        <4>4. GrownBy(n) \in Nat
          BY <4>1, GrowthIs
        <4>5. \A x, y, g \in Nat : x >= y => x * g >= y * g
          BY SMT
        <4>6. mark.turns * Growth >= GrownBy(n) * Growth
          BY <2>3, <4>2, <4>4, <4>5, TitlesAssumption
        <4>7. mark.turns * Growth \in Nat /\ GrownBy(n) * Growth \in Nat
          BY <2>3, <4>4, TitlesAssumption
        <4> QED
          BY <1>1, <2>1, <3>2, <4>2, <4>3, <4>6, <4>7
      <3> QED
        BY <3>3, <3>4
    <2>5. retitles' > 0 => mark'.asked
      BY <1>1, <2>1
    <2>6. mark'.turns <= made' /\ mark'.turns >= 1
      BY <1>1, <2>1
    <2> QED
      BY <2>2, <2>3, <2>4, <2>5, <2>6 DEF TitlesOK
  <1> QED
    BY <1>6, <1>7, <1>8, <1>9 DEF TranscriptInv

-----------------------------------------------------------------------------
LEMMA TranscriptStarts == TranscriptInit => TranscriptInv
  <1> SUFFICES ASSUME TranscriptInit PROVE TranscriptInv
    OBVIOUS
  <1>1. path = <<>> /\ made = 0 /\ at = "idle" /\ unanswered = 0 /\ asked = NoRequest /\ lastWrite = <<>> /\ retitles = 0
        /\ mark = [turns |-> 0, folds |-> 0, asked |-> FALSE]
    BY DEF TranscriptInit
  <1>2. PathIs
    BY <1>1 DEF PathIs, PathShape
  <1>3. CallsOK /\ PinsHold(path) /\ SentOK
    BY <1>1 DEF CallsOK, AllSettled, Owed, PinsHold, SentOK
  <1>4. CacheOK
    <2>1. path \in Seq(Entries) /\ lastWrite \in Seq(Messages)
      BY <1>1
    <2>2. Carries(<<>>, Sent(path))
      BY <2>1, SentIs DEF Carries
    <2> QED
      BY <1>1, <2>1, <2>2 DEF CacheOK, Served
  <1>5. TitlesOK
    BY <1>1 DEF TitlesOK
  <1>6. Sendable
    <2>1. PICK w : w = <<System>>
      OBVIOUS
    <2>2. asked.wire = w /\ asked.provider = Unknown
      BY <1>1, <2>1 DEF NoRequest
    <2>3. \A i \in DOMAIN w : ~(w[i].calls > 0) /\ w[i].sig = Unknown
      BY <2>1 DEF System, Message
    <2>4. SignedBy(w, Unknown)
      BY <2>3 DEF SignedBy
    <2>5. Signers(w) = {Unknown} \ {Unknown}
      BY <2>4, SignersAre
    <2> QED
      BY <2>2, <2>3, <2>5 DEF Sendable, CallsAnswered
  <1> QED
    BY <1>2, <1>3, <1>4, <1>5, <1>6 DEF TranscriptInv

LEMMA TranscriptSteps == TranscriptInv /\ [TranscriptNext]_transcriptVars => TranscriptInv'
  <1> SUFFICES ASSUME TranscriptInv, [TranscriptNext]_transcriptVars PROVE TranscriptInv'
    OBVIOUS
  <1>1. CASE SendUser \/ FlushUser
    BY <1>1, SendUserInv
  <1>2. CASE \E i \in DOMAIN path : EditUser(i)
    BY <1>2, EditUserInv
  <1>3. CASE SendTurn
    BY <1>3, SendTurnInv
  <1>4. CASE TurnFails
    BY <1>4, TurnFailsInv
  <1>5. CASE \E calls \in 0..MaxCalls, cut \in BOOLEAN : AnswerLands(calls, cut)
    BY <1>5, AnswerLandsInv
  <1>6. CASE ToolAnswers
    BY <1>6, ToolAnswersInv
  <1>7. CASE Stop
    BY <1>7, StopInv
  <1>8. CASE \E how \in {"fold", "forced", "cross"} : Compact(how)
    BY <1>8, CompactInv
  <1>9. CASE AskTitle
    BY <1>9, AskTitleInv
  <1>10. CASE UNCHANGED transcriptVars
    <2>1. /\ path' = path /\ made' = made /\ at' = at /\ unanswered' = unanswered /\ left' = left /\ asked' = asked
          /\ written' = written /\ lastWrite' = lastWrite /\ mark' = mark /\ retitles' = retitles
      BY <1>10 DEF transcriptVars
    <2>2. PathIs' /\ CallsOK' /\ PinsHold(path')
      BY <2>1 DEF TranscriptInv, PathIs, CallsOK
    <2>3. CacheOK' /\ TitlesOK'
      BY <2>1 DEF TranscriptInv, CacheOK, TitlesOK
    <2>4. SentOK' /\ Sendable'
      BY <2>1 DEF TranscriptInv, SentOK, Request, Sendable, CallsAnswered
    <2> QED
      BY <2>2, <2>3, <2>4 DEF TranscriptInv
  <1> QED
    BY <1>1, <1>2, <1>3, <1>4, <1>5, <1>6, <1>7, <1>8, <1>9, <1>10 DEF TranscriptNext

(* In every reachable state the branch is well formed, the calls of its    *)
(* answers are followed by their results, every answer came from the       *)
(* backend that was pinned, what was sent is in the cache, and the request *)
(* that is out can be sent.                                                *)
THEOREM TranscriptInvariant == TranscriptSpec => []TranscriptInv
  BY TranscriptStarts, TranscriptSteps, PTL DEF TranscriptSpec

(* Whatever was answered, stopped, edited, folded or titled before: each   *)
(* call that goes on the wire is followed by its result, and signatures go *)
(* back to the backend that the request is tied to and to nobody else.     *)
THEOREM RequestsAreSendable == TranscriptSpec => []Sendable
  <1>1. TranscriptInv => Sendable
    BY DEF TranscriptInv
  <1> QED
    BY <1>1, TranscriptInvariant, PTL

LEMMA CarriedIsPrefix ==
    ASSUME NEW a \in Seq(Messages), NEW b \in Seq(Messages), Carries(a, b)
    PROVE  IsPrefix(a, b)
  <1>1. Len(a) \in Nat /\ Len(a) <= Len(a) /\ Len(a) <= Len(b) /\ \A i \in 1..Len(a) : a[i] = b[i]
    BY LenProperties DEF Carries
  <1>2. SubSeq(a, 1, Len(a)) = SubSeq(b, 1, Len(a))
    BY <1>1, FrontSame
  <1> QED
    BY <1>1, <1>2 DEF IsPrefix

(* A turn repeats what the last answered request left in the cache, its    *)
(* anchor marks what an earlier request wrote, and from one fold to the    *)
(* next the titles need geometrically more turns.                          *)
THEOREM CacheIsReadBack == TranscriptSpec => []RequestsStayCheap
  <1>1. ASSUME TranscriptInv PROVE RequestsStayCheap
    <2>1. /\ PathIs /\ path \in Seq(Entries) /\ made \in Nat /\ CacheOK /\ TitlesOK
          /\ (at = "sent" => asked = Request(BuildWireMessages(path)))
      BY <1>1 DEF TranscriptInv, PathIs, PathShape, SentOK
    <2>2. ASSUME at = "sent" PROVE asked.wire = BuildWireMessages(path) /\ IsPrefix(lastWrite, asked.wire)
      <3>1. PICK w : w = BuildWireMessages(path)
        OBVIOUS
      <3>2. asked.wire = w
        BY <2>1, <2>2, <3>1 DEF Request
      <3>3. Carries(Sent(path), w)
        BY <2>1, <3>1, SentRepeats
      <3>4. Carries(lastWrite, w) /\ w \in Seq(Messages)
        BY <2>1, <3>1, <3>3, SentIs, CarriesOn DEF CacheOK
      <3>5. IsPrefix(lastWrite, w)
        BY <2>1, <3>4, CarriedIsPrefix DEF CacheOK
      <3> QED
        BY <3>1, <3>2, <3>5
    <2>3. ASSUME at = "sent", Anchor(asked.wire) > 2, asked.wire[Anchor(asked.wire) + 1].role # "user"
          PROVE  PrefixTo(asked.wire, Anchor(asked.wire)) \in written
      <3>1. PICK w : w = asked.wire
        OBVIOUS
      <3>2. PICK a : a = Anchor(w)
        OBVIOUS
      <3>3. w = BuildWireMessages(path) /\ a > 2 /\ w[a + 1].role # "user" /\ Served(path, written)
        BY <2>1, <2>2, <2>3, <3>1, <3>2 DEF CacheOK
      <3>4. PrefixTo(w, a) \in written
        BY <2>1, <3>2, <3>3, AnchorWasSent
      <3> QED
        BY <3>1, <3>2, <3>4
    <2>4. TitlesAreRare
      <3>1. ASSUME retitles > 0 PROVE made >= GrownBy(retitles - 1)
        <4>1. PICK n \in Nat : n = retitles - 1
          BY <2>1, <3>1 DEF TitlesOK
        <4>2. mark.turns \in Nat /\ mark.turns <= made /\ mark.turns >= GrownBy(n) /\ GrownBy(n) \in Nat
          BY <2>1, <3>1, <4>1, GrowthIs DEF TitlesOK
        <4> QED
          BY <2>1, <4>1, <4>2
      <3> QED
        BY <3>1 DEF TitlesAreRare, GrownBy
    <2> QED
      BY <2>2, <2>3, <2>4 DEF RequestsStayCheap
  <1> QED
    BY <1>1, TranscriptInvariant, PTL

-----------------------------------------------------------------------------
USE DEF Root, Unpinned

(* A history variable is right: views[i] is load() as far as queue[i].     *)
ViewBefore(i) == IF i = 1 THEN loaded ELSE views[i - 1]
ViewsReplay   == \A i \in 1 .. Len(queue) : views[i] = Replay(ViewBefore(i), queue[i])

(* A state of the log that a restart may be in.                            *)
PastIn(v, shown) == Shown(v) \in shown /\ (v.entries # {} => v.header)
Past(v)    == PastIn(v, lived)
AllPast    == Past(loaded) /\ \A i \in 1 .. Len(views) : Past(views[i])

Writers    == {s \in Sessions : live[s].st \in {"open", "closed"}}

(* What load() would make of the whole log is what the writer has; where   *)
(* load() would follow any append, the writer appends at its own pointer.  *)
WorksAt(c) == IF c.turnLeaf # Unpinned THEN c.turnLeaf ELSE c.leaf
Agree(v, c) ==
    /\ v.header = c.created /\ v.entries = c.entries /\ v.leaf = c.leaf
    /\ ~v.pinned => WorksAt(c) = c.leaf

Faithful ==
    /\ ViewsReplay /\ AllPast
    /\ \A s, t \in Writers : s = t
    /\ \A s \in Writers : Agree(Promised, live[s])

EntriesCreated == \A s \in Sessions : live[s].entries # {} => live[s].created
OneOpen == \A s, t \in Sessions : live[s].st = "open" /\ live[t].st = "open" => s = t

StoreInv == TypeOK /\ EntriesCreated /\ OneOpen /\ (intact => Faithful)

-----------------------------------------------------------------------------
(* The replay of one record.                                               *)

LEMMA RecordType ==
    ASSUME NEW n \in Nat, NEW r \in Record(n)
    PROVE  /\ r.kind \in {"header", "activeLeaf", "entry"} /\ r.id \in 0 .. n /\ r.parent \in 0 .. n
           /\ r.kind = "entry" => r.parent < r.id /\ r.id \in 1 .. n
<1>1. /\ r.kind \in {"header", "activeLeaf", "entry"} /\ r.id \in 0 .. n /\ r.parent \in 0 .. n
      /\ r.kind = "entry" => r.parent < r.id
    BY DEF Record
<1> QED BY <1>1

LEMMA ViewType ==
    ASSUME NEW n \in Nat, NEW v \in View(n)
    PROVE  /\ v.header \in BOOLEAN /\ v.entries \subseteq 1 .. n /\ v.leaf \in 0 .. n /\ v.pinned \in BOOLEAN
           /\ v = [header |-> v.header, entries |-> v.entries, leaf |-> v.leaf, pinned |-> v.pinned]
BY DEF View

(* The three kinds of record.                                              *)
LEMMA ReplayIs ==
    ASSUME NEW n \in Nat, NEW v \in View(n), NEW r \in Record(n)
    PROVE  /\ Replay(v, r) \in View(n)
           /\ r.kind = "header" => Replay(v, r) = [header |-> TRUE, entries |-> v.entries, leaf |-> v.leaf, pinned |-> v.pinned]
           /\ r.kind = "activeLeaf" => Replay(v, r) = [header |-> v.header, entries |-> v.entries, leaf |-> r.id, pinned |-> TRUE]
           /\ r.kind = "entry" =>
                 Replay(v, r) = [header |-> v.header, entries |-> v.entries \cup {r.id},
                                 leaf |-> IF r.parent = v.leaf \/ ~v.pinned THEN r.id ELSE v.leaf,
                                 pinned |-> v.pinned /\ ~(r.parent = v.leaf)]
<1>0. /\ r.kind \in {"header", "activeLeaf", "entry"} /\ r.id \in 0 .. n /\ r.parent \in 0 .. n
      /\ r.kind = "entry" => r.id \in 1 .. n
    BY RecordType
<1>4. /\ v.header \in BOOLEAN /\ v.entries \subseteq 1 .. n /\ v.leaf \in 0 .. n /\ v.pinned \in BOOLEAN
      /\ v = [header |-> v.header, entries |-> v.entries, leaf |-> v.leaf, pinned |-> v.pinned]
    BY ViewType
<1>1. CASE r.kind = "header"
    BY <1>1, <1>4 DEF Replay, View
<1>2. CASE r.kind = "activeLeaf"
    BY <1>0, <1>2, <1>4 DEF Replay, View
<1>3. CASE r.kind = "entry"
  <2>1. Replay(v, r) = [header |-> v.header, entries |-> v.entries \cup {r.id},
                        leaf |-> IF r.parent = v.leaf \/ ~v.pinned THEN r.id ELSE v.leaf,
                        pinned |-> v.pinned /\ ~(r.parent = v.leaf)]
      BY <1>3, <1>4 DEF Replay
  <2>2. /\ v.entries \cup {r.id} \subseteq 1 .. n
        /\ (IF r.parent = v.leaf \/ ~v.pinned THEN r.id ELSE v.leaf) \in 0 .. n
        /\ (v.pinned /\ ~(r.parent = v.leaf)) \in BOOLEAN
      BY <1>0, <1>3, <1>4
  <2>3. Replay(v, r) \in View(n)
      BY <1>4, <2>1, <2>2 DEF View
  <2> QED BY <1>3, <2>1, <2>3
<1> QED BY <1>0, <1>1, <1>2, <1>3

(* A record that a failed fsync leaves in the file twice counts once.      *)
LEMMA ReplayTwice ==
    ASSUME NEW n \in Nat, NEW v \in View(n), NEW r \in Record(n)
    PROVE  Replay(Replay(v, r), r) = Replay(v, r)
<1> DEFINE w == Replay(v, r)
<1>1. w \in View(n)
    BY ReplayIs
<1>4. r.kind \in {"header", "activeLeaf", "entry"}
    BY RecordType
<1>5. v = [header |-> v.header, entries |-> v.entries, leaf |-> v.leaf, pinned |-> v.pinned]
    BY ViewType
<1>2. CASE r.kind = "header"
  <2>1. w = [header |-> TRUE, entries |-> v.entries, leaf |-> v.leaf, pinned |-> v.pinned]
      BY <1>2, ReplayIs
  <2>2. Replay(w, r) = [header |-> TRUE, entries |-> w.entries, leaf |-> w.leaf, pinned |-> w.pinned]
      BY <1>1, <1>2, ReplayIs
  <2> HIDE DEF w
  <2>3. Replay(w, r) = w
      BY <1>5, <2>1, <2>2
  <2> QED BY <2>3 DEF w
<1>6. CASE r.kind = "activeLeaf"
  <2>1. w = [header |-> v.header, entries |-> v.entries, leaf |-> r.id, pinned |-> TRUE]
      BY <1>6, ReplayIs
  <2>2. Replay(w, r) = [header |-> w.header, entries |-> w.entries, leaf |-> r.id, pinned |-> TRUE]
      BY <1>1, <1>6, ReplayIs
  <2> HIDE DEF w
  <2>3. Replay(w, r) = w
      BY <1>5, <2>1, <2>2
  <2> QED BY <2>3 DEF w
<1>3. CASE r.kind = "entry"
  <2>1. r.parent # r.id
      BY <1>3, RecordType
  <2>2. w = [header |-> v.header, entries |-> v.entries \cup {r.id},
             leaf |-> IF r.parent = v.leaf \/ ~v.pinned THEN r.id ELSE v.leaf,
             pinned |-> v.pinned /\ ~(r.parent = v.leaf)]
      BY <1>3, ReplayIs
  <2>3. Replay(w, r) = [header |-> w.header, entries |-> w.entries \cup {r.id},
                        leaf |-> IF r.parent = w.leaf \/ ~w.pinned THEN r.id ELSE w.leaf,
                        pinned |-> w.pinned /\ ~(r.parent = w.leaf)]
      BY <1>1, <1>3, ReplayIs
  <2>4. w.pinned \in BOOLEAN /\ v.pinned \in BOOLEAN
      BY <1>1, ViewType
  <2> HIDE DEF w
  <2>5. /\ w.header = v.header /\ w.entries \cup {r.id} = w.entries
        /\ w.leaf = IF r.parent = v.leaf \/ ~v.pinned THEN r.id ELSE v.leaf
        /\ w.pinned = (v.pinned /\ ~(r.parent = v.leaf))
      BY <2>2
  <2>6. (IF r.parent = w.leaf \/ ~w.pinned THEN r.id ELSE w.leaf) = w.leaf
      BY <2>1, <2>4, <2>5
  <2>7. (w.pinned /\ ~(r.parent = w.leaf)) = w.pinned
      BY <2>1, <2>4, <2>5
  <2>8. w = [header |-> w.header, entries |-> w.entries, leaf |-> w.leaf, pinned |-> w.pinned]
      BY <2>2
  <2>9. Replay(w, r) = w
      BY <2>3, <2>5, <2>6, <2>7, <2>8
  <2> QED BY <2>9 DEF w
<1> QED BY <1>2, <1>3, <1>4, <1>6

(* Entries are only added: what had its type keeps it.                     *)
LEMMA LogGrows ==
    ASSUME TypeOK, NEW n \in Nat, n >= Len(parent)
    PROVE  /\ file \in Seq(Record(n)) /\ queue \in Seq(Record(n)) /\ views \in Seq(View(n))
           /\ loaded \in View(n) /\ Promised \in View(n) /\ live \in [Sessions -> Object(n)]
           /\ Len(queue) \in Nat /\ Len(views) = Len(queue) /\ Len(parent) \in Nat
<1>1. Len(parent) \in Nat /\ Len(queue) \in Nat
    BY DEF TypeOK
<1>2. Record(Len(parent)) \subseteq Record(n)
    BY <1>1 DEF Record
<1>3. View(Len(parent)) \subseteq View(n)
    BY <1>1 DEF View
<1>4. Object(Len(parent)) \subseteq Object(n)
    BY <1>1 DEF Object
<1>5. file \in Seq(Record(n)) /\ queue \in Seq(Record(n)) /\ views \in Seq(View(n))
    BY <1>2, <1>3 DEF TypeOK
<1>6. loaded \in View(n) /\ Promised \in View(n)
    BY <1>3, <1>5 DEF TypeOK, Promised
<1> QED BY <1>1, <1>4, <1>5, <1>6 DEF TypeOK

-----------------------------------------------------------------------------
(* What submitting one or two records does to the views.                   *)

First(rs) == Replay(Promised, rs[1])
Final(rs) == IF Len(rs) = 1 THEN First(rs) ELSE Replay(First(rs), rs[2])

LEMMA OneOrTwo ==
    ASSUME NEW k \in {1, 2}, NEW m \in Nat
    PROVE  /\ k = 1 \/ k = 2
           /\ k \in Nat /\ k \in 1 .. k /\ 1 \in 1 .. k
           /\ \A i \in 1 .. k : i = 1 \/ i = k
           /\ \A i \in 1 .. m + k : i \in 1 .. m \/ i = m + 1 \/ (i = m + 2 /\ k = 2)
           /\ \A i \in 1 .. m + k : i \in 1 .. m \/ (i - m \in 1 .. k /\ i = m + (i - m))
OBVIOUS

LEMMA SubmitViews ==
    ASSUME TypeOK, NEW n \in Nat, n >= Len(parent),
           NEW rs \in Seq(Record(n)), Len(rs) \in {1, 2}, Submit(rs), UNCHANGED loaded
    PROVE  /\ queue' \in Seq(Record(n)) /\ views' \in Seq(View(n)) /\ Len(views') = Len(queue')
           /\ First(rs) \in View(n) /\ Final(rs) \in View(n)
           /\ Promised' = Final(rs)
           /\ ViewsReplay => ViewsReplay'
           /\ \A i \in 1 .. Len(views') :
                 \/ i \in 1 .. Len(views) /\ views'[i] = views[i]
                 \/ views'[i] \in {First(rs), Final(rs)}
<1>1. /\ queue \in Seq(Record(n)) /\ views \in Seq(View(n)) /\ Len(views) = Len(queue) /\ Len(queue) \in Nat
      /\ Promised \in View(n)
    BY LogGrows
<1>2. rs[1] \in Record(n) /\ (Len(rs) = 2 => rs[2] \in Record(n))
    OBVIOUS
<1>3. First(rs) \in View(n) /\ Final(rs) \in View(n)
    BY <1>1, <1>2, ReplayIs DEF First, Final
<1> DEFINE new == IF Len(rs) = 1 THEN <<First(rs)>> ELSE <<First(rs), Final(rs)>>
<1>11. /\ Len(rs) = 1 \/ Len(rs) = 2
       /\ Len(rs) \in Nat
       /\ \A i \in 1 .. Len(rs) : i = 1 \/ i = Len(rs)
       /\ \A i \in 1 .. Len(queue) + Len(rs) :
             i \in 1 .. Len(queue) \/ i = Len(queue) + 1 \/ (i = Len(queue) + 2 /\ Len(rs) = 2)
       /\ \A i \in 1 .. Len(queue) + Len(rs) :
             i \in 1 .. Len(queue) \/ (i - Len(queue) \in 1 .. Len(rs) /\ i = Len(queue) + (i - Len(queue)))
    BY <1>1, OneOrTwo
<1>4. /\ new \in Seq(View(n)) /\ views' = views \o new
      /\ Len(new) = Len(rs) /\ new[1] = First(rs) /\ new[Len(rs)] = Final(rs)
  <2>1. CASE Len(rs) = 1
      BY <1>3, <2>1 DEF Submit, First, Final
  <2>2. CASE Len(rs) = 2
      BY <1>3, <2>2 DEF Submit, First, Final
  <2> QED BY <1>11, <2>1, <2>2
<1>12. \A i \in 1 .. Len(rs) : new[i] \in {First(rs), Final(rs)}
    BY <1>4, <1>11
<1> HIDE DEF new
<1>5. queue' = queue \o rs
    BY DEF Submit
<1>6. /\ queue' \in Seq(Record(n)) /\ Len(queue') = Len(queue) + Len(rs)
      /\ views' \in Seq(View(n)) /\ Len(views') = Len(queue) + Len(rs)
      /\ \A i \in 1 .. Len(queue) : queue'[i] = queue[i] /\ views'[i] = views[i]
      /\ \A i \in 1 .. Len(rs) : queue'[Len(queue) + i] = rs[i] /\ views'[Len(queue) + i] = new[i]
  <2>1. rs \in Seq(Record(n)) /\ Len(rs) \in Nat /\ Len(new) \in Nat
      BY <1>4, <1>11
  <2>2. queue' \in Seq(Record(n)) /\ Len(queue') = Len(queue) + Len(rs)
      BY <1>1, <1>5, <2>1, ConcatProperties
  <2>3. views' \in Seq(View(n)) /\ Len(views') = Len(queue) + Len(rs)
    <3>1. views \o new \in Seq(View(n)) /\ Len(views \o new) = Len(views) + Len(new)
        BY <1>1, <1>4, ConcatProperties
    <3> QED BY <1>1, <1>4, <3>1
  <2>4. \A i \in 1 .. Len(queue) : queue'[i] = queue[i] /\ views'[i] = views[i]
      BY <1>1, <1>4, <1>5, <2>1
  <2>5. \A i \in 1 .. Len(rs) : queue'[Len(queue) + i] = rs[i] /\ views'[Len(queue) + i] = new[i]
      BY <1>1, <1>4, <1>5, <2>1, SMTT(30)
  <2> QED BY <2>2, <2>3, <2>4, <2>5
<1>10. Len(rs) \in 1 .. Len(rs) /\ 1 \in 1 .. Len(rs)
    BY <1>1, OneOrTwo
<1>7. Promised' = Final(rs)
  <2>1. views' # <<>> /\ views'[Len(views')] = new[Len(rs)]
    <3>1. Len(views') > 0
        BY <1>1, <1>6, <1>10
    <3> QED BY <1>1, <1>6, <1>10, <3>1
  <2> QED BY <1>4, <2>1 DEF Promised
<1>8. ASSUME ViewsReplay PROVE ViewsReplay'
  <2>1. SUFFICES ASSUME NEW i \in 1 .. Len(queue')
                 PROVE  views'[i] = Replay(IF i = 1 THEN loaded ELSE views'[i - 1], queue'[i])
      BY DEF ViewsReplay, ViewBefore
  <2>2. CASE i \in 1 .. Len(queue)
    <3>1. i # 1 => i - 1 \in 1 .. Len(queue)
        BY <1>1, <2>2
    <3>2. (IF i = 1 THEN loaded ELSE views'[i - 1]) = ViewBefore(i)
        BY <1>6, <3>1 DEF ViewBefore
    <3> QED BY <1>6, <1>8, <2>2, <3>2 DEF ViewsReplay
  <2>3. CASE i = Len(queue) + 1
    <3>1. (IF i = 1 THEN loaded ELSE views'[i - 1]) = Promised
      <4>1. CASE Len(queue) = 0
          BY <1>1, <2>3, <4>1 DEF Promised
      <4>2. CASE Len(queue) # 0
        <5>1. i # 1 /\ i - 1 = Len(queue) /\ Len(queue) \in 1 .. Len(queue) /\ views # <<>>
            BY <1>1, <2>3, <4>2
        <5> QED BY <1>1, <1>6, <5>1 DEF Promised
      <4> QED BY <4>1, <4>2
    <3>2. queue'[i] = rs[1] /\ views'[i] = First(rs)
        BY <1>4, <1>6, <1>10, <2>3
    <3> QED BY <3>1, <3>2 DEF First
  <2>4. CASE i = Len(queue) + 2
    <3>1. Len(rs) = 2 /\ 1 \in 1 .. Len(rs) /\ 2 \in 1 .. Len(rs) /\ i # 1 /\ i - 1 = Len(queue) + 1
        BY <1>1, <1>6, <1>11, <2>4
    <3>2. queue'[i] = rs[2] /\ views'[i] = Final(rs) /\ views'[i - 1] = First(rs)
        BY <1>4, <1>6, <2>4, <3>1
    <3> QED BY <3>1, <3>2 DEF Final
  <2>5. i \in 1 .. Len(queue) \/ i = Len(queue) + 1 \/ i = Len(queue) + 2
      BY <1>1, <1>6, <1>11
  <2> QED BY <2>2, <2>3, <2>4, <2>5
<1>9. ASSUME NEW i \in 1 .. Len(views')
      PROVE  \/ i \in 1 .. Len(views) /\ views'[i] = views[i]
             \/ views'[i] \in {First(rs), Final(rs)}
  <2>1. CASE i \in 1 .. Len(queue)
      BY <1>1, <1>6, <2>1
  <2>2. CASE i \notin 1 .. Len(queue)
    <3>1. i - Len(queue) \in 1 .. Len(rs) /\ i = Len(queue) + (i - Len(queue))
        BY <1>1, <1>6, <1>11, <2>2
    <3> QED BY <1>6, <1>12, <3>1
  <2> QED BY <2>1, <2>2
<1> QED BY <1>3, <1>6, <1>7, <1>8, <1>9

-----------------------------------------------------------------------------
(* One session object changes.                                             *)

LEMMA ObjectType ==
    ASSUME NEW n \in Nat, NEW c \in Object(n)
    PROVE  /\ c.st \in {"none", "open", "closed", "gone"} /\ c.created \in BOOLEAN
           /\ c.entries \subseteq 1 .. n /\ c.leaf \in 0 .. n /\ c.turnLeaf \in 0 .. n \cup {Unpinned}
           /\ c = [st |-> c.st, created |-> c.created, entries |-> c.entries, leaf |-> c.leaf, turnLeaf |-> c.turnLeaf]
BY DEF Object

LEMMA OneObject ==
    ASSUME NEW n \in Nat, live \in [Sessions -> Object(n)], NEW s \in Sessions, NEW d \in Object(n),
           live' = [live EXCEPT ![s] = d]
    PROVE  /\ live' \in [Sessions -> Object(n)] /\ live'[s] = d
           /\ \A t \in Sessions : t # s => live'[t] = live[t]
OBVIOUS

(* Only the session object changes.                                        *)
LEMMA OnlyLive ==
    ASSUME StoreInv, NEW s \in Sessions, NEW d \in Object(Len(parent)), live' = [live EXCEPT ![s] = d],
           UNCHANGED <<parent, file, queue, stalled, loaded, views, lived, intact>>,
           d.entries # {} => d.created, d.st = "open" => live[s].st = "open",
           d.st \in {"open", "closed"} =>
               live[s].st \in {"open", "closed"} /\ (Agree(Promised, live[s]) => Agree(Promised, d))
    PROVE  StoreInv'
<1>1. Len(parent) \in Nat /\ live \in [Sessions -> Object(Len(parent))]
    BY DEF StoreInv, TypeOK
<1>2. /\ live' \in [Sessions -> Object(Len(parent))] /\ live'[s] = d
      /\ \A t \in Sessions : t # s => live'[t] = live[t]
    BY <1>1, OneObject
<1>3. TypeOK'
    BY <1>2 DEF StoreInv, TypeOK
<1>4. EntriesCreated'
    BY <1>2 DEF StoreInv, EntriesCreated
<1>5. OneOpen'
    BY <1>2 DEF StoreInv, OneOpen
<1>6. ASSUME intact PROVE Faithful'
  <2>1. Faithful
      BY <1>6 DEF StoreInv
  <2>2. ViewsReplay' /\ AllPast' /\ Promised' = Promised
      BY <2>1 DEF Faithful, ViewsReplay, ViewBefore, AllPast, Past, PastIn, Promised
  <2>3. Writers' \subseteq Writers
      BY <1>2 DEF Writers
  <2>4. ASSUME NEW t \in Writers' PROVE Agree(Promised, live'[t])
    <3>1. CASE t = s
        BY <1>2, <2>1, <2>3, <3>1 DEF Faithful, Writers
    <3>2. CASE t # s
        BY <1>2, <2>1, <2>3, <3>2 DEF Faithful, Writers
    <3> QED BY <3>1, <3>2
  <2> QED BY <2>1, <2>2, <2>3, <2>4 DEF Faithful
<1> QED BY <1>3, <1>4, <1>5, <1>6 DEF StoreInv

LEMMA TurnEndsInv ==
    ASSUME StoreInv, NEW s \in Sessions, TurnEnds(s)
    PROVE  StoreInv'
<1> DEFINE c == live[s]
           d == [c EXCEPT !.turnLeaf = Unpinned]
<1>1. Len(parent) \in Nat /\ c \in Object(Len(parent)) /\ live \in [Sessions -> Object(Len(parent))]
    BY DEF StoreInv, TypeOK
<1>2. d \in Object(Len(parent)) /\ d.st = c.st /\ d.created = c.created /\ d.entries = c.entries
      /\ d.leaf = c.leaf /\ d.turnLeaf = Unpinned
    BY <1>1 DEF Object
<1>3. live' = [live EXCEPT ![s] = d]
    BY <1>1 DEF TurnEnds
<1>4. Agree(Promised, c) => Agree(Promised, d)
    BY <1>2 DEF Agree, WorksAt
<1>5. d.entries # {} => d.created
    BY <1>2 DEF StoreInv, EntriesCreated
<1>6. UNCHANGED <<parent, file, queue, stalled, loaded, views, lived, intact>>
    BY DEF TurnEnds
<1>7. c.st = live[s].st
    OBVIOUS
<1> HIDE DEF d
<1> QED BY <1>2, <1>3, <1>4, <1>5, <1>6, <1>7, OnlyLive

LEMMA RepinInv ==
    ASSUME StoreInv, NEW s \in Sessions, Repin(s)
    PROVE  StoreInv'
<1> DEFINE c == live[s]
           d == [c EXCEPT !.turnLeaf = c.leaf]
<1>1. Len(parent) \in Nat /\ c \in Object(Len(parent)) /\ live \in [Sessions -> Object(Len(parent))]
    BY DEF StoreInv, TypeOK
<1>2. d \in Object(Len(parent)) /\ d.st = c.st /\ d.created = c.created /\ d.entries = c.entries
      /\ d.leaf = c.leaf /\ d.turnLeaf = c.leaf
    BY <1>1 DEF Object
<1>3. live' = [live EXCEPT ![s] = d]
    BY <1>1 DEF Repin
<1>4. Agree(Promised, c) => Agree(Promised, d)
    BY <1>2 DEF Agree, WorksAt
<1>5. d.entries # {} => d.created
    BY <1>2 DEF StoreInv, EntriesCreated
<1>6. UNCHANGED <<parent, file, queue, stalled, loaded, views, lived, intact>>
    BY DEF Repin
<1>7. c.st = live[s].st
    OBVIOUS
<1> HIDE DEF d
<1> QED BY <1>2, <1>3, <1>4, <1>5, <1>6, <1>7, OnlyLive

LEMMA CloseInv ==
    ASSUME StoreInv, NEW s \in Sessions, Close(s)
    PROVE  StoreInv'
<1> DEFINE c == live[s]
           d == [c EXCEPT !.st = "closed"]
<1>1. Len(parent) \in Nat /\ c \in Object(Len(parent)) /\ live \in [Sessions -> Object(Len(parent))]
    BY DEF StoreInv, TypeOK
<1>2. d \in Object(Len(parent)) /\ d.st = "closed" /\ d.created = c.created /\ d.entries = c.entries
      /\ d.leaf = c.leaf /\ d.turnLeaf = c.turnLeaf
    BY <1>1 DEF Object
<1>3. live' = [live EXCEPT ![s] = d]
    BY <1>1 DEF Close
<1>4. Agree(Promised, c) => Agree(Promised, d)
    BY <1>2 DEF Agree, WorksAt
<1>5. d.entries # {} => d.created
    BY <1>2 DEF StoreInv, EntriesCreated
<1>6. UNCHANGED <<parent, file, queue, stalled, loaded, views, lived, intact>>
    BY DEF Close
<1>7. c.st = live[s].st /\ live[s].st = "open"
    BY DEF Close
<1> HIDE DEF d
<1> QED BY <1>2, <1>3, <1>4, <1>5, <1>6, <1>7, OnlyLive

LEMMA UnwindsInv ==
    ASSUME StoreInv, NEW s \in Sessions, Unwinds(s)
    PROVE  StoreInv'
<1> DEFINE d == Blank("gone")
<1>1. Len(parent) \in Nat /\ live \in [Sessions -> Object(Len(parent))]
    BY DEF StoreInv, TypeOK
<1>2. d \in Object(Len(parent)) /\ d.st = "gone" /\ d.entries = {}
    BY <1>1 DEF Object, Blank
<1>3. live' = [live EXCEPT ![s] = d]
      /\ UNCHANGED <<parent, file, queue, stalled, loaded, views, lived, intact>>
    BY DEF Unwinds
<1> HIDE DEF d
<1> QED BY <1>2, <1>3, OnlyLive

-----------------------------------------------------------------------------
(* A session writes: its object becomes d, and records go to the queue.    *)

(* What the records must come to for the rest to follow: load() after the  *)
(* last has what d has, and after each what a session showed.              *)
ComeTo(rs, d, shown) == Agree(Final(rs), d) /\ PastIn(First(rs), shown) /\ PastIn(Final(rs), shown)

LEMMA WriterInv ==
    ASSUME StoreInv, NEW s \in Sessions, live[s].st \in {"open", "closed"},
           NEW n \in Nat, n >= Len(parent), NEW d \in Object(n), live' = [live EXCEPT ![s] = d],
           d.st = live[s].st, d.entries # {} => d.created,
           Len(parent') = n, parent' \in Seq(Nat), \A e \in 1 .. n : parent'[e] < e,
           NEW rs \in Seq(Record(n)), Len(rs) \in {1, 2}, Submit(rs),
           UNCHANGED <<file, stalled, loaded, intact>>,
           lived \subseteq lived', lived' \subseteq [entries : SUBSET Nat, leaf : Nat],
           (intact /\ Agree(Promised, live[s])) => ComeTo(rs, d, lived')
    PROVE  StoreInv'
<1>1. TypeOK
    BY DEF StoreInv
<1>2. /\ queue' \in Seq(Record(n)) /\ views' \in Seq(View(n)) /\ Len(views') = Len(queue')
      /\ Promised' = Final(rs)
      /\ ViewsReplay => ViewsReplay'
      /\ \A i \in 1 .. Len(views') :
            \/ i \in 1 .. Len(views) /\ views'[i] = views[i]
            \/ views'[i] \in {First(rs), Final(rs)}
    BY <1>1, SubmitViews
<1>3. file \in Seq(Record(n)) /\ loaded \in View(n) /\ live \in [Sessions -> Object(n)]
    BY <1>1, LogGrows
<1>4. /\ live' \in [Sessions -> Object(n)] /\ live'[s] = d
      /\ \A t \in Sessions : t # s => live'[t] = live[t]
    BY <1>3, OneObject
<1>5. TypeOK'
    BY <1>1, <1>2, <1>3, <1>4 DEF TypeOK
<1>6. EntriesCreated'
    BY <1>4 DEF StoreInv, EntriesCreated
<1>7. OneOpen'
    BY <1>4 DEF StoreInv, OneOpen
<1>8. ASSUME intact PROVE Faithful'
  <2>1. Faithful
      BY <1>8 DEF StoreInv
  <2>2. ComeTo(rs, d, lived')
      BY <1>8, <2>1 DEF Faithful, Writers
  <2>3. ViewsReplay'
      BY <1>2, <2>1 DEF Faithful
  <2>4. \A v : Past(v) => PastIn(v, lived')
      BY DEF Past, PastIn
  <2>5. PastIn(loaded, lived') /\ \A i \in 1 .. Len(views') : PastIn(views'[i], lived')
    <3>1. Past(loaded) /\ \A i \in 1 .. Len(views) : Past(views[i])
        BY <2>1 DEF Faithful, AllPast
    <3>2. PastIn(First(rs), lived') /\ PastIn(Final(rs), lived')
        BY <2>2 DEF ComeTo
    <3> QED BY <1>2, <2>4, <3>1, <3>2
  <2>6. AllPast'
      BY <2>5 DEF AllPast, Past
  <2>7. Writers' = Writers /\ \A t \in Writers : t = s
      BY <1>4, <2>1 DEF Faithful, Writers
  <2>8. Agree(Promised', live'[s])
      BY <1>2, <1>4, <2>2 DEF ComeTo
  <2> QED BY <2>3, <2>6, <2>7, <2>8 DEF Faithful
<1> QED BY <1>5, <1>6, <1>7, <1>8 DEF StoreInv

LEMMA SetActiveLeafInv ==
    ASSUME StoreInv, NEW s \in Sessions, SetActiveLeaf(s)
    PROVE  StoreInv'
<1> DEFINE n == Len(parent)
           c == live[s]
<1>1. n \in Nat /\ c \in Object(n) /\ live \in [Sessions -> Object(n)] /\ TypeOK /\ parent \in Seq(Nat)
      /\ \A e \in 1 .. n : parent[e] < e
    BY DEF StoreInv, TypeOK
<1>2. PICK e \in c.entries \cup {Root} :
         /\ Submit(<<Moved(e)>>)
         /\ live' = [live EXCEPT ![s].leaf = e]
         /\ lived' = lived \cup {Shown(live'[s])}
    BY DEF SetActiveLeaf
<1>3. e \in 0 .. n
    BY <1>1 DEF Object
<1> DEFINE rs == <<Moved(e)>>
           d  == [c EXCEPT !.leaf = e]
<1>4. rs \in Seq(Record(n)) /\ Len(rs) = 1 /\ Moved(e) \in Record(n)
    BY <1>1, <1>3 DEF Moved, Record
<1>5. d \in Object(n) /\ d.st = c.st /\ d.created = c.created /\ d.entries = c.entries
      /\ d.leaf = e /\ d.turnLeaf = c.turnLeaf
    BY <1>1, <1>3 DEF Object
<1>6. live' = [live EXCEPT ![s] = d] /\ live'[s] = d
    BY <1>1, <1>2
<1>7. Promised \in View(n)
    BY <1>1, LogGrows
<1>8. /\ First(rs) = [header |-> Promised.header, entries |-> Promised.entries, leaf |-> e, pinned |-> TRUE]
      /\ Final(rs) = First(rs)
  <2>1. Moved(e).kind = "activeLeaf" /\ Moved(e).id = e
      BY DEF Moved
  <2> QED BY <1>1, <1>4, <1>7, <2>1, ReplayIs DEF First, Final
<1>9. Agree(Promised, c) => ComeTo(rs, d, lived')
  <2>1. SUFFICES ASSUME Agree(Promised, c) PROVE ComeTo(rs, d, lived')
      OBVIOUS
  <2>2. Agree(Final(rs), d)
      BY <1>5, <1>8, <2>1 DEF Agree
  <2>3. Shown(First(rs)) = Shown(d)
      BY <1>5, <1>8, <2>1 DEF Agree, Shown
  <2>4. First(rs).entries # {} => First(rs).header
      BY <1>8, <2>1 DEF Agree, StoreInv, EntriesCreated
  <2> QED BY <1>2, <1>6, <1>8, <2>2, <2>3, <2>4 DEF ComeTo, PastIn
<1>10. Shown(d) \in [entries : SUBSET Nat, leaf : Nat]
    BY <1>1, <1>5 DEF Shown, Object
<1>11. lived' \subseteq [entries : SUBSET Nat, leaf : Nat] /\ lived \subseteq lived'
    BY <1>1, <1>2, <1>6, <1>10 DEF TypeOK
<1>12. live[s].st = "open" /\ UNCHANGED <<parent, file, stalled, loaded, intact>>
    BY DEF SetActiveLeaf
<1>13. d.entries # {} => d.created
    BY <1>5 DEF StoreInv, EntriesCreated
<1>14. c.st = live[s].st /\ Submit(rs) /\ n >= Len(parent)
    BY <1>1, <1>2
<1>15. Len(parent') = n /\ parent' \in Seq(Nat) /\ \A i \in 1 .. n : parent'[i] < i
    BY <1>1, <1>12
<1>16. Len(rs) \in {1, 2} /\ live[s].st \in {"open", "closed"} /\ d.st = live[s].st
    BY <1>4, <1>5, <1>12
<1>17. (intact /\ Agree(Promised, live[s])) => ComeTo(rs, d, lived')
    BY <1>9
<1> HIDE DEF n, d, rs
<1> QED BY <1>1, <1>4, <1>5, <1>6, <1>11, <1>12, <1>13, <1>14, <1>15, <1>16, <1>17, WriterInv

LEMMA ReplayEntry ==
    ASSUME NEW n \in Nat, NEW v \in View(n), NEW e \in 1 .. n, NEW under \in 0 .. n, under < e
    PROVE  LET x == Replay(v, Made(e, under))
           IN /\ Made(e, under) \in Record(n)
              /\ x.header = v.header /\ x.entries = v.entries \cup {e}
              /\ x.leaf = IF under = v.leaf \/ ~v.pinned THEN e ELSE v.leaf
              /\ x.pinned = (v.pinned /\ ~(under = v.leaf))
<1> DEFINE m == Made(e, under)
           x == Replay(v, m)
<1>1. m.kind = "entry" /\ m.id = e /\ m.parent = under /\ m \in Record(n)
    BY DEF Made, Record
<1>2. x = [header |-> v.header, entries |-> v.entries \cup {m.id},
           leaf |-> IF m.parent = v.leaf \/ ~v.pinned THEN m.id ELSE v.leaf,
           pinned |-> v.pinned /\ ~(m.parent = v.leaf)]
    BY <1>1, ReplayIs
<1> HIDE DEF m, x
<1>3. /\ x.header = v.header /\ x.entries = v.entries \cup {m.id}
      /\ x.leaf = IF m.parent = v.leaf \/ ~v.pinned THEN m.id ELSE v.leaf
      /\ x.pinned = (v.pinned /\ ~(m.parent = v.leaf))
    BY <1>2
<1> QED BY <1>1, <1>3 DEF m, x

LEMMA ConcatOne ==
    ASSUME NEW S, NEW a \in S, NEW b \in S
    PROVE  /\ <<>> \o <<b>> = <<b>> /\ <<a>> \o <<b>> = <<a, b>>
           /\ <<b>> \in Seq(S) /\ <<a, b>> \in Seq(S)
<1>1. <<a>> \in Seq(S) /\ <<b>> \in Seq(S) /\ <<a, b>> \in Seq(S)
    OBVIOUS
<1>2. <<>> \o <<b>> = <<b>>
    BY <1>1, ConcatEmptySeq
<1>3. <<a>> \o <<b>> = Append(<<a>>, b)
    BY <1>1, AppendIsConcat
<1>4. Append(<<a>>, b) = <<a, b>>
  <2> DEFINE x == Append(<<a>>, b)
             y == <<a, b>>
  <2>1. x \in Seq(S) /\ Len(x) = 2 /\ x[1] = a /\ x[2] = b
      BY <1>1, AppendProperties
  <2>2. y \in Seq(S) /\ Len(y) = 2 /\ y[1] = a /\ y[2] = b
      BY <1>1
  <2> HIDE DEF x, y
  <2>3. Len(x) = Len(y) /\ \A i \in 1 .. Len(x) : x[i] = y[i]
      BY <2>1, <2>2
  <2>4. x = y
      BY <2>1, <2>2, <2>3, SeqEqual
  <2> QED BY <2>4 DEF x, y
<1> QED BY <1>1, <1>2, <1>3, <1>4

(* Of pushEntry(): what the entry is replayed on, w, has what the session has,*)
(* and where load() would follow any append, the entry goes to the pointer.*)
SamePush(s, c, under, pin) ==
    /\ live[s].st \in {"open", "closed"} /\ c \in Object(Len(parent))
    /\ c.st = live[s].st /\ c.created = live[s].created /\ c.entries = live[s].entries
    /\ under \in 0 .. Len(parent) /\ pin \in 0 .. Len(parent) \cup {Unpinned}
    /\ pin = Unpinned => c.turnLeaf = Unpinned

PushOn(s, c, under, w) ==
    (intact /\ Agree(Promised, live[s])) =>
        w.header /\ w.entries = c.entries /\ w.leaf = c.leaf /\ (~w.pinned => under = c.leaf)

LEMMA PushInv ==
    ASSUME StoreInv, NEW s \in Sessions, NEW c, NEW under, NEW pin, SamePush(s, c, under, pin),
           NEW rs, Push(s, c, under, pin, rs),
           NEW r \in Record(Len(parent)), NEW before, before = rs \o Lead(s), before = <<>> \/ before = <<r>>,
           NEW w, before = <<>> => w = Promised, before = <<r>> => w = Replay(Promised, r),
           PushOn(s, c, under, w)
    PROVE  StoreInv'
<1> USE DEF SamePush, PushOn
<1> DEFINE e == Len(parent) + 1
           d == AppendEntry(c, e, under, pin)
           ss == before \o <<Made(e, under)>>
<1>1. /\ e \in Nat /\ e > Len(parent) /\ Len(parent) \in Nat /\ TypeOK /\ parent \in Seq(Nat)
      /\ live \in [Sessions -> Object(Len(parent))] /\ \A i \in 1 .. Len(parent) : parent[i] < i
    BY DEF StoreInv, TypeOK
<1>2. c \in Object(e) /\ r \in Record(e) /\ under \in 0 .. e /\ e \in 1 .. e /\ under < e
    BY <1>1 DEF Object, Record
<1>3. Made(e, under) \in Record(e)
    BY <1>1, <1>2 DEF Made, Record
<1>4. /\ d.st = c.st /\ d.created = TRUE /\ d.entries = c.entries \cup {e}
      /\ d.leaf = IF under = c.leaf THEN e ELSE c.leaf
      /\ d.turnLeaf = IF pin = Unpinned THEN c.turnLeaf ELSE e
      /\ d \in Object(e)
  <2>1. c = [st |-> c.st, created |-> c.created, entries |-> c.entries, leaf |-> c.leaf, turnLeaf |-> c.turnLeaf]
      BY <1>1, <1>2, ObjectType
  <2>2. /\ c.st \in {"none", "open", "closed", "gone"} /\ c.entries \subseteq 1 .. e
        /\ c.leaf \in 0 .. e /\ c.turnLeaf \in 0 .. e \cup {Unpinned}
      BY <1>1, <1>2, ObjectType
  <2>3. d = [st |-> c.st, created |-> TRUE, entries |-> c.entries \cup {e},
             leaf |-> IF under = c.leaf THEN e ELSE c.leaf,
             turnLeaf |-> IF pin = Unpinned THEN c.turnLeaf ELSE e]
      BY <2>1 DEF AppendEntry
  <2>4. /\ c.entries \cup {e} \in SUBSET (1 .. e) /\ (IF under = c.leaf THEN e ELSE c.leaf) \in 0 .. e
        /\ (IF pin = Unpinned THEN c.turnLeaf ELSE e) \in 0 .. e \cup {Unpinned}
      BY <1>1, <1>2, <2>2
  <2> HIDE DEF d, e
  <2> QED BY <2>2, <2>3, <2>4 DEF Object
<1>5. /\ parent' = Append(parent, under) /\ Submit(ss)
      /\ live' = [live EXCEPT ![s] = d] /\ lived' = lived \cup {Shown(c), Shown(d)}
      /\ UNCHANGED <<file, stalled, loaded, intact>>
    BY DEF Push
<1>6. Len(parent') = e /\ parent' \in Seq(Nat) /\ \A i \in 1 .. e : parent'[i] < i
    BY <1>1, <1>2, <1>5
<1>7. /\ ss \in Seq(Record(e)) /\ Len(ss) \in {1, 2}
      /\ before = <<>> => ss = <<Made(e, under)>>
      /\ before = <<r>> => ss = <<r, Made(e, under)>>
  <2>1. CASE before = <<>>
    <3>1. ss = <<Made(e, under)>> /\ <<Made(e, under)>> \in Seq(Record(e)) /\ before # <<r>>
        BY <1>2, <1>3, <2>1, ConcatOne
    <3> HIDE DEF ss
    <3> QED BY <2>1, <3>1
  <2>2. CASE before = <<r>>
    <3>1. ss = <<r, Made(e, under)>> /\ <<r, Made(e, under)>> \in Seq(Record(e)) /\ before # <<>>
        BY <1>2, <1>3, <2>2, ConcatOne
    <3> HIDE DEF ss
    <3> QED BY <2>2, <3>1
  <2> QED BY <2>1, <2>2
<1>8. Final(ss) = Replay(w, Made(e, under)) /\ First(ss) \in {w, Final(ss)}
  <2>1. CASE before = <<>>
    <3>1. w = Promised /\ ss = <<Made(e, under)>> /\ Len(ss) = 1
        BY <1>7, <2>1
    <3> HIDE DEF ss
    <3> QED BY <3>1 DEF First, Final
  <2>2. CASE before = <<r>>
    <3>1. w = Replay(Promised, r) /\ ss = <<r, Made(e, under)>> /\ Len(ss) = 2
        BY <1>7, <2>2
    <3> HIDE DEF ss
    <3> QED BY <3>1 DEF First, Final
  <2> QED BY <2>1, <2>2
<1>9. w \in View(e)
  <2>1. Promised \in View(e)
      BY <1>1, LogGrows
  <2> QED BY <1>1, <1>2, <2>1, ReplayIs
<1>10. (intact /\ Agree(Promised, live[s])) => ComeTo(ss, d, lived')
  <2>1. SUFFICES ASSUME intact, Agree(Promised, live[s]) PROVE ComeTo(ss, d, lived')
      OBVIOUS
  <2>2. /\ w.header = TRUE /\ w.entries = c.entries /\ w.leaf = c.leaf /\ (~w.pinned => under = c.leaf)
        /\ w.pinned \in BOOLEAN
      BY <1>9, <2>1, <1>1, ViewType
  <2>3. /\ Final(ss).header = w.header /\ Final(ss).entries = w.entries \cup {e}
        /\ Final(ss).leaf = IF under = w.leaf \/ ~w.pinned THEN e ELSE w.leaf
        /\ Final(ss).pinned = (w.pinned /\ ~(under = w.leaf))
    <3> HIDE DEF d, e, ss
    <3> QED BY <1>1, <1>2, <1>8, <1>9, ReplayEntry
  <2>4. /\ Final(ss).header = TRUE /\ Final(ss).entries = d.entries /\ Final(ss).leaf = d.leaf
        /\ Final(ss).pinned = (w.pinned /\ ~(under = c.leaf))
    <3>1. (IF under = w.leaf \/ ~w.pinned THEN e ELSE w.leaf) = IF under = c.leaf THEN e ELSE c.leaf
        BY <2>2
    <3> HIDE DEF d, e, ss
    <3> QED BY <1>4, <2>2, <2>3, <3>1
  <2>5. ~Final(ss).pinned => WorksAt(d) = d.leaf
    <3>1. SUFFICES ASSUME ~Final(ss).pinned PROVE WorksAt(d) = d.leaf
        OBVIOUS
    <3>2. under = c.leaf /\ d.leaf = e
        BY <1>4, <2>2, <2>4, <3>1
    <3> QED BY <1>4, <3>2 DEF WorksAt
  <2>6. Agree(Final(ss), d)
      BY <1>4, <2>4, <2>5 DEF Agree
  <2>7. Shown(Final(ss)) = Shown(d) /\ Shown(w) = Shown(c)
      BY <2>2, <2>4 DEF Shown
  <2>8. PastIn(Final(ss), lived') /\ PastIn(w, lived')
      BY <1>5, <2>2, <2>4, <2>7 DEF PastIn
  <2> QED BY <1>8, <2>6, <2>8 DEF ComeTo
<1>11. lived' \subseteq [entries : SUBSET Nat, leaf : Nat] /\ lived \subseteq lived'
  <2>1. Shown(c) \in [entries : SUBSET Nat, leaf : Nat]
      BY <1>1, <1>2 DEF Shown, Object
  <2>2. Shown(d) \in [entries : SUBSET Nat, leaf : Nat]
      BY <1>1, <1>4 DEF Shown, Object
  <2> QED BY <1>1, <1>5, <2>1, <2>2 DEF TypeOK
<1>12. d.st = live[s].st /\ (d.entries # {} => d.created) /\ e >= Len(parent)
    BY <1>1, <1>4
<1> HIDE DEF e, d, ss
<1> QED BY <1>1, <1>4, <1>5, <1>6, <1>7, <1>10, <1>11, <1>12, WriterInv

(* The entry alone, or with the header before it.                          *)
LEMMA PlainPush ==
    ASSUME StoreInv, NEW s \in Sessions, live[s].st \in {"open", "closed"},
           NEW c \in Object(Len(parent)),
           c.st = live[s].st, c.created = live[s].created, c.entries = live[s].entries, c.leaf = live[s].leaf,
           NEW under \in 0 .. Len(parent), NEW pin \in 0 .. Len(parent) \cup {Unpinned},
           pin = Unpinned => c.turnLeaf = Unpinned,
           Push(s, c, under, pin, <<>>),
           under = c.leaf \/ under = WorksAt(live[s])
    PROVE  StoreInv'
<1> DEFINE n == Len(parent)
           before == <<>> \o Lead(s)
           w == IF live[s].created THEN Promised ELSE Replay(Promised, Header)
<1>1. n \in Nat /\ live[s].created \in BOOLEAN
    BY DEF StoreInv, TypeOK, Object
<1>2. Header \in Record(n) /\ Header.kind = "header"
    BY <1>1 DEF Header, Record
<1>3. before = (IF live[s].created THEN <<>> ELSE <<Header>>) /\ <<Header>> # <<>>
  <2>1. <<>> \o <<>> = <<>> /\ <<>> \o <<Header>> = <<Header>>
    <3>1. <<>> \in Seq(Record(n)) /\ <<Header>> \in Seq(Record(n))
        BY <1>2
    <3> QED BY <3>1, ConcatEmptySeq
  <2> QED BY <2>1 DEF Lead
<1>4. /\ before = <<>> \/ before = <<Header>>
      /\ before = <<>> => w = Promised
      /\ before = <<Header>> => w = Replay(Promised, Header)
  <2> HIDE DEF before
  <2> QED BY <1>1, <1>3
<1>5. Promised \in View(n)
    BY <1>1, LogGrows DEF StoreInv
<1>6. Replay(Promised, Header) = [header |-> TRUE, entries |-> Promised.entries, leaf |-> Promised.leaf, pinned |-> Promised.pinned]
    BY <1>1, <1>2, <1>5, ReplayIs
<1>7. Agree(Promised, live[s]) =>
          w.header /\ w.entries = c.entries /\ w.leaf = c.leaf /\ (~w.pinned => under = c.leaf)
  <2>1. CASE live[s].created
      BY <2>1 DEF Agree
  <2>2. CASE ~live[s].created
      BY <1>6, <2>2 DEF Agree
  <2> QED BY <2>1, <2>2
<1>8. before = <<>> \o Lead(s)
    OBVIOUS
<1>9. Header \in Record(Len(parent))
    BY <1>2
<1> HIDE DEF before, w, n
<1>10. SamePush(s, c, under, pin) /\ PushOn(s, c, under, w)
    BY <1>7 DEF SamePush, PushOn
<1> QED BY <1>4, <1>8, <1>9, <1>10, PushInv

LEMMA SendInv ==
    ASSUME StoreInv, NEW s \in Sessions, Send(s)
    PROVE  StoreInv'
<1> DEFINE c == [live[s] EXCEPT !.turnLeaf = live[s].leaf]
<1>1. Len(parent) \in Nat /\ live[s] \in Object(Len(parent))
    BY DEF StoreInv, TypeOK
<1>2. /\ c \in Object(Len(parent)) /\ c.st = live[s].st /\ c.created = live[s].created
      /\ c.entries = live[s].entries /\ c.leaf = live[s].leaf /\ c.leaf \in 0 .. Len(parent)
    BY <1>1 DEF Object
<1>3. live[s].st = "open" /\ Push(s, c, c.leaf, c.leaf, <<>>) /\ c.leaf # Unpinned
    BY <1>1, <1>2 DEF Send
<1> HIDE DEF c
<1> QED BY <1>2, <1>3, PlainPush

LEMMA TurnAppendsInv ==
    ASSUME StoreInv, NEW s \in Sessions, TurnAppends(s)
    PROVE  StoreInv'
<1>1. Len(parent) \in Nat /\ live[s] \in Object(Len(parent))
    BY DEF StoreInv, TypeOK
<1>2. live[s].turnLeaf # Unpinned /\ Push(s, live[s], live[s].turnLeaf, live[s].turnLeaf, <<>>)
    BY DEF TurnAppends
<1>3. live[s].turnLeaf \in 0 .. Len(parent) /\ live[s].turnLeaf = WorksAt(live[s])
    BY <1>1, <1>2 DEF Object, WorksAt
<1>4. live[s].st \in {"open", "closed"}
    BY <1>1 DEF TurnAppends, Object
<1> QED BY <1>1, <1>2, <1>3, <1>4, PlainPush

LEMMA AppendAsideInv ==
    ASSUME StoreInv, NEW s \in Sessions, AppendAside(s)
    PROVE  StoreInv'
<1>1. Len(parent) \in Nat /\ live[s] \in Object(Len(parent))
    BY DEF StoreInv, TypeOK
<1>2. /\ live[s].st \in {"open", "closed"}
      /\ Push(s, live[s], WorkingLeaf(s), live[s].turnLeaf, <<>>)
      /\ WorkingLeaf(s) = WorksAt(live[s])
    BY DEF AppendAside, WorkingLeaf, WorksAt
<1>3. WorkingLeaf(s) \in 0 .. Len(parent) /\ live[s].turnLeaf \in 0 .. Len(parent) \cup {Unpinned}
    BY <1>1 DEF Object, WorkingLeaf
<1> QED BY <1>1, <1>2, <1>3, PlainPush

LEMMA EditForkInv ==
    ASSUME StoreInv, NEW s \in Sessions, EditFork(s)
    PROVE  StoreInv'
<1> DEFINE n == Len(parent)
<1>1. n \in Nat /\ live[s] \in Object(n) /\ parent \in Seq(Nat) /\ \A i \in 1 .. n : parent[i] < i
    BY DEF StoreInv, TypeOK
<1>2. PICK e \in live[s].entries :
         LET c == [live[s] EXCEPT !.leaf = parent[e], !.turnLeaf = parent[e]]
         IN Push(s, c, c.leaf, c.leaf, <<Moved(parent[e])>>)
    BY DEF EditFork
<1> DEFINE p == parent[e]
           c == [live[s] EXCEPT !.leaf = p, !.turnLeaf = p]
           w == Replay(Promised, Moved(p))
<1>3. e \in 1 .. n /\ p \in 0 .. n
    BY <1>1, <1>2 DEF Object
<1>4. /\ c \in Object(n) /\ c.st = live[s].st /\ c.created = live[s].created
      /\ c.entries = live[s].entries /\ c.leaf = p
    BY <1>1, <1>3 DEF Object
<1>5. Push(s, c, p, p, <<Moved(p)>>) /\ live[s].st = "open" /\ p # Unpinned
  <2>1. Push(s, c, c.leaf, c.leaf, <<Moved(p)>>)
      BY <1>2
  <2> HIDE DEF c
  <2> QED BY <1>1, <1>3, <1>4, <2>1 DEF EditFork
<1>6. Moved(p) \in Record(n) /\ Moved(p).kind = "activeLeaf" /\ Moved(p).id = p
    BY <1>1, <1>3 DEF Moved, Record
<1>7. <<Moved(p)>> = <<Moved(p)>> \o Lead(s) /\ <<Moved(p)>> # <<>>
  <2>1. live[s].created
      BY <1>2 DEF StoreInv, EntriesCreated
  <2>2. <<Moved(p)>> \in Seq(Record(n))
      BY <1>6
  <2> QED BY <2>1, <2>2, ConcatEmptySeq DEF Lead
<1>8. w = Replay(Promised, Moved(p))
    OBVIOUS
<1>9. Promised \in View(n)
    BY <1>1, LogGrows DEF StoreInv
<1>10. w = [header |-> Promised.header, entries |-> Promised.entries, leaf |-> p, pinned |-> TRUE]
  <2>1. Replay(Promised, Moved(p)) = [header |-> Promised.header, entries |-> Promised.entries,
                                      leaf |-> Moved(p).id, pinned |-> TRUE]
    <3> HIDE DEF p
    <3> QED BY <1>1, <1>6, <1>9, ReplayIs
  <2> QED BY <1>6, <2>1
<1>11. live[s].created
    BY <1>2 DEF StoreInv, EntriesCreated
<1>12. Agree(Promised, live[s]) => w.header /\ w.entries = c.entries /\ w.leaf = c.leaf /\ (~w.pinned => p = c.leaf)
    BY <1>4, <1>10, <1>11 DEF Agree
<1> DEFINE before == <<Moved(p)>>
<1>13. before = <<Moved(p)>> \o Lead(s) /\ (before = <<>> \/ before = <<Moved(p)>>) /\ before # <<>>
    BY <1>7
<1>14. SamePush(s, c, p, p) /\ PushOn(s, c, p, w)
  <2> HIDE DEF c, p, w
  <2> QED BY <1>3, <1>4, <1>5, <1>12 DEF SamePush, PushOn
<1> HIDE DEF c, p, w, before
<1>15. Push(s, c, p, p, <<Moved(p)>>) /\ Moved(p) \in Record(Len(parent))
    BY <1>5, <1>6
<1> QED BY <1>8, <1>13, <1>14, <1>15, PushInv

-----------------------------------------------------------------------------
(* The log moves.                                                          *)

LEMMA QueueShape ==
    ASSUME TypeOK, queue # <<>>
    PROVE  LET n == Len(parent)
           IN /\ n \in Nat /\ Len(queue) \in Nat /\ Len(views) = Len(queue) /\ 1 \in 1 .. Len(queue)
              /\ queue[1] \in Record(n) /\ views[1] \in View(n) /\ Head(queue) = queue[1]
              /\ loaded \in View(n) /\ Replay(loaded, Head(queue)) \in View(n)
              /\ Tail(queue) \in Seq(Record(n)) /\ Tail(views) \in Seq(View(n))
              /\ Len(Tail(queue)) = Len(queue) - 1 /\ Len(Tail(views)) = Len(views) - 1
              /\ \A i \in 1 .. Len(queue) - 1 : Tail(queue)[i] = queue[i + 1] /\ Tail(views)[i] = views[i + 1]
              /\ Promised = views[Len(views)] /\ Append(file, Head(queue)) \in Seq(Record(n))
<1> DEFINE n == Len(parent)
<1>1. n \in Nat /\ queue \in Seq(Record(n)) /\ views \in Seq(View(n)) /\ Len(views) = Len(queue)
      /\ loaded \in View(n) /\ file \in Seq(Record(n))
    BY DEF TypeOK
<1> HIDE DEF n
<1>2. Len(queue) \in Nat /\ Len(queue) > 0 /\ 1 \in 1 .. Len(queue) /\ views # <<>>
    BY <1>1
<1>3. queue[1] \in Record(n) /\ views[1] \in View(n) /\ Head(queue) = queue[1]
    BY <1>1, <1>2
<1>4. Replay(loaded, Head(queue)) \in View(n) /\ Append(file, Head(queue)) \in Seq(Record(n))
    BY <1>1, <1>3, ReplayIs
<1>5. /\ Tail(queue) \in Seq(Record(n)) /\ Tail(views) \in Seq(View(n))
      /\ Len(Tail(queue)) = Len(queue) - 1 /\ Len(Tail(views)) = Len(views) - 1
      /\ \A i \in 1 .. Len(queue) - 1 : Tail(queue)[i] = queue[i + 1] /\ Tail(views)[i] = views[i + 1]
    BY <1>1, <1>2
<1>6. Promised = views[Len(views)]
    BY <1>2 DEF Promised
<1> QED BY <1>1, <1>2, <1>3, <1>4, <1>5, <1>6 DEF n

LEMMA WriteInv ==
    ASSUME StoreInv, Write
    PROVE  StoreInv'
<1> DEFINE n == Len(parent)
           q == queue'
           x == views'
<1>1. /\ queue # <<>> /\ q = Tail(queue) /\ x = Tail(views) /\ file' = Append(file, Head(queue))
      /\ loaded' = Replay(loaded, Head(queue))
      /\ UNCHANGED <<parent, stalled, live, lived, intact>>
    BY DEF Write, Land
<1>2. TypeOK
    BY DEF StoreInv
<1>3. /\ n \in Nat /\ Len(queue) \in Nat /\ Len(views) = Len(queue) /\ 1 \in 1 .. Len(queue)
      /\ Head(queue) = queue[1] /\ loaded' \in View(n) /\ file' \in Seq(Record(n))
      /\ q \in Seq(Record(n)) /\ x \in Seq(View(n)) /\ Len(q) = Len(queue) - 1 /\ Len(x) = Len(queue) - 1
      /\ \A i \in 1 .. Len(queue) - 1 : q[i] = queue[i + 1] /\ x[i] = views[i + 1]
      /\ Promised = views[Len(views)]
    BY <1>1, <1>2, QueueShape
<1>4. TypeOK'
    BY <1>1, <1>2, <1>3 DEF TypeOK
<1>5. EntriesCreated' /\ OneOpen'
    BY <1>1 DEF StoreInv, EntriesCreated, OneOpen
<1>6. ASSUME intact PROVE Faithful'
  <2>1. Faithful
      BY <1>6 DEF StoreInv
  <2>2. loaded' = views[1]
      BY <1>1, <1>3, <2>1 DEF Faithful, ViewsReplay, ViewBefore
  <2>3. \A i \in 1 .. Len(q) : i + 1 \in 1 .. Len(queue) /\ i + 1 # 1 /\ (i + 1) - 1 = i
      BY <1>3
  <2>4. ViewsReplay'
    <3>1. SUFFICES ASSUME NEW i \in 1 .. Len(q)
                   PROVE  x[i] = Replay(IF i = 1 THEN loaded' ELSE x[i - 1], q[i])
        BY DEF ViewsReplay, ViewBefore
    <3>2. x[i] = views[i + 1] /\ q[i] = queue[i + 1]
        BY <1>3
    <3>3. views[i + 1] = Replay(views[i], queue[i + 1])
        BY <2>1, <2>3 DEF Faithful, ViewsReplay, ViewBefore
    <3>4. (IF i = 1 THEN loaded' ELSE x[i - 1]) = views[i]
      <4>1. CASE i = 1
          BY <2>2, <4>1
      <4>2. CASE i # 1
        <5>1. i - 1 \in 1 .. Len(queue) - 1 /\ (i - 1) + 1 = i
            BY <1>3, <4>2
        <5> QED BY <1>3, <4>2, <5>1
      <4> QED BY <4>1, <4>2
    <3> QED BY <3>2, <3>3, <3>4
  <2>5. AllPast'
    <3>1. Past(views[1]) /\ \A i \in 1 .. Len(x) : Past(x[i])
        BY <1>3, <2>1, <2>3 DEF Faithful, AllPast
    <3> QED BY <1>1, <2>2, <3>1 DEF AllPast, Past
  <2>6. Promised' = Promised
    <3>1. CASE Len(queue) = 1
      <4>1. x = <<>>
          BY <1>3, <3>1
      <4> QED BY <1>3, <2>2, <3>1, <4>1 DEF Promised
    <3>2. CASE Len(queue) # 1
      <4>1. x # <<>> /\ Len(x) \in 1 .. Len(queue) - 1 /\ Len(x) + 1 = Len(views)
          BY <1>3, <3>2
      <4> QED BY <1>3, <4>1 DEF Promised
    <3> QED BY <3>1, <3>2
  <2> QED BY <1>1, <2>1, <2>4, <2>5, <2>6 DEF Faithful, Writers
<1> QED BY <1>1, <1>4, <1>5, <1>6 DEF StoreInv

LEMMA SyncFailsInv ==
    ASSUME StoreInv, SyncFails
    PROVE  StoreInv'
<1> DEFINE n == Len(parent)
<1>1. /\ queue # <<>> /\ stalled' = TRUE /\ file' = Append(file, Head(queue))
      /\ loaded' = Replay(loaded, Head(queue))
      /\ UNCHANGED <<parent, queue, live, views, lived, intact>>
    BY DEF SyncFails, Land
<1>2. TypeOK
    BY DEF StoreInv
<1>3. /\ n \in Nat /\ 1 \in 1 .. Len(queue) /\ Len(views) = Len(queue)
      /\ Head(queue) = queue[1] /\ queue[1] \in Record(n)
      /\ loaded \in View(n) /\ loaded' \in View(n) /\ file' \in Seq(Record(n))
      /\ Promised = views[Len(views)]
    BY <1>1, <1>2, QueueShape
<1>4. TypeOK'
    BY <1>1, <1>2, <1>3 DEF TypeOK
<1>5. EntriesCreated' /\ OneOpen'
    BY <1>1 DEF StoreInv, EntriesCreated, OneOpen
<1>6. ASSUME intact PROVE Faithful'
  <2>1. Faithful
      BY <1>6 DEF StoreInv
  <2>2. views[1] = Replay(loaded, queue[1]) /\ loaded' = views[1]
      BY <1>1, <1>3, <2>1 DEF Faithful, ViewsReplay, ViewBefore
  <2>3. views[1] = Replay(loaded', queue[1])
      BY <1>3, <2>2, ReplayTwice
  <2>4. ViewsReplay'
      BY <1>1, <2>1, <2>3 DEF Faithful, ViewsReplay, ViewBefore
  <2>5. AllPast'
      BY <1>1, <1>3, <2>1, <2>2 DEF Faithful, AllPast, Past
  <2>6. Promised' = Promised
      BY <1>1, <1>2, <1>3 DEF Promised, TypeOK
  <2> QED BY <1>1, <2>1, <2>4, <2>5, <2>6 DEF Faithful, Writers
<1> QED BY <1>1, <1>4, <1>5, <1>6 DEF StoreInv

LEMMA StallInv ==
    ASSUME StoreInv, WriteFails \/ RetryWrites
    PROVE  StoreInv'
<1>1. stalled' \in BOOLEAN /\ UNCHANGED <<parent, file, queue, loaded, live, views, lived, intact>>
    BY DEF WriteFails, RetryWrites
<1>2. TypeOK' /\ EntriesCreated' /\ OneOpen'
    BY <1>1 DEF StoreInv, TypeOK, EntriesCreated, OneOpen
<1>3. Faithful => Faithful'
    BY <1>1 DEF Faithful, ViewsReplay, ViewBefore, AllPast, Past, Writers, Promised
<1> QED BY <1>1, <1>2, <1>3 DEF StoreInv

LEMMA DiscardInv ==
    ASSUME StoreInv, DiscardPending
    PROVE  StoreInv'
<1>1. /\ stalled' = FALSE /\ queue' = <<>> /\ views' = <<>> /\ intact' = FALSE
      /\ UNCHANGED <<parent, file, loaded, live, lived>>
    BY DEF DiscardPending
<1>2. EntriesCreated' /\ OneOpen'
    BY <1>1 DEF StoreInv, EntriesCreated, OneOpen
<1>3. TypeOK'
  <2>1. queue' \in Seq(Record(Len(parent))) /\ views' \in Seq(View(Len(parent))) /\ Len(views') = Len(queue')
      BY <1>1
  <2> QED BY <1>1, <2>1 DEF StoreInv, TypeOK
<1> QED BY <1>1, <1>2, <1>3 DEF StoreInv

LEMMA CrashInv ==
    ASSUME StoreInv, Crash
    PROVE  StoreInv'
<1> DEFINE n == Len(parent)
<1>1. /\ queue' = <<>> /\ views' = <<>> /\ stalled' = FALSE
      /\ live' = [s \in Sessions |-> IF live[s].st = "none" THEN live[s] ELSE Blank("gone")]
      /\ UNCHANGED <<parent, file, loaded, lived, intact>>
    BY DEF Crash
<1>2. TypeOK /\ n \in Nat /\ live \in [Sessions -> Object(n)]
    BY DEF StoreInv, TypeOK
<1>3. Blank("gone") \in Object(n) /\ Blank("gone").st = "gone" /\ Blank("gone").entries = {}
    BY <1>2 DEF Object, Blank
<1>4. live' \in [Sessions -> Object(n)]
    BY <1>1, <1>2, <1>3
<1>5. \A s \in Sessions : live'[s].st \in {"none", "gone"} /\ (live'[s].entries # {} => live'[s].created)
    BY <1>1, <1>3 DEF StoreInv, EntriesCreated
<1>6. TypeOK'
  <2>1. queue' \in Seq(Record(n)) /\ views' \in Seq(View(n)) /\ Len(views') = Len(queue')
      BY <1>1
  <2> QED BY <1>1, <1>2, <1>4, <2>1 DEF TypeOK
<1>7. EntriesCreated' /\ OneOpen'
    BY <1>5 DEF EntriesCreated, OneOpen
<1>8. ASSUME intact PROVE Faithful'
  <2>1. Writers' = {}
      BY <1>5 DEF Writers
  <2>2. Past(loaded)
      BY <1>8 DEF StoreInv, Faithful, AllPast
  <2> QED BY <1>1, <2>1, <2>2 DEF Faithful, ViewsReplay, AllPast, Past
<1> QED BY <1>1, <1>6, <1>7, <1>8 DEF StoreInv

LEMMA ReviveInv ==
    ASSUME StoreInv, NEW s \in Sessions, Revive(s)
    PROVE  StoreInv'
<1> DEFINE n == Len(parent)
           d == [st |-> "open", created |-> TRUE, entries |-> loaded.entries, leaf |-> loaded.leaf, turnLeaf |-> Unpinned]
<1>1. /\ \A t \in Sessions : live[t].st # "open"
      /\ loaded.header /\ live' = [live EXCEPT ![s] = d] /\ lived' = lived \cup {Shown(live'[s])}
      /\ intact' = (intact /\ queue = <<>> /\ \A t \in Sessions : live[t].st # "closed")
      /\ UNCHANGED <<parent, file, queue, stalled, loaded, views>>
    BY DEF Revive
<1>2. TypeOK /\ n \in Nat /\ live \in [Sessions -> Object(n)] /\ loaded \in View(n)
    BY DEF StoreInv, TypeOK
<1>3. d \in Object(n) /\ loaded.header = TRUE
    BY <1>1, <1>2 DEF Object, View
<1>4. /\ live' \in [Sessions -> Object(n)] /\ live'[s] = d
      /\ \A t \in Sessions : t # s => live'[t] = live[t]
    BY <1>1, <1>2, <1>3, OneObject
<1>5. Shown(d) \in [entries : SUBSET Nat, leaf : Nat]
    BY <1>2 DEF Shown, View
<1>6. TypeOK'
  <2>1. lived' \subseteq [entries : SUBSET Nat, leaf : Nat]
      BY <1>1, <1>2, <1>4, <1>5 DEF TypeOK
  <2>2. intact' \in BOOLEAN
      BY <1>1
  <2> QED BY <1>1, <1>2, <1>4, <2>1, <2>2 DEF TypeOK
<1>7. EntriesCreated'
    BY <1>4 DEF StoreInv, EntriesCreated
<1>8. OneOpen'
    BY <1>1, <1>4 DEF OneOpen
<1>9. ASSUME intact' PROVE Faithful'
  <2>1. Faithful /\ queue = <<>> /\ \A t \in Sessions : live[t].st # "closed"
      BY <1>1, <1>9 DEF StoreInv
  <2>2. views = <<>>
      BY <1>2, <2>1 DEF TypeOK
  <2>3. ViewsReplay' /\ AllPast'
      BY <1>1, <2>1, <2>2 DEF Faithful, ViewsReplay, AllPast, Past, PastIn
  <2>4. \A t \in Writers' : t = s
      BY <1>1, <1>4, <2>1 DEF Writers
  <2>5. Promised' = loaded
      BY <1>1, <2>2 DEF Promised
  <2>6. Agree(loaded, d)
      BY <1>3 DEF Agree, WorksAt
  <2> QED BY <1>4, <2>3, <2>4, <2>5, <2>6 DEF Faithful
<1> QED BY <1>6, <1>7, <1>8, <1>9 DEF StoreInv

-----------------------------------------------------------------------------
(* The invariant, and what it gives.                                       *)

LEMMA StoreInit == Init => StoreInv
<1>1. SUFFICES ASSUME Init PROVE StoreInv
    OBVIOUS
<1>2. /\ parent = <<>> /\ file = <<>> /\ queue = <<>> /\ stalled = FALSE /\ views = <<>>
      /\ loaded = Nothing /\ lived = {Shown(Blank("open"))} /\ intact = TRUE
    BY <1>1 DEF Init
<1>3. PICK s \in Sessions : live = [t \in Sessions |-> IF t = s THEN Blank("open") ELSE Blank("none")]
    BY <1>1 DEF Init
<1>4. Blank("open") \in Object(0) /\ Blank("none") \in Object(0)
    BY DEF Object, Blank
<1>5. live \in [Sessions -> Object(0)]
    BY <1>3, <1>4
<1>6. Nothing \in View(0) /\ Shown(Blank("open")) \in [entries : SUBSET Nat, leaf : Nat]
    BY DEF Nothing, View, Shown, Blank
<1>7. TypeOK
  <2>1. Len(parent) = 0 /\ parent \in Seq(Nat) /\ Len(views) = Len(queue)
      BY <1>2
  <2>2. file \in Seq(Record(0)) /\ queue \in Seq(Record(0)) /\ views \in Seq(View(0))
      BY <1>2
  <2>3. \A e \in 1 .. Len(parent) : parent[e] < e
      BY <2>1
  <2> QED BY <1>2, <1>5, <1>6, <2>1, <2>2, <2>3 DEF TypeOK
<1>8. EntriesCreated
    BY <1>3 DEF EntriesCreated, Blank
<1>9. OneOpen /\ \A t \in Writers : t = s
    BY <1>3 DEF OneOpen, Writers, Blank
<1>10. Past(loaded) /\ Promised = loaded
    BY <1>2 DEF Past, PastIn, Shown, Nothing, Blank, Promised
<1>11. Agree(loaded, live[s])
    BY <1>2, <1>3 DEF Agree, WorksAt, Nothing, Blank
<1>12. Faithful
    BY <1>2, <1>9, <1>10, <1>11 DEF Faithful, ViewsReplay, AllPast
<1> QED BY <1>7, <1>8, <1>9, <1>12 DEF StoreInv

LEMMA StoreStep == StoreInv /\ [Next]_vars => StoreInv'
<1>1. SUFFICES ASSUME StoreInv, [Next]_vars PROVE StoreInv'
    OBVIOUS
<1>2. CASE UNCHANGED vars
    BY <1>1, <1>2 DEF vars, StoreInv, TypeOK, EntriesCreated, OneOpen, Faithful, ViewsReplay, ViewBefore,
                      AllPast, Past, Writers, Promised
<1>3. ASSUME NEW s \in Sessions, SessionStep(s) PROVE StoreInv'
    BY <1>1, <1>3, SendInv, EditForkInv, TurnAppendsInv, AppendAsideInv, TurnEndsInv, RepinInv,
       SetActiveLeafInv, CloseInv, UnwindsInv, ReviveInv DEF SessionStep
<1>4. ASSUME Write \/ WriteFails \/ SyncFails \/ RetryWrites \/ DiscardPending \/ Crash PROVE StoreInv'
    BY <1>1, <1>4, WriteInv, StallInv, SyncFailsInv, DiscardInv, CrashInv
<1> QED BY <1>1, <1>2, <1>3, <1>4 DEF Next

(* The inductive invariant: what the session shows and what load() would  *)
(* make of the log are kept equal by two copies of the same rule.          *)
THEOREM StoreInvariant == Spec => []StoreInv
<1> QED BY StoreInit, StoreStep, PTL DEF Spec

(* Entries hang from earlier ones, and every record of the log and every   *)
(* session object speaks only of entries that were made.                   *)
THEOREM StoreTypeCorrect == Spec => []TypeOK
<1>1. StoreInv => TypeOK
    BY DEF StoreInv
<1> QED BY <1>1, StoreInvariant, PTL

(* Whatever the interleaving of turns, forks, rewinds, compactions, failed *)
(* writes and syncs, retries and restarts, load() of the log written out is*)
(* the conversation on screen.                                             *)
THEOREM LogIsTheConversation == Spec => []LogMatchesLive
<1>1. StoreInv => LogMatchesLive
  <2>1. SUFFICES ASSUME StoreInv, intact, NEW s \in Sessions, live[s].st = "open", live[s].created
                 PROVE  Promised.header /\ Shown(Promised) = Shown(live[s])
      BY DEF LogMatchesLive
  <2>2. Agree(Promised, live[s])
      BY <2>1 DEF StoreInv, Faithful, Writers
  <2> QED BY <2>1, <2>2 DEF Agree, Shown
<1> QED BY <1>1, StoreInvariant, PTL

(* A crash at any record boundary, also between the two records of a fork, *)
(* leaves a file that load() makes into a conversation some session showed.*)
THEOREM RestartIsAPast == Spec => []RestartShowsAPast
<1>1. StoreInv => RestartShowsAPast
    BY DEF StoreInv, Faithful, AllPast, Past, PastIn, RestartShowsAPast
<1> QED BY <1>1, StoreInvariant, PTL
=============================================================================
