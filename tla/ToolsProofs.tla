----------------------------- MODULE ToolsProofs ----------------------------
(* Proofs about the tools, for every value of their constants: those that   *)
(* read the workspace's files (Reading), those that write them (Edits), and *)
(* the gate that every call of a tool goes through (Gate). One section each;*)
(* none uses the facts of another.                                          *)
EXTENDS Reading, Edits, Gate, SequenceTheorems, FiniteSetTheorems, TLAPS

-----------------------------------------------------------------------------
(* Sequences, for the two sections that follow                             *)

IsSeq(s) == s \in Seq({s[n] : n \in DOMAIN s})

LEMMA SeqIs == ASSUME NEW s, IsSeq(s) PROVE Len(s) \in Nat /\ DOMAIN s = 1..Len(s) /\ s = [n \in 1..Len(s) |-> s[n]]
  BY DEF IsSeq

LEMMA SeqIntro == ASSUME NEW s, NEW k \in Nat, s = [n \in 1..k |-> s[n]] PROVE IsSeq(s) /\ Len(s) = k /\ DOMAIN s = 1..k
  <1> DEFINE R == {s[n] : n \in DOMAIN s}
  <1>1. DOMAIN s = 1..k
    OBVIOUS
  <1>2. s \in [1..k -> R]
    BY <1>1
  <1> HIDE DEF R
  <1>3. s \in Seq(R) /\ Len(s) = k
    BY <1>2
  <1> QED
    BY <1>1, <1>3 DEF IsSeq, R

LEMMA SeqIn == ASSUME NEW S, NEW s \in Seq(S) PROVE IsSeq(s)
  <1>1. Len(s) \in Nat /\ s \in [1..Len(s) -> S]
    BY LenProperties
  <1>2. s = [n \in 1..Len(s) |-> s[n]]
    BY <1>1
  <1> QED
    BY <1>1, <1>2, SeqIntro

-----------------------------------------------------------------------------
(* read_file                                                               *)

FA == INSTANCE Folding WITH Step <- AddLine
FM == INSTANCE Folding WITH Step <- Match
FV == INSTANCE Folding WITH Step <- VisitAll
FS == INSTANCE Folding WITH Step <- VisitSources
FW == INSTANCE Folding WITH Step <- AddFound

LEMMA CharsIs == ASSUME NEW lines PROVE Chars(lines) = FA!FoldOf(0, lines)
  BY DEF FA!FoldOf, Chars, FoldLeft, MapThenFoldSet, FA!FoldLeft, FA!MapThenFoldSet, Max, FA!Max

Head_(lines, n) == SubSeq(lines, 1, n)

LEMMA HeadIs ==
    ASSUME NEW lines \in Seq(Nat), NEW n \in 0..Len(lines)
    PROVE  /\ Len(lines) \in Nat /\ n \in Nat
           /\ Head_(lines, n) \in Seq(Nat) /\ DOMAIN Head_(lines, n) = 1..n
           /\ \A i \in 1..n : Head_(lines, n)[i] = lines[i] /\ lines[i] \in Nat
  <1>1. Len(lines) \in Nat /\ lines \in [1..Len(lines) -> Nat]
    BY LenProperties
  <1>2. Head_(lines, n) = [i \in 1..n |-> lines[i]]
    BY <1>1 DEF Head_
  <1> QED
    BY <1>1, <1>2

LEMMA CharsMore ==
    ASSUME NEW lines \in Seq(Nat)
    PROVE  /\ Chars(Head_(lines, 0)) = 0 /\ Chars(Head_(lines, Len(lines))) = Chars(lines)
           /\ \A n \in 0..(Len(lines) - 1) :
                 Chars(Head_(lines, n + 1)) = Chars(Head_(lines, n)) + lines[n + 1] + 1
  <1>0. Len(lines) \in Nat /\ lines \in [1..Len(lines) -> Nat]
    BY LenProperties
  <1>1. Chars(Head_(lines, 0)) = 0
    <2>1. Head_(lines, 0) = <<>>
      BY <1>0 DEF Head_
    <2> QED
      BY <2>1, CharsIs, FA!FoldNone
  <1>2. Head_(lines, Len(lines)) = lines
    BY SubSeqFull DEF Head_
  <1>3. ASSUME NEW n \in 0..(Len(lines) - 1)
        PROVE  Chars(Head_(lines, n + 1)) = Chars(Head_(lines, n)) + lines[n + 1] + 1
    <2>1. n \in 0..Len(lines) /\ n + 1 \in 0..Len(lines) /\ n \in Nat
      BY <1>0
    <2>2. DOMAIN Head_(lines, n) = 1..n /\ \A i \in 1..n : Head_(lines, n)[i] = lines[i]
      BY <2>1, HeadIs
    <2>3. DOMAIN Head_(lines, n + 1) = 1..(n + 1) /\ \A i \in 1..(n + 1) : Head_(lines, n + 1)[i] = lines[i]
      BY <2>1, HeadIs
    <2>4. \A i \in 1..n : Head_(lines, n + 1)[i] = Head_(lines, n)[i]
      BY <2>1, <2>2, <2>3
    <2>5. FA!FoldOf(0, Head_(lines, n + 1)) = AddLine(FA!FoldOf(0, Head_(lines, n)), Head_(lines, n + 1)[n + 1])
      BY <2>1, <2>2, <2>3, <2>4, FA!FoldMore
    <2>6. Head_(lines, n + 1)[n + 1] = lines[n + 1]
      BY <2>1, <2>3
    <2> QED
      BY <2>5, <2>6, CharsIs DEF AddLine
  <1> QED
    BY <1>1, <1>2, <1>3

LEMMA CharsUp ==
    ASSUME NEW lines \in Seq(Nat)
    PROVE  /\ \A n \in 0..Len(lines) : Chars(Head_(lines, n)) \in Nat
           /\ \A n \in 0..Len(lines) : Chars(Head_(lines, n)) <= Chars(lines)
  <1> DEFINE P(n) == Chars(Head_(lines, n))
             k == Len(lines)
             T == {n \in Nat : P(n) \in Nat}
             U == {d \in Nat : d <= k => P(k - d) <= P(k)}
  <1>0. k \in Nat /\ lines \in [1..k -> Nat]
    BY LenProperties
  <1>1. P(0) = 0 /\ P(k) = Chars(lines) /\ \A n \in 0..(k - 1) : P(n + 1) = P(n) + lines[n + 1] + 1
    BY CharsMore
  <1> HIDE DEF P, k
  <1>2. \A n \in 0..(k - 1) : n + 1 \in 1..k /\ lines[n + 1] \in Nat
    BY <1>0
  <1>3. \A n \in 0..k : n \in T
    <2>1. 0 \in T
      BY <1>1
    <2>2. \A n \in Nat : n < k /\ n \in T => n + 1 \in T
      BY <1>0, <1>1, <1>2
    <2> HIDE DEF T
    <2> QED
      BY <1>0, <2>1, <2>2, FA!UpTo
  <1>4. \A n \in 0..k : P(n) \in Nat
    BY <1>3
  <1>5. \A d \in 0..k : d \in U
    <2>1. 0 \in U
      BY <1>0, <1>4
    <2>2. ASSUME NEW d \in Nat, d < k, d \in U PROVE d + 1 \in U
      <3>1. k - (d + 1) \in 0..(k - 1) /\ (k - (d + 1)) + 1 = k - d /\ k - d \in 0..k /\ k - (d + 1) \in 0..k
        BY <1>0, <2>2
      <3>2. P(k - d) = P(k - (d + 1)) + lines[(k - (d + 1)) + 1] + 1 /\ lines[(k - (d + 1)) + 1] \in Nat
        BY <1>1, <1>2, <3>1
      <3>3. P(k - d) <= P(k) /\ P(k) \in Nat /\ P(k - d) \in Nat /\ P(k - (d + 1)) \in Nat
        BY <1>0, <1>4, <2>2, <3>1
      <3> QED
        BY <2>2, <3>2, <3>3
    <2> HIDE DEF U
    <2> QED
      BY <1>0, <2>1, <2>2, FA!UpTo
  <1>6. \A n \in 0..k : k - n \in 0..k /\ k - (k - n) = n /\ k - n <= k
    BY <1>0
  <1>7. \A n \in 0..k : P(n) <= P(k)
    BY <1>5, <1>6
  <1> QED
    BY <1>1, <1>4, <1>7 DEF P, k

(* What fits of a window; nothing does only where its first line is as     *)
(* long as the cap, and there is more than that line.                      *)
LEMMA KeptIs ==
    ASSUME NEW w \in Seq(Nat), Len(w) # 0
    PROVE  /\ Kept(w) \in 0..Len(w)
           /\ Kept(w) = 0 => w[1] >= MaxReadChars /\ Chars(w) - 1 > MaxReadChars
  <1> DEFINE P(n) == Chars(Head_(w, n))
             Fit(n) == P(n) <= MaxReadChars /\ (n < Len(w) => P(n + 1) > MaxReadChars)
             T == {n \in 1..Len(w) : P(n) > MaxReadChars}
  <1>0. Len(w) \in Nat /\ w \in [1..Len(w) -> Nat] /\ MaxReadChars \in Nat
    BY LenProperties, CapAssumption
  <1>1. P(0) = 0 /\ P(Len(w)) = Chars(w) /\ \A n \in 0..(Len(w) - 1) : P(n + 1) = P(n) + w[n + 1] + 1
    BY CharsMore
  <1>2. \A n \in 0..Len(w) : P(n) \in Nat
    BY CharsUp
  <1>3. Kept(w) = IF Chars(w) - 1 <= MaxReadChars THEN Len(w) ELSE CHOOSE n \in 0..Len(w) : Fit(n)
    BY DEF Kept, Head_
  <1> HIDE DEF P
  <1>4. CASE Chars(w) - 1 <= MaxReadChars
    BY <1>0, <1>3, <1>4
  <1>5. CASE ~(Chars(w) - 1 <= MaxReadChars)
    <2>1. Chars(w) - 1 > MaxReadChars
      BY <1>0, <1>1, <1>2, <1>5
    <2>2. Len(w) \in T
      BY <1>0, <1>1, <1>2, <2>1
    <2>3. PICK n \in T : \A m \in T : n <= m
      <3>1. T \subseteq Nat /\ T # {}
        BY <2>2
      <3> HIDE DEF T
      <3> QED
        BY <3>1, FA!Least
    <2>4. n \in 1..Len(w) /\ P(n) > MaxReadChars /\ n - 1 \in 0..Len(w) /\ n - 1 \notin T /\ (n - 1) + 1 = n
      BY <1>0, <2>3
    <2>5. P(n - 1) <= MaxReadChars
      BY <1>0, <1>1, <1>2, <2>4
    <2>6. Fit(n - 1)
      BY <2>4, <2>5
    <2> HIDE DEF Fit
    <2>7. Kept(w) \in 0..Len(w) /\ Fit(Kept(w))
      BY <1>3, <1>5, <2>4, <2>6
    <2>8. Kept(w) = 0 => w[1] >= MaxReadChars
      <3> HAVE Kept(w) = 0
      <3>1. 0 < Len(w) /\ 0 \in 0..(Len(w) - 1) /\ 1 \in 1..Len(w)
        BY <1>0
      <3>2. P(0 + 1) > MaxReadChars /\ P(0 + 1) = P(0) + w[0 + 1] + 1
        BY <1>1, <2>7, <3>1 DEF Fit
      <3> QED
        BY <1>0, <1>1, <3>1, <3>2
    <2> QED
      BY <2>1, <2>7, <2>8
  <1> QED
    BY <1>4, <1>5

-----------------------------------------------------------------------------
(* The invariant of the pages                                              *)

Pages ==
    /\ got = [i \in 1..Len(got) |-> i] /\ Len(got) \in 0..Len(body)
    /\ next = IF body = <<>> \/ Len(got) = Len(body) THEN 0 ELSE Len(got) + 1
    /\ stuck \in BOOLEAN
    /\ stuck => /\ body # <<>> /\ next # 0 /\ body[next] >= MaxReadChars
                /\ next = 1 => Chars(body) - 1 > MaxReadChars
BodyIs == body = <<>> \/ (body \in Bodies /\ body \in Seq(Nat) /\ Len(body) # 0)

ReadingInv == BodyIs /\ Pages

LEMMA WindowIs ==
    ASSUME NEW b \in Seq(Nat), b = body, NEW from \in 1..Len(b), NEW limit \in Limits
    PROVE  LET w == Window(from, limit)
           IN  /\ w \in Seq(Nat) /\ Len(w) \in 1..(Len(b) - from + 1) /\ w[1] = b[from]
               /\ from = 1 => Chars(w) <= Chars(b)
  <1> DEFINE to == IF limit = NoLimit THEN Len(b) ELSE SmallerOf(Len(b), from + limit - 1)
  <1>0. Len(b) \in Nat /\ b \in [1..Len(b) -> Nat] /\ from \in Nat /\ from >= 1 /\ from <= Len(b)
    BY LenProperties
  <1>1. to \in from..Len(b)
    BY <1>0, LimitsAssumption DEF SmallerOf
  <1>2. Window(from, limit) = SubSeq(b, from, to)
    BY DEF Window
  <1> HIDE DEF to
  <1>3. /\ SubSeq(b, from, to) \in Seq(Nat) /\ Len(SubSeq(b, from, to)) = to - from + 1
        /\ SubSeq(b, from, to)[1] = b[from]
    <2>1. SubSeq(b, from, to) = [i \in 1..(to - from + 1) |-> b[from + i - 1]]
      BY <1>0, <1>1
    <2>2. \A i \in 1..(to - from + 1) : from + i - 1 \in 1..Len(b)
      BY <1>0, <1>1
    <2>3. to - from + 1 \in Nat /\ 1 \in 1..(to - from + 1) /\ from + 1 - 1 = from
      BY <1>0, <1>1
    <2>4. SubSeq(b, from, to) \in [1..(to - from + 1) -> Nat]
      BY <1>0, <2>1, <2>2
    <2>5. SubSeq(b, from, to)[1] = b[from]
      BY <2>1, <2>3
    <2>6. ASSUME NEW k \in Nat, NEW w \in [1..k -> Nat] PROVE w \in Seq(Nat) /\ Len(w) = k
      OBVIOUS
    <2>7. SubSeq(b, from, to) \in Seq(Nat) /\ Len(SubSeq(b, from, to)) = to - from + 1
      BY <2>3, <2>4, <2>6
    <2> QED
      BY <2>5, <2>7
  <1>4. from = 1 => Chars(SubSeq(b, from, to)) <= Chars(b)
    <2> HAVE from = 1
    <2>1. to \in 0..Len(b)
      BY <1>0, <1>1
    <2> QED
      BY <2>1, CharsUp DEF Head_
  <1>5. to - from + 1 \in 1..(Len(b) - from + 1)
    BY <1>0, <1>1
  <1> QED
    BY <1>2, <1>3, <1>4, <1>5

LEMMA PagesInit == ReadingInit => ReadingInv
  <1> SUFFICES ASSUME ReadingInit PROVE ReadingInv
    OBVIOUS
  <1>1. body = <<>> /\ got = <<>> /\ next = 0 /\ stuck = FALSE
    BY DEF ReadingInit
  <1>2. Len(<<>>) = 0 /\ <<>> = [i \in 1..0 |-> i]
    OBVIOUS
  <1>3. Len(got) = 0 /\ got = [i \in 1..Len(got) |-> i] /\ Len(got) \in 0..Len(body)
    <2>1. Len(got) = 0 /\ Len(body) = 0 /\ 0 \in 0..0
      BY <1>1, <1>2
    <2>2. got = [i \in 1..0 |-> i]
      BY <1>1, <1>2
    <2> QED
      BY <2>1, <2>2
  <1>4. Pages
    <2>1. next = IF body = <<>> \/ Len(got) = Len(body) THEN 0 ELSE Len(got) + 1
      BY <1>1
    <2>2. stuck \in BOOLEAN /\ ~stuck
      BY <1>1
    <2> QED
      BY <1>3, <2>1, <2>2 DEF Pages
  <1> QED
    BY <1>1, <1>4 DEF ReadingInv, BodyIs

LEMMA PageHolds ==
    ASSUME ReadingInv, NEW limit \in Limits, ReadPage(limit)
    PROVE  ReadingInv'
  <1> DEFINE w == Window(next, limit)
             shown == Kept(w)
             n == Len(got)
             k == Len(body)
  <1>1. next # 0 /\ ~stuck /\ body' = body
    BY DEF ReadPage, readingVars
  <1>2. body # <<>> /\ n # k /\ next = n + 1 /\ body \in Seq(Nat) /\ k \in Nat /\ n \in 0..k
    BY <1>1, LenProperties DEF ReadingInv, Pages, BodyIs
  <1>3. next \in 1..k /\ n \in Nat /\ next <= k
    BY <1>2
  <1>4. w \in Seq(Nat) /\ Len(w) \in 1..(k - next + 1) /\ w[1] = body[next] /\ (next = 1 => Chars(w) <= Chars(body))
    BY <1>2, <1>3, WindowIs
  <1>5. shown \in 0..Len(w) /\ (shown = 0 => w[1] >= MaxReadChars /\ Chars(w) - 1 > MaxReadChars)
    <2>1. Len(w) # 0
      BY <1>3, <1>4
    <2> HIDE DEF w
    <2> QED
      BY <1>4, <2>1, KeptIs
  <1>6. /\ got' = got \o [i \in 1..shown |-> next + i - 1]
        /\ next' = IF next + shown - 1 < k THEN next + shown ELSE 0
        /\ stuck' = (shown = 0)
    BY DEF ReadPage, ContinueAt
  <1>7. Chars(w) \in Nat /\ Chars(body) \in Nat
    <2>1. ASSUME NEW lines \in Seq(Nat) PROVE Chars(lines) \in Nat
      <3>1. Len(lines) \in Nat /\ Len(lines) \in 0..Len(lines)
        BY LenProperties
      <3>2. Chars(Head_(lines, Len(lines))) = Chars(lines)
        BY CharsMore
      <3> QED
        BY <3>1, <3>2, CharsUp
    <2> QED
      BY <1>2, <1>4, <2>1
  <1>8. got = [i \in 1..n |-> i]
    BY DEF ReadingInv, Pages
  <1> HIDE DEF w, shown, n, k
  <1>9. shown \in Nat /\ n + shown \in 0..k /\ n + shown \in Nat
    BY <1>2, <1>3, <1>4, <1>5
  <1>10. got' = [i \in 1..(n + shown) |-> i] /\ Len(got') = n + shown
    <2>1. ASSUME NEW s, NEW t, NEW m \in Nat, NEW j \in Nat,
                 s = [i \in 1..m |-> i], t = [i \in 1..j |-> (m + 1) + i - 1]
          PROVE  s \o t = [i \in 1..(m + j) |-> i] /\ Len(s \o t) = m + j
      <3>1. s \in Seq(Nat) /\ Len(s) = m /\ t \in Seq(Nat) /\ Len(t) = j
        <4>1. s \in [1..m -> Nat] /\ t \in [1..j -> Nat]
          BY <2>1
        <4> QED
          BY <4>1
      <3>2. /\ s \o t \in Seq(Nat) /\ Len(s \o t) = m + j
            /\ \A i \in 1..(m + j) : (s \o t)[i] = IF i <= m THEN s[i] ELSE t[i - m]
        BY <3>1, ConcatProperties
      <3>3. ASSUME NEW i \in 1..(m + j) PROVE (s \o t)[i] = i
        <4>1. CASE i <= m
          BY <2>1, <3>2, <4>1
        <4>2. CASE ~(i <= m)
          <5>1. i - m \in 1..j /\ (m + 1) + (i - m) - 1 = i
            BY <4>2
          <5> QED
            BY <2>1, <3>2, <4>2, <5>1
        <4> QED
          BY <4>1, <4>2
      <3>4. s \o t \in [1..(m + j) -> Nat]
        BY <3>2, LenProperties
      <3> QED
        BY <3>2, <3>3, <3>4
    <2> QED
      BY <1>2, <1>3, <1>6, <1>8, <1>9, <2>1
  <1>11. next' = IF Len(got') = k THEN 0 ELSE Len(got') + 1
    BY <1>2, <1>3, <1>6, <1>9, <1>10
  <1>12. stuck' => next' = next /\ next' # 0 /\ body[next] >= MaxReadChars /\ (next = 1 => Chars(body) - 1 > MaxReadChars)
    <2> HAVE stuck'
    <2>1. shown = 0
      BY <1>6
    <2>2. next' = next /\ next' # 0
      BY <1>2, <1>3, <1>6, <2>1
    <2> QED
      BY <1>4, <1>5, <1>7, <2>1, <2>2, CapAssumption
  <1>13. stuck' \in BOOLEAN
    BY <1>6
  <1>14. BodyIs'
    BY <1>1 DEF ReadingInv, BodyIs
  <1>15. Len(body') = k
    BY <1>1 DEF k
  <1>16. Pages'
    <2>1. (got = [i \in 1..Len(got) |-> i])' /\ Len(got') \in 0..Len(body')
      BY <1>9, <1>10, <1>15
    <2>2. body' # <<>> /\ body' = body
      BY <1>1, <1>2
    <2> QED
      BY <1>11, <1>12, <1>13, <1>15, <2>1, <2>2 DEF Pages
  <1> QED
    BY <1>14, <1>16 DEF ReadingInv

LEMMA WholeHolds == ASSUME ReadingInv, ReadWhole PROVE ReadingInv'
  <1>1. next = 1 /\ got = <<>> /\ Chars(body) - 1 <= MaxReadChars /\ body' = body /\ stuck' = stuck /\ next' = 0
    BY DEF ReadWhole
  <1>2. body # <<>> /\ body \in Seq(Nat) /\ Len(body) \in Nat /\ DOMAIN body = 1..Len(body)
    BY <1>1, LenProperties DEF ReadingInv, Pages, BodyIs
  <1>3. Chars(body) \in Nat
    <2>1. Len(body) \in 0..Len(body)
      BY <1>2
    <2>2. Chars(Head_(body, Len(body))) = Chars(body)
      BY <1>2, CharsMore
    <2> QED
      BY <1>2, <2>1, <2>2, CharsUp
  <1>4. ~stuck
    BY <1>1, <1>3, CapAssumption DEF ReadingInv, Pages
  <1>5. got' = [i \in 1..Len(body) |-> i] /\ Len(got') = Len(body)
    <2>1. got' = [i \in 1..Len(body) |-> i]
      BY <1>2 DEF ReadWhole
    <2>2. ASSUME NEW k \in Nat PROVE Len([i \in 1..k |-> i]) = k
      OBVIOUS
    <2> QED
      BY <1>2, <2>1, <2>2
  <1>6. Pages'
    <2>1. body' # <<>> /\ Len(got') = Len(body') /\ Len(got') \in 0..Len(body')
      BY <1>1, <1>2, <1>5
    <2>2. got' = [i \in 1..Len(got') |-> i]
      BY <1>5
    <2>3. stuck' = FALSE
      BY <1>1, <1>4 DEF ReadingInv, Pages
    <2> QED
      BY <1>1, <2>1, <2>2, <2>3 DEF Pages
  <1> QED
    BY <1>1, <1>6 DEF ReadingInv, BodyIs

LEMMA PagesStep == ReadingInv /\ [ReadingNext]_readingVars => ReadingInv'
  <1> SUFFICES ASSUME ReadingInv, [ReadingNext]_readingVars PROVE ReadingInv'
    OBVIOUS
  <1>1. CASE UNCHANGED readingVars
    BY <1>1 DEF readingVars, ReadingInv, BodyIs, Pages
  <1>2. CASE ReadWhole
    BY <1>2, WholeHolds
  <1>3. ASSUME NEW limit \in Limits, ReadPage(limit) PROVE ReadingInv'
    BY <1>3, PageHolds
  <1>4. ASSUME NEW c \in Corpora, Search(c) PROVE ReadingInv'
    BY <1>4 DEF Search, ReadingInv, BodyIs, Pages
  <1>5. ASSUME NEW b \in Bodies, OpenFile(b) PROVE ReadingInv'
    <2>1. body = <<>> /\ body' = b /\ next' = 1 /\ got' = got /\ stuck' = stuck
      BY <1>5 DEF OpenFile
    <2>2. Len(got) = 0 /\ ~stuck /\ got = [i \in 1..Len(got) |-> i]
      <3>1. Len(<<>>) = 0 /\ \A n \in 0..0 : n = 0
        OBVIOUS
      <3> QED
        BY <2>1, <3>1 DEF ReadingInv, Pages
    <2>3. b \in Seq(Nat) /\ b # <<>> /\ Len(b) \in Nat /\ Len(b) # 0
      <3>1. b \in Seq(Nat) /\ b # <<>>
        BY BodiesAssumption
      <3> QED
        BY <3>1, EmptySeq, LenProperties
    <2> QED
      BY <2>1, <2>2, <2>3 DEF ReadingInv, BodyIs, Pages
  <1> QED
    BY <1>1, <1>2, <1>3, <1>4, <1>5 DEF ReadingNext

-----------------------------------------------------------------------------
(* grep                                                                    *)

(* A search that says nothing was not ended, and has counted all it met.   *)
IsScan(s) == s = [out |-> s.out, chars |-> s.chars, read |-> s.read, notes |-> s.notes, done |-> s.done]
Counts(s, n) == IsScan(s) /\ s.done \in BOOLEAN /\ (s.notes = {} => ~s.done /\ s.out = n)

LEMMA NotesCount == ASSUME NEW s, NEW n, Counts(s, n), NEW note, NEW m PROVE Counts(Notes(s, note), m)
  BY DEF Counts, IsScan, Notes

LEMMA EndsCount == ASSUME NEW s, NEW n, Counts(s, n), NEW note, NEW m PROVE Counts(Ends(s, note), m)
  <1> DEFINE t == Notes(s, note)
  <1>1. Counts(t, m) /\ t.notes # {}
    BY DEF Counts, IsScan, Notes
  <1>2. Ends(s, note) = [t EXCEPT !.done = TRUE]
    BY DEF Ends
  <1> HIDE DEF t
  <1> QED
    BY <1>1, <1>2 DEF Counts, IsScan

LEMMA TwoFields ==
    ASSUME NEW o, NEW c, NEW r, NEW n, NEW d, NEW p, NEW q,
           NEW s, s = [out |-> o, chars |-> c, read |-> r, notes |-> n, done |-> d]
    PROVE  [s EXCEPT !.out = p, !.chars = q] = [out |-> p, chars |-> q, read |-> r, notes |-> n, done |-> d]
  <1>1. [s EXCEPT !.out = p, !.chars = q] = [[s EXCEPT !.out = p] EXCEPT !.chars = q]
    OBVIOUS
  <1> DEFINE t == [s EXCEPT !.out = p]
  <1>2. t = [out |-> p, chars |-> c, read |-> r, notes |-> n, done |-> d]
    OBVIOUS
  <1> HIDE DEF t
  <1>3. [t EXCEPT !.chars = q] = [out |-> p, chars |-> q, read |-> r, notes |-> n, done |-> d]
    BY <1>2
  <1> QED
    BY <1>1, <1>3 DEF t

LEMMA MatchCounts == ASSUME NEW s, NEW n, Counts(s, n), NEW line PROVE Counts(Match(s, line), n + 1)
  <1> DEFINE t == [s EXCEPT !.out = @ + 1, !.chars = @ + line + 1]
  <1>1. Counts(t, n + 1)
    <2>1. t = [out |-> s.out + 1, chars |-> s.chars + line + 1, read |-> s.read, notes |-> s.notes, done |-> s.done]
      <3>1. s = [out |-> s.out, chars |-> s.chars, read |-> s.read, notes |-> s.notes, done |-> s.done]
        BY DEF Counts, IsScan
      <3> DEFINE o == s.out
                 c == s.chars
                 p == s.out + 1
                 q == s.chars + line + 1
      <3>2. s = [out |-> o, chars |-> c, read |-> s.read, notes |-> s.notes, done |-> s.done]
        BY <3>1
      <3>3. t = [s EXCEPT !.out = p, !.chars = q]
        OBVIOUS
      <3> HIDE DEF o, c, p, q, t
      <3>4. t = [out |-> p, chars |-> q, read |-> s.read, notes |-> s.notes, done |-> s.done]
        BY <3>2, <3>3, TwoFields
      <3> QED
        BY <3>4 DEF p, q
    <2> HIDE DEF t
    <2> QED
      BY <2>1 DEF Counts, IsScan
  <1>2. Counts(Ends(t, "matches"), n + 1)
    <2> HIDE DEF t
    <2> QED
      BY <1>1, EndsCount
  <1>3. Counts(Ends(s, "output"), n + 1)
    BY EndsCount
  <1>4. s.done => Counts(s, n + 1)
    BY DEF Counts
  <1>5. CASE s.done
    BY <1>4, <1>5 DEF Match
  <1>6. CASE ~s.done /\ s.chars + line > MaxGrepOutput
    BY <1>3, <1>6 DEF Match
  <1>7. CASE ~s.done /\ ~(s.chars + line > MaxGrepOutput)
    <2>1. Match(s, line) = IF t.out >= MaxGrepMatches THEN Ends(t, "matches") ELSE t
      BY <1>7 DEF Match
    <2> QED
      BY <1>1, <1>2, <2>1
  <1> QED
    BY <1>5, <1>6, <1>7

LEMMA MatchesIs == ASSUME NEW s, NEW hits PROVE FoldLeft(Match, s, hits) = FM!FoldOf(s, hits)
  BY DEF FM!FoldOf, FoldLeft, MapThenFoldSet, FM!FoldLeft, FM!MapThenFoldSet, Max, FM!Max

LEMMA HitsCount ==
    ASSUME NEW s, NEW n \in Nat, Counts(s, n), NEW hits, IsSeq(hits)
    PROVE  Counts(FoldLeft(Match, s, hits), n + Len(hits))
  <1> DEFINE k == Len(hits)
  <1>0. k \in Nat /\ DOMAIN hits = 1..k
    BY SeqIs
  <1>1. PICK u : FM!Trail(u, s, hits, k)
    BY <1>0, FM!FoldSteps
  <1>2. u[0] = s /\ u[k] = FM!FoldOf(s, hits) /\ \A i \in 1..k : u[i] = Match(u[i - 1], hits[i])
    BY <1>1 DEF FM!Trail
  <1> DEFINE T == {i \in Nat : Counts(u[i], n + i)}
  <1> HIDE DEF k
  <1>3. 0 \in T
    BY <1>2
  <1>4. ASSUME NEW i \in Nat, i < k, i \in T PROVE i + 1 \in T
    <2>1. i + 1 \in 1..k /\ (i + 1) - 1 = i /\ n + (i + 1) = (n + i) + 1
      BY <1>0, <1>4
    <2>2. u[i + 1] = Match(u[i], hits[i + 1])
      BY <1>2, <2>1
    <2>3. Counts(Match(u[i], hits[i + 1]), (n + i) + 1)
      BY <1>4, MatchCounts
    <2> QED
      BY <2>1, <2>2, <2>3
  <1>5. \A i \in 0..k : i \in T
    <2> HIDE DEF T
    <2> QED
      BY <1>0, <1>3, <1>4, FA!UpTo
  <1>6. Counts(u[k], n + k)
    BY <1>0, <1>5
  <1> QED
    BY <1>2, <1>6, MatchesIs DEF k

LEMMA FileCounts ==
    ASSUME NEW s, NEW n \in Nat, Counts(s, n), NEW f, IsSeq(f.hits)
    PROVE  Counts(ScanFile(s, f), n + Len(f.hits))
  <1> DEFINE b == Budgeted(s)
             m == n + Len(f.hits)
             r == [s EXCEPT !.read = @ + 1]
  <1>1. b = s \/ (b = Ends(s, "budget") /\ Counts(b, m))
    BY EndsCount DEF Budgeted
  <1>2. Counts(r, n)
    BY DEF Counts, IsScan
  <1>3. Counts(FoldLeft(Match, r, f.hits), m)
    <2> HIDE DEF r
    <2> QED
      BY <1>2, HitsCount
  <1>4. s.done => Counts(s, m)
    BY DEF Counts
  <1>5. Counts(Notes(s, f.state), m)
    BY NotesCount
  <1>6. \/ s.done /\ ScanFile(s, f) = s
        \/ ~s.done /\ b.done /\ ScanFile(s, f) = b
        \/ ScanFile(s, f) = Notes(s, f.state)
        \/ ScanFile(s, f) = FoldLeft(Match, r, f.hits)
    BY DEF ScanFile
  <1> HIDE DEF b, m, r
  <1> QED
    BY <1>1, <1>3, <1>4, <1>5, <1>6 DEF m

LEMMA VisitCounts ==
    ASSUME NEW s, NEW n \in Nat, Counts(s, n), NEW f, IsSeq(f.hits), NEW includeIgnored \in BOOLEAN
    PROVE  Counts(Visit(includeIgnored, s, f), AddFound(n, f)) /\ AddFound(n, f) \in Nat
  <1>0. Len(f.hits) \in Nat
    BY SeqIs
  <1>1. AddFound(n, f) \in Nat /\ AddFound(n, f) = IF f.where \in {"git", "link"} THEN n ELSE n + Len(f.hits)
    BY <1>0 DEF AddFound, ToBeFound
  <1>2. s.done => Counts(s, AddFound(n, f))
    BY DEF Counts
  <1>3. Counts(Notes(s, "noise"), AddFound(n, f))
    BY NotesCount
  <1>4. Counts(ScanFile(s, f), n + Len(f.hits))
    BY FileCounts
  <1>5. CASE s.done \/ f.where \in {"git", "link"}
    <2>1. Visit(includeIgnored, s, f) = s
      BY <1>5 DEF Visit
    <2> QED
      BY <1>1, <1>2, <1>5, <2>1
  <1>6. CASE ~(s.done \/ f.where \in {"git", "link"}) /\ f.where = "noise" /\ ~includeIgnored
    <2>1. Visit(includeIgnored, s, f) = Notes(s, "noise")
      BY <1>6 DEF Visit
    <2> QED
      BY <1>1, <1>3, <2>1
  <1>7. CASE ~(s.done \/ f.where \in {"git", "link"}) /\ ~(f.where = "noise" /\ ~includeIgnored)
    <2>1. Visit(includeIgnored, s, f) = ScanFile(s, f)
      BY <1>7 DEF Visit
    <2> QED
      BY <1>1, <1>4, <1>7, <2>1
  <1> QED
    BY <1>5, <1>6, <1>7

IsCorpus(c) == IsSeq(c) /\ \A n \in 1..Len(c) : IsSeq(c[n].hits)
Sought(c) == FoldLeft(AddFound, 0, c)

LEMMA SoughtIs == ASSUME NEW c PROVE Sought(c) = FW!FoldOf(0, c)
  BY DEF FW!FoldOf, Sought, FoldLeft, MapThenFoldSet, FW!FoldLeft, FW!MapThenFoldSet, Max, FW!Max

(* Two walks in step: the search, and the count of what there is.          *)
LEMMA WalksCount ==
    ASSUME NEW c, IsCorpus(c), NEW u, NEW w, NEW includeIgnored \in BOOLEAN,
           u[0] = NoScan, w[0] = 0,
           \A i \in 1..Len(c) : u[i] = Visit(includeIgnored, u[i - 1], c[i]) /\ w[i] = AddFound(w[i - 1], c[i])
    PROVE  Counts(u[Len(c)], w[Len(c)])
  <1> DEFINE k == Len(c)
             T == {i \in Nat : Counts(u[i], w[i]) /\ w[i] \in Nat}
  <1>0. k \in Nat
    BY SeqIs DEF IsCorpus
  <1>1. 0 \in T
    <2>1. Counts(NoScan, 0)
      BY DEF Counts, IsScan, NoScan
    <2> QED
      BY <2>1
  <1>2. ASSUME NEW i \in Nat, i < k, i \in T PROVE i + 1 \in T
    <2>1. i + 1 \in 1..k /\ (i + 1) - 1 = i
      BY <1>0, <1>2
    <2>2. u[i + 1] = Visit(includeIgnored, u[i], c[i + 1]) /\ w[i + 1] = AddFound(w[i], c[i + 1])
      BY <2>1
    <2>3. IsSeq(c[i + 1].hits)
      BY <2>1 DEF IsCorpus
    <2>4. /\ Counts(Visit(includeIgnored, u[i], c[i + 1]), AddFound(w[i], c[i + 1]))
          /\ AddFound(w[i], c[i + 1]) \in Nat
      BY <1>2, <2>3, VisitCounts
    <2> QED
      BY <2>2, <2>4
  <1>3. \A i \in 0..k : i \in T
    <2> HIDE DEF T, k
    <2> QED
      BY <1>0, <1>1, <1>2, FA!UpTo
  <1> QED
    BY <1>0, <1>3

LEMMA GrepCounts ==
    ASSUME NEW c, IsCorpus(c), NEW includeIgnored \in BOOLEAN
    PROVE  Grep(c, includeIgnored).notes = {} => Grep(c, includeIgnored).matches = Sought(c)
  <1> DEFINE s == IF includeIgnored THEN FoldLeft(VisitAll, NoScan, c) ELSE FoldLeft(VisitSources, NoScan, c)
  <1>0. Len(c) \in Nat /\ DOMAIN c = 1..Len(c)
    BY SeqIs DEF IsCorpus
  <1>1. PICK w : FW!Trail(w, 0, c, Len(c))
    BY <1>0, FW!FoldSteps
  <1>2. w[0] = 0 /\ w[Len(c)] = Sought(c) /\ \A i \in 1..Len(c) : w[i] = AddFound(w[i - 1], c[i])
    BY <1>1, SoughtIs DEF FW!Trail
  <1>3. CASE includeIgnored
    <2>1. s = FV!FoldOf(NoScan, c)
      BY <1>3 DEF FV!FoldOf, FoldLeft, MapThenFoldSet, FV!FoldLeft, FV!MapThenFoldSet, Max, FV!Max
    <2>2. PICK u : FV!Trail(u, NoScan, c, Len(c))
      BY <1>0, FV!FoldSteps
    <2>3. u[0] = NoScan /\ u[Len(c)] = s /\ \A i \in 1..Len(c) : u[i] = Visit(includeIgnored, u[i - 1], c[i])
      <3>1. u[0] = NoScan /\ u[Len(c)] = FV!FoldOf(NoScan, c) /\ \A i \in 1..Len(c) : u[i] = VisitAll(u[i - 1], c[i])
        BY <2>2 DEF FV!Trail
      <3>2. includeIgnored = TRUE
        BY <1>3
      <3> QED
        BY <2>1, <3>1, <3>2 DEF VisitAll
    <2> HIDE DEF s
    <2>4. Counts(s, Sought(c))
      BY <1>2, <2>3, WalksCount
    <2> QED
      BY <2>4 DEF s, Counts, Grep
  <1>4. CASE ~includeIgnored
    <2>1. s = FS!FoldOf(NoScan, c)
      BY <1>4 DEF FS!FoldOf, FoldLeft, MapThenFoldSet, FS!FoldLeft, FS!MapThenFoldSet, Max, FS!Max
    <2>2. PICK u : FS!Trail(u, NoScan, c, Len(c))
      BY <1>0, FS!FoldSteps
    <2>3. u[0] = NoScan /\ u[Len(c)] = s /\ \A i \in 1..Len(c) : u[i] = Visit(includeIgnored, u[i - 1], c[i])
      <3>1. u[0] = NoScan /\ u[Len(c)] = FS!FoldOf(NoScan, c) /\ \A i \in 1..Len(c) : u[i] = VisitSources(u[i - 1], c[i])
        BY <2>2 DEF FS!Trail
      <3>2. includeIgnored = FALSE
        BY <1>4
      <3> QED
        BY <2>1, <3>1, <3>2 DEF VisitSources
    <2> HIDE DEF s
    <2>4. Counts(s, Sought(c))
      BY <1>2, <2>3, WalksCount
    <2> QED
      BY <2>4 DEF s, Counts, Grep
  <1> QED
    BY <1>3, <1>4

ReplyIs == reply.notes = {} => reply.matches = Sought(corpus)

LEMMA AnsweredHolds ==
    /\ ReadingInit => ReplyIs
    /\ ReplyIs /\ [ReadingNext]_readingVars => ReplyIs'
  <1>1. ASSUME ReadingInit PROVE ReplyIs
    BY <1>1, SoughtIs, FW!FoldNone DEF ReadingInit, ReplyIs
  <1>2. ASSUME ReplyIs, [ReadingNext]_readingVars PROVE ReplyIs'
    <2>1. CASE UNCHANGED <<corpus, reply>>
      BY <1>2, <2>1 DEF ReplyIs, Sought
    <2>2. ASSUME NEW c \in Corpora, Search(c) PROVE ReplyIs'
      <3>1. PICK includeIgnored \in BOOLEAN : corpus' = c /\ reply' = Grep(c, includeIgnored)
        BY <2>2 DEF Search
      <3>2. IsCorpus(c)
        <4>1. c \in Seq(Range(c)) /\ \A n \in DOMAIN c : c[n].hits \in Seq(Range(c[n].hits))
          BY CorporaAssumption
        <4>2. IsSeq(c)
          BY <4>1, SeqIn
        <4>3. \A n \in 1..Len(c) : n \in DOMAIN c
          BY <4>2, SeqIs
        <4> QED
          BY <4>1, <4>2, <4>3, SeqIn DEF IsCorpus
      <3>3. Grep(c, includeIgnored).notes = {} => Grep(c, includeIgnored).matches = Sought(c)
        BY <3>2, GrepCounts
      <3> QED
        BY <3>1, <3>3 DEF ReplyIs, Sought
    <2> QED
      BY <1>2, <2>1, <2>2 DEF ReadingNext, readingVars, OpenFile, ReadWhole, ReadPage
  <1> QED
    BY <1>1, <1>2

(* What the tools that look at files do not say is not there: for files,   *)
(* limits and corpora of any size and any caps, the pages that follow each *)
(* other's offsets show every line once and in order, and a grep without a *)
(* note has counted every match of what it was asked to search (read_file, *)
(* grep of file-tools.ts).                                                 *)
THEOREM SilenceMeansAbsence == ReadingSpec => []SilenceIsAbsence
  <1>1. ReadingInv /\ ReplyIs => SilenceIsAbsence
    <2> SUFFICES ASSUME ReadingInv, ReplyIs PROVE SilenceIsAbsence
      OBVIOUS
    <2>1. PagesReachTheTail
      BY DEF ReadingInv, Pages, PagesReachTheTail
    <2> QED
      BY <2>1 DEF SilenceIsAbsence, ReplyIs, Sought
  <1> QED
    BY <1>1, PagesInit, PagesStep, AnsweredHolds, PTL DEF ReadingSpec

-----------------------------------------------------------------------------
(* Occurrences, and split and join                                         *)

JoinStep(rest, node) == node[2].head \o rest
FindStep(rest, node) ==
    IF node[2].what = "hit" THEN <<node[2].place>> \o rest ELSE IF node[2].what = "end" THEN <<>> ELSE rest

NoWords == <<>>

FJ == INSTANCE Folding WITH Step <- JoinStep
FN == INSTANCE Folding WITH Step <- FindStep
FP == INSTANCE Folding WITH Step <- PlanEdit
FO == INSTANCE Folding WITH Step <- TakeOut
FI == INSTANCE Folding WITH Step <- PutIn

HitAt(buf, anchor, i) == i + Len(anchor) <= Len(buf) + 1 /\ At(buf, i, anchor)

Joins(h, buf, anchor, text) ==
    h = [i \in 1..(Len(buf) + 1) |->
            IF i > Len(buf) THEN <<>>
            ELSE IF i + Len(anchor) <= Len(buf) + 1 /\ At(buf, i, anchor)
                 THEN text \o h[i + Len(anchor)] ELSE <<buf[i]>> \o h[i + 1]]
Finds(h, buf, anchor) ==
    h = [i \in 1..(Len(buf) + 1) |->
            IF i + Len(anchor) > Len(buf) + 1 THEN <<>>
            ELSE IF At(buf, i, anchor) THEN <<i>> \o h[i + Len(anchor)] ELSE h[i + 1]]

LEMMA JoinsExists ==
    ASSUME NEW buf \in Seq(Tokens), NEW anchor \in Seq(Tokens), anchor # <<>>, NEW text
    PROVE  \E h : Joins(h, buf, anchor, text)
  <1> DEFINE k == Len(buf)
             l == Len(anchor)
             hit(i) == HitAt(buf, anchor, i)
             es == [e \in 1..k |-> [parent |-> IF hit(k + 1 - e) THEN e - l ELSE e - 1,
                                    head   |-> IF hit(k + 1 - e) THEN text ELSE <<buf[k + 1 - e]>>]]
  <1>0. k \in Nat /\ l \in Nat /\ l # 0
    BY LenProperties, EmptySeq
  <1>1. FJ!Tree(es, k)
    <2>1. ASSUME NEW e \in 1..k PROVE es[e].parent \in 0..(e - 1)
      <3>1. hit(k + 1 - e) => (k + 1 - e) + l <= k + 1
        BY DEF HitAt
      <3>2. es[e].parent = IF hit(k + 1 - e) THEN e - l ELSE e - 1
        OBVIOUS
      <3> HIDE DEF hit, es, k, l
      <3> QED
        BY <1>0, <3>1, <3>2
    <2> HIDE DEF es, k
    <2> QED
      BY <1>0, <2>1 DEF FJ!Tree
  <1>2. PICK g : FJ!Climbs(g, NoWords, es, k)
    <2> HIDE DEF es, k
    <2> QED
      BY <1>1, FJ!ClimbExists
  <1>3. g[0] = <<>> /\ \A e \in 1..k : g[e] = es[e].head \o g[es[e].parent]
    <2>1. g[0] = NoWords
      <3> HIDE DEF es, k
      <3> QED
        BY <1>1, <1>2, FJ!ClimbAt
    <2>2. \A e \in 1..k : g[e] = JoinStep(g[es[e].parent], <<e, es[e]>>)
      <3> HIDE DEF es, k
      <3> QED
        BY <1>1, <1>2, FJ!ClimbAt
    <2> QED
      BY <2>1, <2>2 DEF JoinStep, NoWords
  <1> DEFINE h == [i \in 1..(k + 1) |-> g[k + 1 - i]]
  <1>4. ASSUME NEW i \in 1..(k + 1)
        PROVE  h[i] = IF i > k THEN <<>> ELSE IF hit(i) THEN text \o h[i + l] ELSE <<buf[i]>> \o h[i + 1]
    <2>1. \A j \in 1..(k + 1) : h[j] = g[k + 1 - j]
      OBVIOUS
    <2>2. \A e \in 1..k : es[e].parent = (IF hit(k + 1 - e) THEN e - l ELSE e - 1)
                          /\ es[e].head = IF hit(k + 1 - e) THEN text ELSE <<buf[k + 1 - e]>>
      OBVIOUS
    <2>3. hit(i) => i + l <= k + 1
      BY DEF HitAt
    <2> HIDE DEF h, es, hit, k, l
    <2>4. CASE i > k
      BY <1>0, <1>3, <2>1, <2>4
    <2>5. CASE i <= k
      <3> DEFINE e == k + 1 - i
      <3>1. e \in 1..k /\ k + 1 - e = i /\ h[i] = g[e]
        BY <1>0, <2>1, <2>5
      <3>2. CASE hit(i)
        <4>1. i + l \in 1..(k + 1) /\ k + 1 - (i + l) = e - l
          BY <1>0, <2>3, <3>2
        <4>2. h[i + l] = g[e - l]
          BY <2>1, <4>1
        <4>3. g[e] = text \o g[e - l]
          <5> HIDE DEF e
          <5>1. es[e].parent = e - l /\ es[e].head = text
            BY <2>2, <3>1, <3>2
          <5> QED
            BY <1>3, <3>1, <5>1
        <4>4. ~(i > k)
          BY <1>0, <2>5
        <4> QED
          <5> HIDE DEF e
          <5>1. h[i] = text \o h[i + l]
            BY <3>1, <4>2, <4>3
          <5> QED
            BY <3>2, <4>4, <5>1
      <3>3. CASE ~hit(i)
        <4>1. i + 1 \in 1..(k + 1) /\ k + 1 - (i + 1) = e - 1
          BY <1>0, <2>5
        <4>2. h[i + 1] = g[e - 1]
          BY <2>1, <4>1
        <4>3. g[e] = <<buf[i]>> \o g[e - 1]
          <5> HIDE DEF e
          <5>1. es[e].parent = e - 1 /\ es[e].head = <<buf[i]>>
            BY <2>2, <3>1, <3>3
          <5> QED
            BY <1>3, <3>1, <5>1
        <4>4. ~(i > k)
          BY <1>0, <2>5
        <4> QED
          <5> HIDE DEF e
          <5>1. h[i] = <<buf[i]>> \o h[i + 1]
            BY <3>1, <4>2, <4>3
          <5> QED
            BY <3>3, <4>4, <5>1
      <3> QED
        BY <3>2, <3>3
    <2> QED
      BY <1>0, <2>4, <2>5
  <1>5. h = [i \in 1..(k + 1) |-> h[i]]
    OBVIOUS
  <1>6. Joins(h, buf, anchor, text)
    <2> HIDE DEF h
    <2> QED
      BY <1>4, <1>5 DEF Joins, HitAt
  <1> QED
    BY <1>6

LEMMA FindsExists ==
    ASSUME NEW buf \in Seq(Tokens), NEW anchor \in Seq(Tokens), anchor # <<>>
    PROVE  \E h : Finds(h, buf, anchor)
  <1> DEFINE k == Len(buf)
             l == Len(anchor)
             late(i) == i + l > k + 1
             hit(i) == At(buf, i, anchor)
             es == [e \in 1..k |-> [parent |-> IF late(k + 1 - e) THEN 0 ELSE IF hit(k + 1 - e) THEN e - l ELSE e - 1,
                                    what |-> IF late(k + 1 - e) THEN "end" ELSE IF hit(k + 1 - e) THEN "hit" ELSE "past",
                                    place |-> k + 1 - e]]
  <1>0. k \in Nat /\ l \in Nat /\ l # 0
    BY LenProperties, EmptySeq
  <1>1. FN!Tree(es, k)
    <2>1. ASSUME NEW e \in 1..k PROVE es[e].parent \in 0..(e - 1)
      <3>1. es[e].parent = IF (k + 1 - e) + l > k + 1 THEN 0 ELSE IF hit(k + 1 - e) THEN e - l ELSE e - 1
        OBVIOUS
      <3> HIDE DEF hit, es, k, l
      <3> QED
        BY <1>0, <3>1
    <2> HIDE DEF es, k
    <2> QED
      BY <1>0, <2>1 DEF FN!Tree
  <1>2. PICK g : FN!Climbs(g, NoWords, es, k)
    <2> HIDE DEF es, k
    <2> QED
      BY <1>1, FN!ClimbExists
  <1>3. g[0] = <<>> /\ \A e \in 1..k : g[e] = IF es[e].what = "hit" THEN <<es[e].place>> \o g[es[e].parent]
                                              ELSE IF es[e].what = "end" THEN <<>> ELSE g[es[e].parent]
    <2>1. g[0] = NoWords
      <3> HIDE DEF es, k
      <3> QED
        BY <1>1, <1>2, FN!ClimbAt
    <2>2. \A e \in 1..k : g[e] = FindStep(g[es[e].parent], <<e, es[e]>>)
      <3> HIDE DEF es, k
      <3> QED
        BY <1>1, <1>2, FN!ClimbAt
    <2> QED
      BY <2>1, <2>2 DEF FindStep, NoWords
  <1> DEFINE h == [i \in 1..(k + 1) |-> g[k + 1 - i]]
  <1>4. ASSUME NEW i \in 1..(k + 1)
        PROVE  h[i] = IF late(i) THEN <<>> ELSE IF hit(i) THEN <<i>> \o h[i + l] ELSE h[i + 1]
    <2>1. \A j \in 1..(k + 1) : h[j] = g[k + 1 - j]
      OBVIOUS
    <2>2. \A e \in 1..k :
            /\ es[e].parent = IF late(k + 1 - e) THEN 0 ELSE IF hit(k + 1 - e) THEN e - l ELSE e - 1
            /\ es[e].what = IF late(k + 1 - e) THEN "end" ELSE IF hit(k + 1 - e) THEN "hit" ELSE "past"
            /\ es[e].place = k + 1 - e
      OBVIOUS
    <2>3. late(i) <=> i + l > k + 1
      OBVIOUS
    <2> HIDE DEF h, es, hit, k, l, late
    <2>4. CASE i > k
      BY <1>0, <1>3, <2>1, <2>3, <2>4, SMTT(30)
    <2>5. CASE i <= k
      <3> DEFINE e == k + 1 - i
      <3>1. e \in 1..k /\ k + 1 - e = i /\ h[i] = g[e]
        BY <1>0, <2>1, <2>5
      <3>2. CASE late(i)
        <4>1. es[e].what = "end"
          <5> HIDE DEF e
          <5> QED
            BY <2>2, <3>1, <3>2
        <4> QED
          <5> HIDE DEF e
          <5> QED
            BY <1>3, <3>1, <3>2, <4>1
      <3>3. CASE ~late(i) /\ hit(i)
        <4>1. i + l \in 1..(k + 1) /\ k + 1 - (i + l) = e - l
          BY <1>0, <2>3, <3>3
        <4>2. h[i + l] = g[e - l]
          BY <2>1, <4>1
        <4>3. es[e].what = "hit" /\ es[e].place = i /\ es[e].parent = e - l
          <5> HIDE DEF e
          <5> QED
            BY <2>2, <3>1, <3>3
        <4>4. g[e] = <<i>> \o g[e - l]
          <5> HIDE DEF e
          <5> QED
            BY <1>3, <3>1, <4>3
        <4> QED
          BY <3>1, <3>3, <4>2, <4>4
      <3>4. CASE ~late(i) /\ ~hit(i)
        <4>1. i + 1 \in 1..(k + 1) /\ k + 1 - (i + 1) = e - 1
          BY <1>0, <2>5
        <4>2. h[i + 1] = g[e - 1]
          BY <2>1, <4>1
        <4>3. es[e].what = "past" /\ es[e].parent = e - 1
          <5> HIDE DEF e
          <5> QED
            BY <2>2, <3>1, <3>4
        <4>4. g[e] = g[e - 1]
          <5> HIDE DEF e
          <5> QED
            BY <1>3, <3>1, <4>3
        <4> QED
          BY <3>1, <3>4, <4>2, <4>4
      <3> QED
        BY <3>2, <3>3, <3>4
    <2> QED
      BY <1>0, <2>4, <2>5
  <1>5. h = [i \in 1..(k + 1) |-> h[i]]
    OBVIOUS
  <1>6. Finds(h, buf, anchor)
    <2> HIDE DEF h
    <2> QED
      BY <1>4, <1>5 DEF Finds
  <1> QED
    BY <1>6

(* What is replaced is what is found, so the length changes by as much as  *)
(* was announced.                                                          *)
LEMMA JoinCounts ==
    ASSUME NEW buf \in Seq(Tokens), NEW anchor \in Seq(Tokens), anchor # <<>>, NEW text \in Seq(Tokens)
    PROVE  /\ SplitJoin(buf, anchor, text) \in Seq(Tokens)
           /\ Len(SplitJoin(buf, anchor, text)) + Len(anchor) * Len(Occurrences(buf, anchor))
              = Len(buf) + Len(text) * Len(Occurrences(buf, anchor))
  <1> DEFINE k == Len(buf)
             l == Len(anchor)
             m == Len(text)
  <1>0. k \in Nat /\ l \in Nat /\ l # 0 /\ m \in Nat /\ buf \in [1..k -> Tokens]
    BY LenProperties, EmptySeq
  <1>1. PICK s : Joins(s, buf, anchor, text) /\ SplitJoin(buf, anchor, text) = s[1]
    <2>1. Joins(CHOOSE h : Joins(h, buf, anchor, text), buf, anchor, text)
      BY JoinsExists
    <2>2. SplitJoin(buf, anchor, text) = (CHOOSE h : Joins(h, buf, anchor, text))[1]
      BY DEF SplitJoin, Joins
    <2> QED
      BY <2>1, <2>2
  <1>2. PICK o : Finds(o, buf, anchor) /\ Occurrences(buf, anchor) = o[1]
    <2>1. Finds(CHOOSE h : Finds(h, buf, anchor), buf, anchor)
      BY FindsExists
    <2>2. Occurrences(buf, anchor) = (CHOOSE h : Finds(h, buf, anchor))[1]
      BY DEF Occurrences, Finds
    <2> QED
      BY <2>1, <2>2
  <1> DEFINE H == {i \in 1..(k + 1) : At(buf, i, anchor)}
  <1>3. \A i \in 1..(k + 1) : s[i] = IF i > k THEN <<>> ELSE IF i + l <= k + 1 /\ i \in H THEN text \o s[i + l]
                                     ELSE <<buf[i]>> \o s[i + 1]
    BY <1>1 DEF Joins
  <1>4. \A i \in 1..(k + 1) : o[i] = IF i + l > k + 1 THEN <<>> ELSE IF i \in H THEN <<i>> \o o[i + l] ELSE o[i + 1]
    BY <1>2 DEF Finds
  <1> DEFINE Good(i) == /\ s[i] \in Seq(Tokens) /\ o[i] \in Seq(Nat)
                        /\ Len(s[i]) + l * Len(o[i]) = (k + 1 - i) + m * Len(o[i])
             T == {d \in Nat : d <= k => \A c \in 0..d : Good(k + 1 - c)}
  <1> HIDE DEF k, l, m, H
  <1>5. \A a, b \in Seq(Tokens) : a \o b \in Seq(Tokens) /\ Len(a \o b) = Len(a) + Len(b)
    BY ConcatProperties
  <1>6. \A a, b \in Seq(Nat) : a \o b \in Seq(Nat) /\ Len(a \o b) = Len(a) + Len(b)
    BY ConcatProperties
  <1>7. \A i \in Nat : <<i>> \in Seq(Nat) /\ Len(<<i>>) = 1
    OBVIOUS
  <1>8. \A i \in 1..k : <<buf[i]>> \in Seq(Tokens) /\ Len(<<buf[i]>>) = 1
    BY <1>0
  <1>9. text \in Seq(Tokens) /\ Len(text) = m /\ Len(<<>>) = 0 /\ <<>> \in Seq(Tokens) /\ <<>> \in Seq(Nat)
    BY DEF m
  <1>10. Good(k + 1)
    <2>1. s[k + 1] = <<>> /\ o[k + 1] = <<>>
      <3>1. k + 1 \in 1..(k + 1) /\ k + 1 > k /\ (k + 1) + l > k + 1
        BY <1>0
      <3>2. s[k + 1] = <<>>
        BY <1>3, <3>1
      <3> QED
        BY <1>4, <3>1, <3>2
    <2> QED
      BY <1>0, <1>9, <2>1
  <1>11. ASSUME NEW i \in 1..k, \A j \in (i + 1)..(k + 1) : Good(j) PROVE Good(i)
    <2>0. i \in 1..(k + 1) /\ i + 1 \in (i + 1)..(k + 1) /\ ~(i > k)
      BY <1>0
    <2>1. CASE i + l <= k + 1 /\ i \in H
      <3>1. i + l \in (i + 1)..(k + 1)
        BY <1>0, <2>1
      <3>2. Good(i + l)
        BY <1>11, <3>1
      <3>3. s[i] = text \o s[i + l] /\ o[i] = <<i>> \o o[i + l]
        <4>1. ~(i + l > k + 1) /\ ~(i > k)
          BY <1>0, <2>1
        <4>2. s[i] = text \o s[i + l]
          BY <1>3, <2>0, <2>1, <4>1
        <4> QED
          BY <1>4, <2>0, <2>1, <4>1, <4>2
      <3>4. s[i] \in Seq(Tokens) /\ Len(s[i]) = m + Len(s[i + l])
        BY <1>5, <1>9, <3>2, <3>3
      <3>5. o[i] \in Seq(Nat) /\ Len(o[i]) = 1 + Len(o[i + l])
        BY <1>6, <1>7, <3>2, <3>3
      <3>6. Len(o[i + l]) \in Nat /\ Len(s[i + l]) \in Nat
        BY <3>2, LenProperties
      <3>7. ASSUME NEW x \in Nat, NEW y \in Nat, y + l * x = (k + 1 - (i + l)) + m * x
            PROVE  (m + y) + l * (1 + x) = (k + 1 - i) + m * (1 + x)
        <4>1. l * (1 + x) = l + l * x /\ m * (1 + x) = m + m * x /\ l * x \in Nat /\ m * x \in Nat
          BY <1>0
        <4> QED
          BY <1>0, <3>7, <4>1
      <3> QED
        BY <3>2, <3>4, <3>5, <3>6, <3>7
    <2>2. CASE ~(i + l <= k + 1 /\ i \in H)
      <3>1. Good(i + 1) /\ s[i] = <<buf[i]>> \o s[i + 1]
        BY <1>3, <1>11, <2>0, <2>2
      <3>2. s[i] \in Seq(Tokens) /\ Len(s[i]) = 1 + Len(s[i + 1])
        BY <1>5, <1>8, <3>1
      <3>3. o[i] = o[i + 1]
        <4>1. CASE i + l > k + 1
          <5>1. i + 1 \in 1..(k + 1) /\ (i + 1) + l > k + 1
            BY <1>0, <4>1
          <5>2. o[i] = <<>>
            BY <1>4, <2>0, <4>1
          <5>3. o[i + 1] = <<>>
            BY <1>4, <5>1
          <5> QED
            BY <5>2, <5>3
        <4>2. CASE ~(i + l > k + 1)
          <5>1. i + l <= k + 1 /\ i \notin H
            BY <1>0, <2>2, <4>2
          <5> QED
            BY <1>4, <2>0, <4>2, <5>1
        <4> QED
          BY <4>1, <4>2
      <3>4. Len(o[i + 1]) \in Nat /\ Len(s[i + 1]) \in Nat
        BY <3>1, LenProperties
      <3>5. ASSUME NEW x \in Nat, NEW y \in Nat, y + l * x = (k + 1 - (i + 1)) + m * x
            PROVE  (1 + y) + l * x = (k + 1 - i) + m * x
        <4>1. l * x \in Nat /\ m * x \in Nat
          BY <1>0
        <4> QED
          BY <1>0, <3>5, <4>1
      <3> QED
        BY <3>1, <3>2, <3>3, <3>4, <3>5
    <2> QED
      BY <2>1, <2>2
  <1> HIDE DEF Good
  <1>12. \A d \in 0..k : d \in T
    <2>1. 0 \in T
      <3>1. \A c \in 0..0 : k + 1 - c = k + 1
        BY <1>0
      <3> QED
        BY <1>10, <3>1
    <2>2. ASSUME NEW d \in Nat, d < k, d \in T PROVE d + 1 \in T
      <3>1. \A c \in 0..d : Good(k + 1 - c)
        BY <1>0, <2>2
      <3>2. \A j \in ((k - d) + 1)..(k + 1) : k + 1 - j \in 0..d /\ k + 1 - (k + 1 - j) = j
        BY <1>0, <2>2
      <3>3. k - d \in 1..k /\ k + 1 - (d + 1) = k - d
        BY <1>0, <2>2
      <3>4. Good(k - d)
        BY <1>11, <3>1, <3>2, <3>3
      <3>5. \A c \in 0..(d + 1) : c \in 0..d \/ c = d + 1
        OBVIOUS
      <3> QED
        BY <3>1, <3>3, <3>4, <3>5
    <2> HIDE DEF T
    <2> QED
      BY <1>0, <2>1, <2>2, FJ!UpTo
  <1>13. Good(1)
    <2>1. k \in 0..k /\ k + 1 - k = 1
      BY <1>0
    <2> QED
      BY <1>0, <1>12, <2>1
  <1>14. k + 1 - 1 = k
    BY <1>0
  <1> QED
    BY <1>1, <1>2, <1>13, <1>14, LenProperties DEF Good, k, l, m

-----------------------------------------------------------------------------
(* Plans                                                                   *)

FileEdit == [old : Seq(Tokens), new : Seq(Tokens), expected : Nat]

(* A plan was refused, or is n long and what the edits announced.          *)
Stands(plan, out, in, n) ==
    \/ plan = Refusal
    \/ \E x \in Seq(Tokens) : plan = Planned(x) /\ Len(x) + out = n + in

LEMMA PlannedIs == /\ ~Refusal.ok
                   /\ \A x : Planned(x).ok /\ Planned(x).output = x
  BY DEF Refusal, Planned

LEMMA EditStands ==
    ASSUME NEW plan, NEW out \in Nat, NEW in \in Nat, NEW n \in Nat, Stands(plan, out, in, n), NEW e \in FileEdit
    PROVE  /\ Stands(PlanEdit(plan, e), TakeOut(out, e), PutIn(in, e), n)
           /\ TakeOut(out, e) \in Nat /\ PutIn(in, e) \in Nat
  <1>0. e.old \in Seq(Tokens) /\ e.new \in Seq(Tokens) /\ e.expected \in Nat
    BY DEF FileEdit
  <1>1. Len(e.old) \in Nat /\ Len(e.new) \in Nat
    BY <1>0, LenProperties
  <1>2. \A a, b \in Nat : a * b \in Nat
    OBVIOUS
  <1>3. /\ TakeOut(out, e) = out + Len(e.old) * e.expected /\ Len(e.old) * e.expected \in Nat
        /\ PutIn(in, e) = in + Len(e.new) * e.expected /\ Len(e.new) * e.expected \in Nat
    BY <1>0, <1>1, <1>2 DEF TakeOut, PutIn
  <1>4. CASE ~(plan.ok /\ Fits(plan.output, e))
    <2>1. PlanEdit(plan, e) = Refusal
      BY <1>4 DEF PlanEdit
    <2> QED
      BY <1>3, <2>1 DEF Stands
  <1>5. CASE plan.ok /\ Fits(plan.output, e)
    <2>1. PICK x \in Seq(Tokens) : plan = Planned(x) /\ Len(x) + out = n + in
      BY <1>5, PlannedIs DEF Stands
    <2>2. plan.output = x /\ e.old # <<>> /\ Len(Occurrences(x, e.old)) = e.expected
      BY <1>5, <2>1, PlannedIs DEF Fits
    <2> DEFINE y == SplitJoin(x, e.old, e.new)
    <2> DEFINE a == Len(e.old) * e.expected
               b == Len(e.new) * e.expected
    <2>3. y \in Seq(Tokens) /\ Len(y) + a = Len(x) + b
      <3>1. /\ y \in Seq(Tokens)
            /\ Len(y) + Len(e.old) * Len(Occurrences(x, e.old)) = Len(x) + Len(e.new) * Len(Occurrences(x, e.old))
        BY <1>0, <2>2, JoinCounts
      <3> QED
        BY <2>2, <3>1
    <2>4. PlanEdit(plan, e) = Planned(y)
      BY <1>5, <2>2 DEF PlanEdit
    <2>5. Len(x) \in Nat /\ Len(y) \in Nat
      BY <2>3, LenProperties
    <2>6. a \in Nat /\ b \in Nat /\ TakeOut(out, e) = out + a /\ PutIn(in, e) = in + b
      BY <1>3
    <2> HIDE DEF y, a, b
    <2>7. Len(y) + TakeOut(out, e) = n + PutIn(in, e)
      BY <2>1, <2>3, <2>5, <2>6
    <2> QED
      BY <1>3, <2>3, <2>4, <2>7 DEF Stands
  <1> QED
    BY <1>4, <1>5

LEMMA EditsStand ==
    ASSUME NEW source \in Seq(Tokens), NEW wanted \in Seq(FileEdit), PlanFileEdits(source, wanted).ok
    PROVE  \E x \in Seq(Tokens) :
              /\ PlanFileEdits(source, wanted) = Planned(x)
              /\ Len(x) + FoldLeft(TakeOut, 0, wanted) = Len(source) + FoldLeft(PutIn, 0, wanted)
  <1> DEFINE n == Len(wanted)
             z == Len(source)
             start == Planned(source)
  <1>0. n \in Nat /\ DOMAIN wanted = 1..n /\ z \in Nat /\ \A i \in 1..n : wanted[i] \in FileEdit
    BY LenProperties
  <1>1. PlanFileEdits(source, wanted) = FP!FoldOf(start, wanted)
    <2>1. wanted # <<>>
      BY PlannedIs DEF PlanFileEdits
    <2>2. PlanFileEdits(source, wanted) = FoldLeft(PlanEdit, Planned(source), wanted)
      BY <2>1 DEF PlanFileEdits
    <2>3. FoldLeft(PlanEdit, Planned(source), wanted) = FP!FoldOf(Planned(source), wanted)
      BY DEF FP!FoldOf, FoldLeft, MapThenFoldSet, FP!FoldLeft, FP!MapThenFoldSet, Max, FP!Max
    <2> QED
      BY <2>2, <2>3
  <1>2. FoldLeft(TakeOut, 0, wanted) = FO!FoldOf(0, wanted)
    BY DEF FO!FoldOf, FoldLeft, MapThenFoldSet, FO!FoldLeft, FO!MapThenFoldSet, Max, FO!Max
  <1>3. FoldLeft(PutIn, 0, wanted) = FI!FoldOf(0, wanted)
    BY DEF FI!FoldOf, FoldLeft, MapThenFoldSet, FI!FoldLeft, FI!MapThenFoldSet, Max, FI!Max
  <1>s. Stands(start, 0, 0, z)
    BY <1>0 DEF Stands
  <1> HIDE DEF start, n, z
  <1>4. PICK u : FP!Trail(u, start, wanted, n)
    BY <1>0, FP!FoldSteps
  <1>5. PICK o : FO!Trail(o, 0, wanted, n)
    BY <1>0, FO!FoldSteps
  <1>6. PICK w : FI!Trail(w, 0, wanted, n)
    BY <1>0, FI!FoldSteps
  <1>7. u[0] = start /\ u[n] = FP!FoldOf(start, wanted) /\ \A i \in 1..n : u[i] = PlanEdit(u[i - 1], wanted[i])
    BY <1>4 DEF FP!Trail
  <1>8. o[0] = 0 /\ o[n] = FO!FoldOf(0, wanted) /\ \A i \in 1..n : o[i] = TakeOut(o[i - 1], wanted[i])
    BY <1>5 DEF FO!Trail
  <1>9. w[0] = 0 /\ w[n] = FI!FoldOf(0, wanted) /\ \A i \in 1..n : w[i] = PutIn(w[i - 1], wanted[i])
    BY <1>6 DEF FI!Trail
  <1> DEFINE T == {i \in Nat : Stands(u[i], o[i], w[i], z) /\ o[i] \in Nat /\ w[i] \in Nat}
  <1>10. \A i \in 0..n : i \in T
    <2>1. 0 \in T
      BY <1>s, <1>7, <1>8, <1>9
    <2>2. ASSUME NEW i \in Nat, i < n, i \in T PROVE i + 1 \in T
      <3>1. i + 1 \in 1..n /\ (i + 1) - 1 = i
        BY <1>0, <2>2
      <3>2. /\ u[i + 1] = PlanEdit(u[i], wanted[i + 1]) /\ o[i + 1] = TakeOut(o[i], wanted[i + 1])
            /\ w[i + 1] = PutIn(w[i], wanted[i + 1]) /\ wanted[i + 1] \in FileEdit
        BY <1>0, <1>7, <1>8, <1>9, <3>1
      <3>3. /\ Stands(PlanEdit(u[i], wanted[i + 1]), TakeOut(o[i], wanted[i + 1]), PutIn(w[i], wanted[i + 1]), z)
            /\ TakeOut(o[i], wanted[i + 1]) \in Nat /\ PutIn(w[i], wanted[i + 1]) \in Nat
        BY <1>0, <2>2, <3>2, EditStands
      <3> QED
        BY <3>2, <3>3
    <2> HIDE DEF T
    <2> QED
      BY <1>0, <2>1, <2>2, FJ!UpTo
  <1>11. Stands(PlanFileEdits(source, wanted), FoldLeft(TakeOut, 0, wanted), FoldLeft(PutIn, 0, wanted), z)
    <2>1. Stands(u[n], o[n], w[n], z)
      BY <1>0, <1>10
    <2> QED
      BY <1>1, <1>2, <1>3, <1>7, <1>8, <1>9, <2>1
  <1> QED
    BY <1>11, PlannedIs DEF Stands, z

LEMMA FileEditIs == ASSUME NEW call \in FileCalls, NEW i \in DOMAIN call.files, call.op = "edit"
                    PROVE  call.files[i].edits \in Seq(FileEdit)
  BY FileCallsAssumption DEF FileEdit

Folder == [DOMAIN FirstFiles -> Contents]
FileOf(call, i) == FileNamed[call.files[i].path]

LEMMA CallIs == ASSUME NEW call \in FileCalls
                PROVE  /\ IsSeq(call.files) /\ Len(call.files) \in Nat /\ DOMAIN call.files = 1..Len(call.files)
                       /\ \A i \in 1..Len(call.files) : FileOf(call, i) \in DOMAIN FirstFiles
  <1>1. IsSeq(call.files)
    BY FileCallsAssumption, SeqIn
  <1> QED
    BY <1>1, SeqIs, FileCallsAssumption DEF FileOf

LEMMA PlanIs ==
    ASSUME NEW on \in Folder, NEW call \in FileCalls, NEW i \in 1..Len(call.files)
    PROVE  LET p == PlanAll(on, call)[i]
           IN  /\ p.file = FileOf(call, i)
               /\ p.plan.ok => p.plan.output \in Contents
               /\ p.plan.ok /\ call.op = "edit" =>
                    LET wanted == call.files[i].edits
                        before == on[FileOf(call, i)]
                    IN  /\ before \in Seq(Tokens) /\ p.plan.output \in Seq(Tokens)
                        /\ PlanFileEdits(before, wanted) = Planned(p.plan.output)
                        /\ Len(p.plan.output) + FoldLeft(TakeOut, 0, wanted) = Len(before) + FoldLeft(PutIn, 0, wanted)
  <1> DEFINE p == PlanAll(on, call)[i]
             c == call.files[i]
             before == on[FileOf(call, i)]
             wanted == c.edits
  <1>1. p = PlanOne(on, call.op, c)
    BY CallIs DEF PlanAll
  <1>2. before \in Contents /\ i \in DOMAIN call.files
    BY CallIs DEF Folder
  <1>3. p.file = FileOf(call, i)
    BY <1>1 DEF PlanOne, FileOf
  <1>4. CASE call.op = "edit"
    <2>1. p.plan = IF before = NoFile THEN Refusal ELSE PlanFileEdits(before, wanted)
      BY <1>1, <1>4 DEF PlanOne, FileOf
    <2>2. wanted \in Seq(FileEdit)
      BY <1>2, <1>4, FileEditIs
    <2> HIDE DEF p, wanted, before
    <2> SUFFICES ASSUME p.plan.ok
                 PROVE  /\ before \in Seq(Tokens) /\ p.plan.output \in Seq(Tokens)
                        /\ PlanFileEdits(before, wanted) = Planned(p.plan.output)
                        /\ Len(p.plan.output) + FoldLeft(TakeOut, 0, wanted) = Len(before) + FoldLeft(PutIn, 0, wanted)
      BY <1>3, <1>4 DEF Contents, p, wanted, before
    <2>3. before \in Seq(Tokens) /\ p.plan = PlanFileEdits(before, wanted)
      BY <1>2, <2>1, PlannedIs DEF Contents
    <2>4. PICK x \in Seq(Tokens) : /\ PlanFileEdits(before, wanted) = Planned(x)
                                   /\ Len(x) + FoldLeft(TakeOut, 0, wanted) = Len(before) + FoldLeft(PutIn, 0, wanted)
      BY <2>2, <2>3, EditsStand
    <2>5. p.plan.output = x
      BY <2>3, <2>4, PlannedIs
    <2> QED
      BY <2>3, <2>4, <2>5
  <1>5. CASE call.op = "write"
    <2>1. p.plan = Planned(c.content) /\ c.content \in Seq(Tokens)
      BY <1>1, <1>2, <1>5, FileCallsAssumption DEF PlanOne, PlanWrite
    <2>2. p.plan.output \in Contents
      BY <2>1, PlannedIs DEF Contents
    <2> QED
      BY <1>3, <1>5, <2>2
  <1>6. CASE call.op = "delete"
    <2>1. p.plan = Refusal \/ p.plan = Planned(NoFile)
      BY <1>1, <1>6 DEF PlanOne, PlanDelete
    <2>2. p.plan.ok => p.plan.output \in Contents
      BY <2>1, PlannedIs DEF Contents
    <2> QED
      BY <1>3, <1>6, <2>2
  <1> QED
    BY <1>4, <1>5, <1>6, FileCallsAssumption

(* Where each file is spelled once, no two of the plans are for one file.  *)
LEMMA SpelledOnce ==
    ASSUME NEW call \in FileCalls, OneSpellingEach(call), NEW i \in 1..Len(call.files), NEW j \in 1..Len(call.files),
           FileOf(call, i) = FileOf(call, j)
    PROVE  i = j
  <1> DEFINE n == Len(call.files)
             f == [m \in 1..n |-> FileOf(call, m)]
  <1>0. n \in Nat /\ DOMAIN call.files = 1..n
    BY CallIs
  <1>1. Named(call) = {f[m] : m \in 1..n}
    BY <1>0 DEF Named, FileOf
  <1>2. f \in Surjection(1..n, Named(call))
    <2>1. f = [m \in 1..n |-> f[m]]
      OBVIOUS
    <2> HIDE DEF f, n
    <2>2. f \in [1..n -> Named(call)]
      BY <1>1, <2>1
    <2>3. \A x \in Named(call) : \E m \in 1..n : f[m] = x
      BY <1>1
    <2> QED
      BY <2>2, <2>3 DEF Surjection
  <1>3. IsFiniteSet(1..n) /\ Cardinality(1..n) = n
    <2> HIDE DEF f, n
    <2>1. /\ IsFiniteSet(1..n)
          /\ Cardinality(1..n) = IF 1 > n THEN 0 ELSE n - 1 + 1
      BY <1>0, FS_Interval
    <2>2. (IF 1 > n THEN 0 ELSE n - 1 + 1) = n
      BY <1>0
    <2> QED
      BY <2>1, <2>2
  <1>4. Cardinality(Named(call)) = Cardinality(1..n)
    BY <1>3 DEF OneSpellingEach
  <1>5. f \in Injection(1..n, Named(call))
    BY <1>2, <1>3, <1>4, FS_Surjection
  <1>6. f[i] = f[j]
    OBVIOUS
  <1> QED
    BY <1>5, <1>6 DEF Injection, IsInjective

-----------------------------------------------------------------------------
(* The invariant                                                           *)

ProposalOK(c) == c.call \in FileCalls /\ c.shown = PlanAll(c.on, c.call)
Plans == PlanAll(base, accepted.call)
Long == Len(accepted.call.files)

(* The first k plans of the call are written, and nothing else.            *)
WrittenTo(k) ==
    /\ \A i \in 1..k : files[Plans[i].file] = Plans[i].plan.output
    /\ \A f \in DOMAIN FirstFiles : (\A i \in 1..k : Plans[i].file # f) => files[f] = base[f]
AllOK == \A i \in 1..Long : Plans[i].plan.ok

Progress(k) ==
    /\ toWrite # <<>> => /\ k < Long /\ toWrite = [j \in 1..(Long - k) |-> Plans[k + j]]
                         /\ AllOK /\ outcome = "none"
    /\ outcome = "applied" => k = Long /\ AllOK
    /\ OneSpellingEach(accepted.call) => WrittenTo(k)

EditInv ==
    /\ files \in Folder /\ base \in Folder
    /\ proposal = NoProposal \/ ProposalOK(proposal)
    /\ accepted = NoProposal \/ ProposalOK(accepted)
    /\ toWrite # <<>> => proposal = NoProposal
    /\ outcome = "refused" => files = base
    /\ \E k \in 0..Long : Progress(k)

LEMMA RunningIs ==
    ASSUME accepted = NoProposal \/ ProposalOK(accepted)
    PROVE  Long \in Nat /\ (Long # 0 => ProposalOK(accepted)) /\ DOMAIN accepted.call.files = 1..Long
  <1>1. NoProposal.call.files = <<>> /\ Len(<<>>) = 0 /\ DOMAIN <<>> = 1..0
    BY DEF NoProposal
  <1> QED
    BY <1>1, CallIs DEF ProposalOK, Long

LEMMA InvInit == EditInit => EditInv
  <1> SUFFICES ASSUME EditInit PROVE EditInv
    OBVIOUS
  <1>1. files = FirstFiles /\ base = FirstFiles /\ proposal = NoProposal /\ accepted = NoProposal /\ toWrite = <<>> /\ outcome = "none"
    BY DEF EditInit
  <1>2. Long = 0
    BY <1>1 DEF Long, NoProposal
  <1>3. 0 \in 0..Long /\ 1..0 = {}
    BY <1>2
  <1>4. Progress(0)
    BY <1>1, <1>3 DEF Progress, WrittenTo
  <1>5. FirstFiles \in Folder
    BY ContentsAssumption DEF Folder
  <1> QED
    BY <1>1, <1>3, <1>4, <1>5 DEF EditInv

(* Who writes no file and starts no call leaves the account where it was.  *)
LEMMA RestHolds ==
    ASSUME EditInv, UNCHANGED <<files, accepted, toWrite, base>>,
           outcome' = outcome \/ outcome' = "none",
           proposal' = NoProposal \/ (proposal' = proposal) \/ (toWrite = <<>> /\ ProposalOK(proposal)')
    PROVE  EditInv'
  <1>1. PICK k \in 0..Long : Progress(k)
    BY DEF EditInv
  <1>2. Plans' = Plans /\ Long' = Long
    BY DEF Plans, Long
  <1>3. Progress(k)'
    <2>1. WrittenTo(k)' <=> WrittenTo(k)
      BY <1>2 DEF WrittenTo
    <2>2. AllOK' <=> AllOK
      BY <1>2 DEF AllOK
    <2>3. OneSpellingEach(accepted.call)' <=> OneSpellingEach(accepted.call)
      BY DEF OneSpellingEach, Named
    <2> QED
      BY <1>1, <1>2, <2>1, <2>2, <2>3 DEF Progress
  <1>4. (accepted = NoProposal \/ ProposalOK(accepted))'
    BY DEF EditInv, ProposalOK
  <1>5. (proposal = NoProposal \/ ProposalOK(proposal))'
    BY DEF EditInv, ProposalOK
  <1>6. (toWrite # <<>> => proposal = NoProposal)' /\ (outcome = "refused" => files = base)'
    BY DEF EditInv
  <1> QED
    BY <1>1, <1>2, <1>3, <1>4, <1>5, <1>6 DEF EditInv

LEMMA ExecuteHolds == ASSUME EditInv, Execute PROVE EditInv'
  <1>1. proposal # NoProposal /\ proposal' = NoProposal /\ accepted' = proposal /\ base' = files /\ files' = files
    BY DEF Execute
  <1>2. ProposalOK(proposal) /\ toWrite = <<>>
    BY <1>1 DEF EditInv
  <1>3. ProposalOK(accepted)'
    BY <1>1, <1>2 DEF ProposalOK
  <1>4. Plans' = PlanNow /\ Long' = Len(proposal.call.files)
    BY <1>1 DEF Plans, PlanNow, Long
  <1>5. Long' \in Nat /\ DOMAIN proposal.call.files = 1..Long'
    BY <1>2, <1>4, CallIs DEF ProposalOK
  <1>6. WrittenTo(0)'
    BY <1>1 DEF WrittenTo
  <1>7. CASE outcome' = "refused" /\ UNCHANGED toWrite
    <2>1. Progress(0)'
      BY <1>2, <1>6, <1>7 DEF Progress
    <2> QED
      BY <1>1, <1>2, <1>3, <1>5, <1>7, <2>1 DEF EditInv
  <1>8. CASE ReadFilesArg(proposal.call) /\ ~Refuses(PlanNow) /\ toWrite' = PlanNow /\ outcome' = "none"
    <2>1. Long' # 0
      BY <1>2, <1>4, <1>8, CallIs, SeqIs, EmptySeq DEF ReadFilesArg, ProposalOK, IsSeq
    <2>2. PlanNow = [i \in 1..Long' |-> PlanNow[i]]
      BY <1>5 DEF PlanNow, PlanAll
    <2>3. \A i \in 1..Long' : PlanNow[i].plan.ok
      BY <1>8, <2>2 DEF Refuses
    <2>4. AllOK'
      BY <1>4, <2>3 DEF AllOK
    <2>5. toWrite' = [j \in 1..(Long' - 0) |-> Plans'[0 + j]]
      <3>1. ASSUME NEW n \in Nat, NEW q, q = [i \in 1..n |-> q[i]]
            PROVE  q = [j \in 1..(n - 0) |-> q[0 + j]]
        <4>1. n - 0 = n /\ \A j \in 1..n : 0 + j = j
          OBVIOUS
        <4>2. [j \in 1..(n - 0) |-> q[0 + j]] = [j \in 1..n |-> q[j]]
          BY <4>1
        <4> QED
          BY <3>1, <4>2
      <3>2. PICK n \in Nat : n = Long'
        BY <1>5
      <3>3. PICK q : q = PlanNow
        OBVIOUS
      <3>4. q = [i \in 1..n |-> q[i]]
        BY <2>2, <3>2, <3>3
      <3>5. q = [j \in 1..(n - 0) |-> q[0 + j]]
        BY <3>1, <3>4
      <3>6. toWrite' = q /\ Plans' = q
        BY <1>4, <1>8, <3>3
      <3> QED
        BY <3>2, <3>5, <3>6
    <2>6. Progress(0)'
      <3>1. 0 < Long'
        BY <1>5, <2>1
      <3>2. outcome' = "none"
        BY <1>8
      <3>3. outcome' # "applied"
        BY <3>2
      <3>4. (OneSpellingEach(accepted.call) => WrittenTo(0))'
        BY <1>6
      <3> QED
        BY <2>4, <2>5, <3>1, <3>2, <3>3, <3>4, Zenon DEF Progress
    <2> QED
      BY <1>1, <1>3, <1>5, <1>8, <2>6 DEF EditInv
  <1> QED
    BY <1>7, <1>8 DEF Execute

LEMMA WriteHolds == ASSUME EditInv, WriteOne PROVE EditInv'
  <1>1. PICK k \in 0..Long : Progress(k)
    BY DEF EditInv
  <1>2. toWrite # <<>> /\ UNCHANGED <<proposal, accepted, base>>
    BY DEF WriteOne, Working
  <1>3. k < Long /\ toWrite = [j \in 1..(Long - k) |-> Plans[k + j]] /\ AllOK /\ outcome = "none" /\ proposal = NoProposal
    BY <1>1, <1>2 DEF Progress, EditInv
  <1>4. Long \in Nat /\ Long # 0 /\ ProposalOK(accepted) /\ k \in Nat
    <2>1. Long \in Nat /\ (Long # 0 => ProposalOK(accepted))
      BY RunningIs DEF EditInv
    <2> QED
      BY <1>3, <2>1
  <1> DEFINE rest == [j \in 1..(Long - (k + 1)) |-> Plans[(k + 1) + j]]
  <1>5. Head(toWrite) = Plans[k + 1] /\ Len(toWrite) = Long - k /\ Tail(toWrite) = rest
    <2>1. ASSUME NEW n \in Nat, n # 0, NEW q, NEW s, s = [j \in 1..n |-> q[j]]
          PROVE  Head(s) = q[1] /\ Len(s) = n /\ Tail(s) = [j \in 1..(n - 1) |-> q[j + 1]]
      <3>1. IsSeq(s) /\ Len(s) = n /\ DOMAIN s = 1..n
        <4>1. s = [j \in 1..n |-> s[j]]
          BY <2>1
        <4> QED
          BY <4>1, SeqIntro
      <3>2. Tail(s) = [j \in 1..(n - 1) |-> s[j + 1]]
        BY <2>1, <3>1 DEF IsSeq
      <3>3. \A j \in 1..(n - 1) : j + 1 \in 1..n
        OBVIOUS
      <3>4. Head(s) = s[1] /\ 1 \in 1..n
        BY <2>1, <3>1 DEF IsSeq
      <3> QED
        BY <2>1, <3>1, <3>2, <3>3, <3>4
    <2> DEFINE q == [j \in 1..(Long - k) |-> Plans[k + j]]
    <2>2. q = [j \in 1..(Long - k) |-> q[j]] /\ toWrite = q /\ Long - k \in Nat /\ Long - k # 0
      BY <1>3, <1>4
    <2>3. \A j \in 1..(Long - k) : q[j] = Plans[k + j]
      OBVIOUS
    <2>4. 1 \in 1..(Long - k) /\ \A j \in 1..((Long - k) - 1) : j + 1 \in 1..(Long - k) /\ k + (j + 1) = (k + 1) + j
      BY <1>3, <1>4
    <2>5. (Long - k) - 1 = Long - (k + 1)
      BY <1>3, <1>4
    <2> HIDE DEF q
    <2>6. Head(q) = q[1] /\ Len(q) = Long - k /\ Tail(q) = [j \in 1..((Long - k) - 1) |-> q[j + 1]]
      BY <2>1, <2>2
    <2> QED
      BY <2>2, <2>3, <2>4, <2>5, <2>6
  <1>6. k + 1 \in 1..Long /\ k + 1 \in 0..Long
    BY <1>3, <1>4
  <1> DEFINE p == Plans[k + 1]
  <1>7. files' = [files EXCEPT ![p.file] = p.plan.output] /\ toWrite' = rest
        /\ outcome' = IF Long - k = 1 THEN "applied" ELSE "none"
    BY <1>3, <1>5 DEF WriteOne
  <1>8. \A i \in 1..Long : Plans[i].file = FileOf(accepted.call, i) /\ Plans[i].file \in DOMAIN FirstFiles
    <2>1. \A i \in 1..Len(accepted.call.files) :
             PlanAll(base, accepted.call)[i].file = FileOf(accepted.call, i) /\ FileOf(accepted.call, i) \in DOMAIN FirstFiles
      BY <1>4, PlanIs, CallIs DEF ProposalOK, EditInv
    <2> QED
      BY <2>1 DEF Plans, Long
  <1>9. p.plan.output \in Contents
    <2>1. PlanAll(base, accepted.call)[k + 1].plan.ok => PlanAll(base, accepted.call)[k + 1].plan.output \in Contents
      BY <1>4, <1>6, PlanIs DEF ProposalOK, EditInv, Long
    <2> QED
      BY <1>3, <1>6, <2>1 DEF Plans, AllOK
  <1> HIDE DEF p, rest
  <1>10. files' \in Folder
    BY <1>6, <1>7, <1>9 DEF EditInv, Folder
  <1>11. Plans' = Plans /\ Long' = Long
    BY <1>2 DEF Plans, Long
  <1>12. OneSpellingEach(accepted.call) => WrittenTo(k + 1)'
    <2> SUFFICES ASSUME OneSpellingEach(accepted.call) PROVE WrittenTo(k + 1)'
      OBVIOUS
    <2>0. WrittenTo(k)
      BY <1>1 DEF Progress
    <2>1. p.file \in DOMAIN files /\ DOMAIN files = DOMAIN FirstFiles
      BY <1>6, <1>8 DEF p, EditInv, Folder
    <2>2. ASSUME NEW i \in 1..(k + 1) PROVE files'[Plans[i].file] = Plans[i].plan.output
      <3>1. CASE i = k + 1
        BY <1>7, <2>1, <3>1 DEF p
      <3>2. CASE i # k + 1
        <4>1. i \in 1..k /\ i \in 1..Long /\ i # k + 1
          BY <1>4, <1>6, <3>2
        <4>2. Plans[i].file # p.file
          <5>1. FileOf(accepted.call, i) # FileOf(accepted.call, k + 1)
            BY <1>4, <1>6, <4>1, SpelledOnce DEF ProposalOK, Long
          <5> QED
            BY <1>6, <1>8, <4>1, <5>1 DEF p
        <4>3. files'[Plans[i].file] = files[Plans[i].file]
          BY <1>7, <1>8, <2>1, <4>1, <4>2
        <4> QED
          BY <2>0, <4>1, <4>3 DEF WrittenTo
      <3> QED
        BY <3>1, <3>2
    <2>3. ASSUME NEW f \in DOMAIN FirstFiles, \A i \in 1..(k + 1) : Plans[i].file # f PROVE files'[f] = base[f]
      <3>1. k + 1 \in 1..(k + 1) /\ \A i \in 1..k : i \in 1..(k + 1)
        BY <1>4
      <3>2. f # p.file /\ \A i \in 1..k : Plans[i].file # f
        BY <2>3, <3>1 DEF p
      <3>3. files[f] = base[f]
        BY <2>0, <3>2 DEF WrittenTo
      <3> QED
        BY <1>7, <2>1, <3>2, <3>3
    <2> QED
      BY <1>2, <1>11, <2>2, <2>3 DEF WrittenTo
  <1>13. Progress(k + 1)'
    <2>1. OneSpellingEach(accepted.call)' <=> OneSpellingEach(accepted.call)
      BY <1>2 DEF OneSpellingEach, Named
    <2>2. AllOK'
      BY <1>3, <1>11 DEF AllOK
    <2>3. toWrite' # <<>> => k + 1 < Long /\ outcome' = "none"
      <3>1. CASE Long - k = 1
        <4>1. 1..(Long - (k + 1)) = {}
          BY <1>4, <3>1
        <4>2. rest = <<>>
          BY <4>1 DEF rest
        <4> QED
          BY <1>7, <4>2
      <3>2. CASE Long - k # 1
        BY <1>3, <1>4, <1>7, <3>2
      <3> QED
        BY <3>1, <3>2
    <2>4. outcome' = "applied" => k + 1 = Long
      BY <1>4, <1>7
    <2>5. toWrite' = [j \in 1..(Long - (k + 1)) |-> Plans[(k + 1) + j]]
      BY <1>7 DEF rest
    <2> QED
      BY <1>11, <1>12, <2>1, <2>2, <2>3, <2>4, <2>5 DEF Progress
  <1>14. (proposal = NoProposal)' /\ ProposalOK(accepted)' /\ base' \in Folder /\ outcome' # "refused"
    BY <1>2, <1>3, <1>4, <1>7 DEF ProposalOK, EditInv
  <1>15. k + 1 \in 0..Long'
    BY <1>6, <1>11
  <1> QED
    BY <1>10, <1>13, <1>14, <1>15 DEF EditInv

LEMMA FailHolds == ASSUME EditInv, WriteFails PROVE EditInv'
  <1>1. PICK k \in 0..Long : Progress(k)
    BY DEF EditInv
  <1>2. /\ toWrite' = <<>> /\ UNCHANGED <<files, proposal, accepted, base>>
        /\ outcome' = IF files = base THEN "refused" ELSE "partial"
    BY DEF WriteFails
  <1>3. Plans' = Plans /\ Long' = Long
    BY <1>2 DEF Plans, Long
  <1>4. Progress(k)'
    <2>1. WrittenTo(k)' <=> WrittenTo(k)
      BY <1>2, <1>3 DEF WrittenTo
    <2>2. OneSpellingEach(accepted.call)' <=> OneSpellingEach(accepted.call)
      BY <1>2 DEF OneSpellingEach, Named
    <2> QED
      BY <1>1, <1>2, <2>1, <2>2 DEF Progress
  <1> QED
    BY <1>1, <1>2, <1>3, <1>4 DEF EditInv, ProposalOK

LEMMA ForeignHolds == ASSUME EditInv, NEW f \in DOMAIN files, NEW text \in ForeignBodies, SomebodyWrites(f, text)
                      PROVE EditInv'
  <1>1. /\ toWrite = <<>> /\ files' = [files EXCEPT ![f] = text] /\ base' = files' /\ outcome' = "none"
        /\ UNCHANGED <<proposal, accepted, toWrite>>
    BY DEF SomebodyWrites, Working
  <1>2. files' \in Folder
    BY <1>1, ContentsAssumption DEF EditInv, Folder
  <1>3. WrittenTo(0)' /\ Long' = Long
    BY <1>1 DEF WrittenTo, Long
  <1>4. Progress(0)'
    BY <1>1, <1>3 DEF Progress
  <1>5. 0 \in 0..Long'
    BY <1>3, RunningIs DEF EditInv
  <1> QED
    BY <1>1, <1>2, <1>4, <1>5 DEF EditInv, ProposalOK

LEMMA InvStep == EditInv /\ [EditNext]_editVars => EditInv'
  <1> SUFFICES ASSUME EditInv, [EditNext]_editVars PROVE EditInv'
    OBVIOUS
  <1>1. CASE UNCHANGED editVars
    <2>1. UNCHANGED <<files, accepted, toWrite, base, outcome, proposal>>
      BY <1>1 DEF editVars
    <2> QED
      BY <2>1, RestHolds
  <1>2. ASSUME NEW call \in FileCalls, Preview(call) PROVE EditInv'
    <2>1. /\ UNCHANGED <<files, accepted, toWrite, base>> /\ outcome' = "none" /\ toWrite = <<>>
          /\ proposal' = [call |-> call, shown |-> PlanAll(files, call), on |-> files]
      BY <1>2 DEF Preview, Working
    <2>2. ProposalOK(proposal)'
      BY <2>1 DEF ProposalOK
    <2> QED
      BY <2>1, <2>2, RestHolds
  <1>3. CASE DeclineEdit
    <2>1. UNCHANGED <<files, accepted, toWrite, base, outcome>> /\ proposal' = NoProposal
      BY <1>3 DEF DeclineEdit
    <2> QED
      BY <2>1, RestHolds
  <1>4. CASE Execute
    BY <1>4, ExecuteHolds
  <1>5. CASE WriteOne
    BY <1>5, WriteHolds
  <1>6. CASE WriteFails
    BY <1>6, FailHolds
  <1>7. ASSUME NEW f \in DOMAIN files, NEW text \in ForeignBodies, SomebodyWrites(f, text) PROVE EditInv'
    BY <1>7, ForeignHolds
  <1> QED
    BY <1>1, <1>2, <1>3, <1>4, <1>5, <1>6, <1>7 DEF EditNext

(* For calls with any number of files and edits, files of any length and   *)
(* anybody else writing in between: a call changes every file it names or  *)
(* none, from what the files are when it runs, as the proposal showed where    *)
(* nobody wrote, and at as many places as it announced (planFileEdits and  *)
(* the execute of apply_edits, write_file and delete_file).                *)
THEOREM BatchesAreWhole == EditSpec => []BatchIsWhole
  <1>1. EditInv => BatchIsWhole
    <2> SUFFICES ASSUME EditInv PROVE BatchIsWhole
      OBVIOUS
    <2> DEFINE call == accepted.call
               c(f) == call.files[CHOOSE i \in DOMAIN call.files : FileNamed[call.files[i].path] = f]
    <2> SUFFICES ASSUME OneSpellingEach(call)
                 PROVE  /\ outcome = "refused" => files = base
                        /\ \A f \in DOMAIN files : f \notin Named(call) => files[f] = base[f]
                        /\ outcome = "applied" /\ call.op = "edit" => \A f \in Named(call) :
                              /\ NoFile \notin {base[f], files[f]}
                              /\ Planned(files[f]) = PlanFileEdits(base[f], c(f).edits)
                              /\ Len(files[f]) + FoldLeft(TakeOut, 0, c(f).edits)
                                 = Len(base[f]) + FoldLeft(PutIn, 0, c(f).edits)
                        /\ accepted.on = base /\ outcome = "applied" =>
                              \A i \in DOMAIN accepted.shown :
                                  accepted.shown[i].plan.ok /\ files[accepted.shown[i].file] = accepted.shown[i].plan.output
      BY DEF BatchIsWhole
    <2>1. PICK k \in 0..Long : Progress(k)
      BY DEF EditInv
    <2>2. WrittenTo(k) /\ DOMAIN files = DOMAIN FirstFiles
      BY <2>1 DEF Progress, EditInv, Folder
    <2>3. Long \in Nat /\ (Long # 0 => ProposalOK(accepted)) /\ DOMAIN call.files = 1..Long
      BY RunningIs DEF EditInv
    <2>4. \A i \in 1..Long : Plans[i].file = FileOf(call, i)
      <3> SUFFICES ASSUME NEW i \in 1..Long PROVE Plans[i].file = FileOf(call, i)
        OBVIOUS
      <3>1. ProposalOK(accepted)
        BY <2>3
      <3>2. PlanAll(base, call)[i].file = FileOf(call, i)
        BY <3>1, PlanIs DEF ProposalOK, EditInv, Long
      <3> QED
        BY <3>2 DEF Plans
    <2>5. outcome = "refused" => files = base
      BY DEF EditInv
    <2>6. ASSUME NEW f \in DOMAIN files, f \notin Named(call) PROVE files[f] = base[f]
      <3>1. \A i \in 1..k : i \in 1..Long
        BY <2>3
      <3>2. \A i \in 1..k : Plans[i].file # f
        BY <2>3, <2>4, <2>6, <3>1 DEF Named, FileOf
      <3> QED
        BY <2>2, <3>2 DEF WrittenTo
    <2>7. ASSUME outcome = "applied", call.op = "edit", NEW f \in Named(call)
          PROVE  /\ NoFile \notin {base[f], files[f]}
                 /\ Planned(files[f]) = PlanFileEdits(base[f], c(f).edits)
                 /\ Len(files[f]) + FoldLeft(TakeOut, 0, c(f).edits)
                    = Len(base[f]) + FoldLeft(PutIn, 0, c(f).edits)
      <3>1. PICK i \in 1..Long : i = CHOOSE j \in DOMAIN call.files : FileNamed[call.files[j].path] = f
        <4>1. \E j \in DOMAIN call.files : FileNamed[call.files[j].path] = f
          BY <2>7 DEF Named
        <4> QED
          BY <2>3, <4>1
      <3>2. FileOf(call, i) = f /\ c(f) = call.files[i]
        <4>1. \E j \in DOMAIN call.files : FileNamed[call.files[j].path] = f
          BY <2>7 DEF Named
        <4> QED
          BY <3>1, <4>1 DEF FileOf
      <3>3. k = Long /\ AllOK /\ ProposalOK(accepted) /\ base \in Folder /\ i \in 1..k
        <4>1. k = Long /\ AllOK
          BY <2>1, <2>7 DEF Progress
        <4>2. base \in Folder
          BY DEF EditInv
        <4> QED
          BY <2>3, <3>1, <4>1, <4>2
      <3> DEFINE p == PlanAll(base, call)[i]
                 wanted == call.files[i].edits
      <3>4. files[f] = p.plan.output /\ p.plan.ok
        BY <2>2, <2>4, <3>2, <3>3 DEF WrittenTo, AllOK, Plans
      <3>5. /\ base[f] \in Seq(Tokens) /\ p.plan.output \in Seq(Tokens)
            /\ PlanFileEdits(base[f], wanted) = Planned(p.plan.output)
            /\ Len(p.plan.output) + FoldLeft(TakeOut, 0, wanted) = Len(base[f]) + FoldLeft(PutIn, 0, wanted)
        BY <2>7, <3>2, <3>3, <3>4, PlanIs DEF ProposalOK, Long
      <3> HIDE DEF p, wanted
      <3>6. NoFile \notin {base[f], files[f]}
        BY <3>4, <3>5, ContentsAssumption
      <3>7. c(f).edits = wanted
        BY <3>2 DEF wanted
      <3> HIDE DEF c
      <3> QED
        BY <3>4, <3>5, <3>6, <3>7
    <2>8. ASSUME accepted.on = base, outcome = "applied", NEW i \in DOMAIN accepted.shown
          PROVE  accepted.shown[i].plan.ok /\ files[accepted.shown[i].file] = accepted.shown[i].plan.output
      <3>1. accepted # NoProposal
        BY <2>8 DEF NoProposal
      <3>2. accepted.shown = Plans
        BY <2>8, <3>1 DEF EditInv, ProposalOK, Plans
      <3>3. i \in 1..Long /\ k = Long /\ AllOK
        BY <2>1, <2>3, <2>8, <3>2 DEF Plans, PlanAll, Progress
      <3> QED
        BY <2>2, <3>2, <3>3 DEF WrittenTo, AllOK
    <2> HIDE DEF c
    <2> QED
      BY <2>5, <2>6, <2>7, <2>8
  <1> QED
    BY <1>1, InvInit, InvStep, PTL DEF EditSpec

-----------------------------------------------------------------------------
(* What holds of Gate for any tools, files, calls, settings and any number *)
(* of sessions.  GateInv adds to the properties what they rest on: one-shot*)
(* grants are for paths the person has seen (OnceWasShown), and a card that*)
(* was raised where nothing may write, for a tool that may, says so        *)
(* (BlockedIsMarked).                                                      *)
OnceWasShown == \A s \in Sessions : once[s] \subseteq consented[s]
BlockedIsMarked == \A s \in Sessions :
    card[s] # None /\ ReadOnly(card[s].under) => card[s].kind = "read" \/ card[s].blocked

AsksAboutServers == \A s \in Sessions :
    card[s] # None /\ card[s].askWrite => card[s].call.tool \in Bridged

GateInv ==
    /\ TypeOK /\ LatestAnswerWins /\ GrantsAreSpent
    /\ OnceWasShown /\ BlockedIsMarked /\ AsksAboutServers

USE ToolsAssumption, FilesAssumption, CallsAssumption, SettingsAssumption, NoneAssumption
    DEF Tools

LEMMA InitHolds == Init => GateInv
  <1> SUFFICES ASSUME Init  PROVE GateInv
    OBVIOUS
  <1>1. TypeOK
    BY DEF Init, TypeOK
  <1>2. LatestAnswerWins
    <2>1. \A x \in Bridged \cup Fields : said[x] = "nothing"
      BY DEF Init
    <2> QED
      BY <2>1 DEF Init, LatestAnswerWins
  <1>3. GrantsAreSpent /\ OnceWasShown /\ BlockedIsMarked /\ AsksAboutServers
    BY DEF Init, GrantsAreSpent, OnceWasShown, BlockedIsMarked, AsksAboutServers
  <1> QED
    BY <1>1, <1>2, <1>3 DEF GateInv

(* What is raised on a card is what the code puts there.                   *)
LEMMA KindsKnown == ASSUME NEW l, NEW t \in Tools  PROVE Kind(l, t) \in Kinds
  BY DEF Kind, Kinds

LEMMA RaiseKeeps ==
    ASSUME GateInv, NEW s \in Sessions, NEW c \in Calls, Free(s),
           NEW blocked \in BOOLEAN, NEW asks \in SUBSET Fields,
           Raise(s, c, blocked, asks),
           ReadOnly(setting[s]) => Kind(learned, c.tool) = "read" \/ blocked
    PROVE  GateInv'
  <1> DEFINE k == [call |-> c, kind |-> Kind(learned, c.tool), blocked |-> blocked,
                   askWrite |-> Guessed(learned, c.tool), asks |-> asks, under |-> setting[s]]
  <1>1. k \in Cards
    <2>1. Kind(learned, c.tool) \in Kinds
      BY KindsKnown
    <2>2. setting[s] \in Settings
      BY DEF GateInv, TypeOK, Free
    <2>3. Guessed(learned, c.tool) \in BOOLEAN
      BY DEF Guessed
    <2> QED
      BY <2>1, <2>2, <2>3 DEF Cards
  <1>2. card' = [card EXCEPT ![s] = k]
    BY DEF Raise
  <1> HIDE DEF k
  <1>3. TypeOK'
    BY <1>1, <1>2 DEF GateInv, TypeOK, Raise, shared
  <1>4. BlockedIsMarked'
    <2>1. k.under = setting[s] /\ k.kind = Kind(learned, c.tool) /\ k.blocked = blocked
      BY DEF k
    <2> SUFFICES ASSUME NEW z \in Sessions, card'[z] # None, ReadOnly(card'[z].under)
                 PROVE  card'[z].kind = "read" \/ card'[z].blocked
      BY DEF BlockedIsMarked, ReadOnly
    <2>2. CASE z = s
      BY <1>2, <2>1, <2>2 DEF GateInv, TypeOK
    <2>3. CASE z # s
      BY <1>2, <2>3 DEF GateInv, TypeOK, BlockedIsMarked
    <2> QED
      BY <2>2, <2>3
  <1>5. LatestAnswerWins' /\ GrantsAreSpent' /\ OnceWasShown'
    BY DEF GateInv, Raise, shared, LatestAnswerWins, GrantsAreSpent, OnceWasShown
  <1>6. AsksAboutServers'
    <2>1. k.askWrite => k.call.tool \in Bridged
      BY DEF k, Guessed
    <2> SUFFICES ASSUME NEW z \in Sessions, card'[z] # None, card'[z].askWrite
                 PROVE  card'[z].call.tool \in Bridged
      BY DEF AsksAboutServers
    <2>2. CASE z = s
      BY <1>2, <2>1, <2>2 DEF GateInv, TypeOK
    <2>3. CASE z # s
      BY <1>2, <2>3 DEF GateInv, TypeOK, AsksAboutServers
    <2> QED
      BY <2>2, <2>3
  <1> QED
    BY <1>3, <1>4, <1>5, <1>6 DEF GateInv

(* Answers: each moves its tool or field to one list and out of the other. *)
LEMMA AnsweredKeeps ==
    ASSUME GateInv, NEW s \in Sessions, card[s] # None,
           NEW a \in AnswersTo(card[s]), Answered(s, a)
    PROVE  /\ card' \in [Sessions -> Cards \cup {None}]
           /\ learned' \in [write : SUBSET Bridged, read : SUBSET Bridged,
                            path : SUBSET Fields, prose : SUBSET Fields]
           /\ said' \in [Bridged \cup Fields -> {"nothing", "writes", "reads", "path", "prose"}]
           /\ LatestAnswerWins'
           /\ BlockedIsMarked' /\ AsksAboutServers'
  <1> DEFINE t == card[s].call.tool
  <1>1. card[s] \in Cards /\ t \in Tools /\ card[s].asks \subseteq Fields
    BY DEF GateInv, TypeOK, Cards
  <1>2. /\ a.writes \in {"", "writes", "reads"}
        /\ a.path \subseteq Fields /\ a.prose \subseteq Fields
        /\ a.path \cap a.prose = {}
        /\ a.writes # "" => card[s].askWrite
    BY <1>1 DEF AnswersTo
  <1>3. a.writes # "" => t \in Bridged
    BY <1>2 DEF GateInv, AsksAboutServers
  <1>4. /\ learned'.write = Moves(learned.write, IF a.writes = "writes" THEN {t} ELSE {},
                                                IF a.writes = "reads" THEN {t} ELSE {})
        /\ learned'.read = Moves(learned.read, IF a.writes = "reads" THEN {t} ELSE {},
                                              IF a.writes = "writes" THEN {t} ELSE {})
        /\ learned'.path = Moves(learned.path, a.path, a.prose)
        /\ learned'.prose = Moves(learned.prose, a.prose, a.path)
        /\ learned' = Learn(t, a)
    BY DEF Answered, Learn
  <1>5. \A x \in Bridged \cup Fields : said'[x] =
          IF x = t /\ a.writes # "" THEN a.writes
          ELSE IF x \in a.path THEN "path"
          ELSE IF x \in a.prose THEN "prose" ELSE said[x]
    BY DEF Answered, GateInv, TypeOK
  <1>6. said' \in [Bridged \cup Fields -> {"nothing", "writes", "reads", "path", "prose"}]
    <2>1. said' = [x \in Bridged \cup Fields |-> said'[x]]
      BY DEF Answered, GateInv, TypeOK
    <2>2. \A x \in Bridged \cup Fields : said'[x] \in {"nothing", "writes", "reads", "path", "prose"}
      BY <1>2, <1>5 DEF GateInv, TypeOK
    <2> QED
      BY <2>1, <2>2
  <1>7. learned' \in [write : SUBSET Bridged, read : SUBSET Bridged,
                      path : SUBSET Fields, prose : SUBSET Fields]
    <2>1. /\ learned.write \subseteq Bridged /\ learned.read \subseteq Bridged
          /\ learned.path \subseteq Fields /\ learned.prose \subseteq Fields
      BY DEF GateInv, TypeOK
    <2>2. /\ learned'.write \subseteq Bridged /\ learned'.read \subseteq Bridged
          /\ learned'.path \subseteq Fields /\ learned'.prose \subseteq Fields
      <3>1. learned'.write \subseteq Bridged
        BY <1>3, <1>4, <2>1 DEF Moves
      <3>2. learned'.read \subseteq Bridged
        BY <1>3, <1>4, <2>1 DEF Moves
      <3>3. learned'.path \subseteq Fields
        BY <1>2, <1>4, <2>1 DEF Moves
      <3>4. learned'.prose \subseteq Fields
        BY <1>2, <1>4, <2>1 DEF Moves
      <3> QED
        BY <3>1, <3>2, <3>3, <3>4
    <2>3. learned' = [write |-> learned'.write, read |-> learned'.read,
                      path |-> learned'.path, prose |-> learned'.prose]
      BY <1>4 DEF Learn
    <2> QED
      BY <2>2, <2>3
  <1>8. LatestAnswerWins'
    <2>1. \A x \in Bridged : x \notin Fields
      OBVIOUS
    <2>2. ASSUME NEW x \in Bridged
          PROVE  /\ x \in learned'.write <=> said'[x] = "writes"
                 /\ x \in learned'.read <=> said'[x] = "reads"
      <3>1. x \notin a.path /\ x \notin a.prose
        BY <1>2, <2>1
      <3>2. said'[x] = IF x = t /\ a.writes # "" THEN a.writes ELSE said[x]
        BY <1>5, <3>1
      <3>3. /\ x \in learned.write <=> said[x] = "writes"
            /\ x \in learned.read <=> said[x] = "reads"
        BY DEF GateInv, LatestAnswerWins
      <3> HIDE DEF t
      <3> QED
        BY <1>2, <1>4, <3>2, <3>3 DEF Moves
    <2>3. ASSUME NEW f \in Fields
          PROVE  /\ f \in learned'.path <=> said'[f] = "path"
                 /\ f \in learned'.prose <=> said'[f] = "prose"
      <3>1. ~(f = t /\ a.writes # "")
        BY <1>3
      <3>2. said'[f] = IF f \in a.path THEN "path" ELSE IF f \in a.prose THEN "prose" ELSE said[f]
        BY <1>5, <3>1
      <3>3. /\ f \in learned.path <=> said[f] = "path"
            /\ f \in learned.prose <=> said[f] = "prose"
        BY DEF GateInv, LatestAnswerWins
      <3> QED
        BY <1>2, <1>4, <3>2, <3>3 DEF Moves
    <2> QED
      BY <2>2, <2>3 DEF LatestAnswerWins
  <1>9. card' = [card EXCEPT ![s] = None]
    BY DEF Answered
  <1>10. card' \in [Sessions -> Cards \cup {None}] /\ BlockedIsMarked' /\ AsksAboutServers'
    BY <1>9 DEF GateInv, TypeOK, BlockedIsMarked, AsksAboutServers, ReadOnly
  <1> QED
    BY <1>6, <1>7, <1>8, <1>10

(* An approval runs a call of the card's tool, with the lists as its       *)
(* answers leave them.                                                     *)
LEMMA ApprovalRuns ==
    ASSUME NEW s \in Sessions, RunByConsent(s)
    PROVE  \E c \in Calls, dirs \in SUBSET Dirs :
             /\ c.tool = card[s].call.tool /\ MayRun(s, learned')
             /\ RunGranted(s, c, Escapes(s, learned', c), dirs)
  <1>1. PICK a \in AnswersTo(card[s]), c \in Calls : RunByConsent(s)!2!(a, c)
    BY DEF RunByConsent
  <1>2. learned' = Learn(card[s].call.tool, a)
    BY <1>1 DEF Answered
  <1>3. PICK dirs \in Grants(Escapes(s, learned', c)) :
          RunGranted(s, c, Escapes(s, learned', c), dirs)
    BY <1>1, <1>2
  <1>4. dirs \subseteq Dirs
    <2>1. Escapes(s, learned', c) \subseteq Paths
      BY DEF Escapes, Fenced
    <2>2. OwnDirs(Escapes(s, learned', c)) \subseteq Dirs
      BY <2>1 DEF OwnDirs
    <2> QED
      BY <2>2 DEF Grants
  <1>5. c.tool = card[s].call.tool /\ MayRun(s, learned')
    BY <1>1, <1>2
  <1> QED
    BY <1>3, <1>4, <1>5

LEMMA ConsentKeeps == ASSUME GateInv, NEW s \in Sessions, RunByConsent(s)  PROVE GateInv'
  <1>1. PICK c \in Calls, dirs \in SUBSET Dirs :
          /\ c.tool = card[s].call.tool /\ MayRun(s, learned')
          /\ RunGranted(s, c, Escapes(s, learned', c), dirs)
    BY ApprovalRuns
  <1> DEFINE escapes == Escapes(s, learned', c)
             names == IF dirs = OwnDirs(escapes) THEN {} ELSE dirs
             call == [call |-> c, byCard |-> TRUE, named |-> names]
  <1>2. PICK a \in AnswersTo(card[s]) : Answered(s, a)
    BY DEF RunByConsent
  <1>3. escapes \subseteq {c.at[f] : f \in DOMAIN c.at} /\ escapes \subseteq Paths
    BY DEF Escapes, Fenced
  <1>4. running' = [running EXCEPT ![s] = call] /\ call \in Runs /\ call # None
    <2>1. running' = [running EXCEPT ![s] = call]
      BY <1>1 DEF RunGranted
    <2>2. call \in Runs
      <3>1. names \in SUBSET Dirs
        OBVIOUS
      <3> HIDE DEF names
      <3> QED
        BY <3>1 DEF Runs
    <2>3. call # None
      BY <2>2
    <2> QED
      BY <2>1, <2>2, <2>3
  <1>5. /\ consented' = [consented EXCEPT ![s] = @ \cup {c.at[f] : f \in DOMAIN c.at}]
        /\ {c.at[f] : f \in DOMAIN c.at} \subseteq Paths
    BY <1>1 DEF RunGranted
  <1>6. once' = once \/ once' = [once EXCEPT ![s] = @ \cup escapes]
    <2>1. once' = [once EXCEPT ![s] = @ \cup (IF dirs = {} THEN escapes ELSE {})]
      BY <1>1 DEF RunGranted
    <2>2. CASE dirs = {}
      BY <2>1, <2>2
    <2>3. CASE dirs # {}
      BY <2>1, <2>3 DEF GateInv, TypeOK
    <2> QED
      BY <2>2, <2>3
  <1>7. roots' = [roots EXCEPT ![s] = @ \cup dirs] /\ folderRoots' = folderRoots \cup dirs
    BY <1>1 DEF RunGranted
  <1>8. UNCHANGED <<setting, stray, threw>> /\ card[s] # None
    BY <1>1 DEF RunGranted, RunByConsent
  <1> HIDE DEF escapes, call
  <1>9. TypeOK'
    <2>1. roots' \in [Sessions -> SUBSET Dirs] /\ folderRoots' \subseteq Dirs
      BY <1>7 DEF GateInv, TypeOK
    <2>2. once' \in [Sessions -> SUBSET Paths]
      BY <1>3, <1>6 DEF GateInv, TypeOK
    <2>3. running' \in [Sessions -> Runs \cup {None}] /\ consented' \in [Sessions -> SUBSET Paths]
      BY <1>4, <1>5 DEF GateInv, TypeOK
    <2> QED
      BY <1>2, <1>8, <2>1, <2>2, <2>3, AnsweredKeeps DEF GateInv, TypeOK
  <1>10. GrantsAreSpent'
    <2> SUFFICES ASSUME NEW z \in Sessions, once'[z] # {}
                 PROVE  \/ running'[z] # None /\ running'[z].byCard
                        \/ stray'[z] # None \/ threw'[z]
      BY DEF GrantsAreSpent
    <2>1. CASE z = s
      BY <1>4, <2>1 DEF call, GateInv, TypeOK
    <2>2. CASE z # s
      BY <1>4, <1>6, <1>8, <2>2 DEF GateInv, TypeOK, GrantsAreSpent
    <2> QED
      BY <2>1, <2>2
  <1>11. OnceWasShown'
    BY <1>3, <1>5, <1>6 DEF GateInv, TypeOK, OnceWasShown
  <1> QED
    BY <1>2, <1>8, <1>9, <1>10, <1>11, AnsweredKeeps DEF GateInv

LEMMA DeclineKeeps == ASSUME GateInv, NEW s \in Sessions, CardDeclined(s)  PROVE GateInv'
  <1>1. PICK a \in AnswersTo(card[s]) : Answered(s, a)
    BY DEF CardDeclined
  <1>2. card[s] # None
    BY DEF CardDeclined
  <1>3. UNCHANGED <<setting, roots, once, running, stray, folderRoots, consented, threw>>
    BY DEF CardDeclined
  <1>4. TypeOK'
    BY <1>1, <1>2, <1>3, AnsweredKeeps DEF GateInv, TypeOK
  <1>5. GrantsAreSpent' /\ OnceWasShown'
    BY <1>3 DEF GateInv, GrantsAreSpent, OnceWasShown
  <1> QED
    BY <1>1, <1>2, <1>4, <1>5, AnsweredKeeps DEF GateInv

(* Where nothing may write, a call that is not denied only reads.          *)
LEMMA UndeniedReads ==
    ASSUME NEW s, NEW l, NEW c, ReadOnly(setting[s]), ~Denies(s, l, c)
    PROVE  Kind(l, c.tool) = "read"
  BY DEF ReadOnly, Denies, ModeAllows

LEMMA RaisesKeep ==
    ASSUME GateInv, NEW s \in Sessions, NEW c \in Calls,
           PauseOnGuess(s, c) \/ PauseForConsent(s, c)
    PROVE  GateInv'
  <1>1. CASE PauseOnGuess(s, c)
    BY <1>1, RaiseKeeps DEF PauseOnGuess
  <1>2. CASE PauseForConsent(s, c)
    <2>1. Unanswered(learned, c) \in SUBSET Fields
      BY DEF Unanswered
    <2> QED
      BY <1>2, <2>1, RaiseKeeps, UndeniedReads DEF PauseForConsent
  <1> QED
    BY <1>1, <1>2

(* What a session does with its calls leaves cards and answers alone.      *)
LEMMA CallsKeep ==
    ASSUME GateInv, NEW s \in Sessions,
           \/ \E c \in Calls : RunByGate(s, c)
           \/ Returns(s) \/ StrayReturns(s) \/ Throws(s)
    PROVE  GateInv'
  <1>1. UNCHANGED <<setting, roots, card, shared, consented>>
    BY DEF RunByGate, Returns, StrayReturns, Throws
  <1>2. LatestAnswerWins' /\ BlockedIsMarked' /\ AsksAboutServers'
    BY <1>1 DEF shared, GateInv, LatestAnswerWins, BlockedIsMarked, AsksAboutServers, ReadOnly
  <1>3. once' = once \/ once' = [once EXCEPT ![s] = {}]
    BY DEF RunByGate, Returns, StrayReturns, Throws, ClearOnce
  <1>4. OnceWasShown'
    BY <1>1, <1>3 DEF GateInv, TypeOK, OnceWasShown
  <1>5. ASSUME NEW c \in Calls, RunByGate(s, c)  PROVE TypeOK' /\ GrantsAreSpent'
    <2>1. [call |-> c, byCard |-> FALSE, named |-> {}] \in Runs
      BY DEF Runs
    <2>2. TypeOK'
      BY <1>5, <2>1 DEF RunByGate, shared, GateInv, TypeOK
    <2>3. GrantsAreSpent'
      BY <1>5, <2>1 DEF RunByGate, Free, GateInv, TypeOK, GrantsAreSpent
    <2> QED
      BY <2>2, <2>3
  <1>6. ASSUME Returns(s)  PROVE TypeOK' /\ GrantsAreSpent'
    BY <1>6 DEF Returns, ClearOnce, shared, GateInv, TypeOK, GrantsAreSpent
  <1>7. ASSUME StrayReturns(s)  PROVE TypeOK' /\ GrantsAreSpent'
    BY <1>7 DEF StrayReturns, ClearOnce, shared, GateInv, TypeOK, GrantsAreSpent
  <1>8. ASSUME Throws(s)  PROVE TypeOK' /\ GrantsAreSpent'
    <2>1. TypeOK'
      <3>1. running[s].byCard \in BOOLEAN
        BY <1>8 DEF Throws, GateInv, TypeOK, Runs
      <3> QED
        BY <1>8, <3>1 DEF Throws, shared, GateInv, TypeOK
    <2>2. GrantsAreSpent'
      BY <1>8 DEF Throws, GateInv, TypeOK, GrantsAreSpent
    <2> QED
      BY <2>1, <2>2
  <1> QED
    BY <1>2, <1>4, <1>5, <1>6, <1>7, <1>8 DEF GateInv

LEMMA PersonKeeps ==
    ASSUME GateInv, NEW s \in Sessions,
           Stop(s) \/ \E new \in Settings : SetModeApproval(s, new) \/ Start(s, new)
    PROVE  GateInv'
  <1>1. UNCHANGED <<once, shared, consented, threw>>
    BY DEF Stop, SetModeApproval, Start
  <1>2. LatestAnswerWins' /\ OnceWasShown'
    BY <1>1 DEF shared, GateInv, LatestAnswerWins, OnceWasShown
  <1>3. card' = card \/ card' = [card EXCEPT ![s] = None]
    BY DEF Stop, SetModeApproval, Start
  <1>4. BlockedIsMarked' /\ AsksAboutServers'
    BY <1>3 DEF GateInv, TypeOK, BlockedIsMarked, AsksAboutServers, ReadOnly
  <1>5. CASE Stop(s)
    <2>1. running[s] # None => running[s].call \in Calls
      BY DEF GateInv, TypeOK, Runs
    <2>2. TypeOK'
      BY <1>5, <2>1 DEF Stop, shared, GateInv, TypeOK
    <2>3. GrantsAreSpent'
      BY <1>5, <2>1 DEF Stop, shared, GateInv, TypeOK, GrantsAreSpent
    <2> QED
      BY <1>2, <1>4, <2>2, <2>3 DEF GateInv
  <1>6. ASSUME NEW new \in Settings, SetModeApproval(s, new) \/ Start(s, new)
        PROVE  GateInv'
    <2>1. TypeOK'
      BY <1>6, SMTT(30) DEF SetModeApproval, Start, shared, GateInv, TypeOK
    <2>2. GrantsAreSpent'
      BY <1>6 DEF SetModeApproval, Start, GateInv, GrantsAreSpent
    <2> QED
      BY <1>2, <1>4, <2>1, <2>2 DEF GateInv
  <1> QED
    BY <1>5, <1>6

LEMMA NextKeeps == GateInv /\ [Next]_vars => GateInv'
  <1> SUFFICES ASSUME GateInv, [Next]_vars  PROVE GateInv'
    OBVIOUS
  <1>1. CASE Next
    BY <1>1, RaisesKeep, CallsKeep, DeclineKeeps, ConsentKeeps, PersonKeeps DEF Next
  <1>2. CASE UNCHANGED vars
    BY <1>2 DEF vars, shared, GateInv, TypeOK, LatestAnswerWins, GrantsAreSpent, OnceWasShown,
                BlockedIsMarked, AsksAboutServers, ReadOnly
  <1> QED
    BY <1>1, <1>2

LEMMA GateInvHolds == Spec => []GateInv
  BY InitHolds, NextKeeps, PTL DEF Spec

-----------------------------------------------------------------------------
(* The types of every reachable state.                                     *)
THEOREM GateTypeCorrect == Spec => []TypeOK
  <1>1. GateInv => TypeOK
    BY DEF GateInv
  <1> QED
    BY <1>1, GateInvHolds, PTL

(* The latest answer about a tool or a field counts, from whichever session*)
(* it came (rememberTool, rememberField).                                  *)
THEOREM AnswersReplace == Spec => []LatestAnswerWins
  <1>1. GateInv => LatestAnswerWins
    BY DEF GateInv
  <1> QED
    BY <1>1, GateInvHolds, PTL

(* A one-shot grant does not outlast the call it was given for, unless that*)
(* call threw (clearOnce in approve).                                      *)
THEOREM OnceIsOnce == Spec => []GrantsAreSpent
  <1>1. GateInv => GrantsAreSpent
    BY DEF GateInv
  <1> QED
    BY <1>1, GateInvHolds, PTL

-----------------------------------------------------------------------------
(* How a call starts.                                                      *)

LEMMA StartsTwoWays ==
    ASSUME GateInv, Next, NEW s \in Sessions, Starts(s)
    PROVE  (\E c \in Calls : RunByGate(s, c)) \/ RunByConsent(s)
  <1>1. PICK z \in Sessions :
          \/ \E c \in Calls : PauseOnGuess(z, c) \/ PauseForConsent(z, c) \/ RunByGate(z, c)
          \/ CardDeclined(z) \/ RunByConsent(z)
          \/ Returns(z) \/ StrayReturns(z) \/ Throws(z) \/ Stop(z)
          \/ \E new \in Settings : SetModeApproval(z, new) \/ Start(z, new)
    BY DEF Next
  <1>2. CASE \E c \in Calls : RunByGate(z, c)
    <2>1. z = s
      BY <1>2 DEF RunByGate, Starts, GateInv, TypeOK
    <2> QED
      BY <1>2, <2>1
  <1>3. CASE RunByConsent(z)
    <2>1. PICK r : running' = [running EXCEPT ![z] = r]
      BY <1>3 DEF RunByConsent, RunGranted
    <2>2. z = s
      BY <2>1 DEF Starts, GateInv, TypeOK
    <2> QED
      BY <1>3, <2>2
  <1>4. ASSUME \/ \E c \in Calls : PauseOnGuess(z, c) \/ PauseForConsent(z, c)
               \/ CardDeclined(z) \/ StrayReturns(z)
               \/ \E new \in Settings : SetModeApproval(z, new) \/ Start(z, new)
        PROVE  FALSE
    BY <1>4 DEF PauseOnGuess, PauseForConsent, Raise, CardDeclined, StrayReturns,
                SetModeApproval, Start, Starts
  <1>5. ASSUME Returns(z) \/ Throws(z) \/ Stop(z)  PROVE FALSE
    <2>1. running' = running \/ running' = [running EXCEPT ![z] = None]
      BY <1>5 DEF Returns, Throws, Stop
    <2> QED
      BY <2>1 DEF Starts, GateInv, TypeOK
  <1> QED
    BY <1>1, <1>2, <1>3, <1>4, <1>5

LEMMA StutterStartsNothing == ASSUME UNCHANGED vars, NEW s \in Sessions  PROVE ~Starts(s)
  BY DEF vars, Starts

(* The call, its paths, and what the fence made of them.                   *)
LEMMA GateStarts ==
    ASSUME GateInv, NEW s \in Sessions, NEW c \in Calls, RunByGate(s, c)
    PROVE  /\ running'[s].call = c
           /\ UNCHANGED <<roots, once, said, consented>>
           /\ \A p \in AsPath(c)' : Within(s, p)
  <1>1. running'[s].call = c /\ UNCHANGED <<roots, once, said, consented>>
    BY DEF RunByGate, shared, GateInv, TypeOK
  <1>2. ASSUME NEW f \in DOMAIN c.at, c.tool \in Native \/ said'[f] # "prose"
        PROVE  Within(s, c.at[f])
    <2>1. f \in Fenced(learned, c)
      BY <1>1, <1>2 DEF Fenced, GateInv, LatestAnswerWins
    <2>2. Escapes(s, learned, c) = {}
      BY DEF RunByGate
    <2> QED
      BY <2>1, <2>2 DEF Escapes
  <1> QED
    BY <1>1, <1>2 DEF AsPath

LEMMA ConsentStarts ==
    ASSUME GateInv, NEW s \in Sessions, RunByConsent(s)
    PROVE  \E c \in Calls :
             /\ running'[s].call = c /\ c.tool = card[s].call.tool /\ card[s] # None
             /\ {c.at[f] : f \in DOMAIN c.at} \subseteq consented'[s]
             /\ card[s].blocked => ~Denies(s, learned', card[s].call)
             /\ NeedsRoot(c) => once'[s] = once[s]
             /\ NeedsRoot(c) => \A p \in Paths : p \in Escapes(s, learned', c) =>
                  \/ Dir[p] \in roots'[s]
                  \/ running'[s].named # {} /\ running'[s].named \subseteq roots'[s]
             /\ roots[s] \subseteq roots'[s]
  <1>1. PICK c \in Calls, dirs \in SUBSET Dirs :
          /\ c.tool = card[s].call.tool /\ MayRun(s, learned')
          /\ RunGranted(s, c, Escapes(s, learned', c), dirs)
    BY ApprovalRuns
  <1>2. card[s] # None
    BY DEF RunByConsent
  <1> DEFINE escapes == Escapes(s, learned', c)
             names == IF dirs = OwnDirs(escapes) THEN {} ELSE dirs
  <1>3. running'[s].call = c /\ running'[s].named = names
    <2>1. running' = [running EXCEPT ![s] = [call |-> c, byCard |-> TRUE, named |-> names]]
      BY <1>1 DEF RunGranted
    <2> HIDE DEF names
    <2> QED
      BY <2>1 DEF GateInv, TypeOK
  <1>4. {c.at[f] : f \in DOMAIN c.at} \subseteq consented'[s]
    <2>1. consented' = [consented EXCEPT ![s] = @ \cup {c.at[f] : f \in DOMAIN c.at}]
      BY <1>1 DEF RunGranted
    <2> QED
      BY <2>1 DEF GateInv, TypeOK
  <1>5. card[s].blocked => ~Denies(s, learned', card[s].call)
    <2>1. MayRun(s, learned')
      BY <1>1 DEF RunGranted
    <2> QED
      BY <2>1 DEF MayRun, StillBlocked
  <1>6. roots'[s] = roots[s] \cup dirs
    BY <1>1 DEF RunGranted, GateInv, TypeOK
  <1>7. once'[s] = once[s] \cup (IF dirs = {} THEN escapes ELSE {})
    <2>1. once' = [once EXCEPT ![s] = @ \cup (IF dirs = {} THEN escapes ELSE {})]
      BY <1>1 DEF RunGranted
    <2> QED
      BY <2>1 DEF GateInv, TypeOK
  <1>8. escapes # {} /\ NeedsRoot(c) => dirs # {}
    BY <1>1 DEF RunGranted
  <1>9. NeedsRoot(c) => once'[s] = once[s]
    BY <1>7, <1>8
  <1>10. ASSUME NeedsRoot(c), NEW p \in escapes
         PROVE  \/ Dir[p] \in roots'[s]
                \/ running'[s].named # {} /\ running'[s].named \subseteq roots'[s]
    <2>1. CASE dirs = OwnDirs(escapes)
      BY <1>6, <2>1 DEF OwnDirs
    <2>2. CASE dirs # OwnDirs(escapes)
      BY <1>3, <1>6, <1>8, <1>10, <2>2
    <2> QED
      BY <2>1, <2>2
  <1>11. c.tool = card[s].call.tool
    BY <1>1 DEF RunGranted
  <1> QED
    BY <1>2, <1>3, <1>4, <1>5, <1>6, <1>9, <1>10, <1>11

(* What the person has not called prose is fenced, by the lists as they are*)
(* after the answers; and only what reads has the kind of a read.          *)
LEMMA PathsAreFencedThen ==
    ASSUME LatestAnswerWins', NEW c \in Calls, NEW p, p \in AsPath(c)'
    PROVE  p \in Paths /\ \E f \in Fenced(learned', c) : p = c.at[f]
  BY DEF LatestAnswerWins, AsPath, Fenced

LEMMA ReadsAreSaidThen ==
    ASSUME LatestAnswerWins', NEW t \in Tools, Kind(learned', t) = "read"
    PROVE  SaidToRead(t)'
  BY DEF LatestAnswerWins, Kind, Verdict, SaidToRead

(* A path the fence lets through is inside a root or has a one-shot grant. *)
LEMMA WithinIsEnclosed == ASSUME NEW s, NEW p, Within(s, p)  PROVE Enclosed(s, p) \/ p \in once[s]
  BY DEF Within, Enclosed

LEMMA ConsentStep ==
    ASSUME GateInv, Next, NEW s \in Sessions, Starts(s)
    PROVE  \A p \in AsPath(running[s].call)' : p \in consented'[s] \/ Enclosed(s, p)'
  <1>1. ASSUME NEW c \in Calls, RunByGate(s, c), NEW p, p \in AsPath(c)'
        PROVE  p \in consented'[s] \/ Enclosed(s, p)'
    <2>1. Within(s, p) /\ UNCHANGED <<roots, once, consented>>
      BY <1>1, GateStarts
    <2>2. CASE p \in once[s]
      BY <2>1, <2>2 DEF GateInv, OnceWasShown
    <2>3. CASE p \notin once[s]
      BY <2>1, <2>3 DEF Within, Enclosed
    <2> QED
      BY <2>2, <2>3
  <1>2. ASSUME RunByConsent(s)
        PROVE  \A p \in AsPath(running[s].call)' : p \in consented'[s]
    <2>1. \E c \in Calls : running'[s].call = c /\ {c.at[f] : f \in DOMAIN c.at} \subseteq consented'[s]
      BY <1>2, ConsentStarts, ZenonT(60)
    <2>2. PICK c \in Calls : running'[s].call = c /\ {c.at[f] : f \in DOMAIN c.at} \subseteq consented'[s]
      BY <2>1
    <2> QED
      BY <2>2 DEF AsPath
  <1>3. CASE RunByConsent(s)
    BY <1>2, <1>3
  <1>4. ASSUME NEW c \in Calls, RunByGate(s, c)
        PROVE  \A p \in AsPath(running[s].call)' : p \in consented'[s] \/ Enclosed(s, p)'
    <2>1. AsPath(running[s].call)' = AsPath(c)'
      BY <1>4, GateStarts DEF AsPath
    <2> QED
      BY <1>1, <1>4, <2>1
  <1> QED
    BY <1>3, <1>4, StartsTwoWays

LEMMA InsideStep ==
    ASSUME GateInv, Next, NEW s \in Sessions, Starts(s),
           running'[s].call.tool \in Bridged \cup Classifies
    PROVE  /\ once'[s] \subseteq once[s]
           /\ \A p \in AsPath(running[s].call)' :
                 \/ Enclosed(s, p)' \/ p \in once[s]
                 \/ /\ running'[s].named # {} /\ running'[s].named \subseteq roots'[s]
                    /\ p \in consented'[s]
  <1>1. LatestAnswerWins'
    BY NextKeeps DEF GateInv
  <1>2. ASSUME NEW c \in Calls, RunByGate(s, c)
        PROVE  /\ once'[s] \subseteq once[s]
               /\ \A p \in AsPath(running[s].call)' : Enclosed(s, p)' \/ p \in once[s]
    <2>1. AsPath(running[s].call)' = AsPath(c)' /\ roots' = roots /\ once' = once
      BY <1>2, GateStarts DEF AsPath
    <2>2. \A p \in AsPath(c)' : Enclosed(s, p) \/ p \in once[s]
      BY <1>2, GateStarts, WithinIsEnclosed
    <2> QED
      BY <2>1, <2>2 DEF Enclosed
  <1>3. ASSUME RunByConsent(s)
        PROVE  /\ once'[s] \subseteq once[s]
               /\ \A p \in AsPath(running[s].call)' :
                     \/ Enclosed(s, p)' \/ p \in once[s]
                     \/ /\ running'[s].named # {} /\ running'[s].named \subseteq roots'[s]
                        /\ p \in consented'[s]
    <2>1. PICK c \in Calls :
            /\ running'[s].call = c
            /\ {c.at[f] : f \in DOMAIN c.at} \subseteq consented'[s]
            /\ NeedsRoot(c) => once'[s] = once[s]
            /\ NeedsRoot(c) => \A p \in Paths : p \in Escapes(s, learned', c) =>
                 \/ Dir[p] \in roots'[s]
                 \/ running'[s].named # {} /\ running'[s].named \subseteq roots'[s]
            /\ roots[s] \subseteq roots'[s]
      BY <1>3, ConsentStarts
    <2>2. AsPath(running[s].call)' = AsPath(c)' /\ NeedsRoot(c)
      BY <2>1 DEF AsPath, NeedsRoot
    <2>3. ASSUME NEW p, p \in AsPath(c)'
          PROVE  \/ Enclosed(s, p)' \/ p \in once[s]
                 \/ /\ running'[s].named # {} /\ running'[s].named \subseteq roots'[s]
                    /\ p \in consented'[s]
      <3>1. PICK f \in Fenced(learned', c) : p = c.at[f]
        BY <1>1, <2>3, PathsAreFencedThen
      <3>2. p \in Paths
        BY <1>1, <2>3, PathsAreFencedThen
      <3>3. CASE Within(s, p)
        <4>1. Enclosed(s, p) \/ p \in once[s]
          BY <3>3, WithinIsEnclosed
        <4> QED
          BY <2>1, <4>1 DEF Enclosed
      <3>4. CASE ~Within(s, p)
        <4>1. p \in Escapes(s, learned', c)
          BY <3>1, <3>4 DEF Escapes
        <4>2. \/ Dir[p] \in roots'[s]
              \/ running'[s].named # {} /\ running'[s].named \subseteq roots'[s]
          BY <2>1, <2>2, <3>2, <4>1
        <4>3. Dir[p] \in roots'[s] => Enclosed(s, p)'
          BY <3>2 DEF Enclosed
        <4>4. p \in consented'[s]
          BY <2>1, <3>1 DEF Fenced
        <4> QED
          BY <4>2, <4>3, <4>4
      <3> QED
        BY <3>3, <3>4
    <2> QED
      BY <2>1, <2>2, <2>3
  <1> QED
    BY <1>2, <1>3, StartsTwoWays

LEMMA GuessStep ==
    ASSUME GateInv, Next, NEW s \in Sessions, Starts(s),
           ReadOnly(RaisedUnder(s)), ReadOnly(setting[s])
    PROVE  SaidToRead(running[s].call.tool)' \/ (card[s] # None /\ card[s].kind = "read")
  <1>1. LatestAnswerWins'
    BY NextKeeps DEF GateInv
  <1>2. ASSUME NEW c \in Calls, RunByGate(s, c)  PROVE SaidToRead(running[s].call.tool)'
    <2>1. Kind(learned, c.tool) = "read" /\ learned' = learned
      BY <1>2, UndeniedReads DEF RunByGate, Allows, shared
    <2>2. c.tool \in Tools /\ running'[s].call = c
      BY <1>2, GateStarts
    <2>3. SaidToRead(c.tool)'
      BY <1>1, <2>1, <2>2, ReadsAreSaidThen
    <2> QED
      BY <2>2, <2>3 DEF SaidToRead
  <1>3. ASSUME RunByConsent(s), card[s].kind # "read"
        PROVE  SaidToRead(running[s].call.tool)'
    <2>1. PICK c \in Calls :
            /\ running'[s].call = c /\ c.tool = card[s].call.tool /\ card[s] # None
            /\ card[s].blocked => ~Denies(s, learned', card[s].call)
      BY <1>3, ConsentStarts
    <2>2. card[s].blocked
      BY <1>3, <2>1 DEF RaisedUnder, GateInv, BlockedIsMarked
    <2>3. Kind(learned', c.tool) = "read"
      BY <2>1, <2>2, UndeniedReads
    <2>4. SaidToRead(c.tool)'
      BY <1>1, <2>3, ReadsAreSaidThen
    <2> QED
      BY <2>1, <2>4 DEF SaidToRead
  <1>4. RunByConsent(s) => card[s] # None
    BY DEF RunByConsent
  <1> QED
    BY <1>2, <1>3, <1>4, StartsTwoWays

(* No call runs on a path outside the workspace unless the person agreed to*)
(* a call with that path or to a root above it (fenceEscapes, approve).    *)
THEOREM ConsentToEveryPath == Spec => StartsWithConsent
  <1>1. GateInv /\ [Next]_vars => [\A s \in Sessions : Starts(s) =>
          \A p \in AsPath(running[s].call)' : p \in consented'[s] \/ Enclosed(s, p)']_vars
    BY ConsentStep
  <1> QED
    BY <1>1, GateInvHolds, PTL DEF Spec, StartsWithConsent

(* A call that goes to a server, or whose paths are classified, gets no    *)
(* one-shot grant, and no path of it lies outside the roots except by a    *)
(* grant left over, or by the approval of that path with another directory *)
(* named by hand (approve, H-08).                                          *)
THEOREM ServersNeedRoots == Spec => ServersStayInside
  <1>1. GateInv /\ [Next]_vars => [\A s \in Sessions :
          Starts(s) /\ running'[s].call.tool \in Bridged \cup Classifies =>
            /\ once'[s] \subseteq once[s]
            /\ \A p \in AsPath(running[s].call)' :
                  \/ Enclosed(s, p)' \/ p \in once[s]
                  \/ /\ running'[s].named # {} /\ running'[s].named \subseteq roots'[s]
                     /\ p \in consented'[s]]_vars
    BY InsideStep
  <1> QED
    BY <1>1, GateInvHolds, PTL DEF Spec, ServersStayInside

(* Where nothing may write, when the call is raised and when it starts, a  *)
(* tool starts only if it reads, by an answer or by what was known when its*)
(* card was raised (approve's second look, D-48).                          *)
THEOREM GuessNeedsAnswer == Spec => GuessIsNoConsent
  <1>1. GateInv /\ [Next]_vars => [\A s \in Sessions :
          Starts(s) /\ ReadOnly(RaisedUnder(s)) /\ ReadOnly(setting[s]) =>
            \/ SaidToRead(running[s].call.tool)'
            \/ card[s] # None /\ card[s].kind = "read"]_vars
    BY GuessStep
  <1> QED
    BY <1>1, GateInvHolds, PTL DEF Spec, GuessIsNoConsent
=============================================================================
