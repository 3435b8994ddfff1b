------------------------------ MODULE Reading ------------------------------
(* The tools that look at files (file-tools.ts, media.ts): read_file, which*)
(* a model pages through by the offset each reply names, and grep, which   *)
(* has to say what it did not look at.                                     *)
(***************************************************************************)
EXTENDS Naturals, Sequences, FiniteSets, SequencesExt

CONSTANTS
    Bodies,             \* files to read: sequences of the lengths of lines
    Limits,             \* lines asked for at a time, NoLimit included
    NoLimit,
    MaxReadChars,       \* MAX_READ_CHARS
    Corpora,            \* what grep walks: sequences of files, see Corpus
    MaxGrepMatches,     \* MAX_GREP_MATCHES
    MaxGrepScan,        \* MAX_GREP_SCAN_BYTES, a file that is read being 1
    MaxGrepOutput       \* MAX_GREP_OUTPUT_CHARS

(* A file has a line, if only an empty one; a limit below 1 is refused.    *)
ASSUME BodiesAssumption == \A b \in Bodies : b \in Seq(Nat) /\ b # <<>>
ASSUME LimitsAssumption == \A limit \in Limits : limit = NoLimit \/ limit \in Nat \ {0}
ASSUME CapAssumption == MaxReadChars \in Nat
ASSUME CorporaAssumption ==
    \A c \in Corpora : c \in Seq(Range(c)) /\ \A n \in DOMAIN c : c[n].hits \in Seq(Range(c[n].hits))

VARIABLES
    body,       \* the file that is read, or <<>> before it is chosen
    next,       \* the offset the last reply named, or 0 when there is no more
    got,        \* the lines that were returned, in order
    stuck,      \* a reply returned no line and named its own offset
    corpus,     \* what was searched
    reply       \* what grep said

readingVars == <<body, next, got, stuck, corpus, reply>>

-----------------------------------------------------------------------------
(* read_file                                                               *)

SmallerOf(m, n) == IF m <= n THEN m ELSE n
AddLine(chars, line) == chars + line + 1
Chars(lines) == FoldLeft(AddLine, 0, lines)

Window(from, limit) ==
    SubSeq(body, from, IF limit = NoLimit THEN Len(body) ELSE SmallerOf(Len(body), from + limit - 1))

(* As many lines of the window as the cap has room for.                    *)
Kept(window) ==
    IF Chars(window) - 1 <= MaxReadChars THEN Len(window)
    ELSE CHOOSE n \in 0..Len(window) :
            /\ Chars(SubSeq(window, 1, n)) <= MaxReadChars
            /\ n < Len(window) => Chars(SubSeq(window, 1, n + 1)) > MaxReadChars

ContinueAt(from, window, shown) == from + shown

(* The whole file at once, if nothing was said and it fits.                *)
OpenFile(b) ==
    /\ body = <<>> /\ corpus = <<>>
    /\ body' = b /\ next' = 1
    /\ UNCHANGED <<got, stuck, corpus, reply>>

ReadWhole ==
    /\ next = 1 /\ got = <<>> /\ Chars(body) - 1 <= MaxReadChars
    /\ got' = [i \in DOMAIN body |-> i] /\ next' = 0
    /\ UNCHANGED <<body, stuck, corpus, reply>>

ReadPage(limit) ==
    /\ next # 0
    /\ LET window == Window(next, limit)
           shown  == Kept(window)
           last   == next + shown - 1
       IN  /\ got' = got \o [i \in 1..shown |-> next + i - 1]
           /\ next' = IF last < Len(body) THEN ContinueAt(next, window, shown) ELSE 0
           /\ stuck' = (shown = 0)
    /\ ~stuck
    /\ UNCHANGED <<body, corpus, reply>>

-----------------------------------------------------------------------------
(* grep.  A file of the walk: where it lies, what it is, and its matches,  *)
(* each a line of some length.                                             *)

Corpus(where, state, hits) == [where |-> where, state |-> state, hits |-> hits]

NoScan == [out |-> 0, chars |-> 0, read |-> 0, notes |-> {}, done |-> FALSE]

Notes(s, note) == [s EXCEPT !.notes = @ \cup {note}]
Ends(s, note) == [Notes(s, note) EXCEPT !.done = TRUE]

Match(s, line) ==
    IF s.done THEN s
    ELSE IF s.chars + line > MaxGrepOutput THEN Ends(s, "output")
    ELSE LET t == [s EXCEPT !.out = @ + 1, !.chars = @ + line + 1]
         IN  IF t.out >= MaxGrepMatches THEN Ends(t, "matches") ELSE t

StopsSilently(s) == IF s.read >= MaxGrepScan THEN [s EXCEPT !.done = TRUE] ELSE s  \* mutant: the budget is not mentioned
Budgeted(s) == IF s.read >= MaxGrepScan THEN Ends(s, "budget") ELSE s

ScanFile(s, f) ==
    LET b == Budgeted(s)
    IN  IF s.done THEN s
        ELSE IF b.done THEN b
        ELSE IF f.state \in {"unreadable", "large"} THEN Notes(s, f.state)
        ELSE FoldLeft(Match, [s EXCEPT !.read = @ + 1], f.hits)

(* walkFiles: dependency and build trees and generated files are skipped,  *)
(* and counted, as soon as the walk comes by; .git and symbolic links are  *)
(* passed over.                                                            *)
Visit(includeIgnored, s, f) ==
    IF s.done \/ f.where \in {"git", "link"} THEN s
    ELSE IF f.where = "noise" /\ ~includeIgnored THEN Notes(s, "noise")
    ELSE ScanFile(s, f)

VisitAll(s, f)     == Visit(TRUE, s, f)
VisitSources(s, f) == Visit(FALSE, s, f)

Grep(c, includeIgnored) ==
    LET s == IF includeIgnored THEN FoldLeft(VisitAll, NoScan, c) ELSE FoldLeft(VisitSources, NoScan, c)
    IN  [matches |-> s.out, notes |-> s.notes]

Search(c) == \E includeIgnored \in BOOLEAN :
    /\ body = <<>> /\ corpus = <<>>
    /\ corpus' = c /\ reply' = Grep(c, includeIgnored)
    /\ UNCHANGED <<body, next, got, stuck>>

-----------------------------------------------------------------------------
ReadingInit ==
    /\ body = <<>> /\ next = 0 /\ got = <<>> /\ stuck = FALSE
    /\ corpus = <<>> /\ reply = [matches |-> 0, notes |-> {}]

ReadingNext ==
    \/ \E b \in Bodies : OpenFile(b)
    \/ ReadWhole
    \/ \E limit \in Limits : ReadPage(limit)
    \/ \E c \in Corpora : Search(c)

ReadingSpec == ReadingInit /\ [][ReadingNext]_readingVars

-----------------------------------------------------------------------------
(* Properties                                                              *)

(* "You can always reach the tail": pages follow each other without a gap  *)
(* or a repetition, and when no offset is named every line has been shown. *)
(* A reply shows nothing only where the line it starts at has itself       *)
(* reached the cap and others follow: there the model is told to go where  *)
(* it already is.                                                          *)
PagesReachTheTail ==
    body # <<>> =>
        /\ got = [i \in 1..Len(got) |-> i]
        /\ next = IF Len(got) = Len(body) THEN 0 ELSE Len(got) + 1
        /\ stuck => body[next] >= MaxReadChars

ToBeFound(f) == IF f.where \in {"git", "link"} THEN 0 ELSE Len(f.hits)
AddFound(n, f) == n + ToBeFound(f)

(* What the tools that look at files do not say, is not there: pages reach *)
(* the tail, and an answer of grep that has nothing to add covers each     *)
(* match of each file it was asked about.  "No matches" is no absence while*)
(* something was not looked at.                                            *)
SilenceIsAbsence ==
    /\ PagesReachTheTail
    /\ reply.notes = {} =>
          reply.matches = FoldLeft(AddFound, 0, corpus)
=============================================================================
