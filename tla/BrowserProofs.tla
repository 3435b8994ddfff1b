--------------------------- MODULE BrowserProofs ----------------------------
(* The web client's invariants, for every set of sessions and threads, any  *)
(* length of the wire, any number of requests under way and of breaks.      *)
EXTENDS Browser, TLAPS

USE NoneAssumption, ThreadsAssumption

Doings == {"idle", "turn", "awaiting"}
Events == {"assistant-start", "assistant-end", "awaiting-input", "stopped"}
Convs == Sessions \cup Threads \cup {None}
Descs == [doing : Doings, conv : Convs]
Frame ==
    [t : {"roster"}, of : UNION {[S -> Descs] : S \in SUBSET Sessions}]
    \cup [t : {"added"}, id : Sessions, is : Descs]
    \cup [t : {"removed"}, id : Sessions]
    \cup [t : {"event"}, id : Sessions, e : Events]
Post == [op   : {"promote", "submit", "new", "first", "answer", "close"},
         from : Sessions \cup {None}, conv : Convs,
         st   : {"sent", "turn", "done", "failed"}, sid : Sessions \cup {None}]
Slice == [working : BOOLEAN, ask : BOOLEAN, moved : BOOLEAN, conv : Convs]
Peek == [conv : Convs, sending : BOOLEAN]

-----------------------------------------------------------------------------
(* Sequences, and the kinds of frame                                       *)

LEMMA Joined ==
    ASSUME NEW F, NEW w \in Seq(F), NEW u \in Seq(F)
    PROVE  /\ w \o u \in Seq(F) /\ Len(w \o u) = Len(w) + Len(u)
           /\ \A i \in 1..Len(w) : (w \o u)[i] = w[i]
           /\ \A i \in 1..Len(u) : (w \o u)[Len(w) + i] = u[i]
           /\ \A i \in 1..Len(w \o u) :
                 i \in 1..Len(w) \/ \E k \in 1..Len(u) : i = Len(w) + k
  <1>1. /\ w \o u \in Seq(F) /\ Len(w \o u) = Len(w) + Len(u)
        /\ \A i \in 1..Len(w) : (w \o u)[i] = w[i]
        /\ \A i \in 1..Len(u) : (w \o u)[Len(w) + i] = u[i]
    OBVIOUS
  <1>2. \A i \in 1..Len(w \o u) :
           i \in 1..Len(w) \/ (i - Len(w) \in 1..Len(u) /\ i = Len(w) + (i - Len(w)))
    BY <1>1
  <1> QED
    BY <1>1, <1>2

LEMMA Shorter ==
    ASSUME NEW F, NEW w \in Seq(F), w # <<>>
    PROVE  /\ Tail(w) \in Seq(F) /\ Len(w) >= 1 /\ Len(Tail(w)) = Len(w) - 1
           /\ Head(w) = w[1] /\ Head(w) \in F
           /\ \A i \in 1..Len(Tail(w)) : i + 1 \in 1..Len(w) /\ Tail(w)[i] = w[i + 1]
           /\ \A i \in 1..Len(w) : i # 1 => i - 1 \in 1..Len(Tail(w)) /\ Tail(w)[i - 1] = w[i]
  OBVIOUS

LEMMA One ==
    ASSUME NEW F, NEW x \in F
    PROVE  <<x>> \in Seq(F) /\ Len(<<x>>) = 1 /\ <<x>>[1] = x /\ \A k \in 1..Len(<<x>>) : k = 1
  OBVIOUS

LEMMA Two ==
    ASSUME NEW F, NEW x \in F, NEW y \in F
    PROVE  /\ <<x, y>> \in Seq(F) /\ Len(<<x, y>>) = 2 /\ <<x, y>>[1] = x /\ <<x, y>>[2] = y
           /\ \A k \in 1..Len(<<x, y>>) : k = 1 \/ k = 2
  OBVIOUS

LEMMA FrameKinds ==
    ASSUME NEW f \in Frame
    PROVE  /\ f.t \in {"roster", "added", "removed", "event"}
           /\ f.t = "roster" => f.of \in [DOMAIN f.of -> Descs] /\ DOMAIN f.of \subseteq Sessions
           /\ f.t # "roster" => f.id \in Sessions
           /\ f.t = "added" => f.is \in Descs
           /\ f.t = "event" => f.e \in Events
  BY DEF Frame

LEMMA Frames ==
    ASSUME NEW s \in Sessions
    PROVE  /\ \A is \in Descs : Added(s, is) \in Frame /\ Added(s, is).t = "added"
                                /\ Added(s, is).id = s /\ Added(s, is).is = is
           /\ Removed(s) \in Frame /\ Removed(s).t = "removed" /\ Removed(s).id = s
           /\ \A e \in Events : Event(s, e) \in Frame /\ Event(s, e).t = "event"
                                /\ Event(s, e).id = s /\ Event(s, e).e = e
  BY DEF Frame, Added, Removed, Event

LEMMA DescriptorIs ==
    ASSUME NEW d \in Doings, NEW c \in Convs
    PROVE  Descriptor(d, c) \in Descs /\ Descriptor(d, c).doing = d /\ Descriptor(d, c).conv = c
  BY DEF Descriptor, Descs

-----------------------------------------------------------------------------
(* What is on the wire, in the requests and on the screen speaks of        *)
(* sessions that were given out, and conversations are told apart.         *)

Speaks(f, ids) == IF f.t = "roster" THEN DOMAIN f.of \subseteq ids ELSE f.id \in ids
WireOK == wire \in Seq(Frame) /\ \A i \in 1..Len(wire) : Speaks(wire[i], born)

Asks(p) ==
    /\ p.op = "promote" => p.from = None
    /\ p.op = "submit" => p.from \in born
    /\ p.op = "answer" => p.from \in born
PostsOK == posts \subseteq Post /\ \A p \in posts : Asks(p)

ServerOK ==
    /\ born \subseteq Sessions /\ LiveIds \subseteq born
    /\ doing \in [Sessions -> Doings] /\ connected \in BOOLEAN
    /\ logged \subseteq Threads \cup born /\ given \in [Sessions -> Convs]
    /\ \A s \in LiveIds : live[s] \in Threads \cup born

ScreenOK ==
    /\ Ids \subseteq born /\ describedRef \subseteq born
    /\ \A s \in Ids : slices[s] \in Slice
    /\ peek # None => peek \in Peek

BornInv == ServerOK /\ WireOK /\ PostsOK /\ ScreenOK /\ OneSessionPerThread

LEMMA SentIsTyped ==
    ASSUME WireOK, NEW frames \in Seq(Frame), Sends(frames), born \subseteq born',
           \A k \in 1..Len(frames) : frames[k].t # "roster" /\ frames[k].id \in born'
    PROVE  WireOK'
  <1>0. wire \in Seq(Frame)
    BY DEF WireOK
  <1>1. CASE ~connected
    BY <1>1 DEF WireOK, Sends, Speaks
  <1>2. CASE connected
    <2>1. wire' = wire \o frames
      BY <1>2 DEF Sends
    <2>2. wire' \in Seq(Frame)
      BY <2>1, <1>0, Joined
    <2>3. ASSUME NEW i \in 1..Len(wire') PROVE Speaks(wire'[i], born')
      <3>1. CASE i \in 1..Len(wire)
        <4>1. wire'[i] = wire[i]
          BY <2>1, <1>0, <3>1, Joined
        <4> QED
          BY <4>1, <3>1 DEF WireOK, Speaks
      <3>2. CASE \E k \in 1..Len(frames) : i = Len(wire) + k
        <4>1. PICK k \in 1..Len(frames) : i = Len(wire) + k
          BY <3>2
        <4>2. wire'[i] = frames[k]
          BY <2>1, <1>0, <4>1, Joined
        <4> QED
          BY <4>2 DEF Speaks
      <3> QED
        BY <3>1, <3>2, <2>1, <1>0, <2>3, Joined
    <2> QED
      BY <2>2, <2>3 DEF WireOK
  <1> QED
    BY <1>1, <1>2

LEMMA TakenIsTyped ==
    ASSUME WireOK, wire # <<>>, wire' = Tail(wire), UNCHANGED born
    PROVE  WireOK'
  <1>1. wire \in Seq(Frame)
    BY DEF WireOK
  <1>2. wire' \in Seq(Frame)
    BY <1>1, Shorter
  <1>3. \A i \in 1..Len(wire') : i + 1 \in 1..Len(wire) /\ wire'[i] = wire[i + 1]
    BY <1>1, Shorter
  <1> QED
    BY <1>2, <1>3 DEF WireOK

LEMMA HeadIsTyped ==
    ASSUME WireOK, wire # <<>>
    PROVE  Head(wire) = wire[1] /\ Head(wire) \in Frame /\ Speaks(Head(wire), born) /\ Len(wire) >= 1
  <1>1. wire \in Seq(Frame)
    BY DEF WireOK
  <1>2. Len(wire) >= 1 /\ Head(wire) = wire[1] /\ Head(wire) \in Frame
    BY <1>1, Shorter
  <1>3. 1 \in 1..Len(wire)
    BY <1>2, <1>1
  <1> QED
    BY <1>2, <1>3 DEF WireOK

LEMMA MovedIsTyped ==
    ASSUME posts \subseteq Post, NEW p \in posts, NEW st \in {"turn", "done", "failed"},
           NEW s \in Sessions \cup {None}, Moved(p, st, s)
    PROVE  /\ posts' \subseteq Post
           /\ \A q \in posts' : \E r \in posts :
                 /\ q.op = r.op /\ q.from = r.from /\ q.conv = r.conv
                 /\ q = r \/ (r = p /\ q.st = st /\ q.sid = s)
           /\ \A r \in posts : r \in posts' \/ r = p
           /\ \E q \in posts' : q.op = p.op /\ q.from = p.from /\ q.st = st
  <1>1. p \in Post
    OBVIOUS
  <1>2. /\ [p EXCEPT !.st = st, !.sid = s] \in Post
        /\ [p EXCEPT !.st = st, !.sid = s].op = p.op
        /\ [p EXCEPT !.st = st, !.sid = s].from = p.from
        /\ [p EXCEPT !.st = st, !.sid = s].conv = p.conv
        /\ [p EXCEPT !.st = st, !.sid = s].st = st
        /\ [p EXCEPT !.st = st, !.sid = s].sid = s
    BY <1>1 DEF Post
  <1>3. posts' = (posts \ {p}) \cup {[p EXCEPT !.st = st, !.sid = s]}
    BY DEF Moved
  <1> QED
    BY <1>2, <1>3

LEMMA MovedAsks ==
    ASSUME PostsOK, NEW p \in posts, NEW st \in {"turn", "done", "failed"},
           NEW s \in Sessions \cup {None}, Moved(p, st, s), born \subseteq born'
    PROVE  PostsOK'
  <1>1. posts \subseteq Post
    BY DEF PostsOK
  <1>2. /\ posts' \subseteq Post
        /\ \A q \in posts' : \E r \in posts :
              /\ q.op = r.op /\ q.from = r.from /\ q.conv = r.conv
              /\ q = r \/ (r = p /\ q.st = st /\ q.sid = s)
    BY <1>1, MovedIsTyped
  <1>3. ASSUME NEW q \in posts' PROVE Asks(q)'
    <2>1. PICK r \in posts : q.op = r.op /\ q.from = r.from /\ q.conv = r.conv
      BY <1>2
    <2> QED
      BY <2>1 DEF PostsOK, Asks
  <1> QED
    BY <1>2, <1>3 DEF PostsOK

LEMMA PutIs ==
    ASSUME NEW s, NEW slice, Put(s, slice)
    PROVE  /\ Ids' = Ids \cup {s} /\ slices'[s] = slice
           /\ \A x \in Ids \ {s} : slices'[x] = slices[x]
  BY DEF Put, Ids

LEMMA SliceKinds ==
    ASSUME NEW slice \in Slice
    PROVE  /\ \A d \in Descs : ApplyState(slice, d) \in Slice
                                 /\ (ApplyState(slice, d).ask <=> d.doing = "awaiting")
                                 /\ ApplyState(slice, d).moved = slice.moved
           /\ \A e \in Events : /\ ReduceEvent(slice, e) \in Slice
                                /\ ReduceEvent(slice, e).ask <=> slice.ask \/ e = "awaiting-input"
                                /\ ReduceEvent(slice, e).moved <=> slice.moved \/ e \in Settles
                                /\ ReduceEvent(slice, e).conv = slice.conv
           /\ [slice EXCEPT !.moved = FALSE] \in Slice
           /\ [slice EXCEPT !.moved = FALSE].ask = slice.ask
           /\ [slice EXCEPT !.moved = FALSE].conv = slice.conv
           /\ [slice EXCEPT !.ask = FALSE, !.working = TRUE] \in Slice
           /\ [slice EXCEPT !.ask = FALSE, !.working = TRUE].moved = slice.moved
           /\ [slice EXCEPT !.ask = FALSE, !.working = TRUE].conv = slice.conv
           /\ [slice EXCEPT !.working = FALSE, !.ask = TRUE] \in Slice
           /\ [slice EXCEPT !.working = FALSE, !.ask = TRUE].ask
           /\ [slice EXCEPT !.working = FALSE, !.ask = TRUE].moved = slice.moved
           /\ [slice EXCEPT !.working = FALSE, !.ask = TRUE].conv = slice.conv
  <1>1. ASSUME NEW d \in Descs
        PROVE  ApplyState(slice, d) \in Slice
               /\ (ApplyState(slice, d).ask <=> d.doing = "awaiting")
               /\ ApplyState(slice, d).moved = slice.moved
    BY DEF Slice, ApplyState, Descs
  <1>2. ASSUME NEW e \in Events
        PROVE  /\ ReduceEvent(slice, e) \in Slice
               /\ ReduceEvent(slice, e).ask <=> slice.ask \/ e = "awaiting-input"
               /\ ReduceEvent(slice, e).moved <=> slice.moved \/ e \in Settles
               /\ ReduceEvent(slice, e).conv = slice.conv
    BY DEF Slice, ReduceEvent
  <1>3. /\ [slice EXCEPT !.moved = FALSE] \in Slice
        /\ [slice EXCEPT !.moved = FALSE].ask = slice.ask
        /\ [slice EXCEPT !.moved = FALSE].conv = slice.conv
        /\ [slice EXCEPT !.ask = FALSE, !.working = TRUE] \in Slice
        /\ [slice EXCEPT !.ask = FALSE, !.working = TRUE].moved = slice.moved
        /\ [slice EXCEPT !.ask = FALSE, !.working = TRUE].conv = slice.conv
        /\ [slice EXCEPT !.working = FALSE, !.ask = TRUE] \in Slice
        /\ [slice EXCEPT !.working = FALSE, !.ask = TRUE].ask
        /\ [slice EXCEPT !.working = FALSE, !.ask = TRUE].moved = slice.moved
        /\ [slice EXCEPT !.working = FALSE, !.ask = TRUE].conv = slice.conv
    BY DEF Slice
  <1> QED
    BY <1>1, <1>2, <1>3

LEMMA DescribedSlice ==
    ASSUME NEW slice \in Slice, NEW d \in Descs
    PROVE  ApplyState(slice, d).conv = d.conv
  BY DEF Slice, ApplyState, Descs

LEMMA ToldSlice ==
    ASSUME NEW slice \in Slice, NEW c \in Convs
    PROVE  /\ [slice EXCEPT !.conv = c] \in Slice /\ [slice EXCEPT !.conv = c].conv = c
           /\ [slice EXCEPT !.conv = c].ask = slice.ask
           /\ [slice EXCEPT !.conv = c].moved = slice.moved
  BY DEF Slice

LEMMA SliceOfIsOne ==
    ASSUME ScreenOK, NEW s
    PROVE  SliceOf(s) \in Slice /\ NewSlice \in Slice /\ (s \in Ids => SliceOf(s) = slices[s])
  BY DEF ScreenOK, SliceOf, NewSlice, Slice, Convs

LEMMA BornInit == Init => BornInv
  <1> SUFFICES ASSUME Init PROVE BornInv
    OBVIOUS
  <1>0. Ids = {} /\ LiveIds = {}
    BY DEF Init, Ids, LiveIds
  <1>1. ServerOK /\ OneSessionPerThread
    BY <1>0 DEF Init, ServerOK, OneSessionPerThread, Doings, Convs
  <1>2. WireOK /\ PostsOK
    BY DEF Init, WireOK, PostsOK
  <1>3. ScreenOK
    BY <1>0 DEF Init, ScreenOK
  <1> QED
    BY <1>1, <1>2, <1>3 DEF BornInv

LEMMA ServerStays ==
    ASSUME BornInv, UNCHANGED server, connected' \in BOOLEAN
    PROVE  ServerOK' /\ OneSessionPerThread'
  BY DEF BornInv, server, ServerOK, OneSessionPerThread, LiveIds

LEMMA ScreenStays ==
    ASSUME BornInv, UNCHANGED <<screen, refs>>, born \subseteq born'
    PROVE  ScreenOK'
  BY DEF BornInv, ScreenOK, screen, pane, refs, Ids

(* A session is at something else: nothing else of the server changes.     *)
LEMMA SessionGoesOn ==
    ASSUME BornInv, NEW s \in LiveIds, NEW d \in Doings, doing' = [doing EXCEPT ![s] = d],
           UNCHANGED <<live, born, given, connected>>, logged' \subseteq logged \cup {live[s]}
    PROVE  ServerOK' /\ OneSessionPerThread'
  BY DEF BornInv, ServerOK, OneSessionPerThread, LiveIds

LEMMA SpokenOf ==
    ASSUME BornInv, NEW s \in LiveIds, UNCHANGED born,
           \/ \E e \in Events : Sends(<<Event(s, e)>>)
           \/ \E e \in Events, g \in Events : Sends(<<Event(s, e), Event(s, g)>>)
           \/ \E e \in Events : Sends(<<Event(s, e), Removed(s)>>)
    PROVE  WireOK'
  <1>1. s \in Sessions /\ s \in born' /\ WireOK
    BY DEF BornInv, ServerOK
  <1>2. ASSUME NEW e \in Events, Sends(<<Event(s, e)>>) PROVE WireOK'
    <2>1. Event(s, e) \in Frame /\ Event(s, e).t # "roster" /\ Event(s, e).id \in born'
      BY <1>1, Frames
    <2> QED
      BY <2>1, <1>1, <1>2, SentIsTyped, One
  <1> DEFINE Both(a, b) == a \in Frame /\ a.t # "roster" /\ a.id \in born'
                           /\ b \in Frame /\ b.t # "roster" /\ b.id \in born'
  <1>3. ASSUME NEW a, NEW b, Both(a, b), Sends(<<a, b>>) PROVE WireOK'
    <2>1. <<a, b>> \in Seq(Frame)
      BY <1>3, Two
    <2>2. \A k \in 1..Len(<<a, b>>) : <<a, b>>[k] = a \/ <<a, b>>[k] = b
      BY <1>3, Two
    <2> QED
      BY <2>1, <2>2, <1>1, <1>3, SentIsTyped
  <1>4. \A e \in Events, g \in Events :
           Both(Event(s, e), Event(s, g)) /\ Both(Event(s, e), Removed(s))
    BY <1>1, Frames
  <1> HIDE DEF Both
  <1> QED
    BY <1>2, <1>3, <1>4

LEMMA SpokenOnce ==
    ASSUME BornInv, NEW s \in LiveIds, UNCHANGED born, NEW e \in Events, Sends(<<Event(s, e)>>)
    PROVE  WireOK'
  BY SpokenOf

LEMMA SpokenTwice ==
    ASSUME BornInv, NEW s \in LiveIds, UNCHANGED born, NEW e \in Events, NEW g \in Events,
           Sends(<<Event(s, e), Event(s, g)>>)
    PROVE  WireOK'
  BY SpokenOf

LEMMA SpokenLast ==
    ASSUME BornInv, NEW s \in LiveIds, UNCHANGED born, NEW e \in Events,
           Sends(<<Event(s, e), Removed(s)>>)
    PROVE  WireOK'
  BY SpokenOf

(* What a session is announced with: at least that it is there.            *)
LEMMA Announcement ==
    ASSUME NEW s \in Sessions, NEW conv \in Convs, NEW frames,
           frames = <<>> \/ \E e \in Events : frames = <<Event(s, e)>>
    PROVE  /\ Announced(s, conv, frames) \in Seq(Frame) /\ Len(Announced(s, conv, frames)) >= 1
           /\ Announced(s, conv, frames)[1].t = "added" /\ Announced(s, conv, frames)[1].id = s
           /\ Announced(s, conv, frames)[1].is = Descriptor("idle", conv)
           /\ \A k \in 1..Len(Announced(s, conv, frames)) :
                 /\ Announced(s, conv, frames)[k].id = s
                 /\ k # 1 => Announced(s, conv, frames)[k].t = "event"
  <1> DEFINE a == Added(s, Descriptor("idle", conv))
  <1>1. a \in Frame /\ a.t = "added" /\ a.id = s /\ a.is = Descriptor("idle", conv)
    BY Frames, DescriptorIs DEF Doings
  <1>2. frames \in Seq(Frame) /\ \A k \in 1..Len(frames) : frames[k].t = "event" /\ frames[k].id = s
    <2>1. CASE frames = <<>>
      BY <2>1
    <2>2. CASE \E e \in Events : frames = <<Event(s, e)>>
      BY <2>2, Frames, One
    <2> QED
      BY <2>1, <2>2
  <1>3. Announced(s, conv, frames) = <<a>> \o frames
    BY DEF Announced
  <1> HIDE DEF a
  <1>4. <<a>> \in Seq(Frame) /\ Len(<<a>>) = 1 /\ <<a>>[1] = a
    BY <1>1
  <1> DEFINE w == <<a>> \o frames
  <1>5. /\ w \in Seq(Frame) /\ Len(w) = 1 + Len(frames) /\ w[1] = a
        /\ \A i \in 1..Len(w) : i = 1 \/ \E k \in 1..Len(frames) : i = 1 + k /\ w[i] = frames[k]
    BY <1>2, <1>4, Joined
  <1>6. Len(frames) \in Nat
    BY <1>2
  <1> HIDE DEF w
  <1>7. Announced(s, conv, frames) = w
    BY <1>3 DEF w
  <1> QED
    BY <1>1, <1>2, <1>5, <1>6, <1>7

LEMMA OpensIsTyped ==
    ASSUME BornInv, NEW s \in Sessions \ born, NEW conv, NEW d \in Doings, NEW frames,
           Opens(s, conv, d, frames), UNCHANGED connected,
           frames = <<>> \/ \E e \in Events : frames = <<Event(s, e)>>,
           conv \in Threads \cup born \cup {s}, \A x \in LiveIds : live[x] # conv
    PROVE  ServerOK' /\ OneSessionPerThread' /\ WireOK' /\ born \subseteq born'
  <1>1. /\ LiveIds' = LiveIds \cup {s} /\ live'[s] = conv /\ born' = born \cup {s}
        /\ \A x \in LiveIds : x # s => live'[x] = live[x]
    BY DEF Opens, LiveIds
  <1>2. s \notin LiveIds
    BY DEF BornInv, ServerOK
  <1>a. conv \in Convs /\ s \in Sessions
    BY DEF BornInv, ServerOK, Convs
  <1>3. ServerOK'
    <2>1. given' \in [Sessions -> Convs] /\ doing' \in [Sessions -> Doings] /\ logged' = logged
      BY <1>a DEF BornInv, ServerOK, Opens
    <2> QED
      BY <1>1, <1>a, <2>1 DEF BornInv, ServerOK
  <1>4. OneSessionPerThread'
    BY <1>1, <1>2 DEF BornInv, OneSessionPerThread
  <1>5. WireOK'
    <2>1. /\ Announced(s, conv, frames) \in Seq(Frame)
          /\ \A k \in 1..Len(Announced(s, conv, frames)) :
                /\ Announced(s, conv, frames)[k].t # "roster"
                /\ Announced(s, conv, frames)[k].id \in born'
      BY <1>1, <1>a, Announcement
    <2>2. Sends(Announced(s, conv, frames)) /\ WireOK /\ born \subseteq born'
      BY <1>1 DEF Opens, BornInv
    <2> QED
      BY <2>1, <2>2, SentIsTyped
  <1> QED
    BY <1>1, <1>3, <1>4, <1>5

LEMMA SessionActions ==
    ASSUME BornInv, \E s \in Sessions : ModelCallEnds(s) \/ TurnLands(s)
    PROVE  BornInv'
  <1> USE DEF BornInv
  <1>a. connected' = connected /\ UNCHANGED screen /\ UNCHANGED refs
    BY DEF ModelCallEnds, TurnLands, ServerMoves
  <1>1. ASSUME NEW s \in Sessions, ModelCallEnds(s) PROVE BornInv'
    <2>1. UNCHANGED server /\ UNCHANGED posts /\ s \in LiveIds
          /\ Sends(<<Event(s, "assistant-end"), Event(s, "assistant-start")>>)
      BY <1>1 DEF ModelCallEnds
    <2>2. ServerOK' /\ OneSessionPerThread' /\ born' = born
      BY <2>1, <1>a, ServerStays DEF ServerOK, server
    <2>3. WireOK'
      BY <2>1, <2>2, SpokenTwice DEF Events
    <2>4. ScreenOK'
      BY <1>a, <2>2, ScreenStays
    <2> QED
      BY <2>1, <2>2, <2>3, <2>4 DEF PostsOK, Asks
  <1>2. ASSUME NEW s \in Sessions, TurnLands(s) PROVE BornInv'
    <2>1. PICK next \in {"idle", "awaiting"} :
             /\ doing' = [doing EXCEPT ![s] = next]
             /\ Sends(<<Event(s, IF next = "idle" THEN "assistant-end" ELSE "awaiting-input")>>)
      BY <1>2 DEF TurnLands
    <2>2. UNCHANGED <<live, born, logged, given, posts>> /\ s \in LiveIds
      BY <1>2 DEF TurnLands
    <2>3. ServerOK' /\ OneSessionPerThread'
      BY <2>1, <2>2, <1>a, SessionGoesOn DEF Doings
    <2>4. WireOK'
      BY <2>1, <2>2, SpokenOnce DEF Events
    <2>5. ScreenOK'
      BY <1>a, <2>2, ScreenStays
    <2> QED
      BY <2>2, <2>3, <2>4, <2>5 DEF PostsOK, Asks
  <1> QED
    BY <1>1, <1>2

LEMMA ServerActions ==
    ASSUME BornInv, NEW p \in posts, Chat(p) \/ ChatAnswers(p) \/ Serve(p)
    PROVE  BornInv'
  <1> USE DEF BornInv
  <1>0. posts \subseteq Post /\ p \in Post /\ Asks(p) /\ LiveIds \subseteq Sessions
    BY DEF PostsOK, ServerOK
  <1>a. connected' = connected /\ UNCHANGED screen /\ UNCHANGED refs
    BY DEF Chat, ChatAnswers, Serve, ServerMoves
  <1>3. ASSUME ChatAnswers(p) PROVE BornInv'
    <2>1. UNCHANGED server /\ UNCHANGED wire /\ Moved(p, "done", p.sid)
      BY <1>3 DEF ChatAnswers
    <2>2. ServerOK' /\ OneSessionPerThread' /\ born' = born
      BY <2>1, <1>a, ServerStays DEF ServerOK, server
    <2>3. p.sid \in Sessions \cup {None}
      BY <1>0 DEF Post
    <2>4. PostsOK'
      BY <2>1, <2>2, <2>3, MovedAsks
    <2>5. ScreenOK' /\ WireOK'
      BY <1>a, <2>1, <2>2, ScreenStays DEF WireOK
    <2> QED
      BY <2>2, <2>4, <2>5
  <1>4. ASSUME NEW s \in LiveIds, NEW d \in Doings, NEW st \in {"turn", "done", "failed"},
               doing' = [doing EXCEPT ![s] = d],
               Sends(<<Event(s, "assistant-start")>>), Moved(p, st, s),
               UNCHANGED <<live, born, given>>, logged' \subseteq logged \cup {live[s]}
        PROVE  BornInv'
    <2>1. ServerOK' /\ OneSessionPerThread'
      BY <1>4, <1>a, SessionGoesOn
    <2>2. WireOK'
      BY <1>4, SpokenOnce DEF Events
    <2>3. PostsOK'
      BY <1>4, <1>0, MovedAsks
    <2>4. ScreenOK'
      BY <1>4, <1>a, ScreenStays
    <2> QED
      BY <2>1, <2>2, <2>3, <2>4
  <1>5. ASSUME NEW s \in Sessions \cup {None}, NEW st \in {"turn", "done", "failed"},
               Moved(p, st, s), UNCHANGED <<server, wire>>
        PROVE  BornInv'
    <2>1. ServerOK' /\ OneSessionPerThread' /\ born' = born
      BY <1>5, <1>a, ServerStays DEF ServerOK, server
    <2>2. PostsOK'
      BY <1>5, <2>1, MovedAsks
    <2>3. ScreenOK' /\ WireOK'
      BY <1>a, <1>5, <2>1, ScreenStays DEF WireOK
    <2> QED
      BY <2>1, <2>2, <2>3
  <1>6. ASSUME NEW s \in Sessions, NEW conv, NEW d \in Doings, NEW frames, NEW st \in {"turn", "done"},
               Opens(s, conv, d, frames), Moved(p, st, s),
               frames = <<>> \/ \E e \in Events : frames = <<Event(s, e)>>,
               conv \in Threads \cup born \cup {s}, \A x \in LiveIds : live[x] # conv
        PROVE  BornInv'
    <2>0. s \in Sessions \ born
      BY <1>6 DEF Opens
    <2>1. ServerOK' /\ OneSessionPerThread' /\ WireOK' /\ born \subseteq born'
      BY <2>0, <1>6, <1>a, OpensIsTyped
    <2>2. PostsOK'
      BY <2>1, <1>6, MovedAsks
    <2>3. ScreenOK'
      BY <2>1, <1>a, ScreenStays
    <2> QED
      BY <2>1, <2>2, <2>3
  <1>7. ASSUME Chat(p) PROVE BornInv'
    <2>0. Attached(p) \subseteq LiveIds
      BY DEF Attached
    <2>1. CASE \E s \in Attached(p) :
                 /\ doing[s] = "idle"
                 /\ doing' = [doing EXCEPT ![s] = "turn"]
                 /\ Sends(<<Event(s, "assistant-start")>>)
                 /\ logged' = logged \cup {live[s]}
                 /\ Moved(p, "turn", s) /\ UNCHANGED <<live, born, given>>
      BY <2>1, <2>0, <1>4 DEF Doings
    <2>2. CASE \E s \in Attached(p) \cup {p.from} : Moved(p, "failed", s) /\ UNCHANGED <<server, wire>>
      <3>1. p.from \in Sessions \cup {None}
        BY <1>0 DEF Post
      <3> QED
        BY <2>0, <2>2, <3>1, <1>5, <1>0
    <2>3. CASE /\ Attached(p) = {}
               /\ \E s \in Sessions, c \in Loaded(p) :
                    /\ Opens(s, c, "turn", <<Event(s, "assistant-start")>>)
                    /\ Moved(p, "turn", s)
      <3>1. PICK s \in Sessions, c \in Loaded(p) :
                    /\ Opens(s, c, "turn", <<Event(s, "assistant-start")>>)
                    /\ Moved(p, "turn", s)
        BY <2>3
      <3>2. c = p.conv /\ c \in Threads \cup born
        BY DEF Loaded, ServerOK
      <3>3. \A x \in LiveIds : live[x] # c
        BY <2>3, <3>2 DEF Attached
      <3>4. \E e \in Events : <<Event(s, "assistant-start")>> = <<Event(s, e)>>
        BY DEF Events
      <3> QED
        BY <3>1, <3>2, <3>3, <3>4, <1>6 DEF Doings
    <2> QED
      BY <2>1, <2>2, <2>3, <1>7 DEF Chat
  <1>8. ASSUME Serve(p) PROVE BornInv'
    <2>1. CASE \E s \in Sessions : Opens(s, s, "idle", <<>>) /\ Moved(p, "done", s)
      <3>1. PICK s \in Sessions : Opens(s, s, "idle", <<>>) /\ Moved(p, "done", s)
        BY <2>1
      <3>2. s \notin born /\ s \notin Threads
        BY <3>1 DEF Opens
      <3>3. \A x \in LiveIds : live[x] # s
        BY <3>2 DEF ServerOK
      <3> QED
        BY <3>1, <3>3, <1>6 DEF Doings
    <2>2. CASE /\ p.from \in LiveIds
               /\ doing' = [doing EXCEPT ![p.from] = "turn"]
               /\ Sends(<<Event(p.from, "assistant-start")>>)
               /\ Moved(p, "turn", p.from) /\ UNCHANGED <<live, born, logged, given>>
      BY <2>2, <1>4 DEF Doings
    <2>3. CASE Moved(p, "failed", p.from) /\ UNCHANGED <<server, wire>>
      BY <2>3, <1>0, <1>5 DEF Post
    <2>4. CASE /\ p.from \in LiveIds
               /\ live' = [s \in LiveIds \ {p.from} |-> live[s]]
               /\ doing' = [doing EXCEPT ![p.from] = "idle"]
               /\ Sends(<<Event(p.from, "stopped"), Removed(p.from)>>)
               /\ Moved(p, "done", p.from) /\ UNCHANGED <<born, logged, given>>
      <3>1. LiveIds' = LiveIds \ {p.from} /\ \A s \in LiveIds' : live'[s] = live[s]
        BY <2>4 DEF LiveIds
      <3>2. ServerOK'
        BY <3>1, <2>4, <1>a DEF ServerOK, Doings
      <3>3. OneSessionPerThread'
        BY <3>1 DEF OneSessionPerThread
      <3>4. WireOK'
        BY <2>4, SpokenLast DEF Events
      <3>5. PostsOK'
        BY <2>4, <1>0, MovedAsks
      <3>6. ScreenOK'
        BY <2>4, <1>a, ScreenStays
      <3> QED
        BY <3>2, <3>3, <3>4, <3>5, <3>6
    <2> QED
      BY <2>1, <2>2, <2>3, <2>4, <1>8 DEF Serve
  <1> QED
    BY <1>3, <1>7, <1>8

(* A restart keeps what is asked.                                          *)
LEMMA RestartsKeep ==
    ASSUME posts \subseteq Post, Restarts
    PROVE  /\ posts' \subseteq Post
           /\ \A q \in posts' : \E p \in posts :
                 /\ q.op = p.op /\ q.from = p.from /\ q.conv = p.conv /\ q.sid = p.sid
                 /\ q.st \in {"turn", "done"} => q.st = p.st
  <1> DEFINE After(p) == [p EXCEPT !.st = IF @ = "turn" THEN "failed" ELSE @]
  <1>1. posts' = {After(p) : p \in posts}
    BY DEF Restarts
  <1>2. ASSUME NEW p \in posts
        PROVE  /\ After(p) \in Post /\ After(p).op = p.op /\ After(p).from = p.from
               /\ After(p).conv = p.conv /\ After(p).sid = p.sid
               /\ After(p).st \in {"turn", "done"} => After(p).st = p.st
    BY DEF Post
  <1> HIDE DEF After
  <1> QED
    BY <1>1, <1>2

LEMMA ConnectionActions ==
    ASSUME BornInv, Breaks \/ Connects \/ Restarts
    PROVE  BornInv'
  <1> USE DEF BornInv
  <1>0. UNCHANGED <<screen, refs, born>> /\ connected' \in BOOLEAN
    BY DEF Breaks, Connects, Restarts, server
  <1>1. ScreenOK'
    BY <1>0, ScreenStays
  <1>2. ASSUME UNCHANGED <<server, posts>>
        PROVE  ServerOK' /\ OneSessionPerThread' /\ UNCHANGED <<live, born, doing>> /\ PostsOK'
    BY <1>0, <1>2, ServerStays DEF server, PostsOK, Asks
  <1>3. CASE Breaks
    <2>1. WireOK'
      BY <1>3 DEF Breaks, WireOK
    <2> QED
      BY <2>1, <1>1, <1>2, <1>3 DEF Breaks
  <1>4. CASE Connects
    <2> DEFINE of == [s \in LiveIds |-> Descriptor(doing[s], live[s])]
    <2> DEFINE f == [t |-> "roster", of |-> of]
    <2>1. \A s \in LiveIds : Descriptor(doing[s], live[s]) \in Descs
      BY DescriptorIs DEF ServerOK, Convs
    <2>2. of \in [LiveIds -> Descs] /\ LiveIds \in SUBSET Sessions /\ DOMAIN of \subseteq born
      BY <2>1 DEF ServerOK
    <2> HIDE DEF of
    <2>3. f \in Frame /\ Speaks(f, born')
      BY <2>2, <1>0 DEF Speaks, Frame
    <2>4. wire' = <<f>>
      BY <1>4 DEF Connects, of
    <2> HIDE DEF f
    <2>5. WireOK'
      BY <2>3, <2>4, One DEF WireOK
    <2> QED
      BY <2>5, <1>1, <1>2, <1>4 DEF Connects
  <1>5. CASE Restarts
    <2>1. live' = <<>> /\ doing' = [s \in Sessions |-> "idle"] /\ wire' = <<>>
          /\ UNCHANGED <<born, logged, given>>
      BY <1>5 DEF Restarts
    <2>2. LiveIds' = {}
      BY <2>1 DEF LiveIds
    <2>3. ServerOK' /\ OneSessionPerThread' /\ WireOK'
      BY <2>1, <2>2, <1>0 DEF ServerOK, OneSessionPerThread, WireOK, Doings
    <2>4. PostsOK'
      BY <1>0, RestartsKeep, <1>5 DEF PostsOK, Asks
    <2> QED
      BY <2>3, <2>4, <1>1
  <1> QED
    BY <1>3, <1>4, <1>5

(* The client's own actions leave the server alone.                        *)
LEMMA ClientActs ==
    ASSUME BornInv, UNCHANGED <<server, connected>>, WireOK', PostsOK', ScreenOK'
    PROVE  BornInv'
  <1>1. connected' \in BOOLEAN
    BY DEF BornInv, ServerOK
  <1> QED
    BY <1>1, ServerStays DEF BornInv

LEMMA SlicePut ==
    ASSUME BornInv, NEW s \in born, NEW slice \in Slice, Put(s, slice), UNCHANGED born,
           describedRef' = describedRef \/ describedRef' = describedRef \cup {s},
           peek' = peek \/ peek' = None
    PROVE  ScreenOK'
  BY PutIs DEF BornInv, ScreenOK

LEMMA RosterIs ==
    ASSUME NEW of, slices' = Roster(of)
    PROVE  Ids' = DOMAIN of /\ \A s \in Ids' : slices'[s] = ApplyState(SliceOf(s), of[s])
  <1>1. Ids' = DOMAIN of
    BY DEF Ids, Roster
  <1>2. \A s \in DOMAIN of : slices'[s] = ApplyState(SliceOf(s), of[s])
    BY DEF Roster
  <1> QED
    BY <1>1, <1>2

LEMMA FrameActions ==
    ASSUME BornInv, HandleRoster \/ HandleAdded \/ HandleRemoved \/ HandleEvent
    PROVE  BornInv'
  <1> USE DEF BornInv
  <1> DEFINE f == Head(wire)
  <1>0. Took
    BY DEF HandleRoster, HandleAdded, HandleRemoved, HandleEvent
  <1>1. wire # <<>> /\ wire' = Tail(wire) /\ UNCHANGED <<server, connected>> /\ born' = born
    BY <1>0 DEF Took, server
  <1>2. WireOK' /\ f \in Frame /\ Speaks(f, born)
    BY <1>1, TakenIsTyped, HeadIsTyped
  <1>3. ScreenOK /\ PostsOK
    OBVIOUS
  <1>4. CASE HandleRoster
    <2>1. /\ f.t = "roster" /\ slices' = Roster(f.of)
          /\ posts' = posts \/
             posts' = posts \cup {[op |-> "first", from |-> None, conv |-> None, st |-> "sent", sid |-> None]}
      BY <1>4 DEF HandleRoster
    <2>2. DOMAIN f.of \subseteq born /\ f.of \in [DOMAIN f.of -> Descs]
      BY <1>2, <2>1, FrameKinds DEF Speaks
    <2>3. describedRef' = describedRef \cup DOMAIN f.of /\ (peek' = peek \/ peek' = None)
      BY <1>4 DEF HandleRoster, Describes, FirstFocus, DescribesFor, FocusOn, pane
    <2>4. Ids' = DOMAIN f.of /\ \A s \in Ids' : slices'[s] = ApplyState(SliceOf(s), f.of[s])
      BY <2>1, RosterIs
    <2>5. ASSUME NEW s \in Ids' PROVE slices'[s] \in Slice
      <3>1. f.of[s] \in Descs /\ slices'[s] = ApplyState(SliceOf(s), f.of[s])
        BY <2>2, <2>4
      <3>2. SliceOf(s) \in Slice
        BY <1>3, SliceOfIsOne
      <3>3. ApplyState(SliceOf(s), f.of[s]) \in Slice
        <4> DEFINE x == SliceOf(s)
        <4> DEFINE d == f.of[s]
        <4>1. x \in Slice /\ d \in Descs
          BY <3>1, <3>2
        <4> HIDE DEF x, d
        <4>2. ApplyState(x, d) \in Slice
          BY <4>1, SliceKinds
        <4> QED
          BY <4>2 DEF x, d
      <3> QED
        BY <3>1, <3>3
    <2>6. ScreenOK'
      BY <1>1, <2>2, <2>3, <2>4, <2>5 DEF ScreenOK
    <2>7. PostsOK'
      BY <1>1, <2>1 DEF PostsOK, Asks, Post, Convs
    <2> QED
      BY <1>1, <1>2, <2>6, <2>7, ClientActs
  <1>5. CASE HandleAdded
    <2>1. /\ f.t = "added" /\ Put(f.id, ApplyState(SliceOf(f.id), f.is)) /\ posts' = posts
      BY <1>5 DEF HandleAdded
    <2>2. f.id \in born /\ ApplyState(SliceOf(f.id), f.is) \in Slice
      BY <1>2, <2>1, FrameKinds, SliceOfIsOne, SliceKinds DEF Speaks
    <2>3. describedRef' = describedRef \cup {f.id} /\ (peek' = peek \/ peek' = None)
      BY <1>5 DEF HandleAdded, Describes, DescribesFor, FocusOn, pane
    <2>4. ScreenOK'
      BY <1>1, <2>1, <2>2, <2>3, SlicePut
    <2> QED
      BY <1>1, <1>2, <2>1, <2>4, ClientActs DEF PostsOK, Asks
  <1>6. CASE HandleRemoved
    <2>1. /\ slices' = [s \in Ids \ {f.id} |-> slices[s]]
          /\ UNCHANGED <<posts, peek, describedRef>>
      BY <1>6 DEF HandleRemoved, pane
    <2>2. Ids' = Ids \ {f.id} /\ \A s \in Ids' : slices'[s] = slices[s]
      BY <2>1 DEF Ids
    <2>3. ScreenOK'
      BY <1>1, <1>3, <2>1, <2>2 DEF ScreenOK
    <2> QED
      BY <1>1, <1>2, <2>1, <2>3, ClientActs DEF PostsOK, Asks
  <1>7. CASE HandleEvent
    <2>1. /\ f.t = "event" /\ Put(f.id, ReduceEvent(SliceOf(f.id), f.e))
          /\ UNCHANGED <<posts, peek, describedRef>>
      BY <1>7 DEF HandleEvent, pane
    <2>2. f.id \in born /\ f.e \in Events
      BY <1>2, <2>1, FrameKinds DEF Speaks
    <2>3. ReduceEvent(SliceOf(f.id), f.e) \in Slice
      BY <2>2, SliceOfIsOne, SliceKinds
    <2>4. ScreenOK'
      BY <1>1, <2>1, <2>2, <2>3, SlicePut
    <2> QED
      BY <1>1, <1>2, <2>1, <2>4, ClientActs DEF PostsOK, Asks
  <1> QED
    BY <1>4, <1>5, <1>6, <1>7

(* What is rendered keeps its slices, except that the counts start again.  *)
LEMMA Rendered ==
    ASSUME ScreenOK, Render
    PROVE  /\ Ids' = Ids
           /\ \A s \in Ids : /\ slices'[s] = [slices[s] EXCEPT !.moved = FALSE]
                             /\ slices'[s] \in Slice /\ slices'[s].ask = slices[s].ask
  <1>1. Ids' = Ids /\ \A s \in Ids : slices'[s] = [slices[s] EXCEPT !.moved = FALSE]
    BY DEF Render, Ids
  <1>2. ASSUME NEW s \in Ids
        PROVE  slices'[s] \in Slice /\ slices'[s].ask = slices[s].ask
    <2>1. slices[s] \in Slice
      BY DEF ScreenOK
    <2>2. /\ [slices[s] EXCEPT !.moved = FALSE] \in Slice
          /\ [slices[s] EXCEPT !.moved = FALSE].ask = slices[s].ask
      BY <2>1, SliceKinds
    <2>3. slices'[s] = [slices[s] EXCEPT !.moved = FALSE]
      BY <1>1
    <2> QED
      BY <2>2, <2>3, Zenon
  <1> QED
    BY <1>1, <1>2

LEMMA PersonActions ==
    ASSUME BornInv,
           \/ Render \/ PromotePeek \/ NewSession \/ \E c \in logged : OpenPeek(c)
           \/ \E s \in Sessions : TreeArrives(s) \/ Focus(s) \/ Submit(s) \/ CloseOne(s) \/ Answer(s)
    PROVE  BornInv'
  <1> USE DEF BornInv
  <1>0. UNCHANGED <<server, connected, wire>> /\ born' = born
    BY DEF Render, PromotePeek, NewSession, OpenPeek, TreeArrives, Focus, Submit, CloseOne, Answer,
           Acts, bus, server
  <1>1. WireOK'
    BY <1>0 DEF WireOK
  <1>a. ScreenOK /\ PostsOK /\ born \subseteq Sessions
    BY DEF ServerOK
  <1>2. CASE Render
    <2>1. UNCHANGED <<posts, peek, describedRef>>
      BY <1>2 DEF Render
    <2>2. ScreenOK'
      BY <1>2, <1>0, <1>a, <2>1, Rendered DEF ScreenOK
    <2> QED
      BY <1>0, <1>1, <2>1, <2>2, ClientActs DEF PostsOK, Asks
  <1>3. ASSUME UNCHANGED <<posts, slices, describedRef>>,
               peek' = None \/ peek' \in Peek
        PROVE  BornInv'
    <2>1. ScreenOK'
      BY <1>0, <1>a, <1>3 DEF ScreenOK, Ids
    <2> QED
      BY <1>0, <1>1, <1>3, <2>1, ClientActs DEF PostsOK, Asks
  <1>4. ASSUME NEW op, NEW from, NEW conv, Posts(op, from, conv),
               [op |-> op, from |-> from, conv |-> conv, st |-> "sent", sid |-> None] \in Post,
               op = "promote" => from = None,
               op = "submit" => from \in born,
               op = "answer" => from \in born
        PROVE  PostsOK'
    <2> DEFINE q == [op |-> op, from |-> from, conv |-> conv, st |-> "sent", sid |-> None]
    <2>1. q.op = op /\ q.from = from /\ q.conv = conv /\ posts' = posts \cup {q} /\ q \in Post
      BY <1>4 DEF Posts
    <2> HIDE DEF q
    <2> QED
      BY <1>0, <1>4, <2>1, <1>a DEF PostsOK, Asks
  <1>5. CASE PromotePeek
    <2>1. peek \in Peek /\ peek' = [peek EXCEPT !.sending = TRUE]
          /\ Posts("promote", None, peek.conv) /\ UNCHANGED <<slices, describedRef>>
      BY <1>5, <1>a DEF PromotePeek, ScreenOK, Acts
    <2>2. peek' \in Peek /\ peek.conv \in Convs
      BY <2>1 DEF Peek
    <2>3. ScreenOK'
      BY <1>0, <1>a, <2>1, <2>2 DEF ScreenOK, Ids
    <2>4. PostsOK'
      BY <2>1, <2>2, <1>4 DEF Post
    <2> QED
      BY <1>0, <1>1, <2>3, <2>4, ClientActs
  <1>6. ASSUME UNCHANGED screen, UNCHANGED describedRef PROVE ScreenOK'
    BY <1>0, <1>6, <1>a DEF screen, pane, ScreenOK, Ids
  <1>7. CASE NewSession
    <2>1. PostsOK'
      BY <1>7, <1>4 DEF NewSession, Post, Convs
    <2>2. ScreenOK'
      BY <1>7, <1>6 DEF NewSession, Acts
    <2> QED
      BY <1>0, <1>1, <2>1, <2>2, ClientActs
  <1>8. ASSUME NEW c \in logged, OpenPeek(c) PROVE BornInv'
    <2>1. peek' \in Peek
      BY <1>8, <1>a DEF OpenPeek, Peek, Convs, ServerOK
    <2> QED
      BY <1>8, <2>1, <1>3 DEF OpenPeek, Acts
  <1>9. ASSUME NEW s \in Sessions, Focus(s) PROVE BornInv'
    BY <1>9, <1>3 DEF Focus, FocusOn, Acts
  <1>10. ASSUME NEW s \in Sessions, Submit(s) PROVE BornInv'
    <2>1. s \in Ids /\ s \in born /\ Posts("submit", s, slices[s].conv) /\ slices[s] \in Slice
      BY <1>10, <1>a DEF Submit, ScreenOK
    <2>2. slices[s].conv \in Convs
      BY <2>1 DEF Slice
    <2>3. PostsOK'
      BY <2>1, <2>2, <1>a, <1>4 DEF Post
    <2>4. ScreenOK'
      BY <1>10, <1>6 DEF Submit, Acts
    <2> QED
      BY <1>0, <1>1, <2>3, <2>4, ClientActs
  <1>11. ASSUME NEW s \in Sessions, CloseOne(s) PROVE BornInv'
    <2>1. PostsOK'
      BY <1>11, <1>4 DEF CloseOne, Post, Convs
    <2>2. ScreenOK'
      BY <1>11, <1>6 DEF CloseOne, Acts
    <2> QED
      BY <1>0, <1>1, <2>1, <2>2, ClientActs
  <1>12. ASSUME NEW s \in Sessions, Answer(s) PROVE BornInv'
    <2>1. s \in Ids /\ s \in born /\ slices[s] \in Slice
      BY <1>12, <1>a DEF Answer, ScreenOK
    <2>2. PostsOK'
      BY <1>12, <2>1, <1>4 DEF Answer, Post, Convs
    <2>3. [slices[s] EXCEPT !.ask = FALSE, !.working = TRUE] \in Slice
      BY <2>1, SliceKinds
    <2>4. ScreenOK'
      BY <1>12, <1>0, <2>1, <2>3, SlicePut DEF Answer, Acts, pane
    <2> QED
      BY <1>0, <1>1, <2>2, <2>4, ClientActs
  <1>13. ASSUME NEW s \in Sessions, TreeArrives(s) PROVE BornInv'
    <2>1. PICK c \in Told(s) : Put(s, [SliceOf(s) EXCEPT !.conv = c])
      BY <1>13 DEF TreeArrives
    <2>2. s \in born /\ c \in Convs /\ SliceOf(s) \in Slice
      BY <1>13, <1>a, SliceOfIsOne DEF TreeArrives, ScreenOK, ServerOK, Told, Convs
    <2> DEFINE was == SliceOf(s)
    <2> DEFINE slice == [was EXCEPT !.conv = c]
    <2>a. Put(s, slice) /\ was \in Slice
      BY <2>1, <2>2
    <2> HIDE DEF was
    <2>b. slice \in Slice
      BY <2>2, <2>a, ToldSlice
    <2> HIDE DEF slice
    <2>c. ScreenOK'
      BY <1>13, <1>0, <2>a, <2>b, <2>2, SlicePut DEF TreeArrives, pane
    <2>3. PostsOK'
      BY <1>13, <1>0, <1>a DEF TreeArrives, PostsOK, Asks
    <2> QED
      BY <1>0, <1>1, <2>c, <2>3, ClientActs
  <1> QED
    BY <1>2, <1>5, <1>7, <1>8, <1>9, <1>10, <1>11, <1>12, <1>13

LEMMA ReplyActions ==
    ASSUME BornInv, NEW p \in posts, Promoted(p) \/ Landed(p) \/ Quietly(p) \/ Failed(p)
    PROVE  BornInv'
  <1> USE DEF BornInv
  <1>0. /\ UNCHANGED <<server, connected, wire, describedRef>> /\ born' = born
        /\ posts' = posts \ {p}
    BY DEF Promoted, Landed, Quietly, Failed, Handled, bus, server
  <1>1. WireOK' /\ PostsOK'
    BY <1>0 DEF WireOK, PostsOK, Asks
  <1>2. ScreenOK
    OBVIOUS
  <1>3. ASSUME UNCHANGED slices, peek' = peek \/ peek' = None PROVE ScreenOK'
    BY <1>0, <1>2, <1>3 DEF ScreenOK, Ids
  <1>4. CASE Promoted(p)
    <2>1. ScreenOK'
      BY <1>4, <1>3 DEF Promoted, FocusOn
    <2> QED
      BY <1>0, <1>1, <2>1, ClientActs
  <1>5. CASE Landed(p)
    <2>1. ScreenOK'
      BY <1>5, <1>3 DEF Landed, FocusOn, pane
    <2> QED
      BY <1>0, <1>1, <2>1, ClientActs
  <1>6. CASE Quietly(p)
    <2>1. ScreenOK'
      BY <1>6, <1>3 DEF Quietly, screen, pane
    <2> QED
      BY <1>0, <1>1, <2>1, ClientActs
  <1>7. CASE Failed(p)
    <2>1. peek' # None => peek' \in Peek
      BY <1>7, <1>2 DEF Failed, ScreenOK, Peek
    <2>2. CASE p.op = "answer" /\ p.from \in Ids
      <3>1. Put(p.from, [slices[p.from] EXCEPT !.working = FALSE, !.ask = TRUE])
        BY <1>7, <2>2 DEF Failed, CardBack
      <3>2. [slices[p.from] EXCEPT !.working = FALSE, !.ask = TRUE] \in Slice
        BY <2>2, <1>2, SliceKinds DEF ScreenOK
      <3>3. /\ Ids' = Ids \cup {p.from} /\ \A x \in Ids \ {p.from} : slices'[x] = slices[x]
            /\ slices'[p.from] = [slices[p.from] EXCEPT !.working = FALSE, !.ask = TRUE]
        BY <3>1, PutIs
      <3>4. ScreenOK'
        BY <1>0, <1>2, <2>1, <2>2, <3>2, <3>3 DEF ScreenOK
      <3> QED
        BY <1>0, <1>1, <3>4, ClientActs
    <2>3. CASE ~(p.op = "answer" /\ p.from \in Ids)
      <3>1. ScreenOK'
        BY <1>7, <2>3, <1>0, <1>2, <2>1 DEF Failed, ScreenOK, Ids
      <3> QED
        BY <1>0, <1>1, <3>1, ClientActs
    <2> QED
      BY <2>2, <2>3
  <1> QED
    BY <1>4, <1>5, <1>6, <1>7

(* The parts of a step that an invariant of the browser is shown by.       *)
LEMMA Steps ==
    ASSUME Next
    PROVE  \/ \E s \in Sessions : ModelCallEnds(s) \/ TurnLands(s)
           \/ \E p \in posts : Chat(p) \/ ChatAnswers(p) \/ Serve(p)
           \/ Breaks \/ Connects \/ Restarts
           \/ HandleRoster \/ HandleAdded \/ HandleRemoved \/ HandleEvent
           \/ Render \/ PromotePeek \/ NewSession \/ \E c \in logged : OpenPeek(c)
           \/ \E s \in Sessions : TreeArrives(s) \/ Focus(s) \/ Submit(s) \/ CloseOne(s) \/ Answer(s)
           \/ \E p \in posts : Promoted(p) \/ Landed(p) \/ Quietly(p) \/ Failed(p)
  BY DEF Next

LEMMA BornStep == BornInv /\ [Next]_vars => BornInv'
  <1> SUFFICES ASSUME BornInv, [Next]_vars PROVE BornInv'
    OBVIOUS
  <1>1. CASE Next
    BY <1>1, Steps, ServerActions, SessionActions, ConnectionActions, FrameActions, PersonActions, ReplyActions
  <1>2. CASE UNCHANGED vars
    <2>1. UNCHANGED <<server, connected, wire, posts, screen, refs, born>>
      BY <1>2 DEF vars, bus, server
    <2>2. WireOK' /\ PostsOK' /\ ScreenOK'
      BY <2>1, ScreenStays DEF BornInv, WireOK, PostsOK, Asks
    <2> QED
      BY <2>1, <2>2, ClientActs
  <1> QED
    BY <1>1, <1>2

(* What the wire, the requests and the screen speak of was given out.      *)
THEOREM BornInvariance == Spec => []BornInv
  BY BornInit, BornStep, PTL DEF Spec

-----------------------------------------------------------------------------
(* Which conversation an id was given out for: the server goes by it, what *)
(* is told of a session says so, and what the browser sends has it or      *)
(* nothing.                                                                *)

Tells(f, g) ==
    /\ f.t = "roster" => \A s \in DOMAIN f.of : f.of[s].conv = g[s]
    /\ f.t = "added" => f.is.conv = g[f.id]

LiveAsGiven == \A s \in LiveIds : live[s] = given[s]
WireTells   == \A i \in 1..Len(wire) : Tells(wire[i], given)
SlicesTell  == \A s \in Ids : slices[s].conv \in {None, given[s]}
PostsTell   ==
    \A p \in posts : /\ p.op = "submit" => p.conv \in {None, given[p.from]}
                     /\ Accepted(p) => p.sid \in born /\ given[p.sid] = WrittenUnder(p)

ThreadInv == LiveAsGiven /\ WireTells /\ SlicesTell /\ PostsTell

LEMMA ThreadInit == Init => ThreadInv
  <1> SUFFICES ASSUME Init PROVE ThreadInv
    OBVIOUS
  <1>1. Ids = {} /\ LiveIds = {} /\ wire = <<>> /\ posts = {}
    BY DEF Init, Ids, LiveIds
  <1> QED
    BY <1>1 DEF ThreadInv, LiveAsGiven, WireTells, SlicesTell, PostsTell

(* What an id was given out for does not change.                           *)
GivenStays == born \subseteq born' /\ \A s \in born : given'[s] = given[s]

LEMMA GivenOnce == ASSUME BornInv, [Next]_vars PROVE GivenStays
  <1>0. born \subseteq Sessions /\ given \in [Sessions -> Convs]
    BY DEF BornInv, ServerOK
  <1>1. ASSUME UNCHANGED <<born, given>> PROVE GivenStays
    BY <1>1 DEF GivenStays
  <1>2. ASSUME NEW s, NEW conv, NEW d, NEW frames, Opens(s, conv, d, frames) PROVE GivenStays
    <2>1. s \notin born /\ born' = born \cup {s} /\ given' = [given EXCEPT ![s] = conv]
      BY <1>2 DEF Opens
    <2> QED
      BY <2>1, <1>0 DEF GivenStays
  <1>3. ASSUME NEW p \in posts, Chat(p) \/ ChatAnswers(p) \/ Serve(p) PROVE GivenStays
    BY <1>3, <1>1, <1>2 DEF Chat, ChatAnswers, Serve, server
  <1>4. CASE \/ \E s \in Sessions : ModelCallEnds(s) \/ TurnLands(s)
             \/ Breaks \/ Connects \/ Restarts
    BY <1>4, <1>1 DEF ModelCallEnds, TurnLands, Breaks, Connects, Restarts, server
  <1>5. CASE HandleRoster \/ HandleAdded \/ HandleRemoved \/ HandleEvent
    BY <1>5, <1>1 DEF HandleRoster, HandleAdded, HandleRemoved, HandleEvent, Took, server
  <1>6. CASE \/ Render \/ PromotePeek \/ NewSession \/ \E c \in logged : OpenPeek(c)
             \/ \E s \in Sessions : TreeArrives(s) \/ Focus(s) \/ Submit(s) \/ CloseOne(s) \/ Answer(s)
    BY <1>6, <1>1 DEF Render, PromotePeek, NewSession, OpenPeek, TreeArrives, Focus, Submit, CloseOne,
                      Answer, Acts, server
  <1>7. CASE \E p \in posts : Promoted(p) \/ Landed(p) \/ Quietly(p) \/ Failed(p)
    BY <1>7, <1>1 DEF Promoted, Landed, Quietly, Failed, Handled, server
  <1>8. CASE UNCHANGED vars
    BY <1>8, <1>1 DEF vars, server
  <1> QED
    BY <1>3, <1>4, <1>5, <1>6, <1>7, <1>8, Steps

LEMMA TellsStill ==
    ASSUME BornInv, GivenStays, NEW f \in Frame, Speaks(f, born), Tells(f, given)
    PROVE  Tells(f, given')
  BY FrameKinds DEF Tells, Speaks, GivenStays

LEMMA SentTells ==
    ASSUME BornInv, WireTells, GivenStays, NEW u \in Seq(Frame), Sends(u),
           \A k \in 1..Len(u) : Tells(u[k], given')
    PROVE  WireTells'
  <1>1. wire \in Seq(Frame) /\ \A i \in 1..Len(wire) : Speaks(wire[i], born)
    BY DEF BornInv, WireOK
  <1>2. \A i \in 1..Len(wire) : Tells(wire[i], given')
    BY <1>1, TellsStill DEF WireTells
  <1>3. CASE ~connected
    BY <1>2, <1>3 DEF Sends, WireTells
  <1>4. CASE connected
    <2>1. wire' = wire \o u
      BY <1>4 DEF Sends
    <2>2. ASSUME NEW i \in 1..Len(wire') PROVE Tells(wire'[i], given')
      <3>1. CASE i \in 1..Len(wire)
        BY <1>1, <1>2, <2>1, <3>1, Joined
      <3>2. CASE \E k \in 1..Len(u) : i = Len(wire) + k
        BY <1>1, <2>1, <3>2, Joined
      <3> QED
        BY <1>1, <2>1, <2>2, <3>1, <3>2, Joined
    <2> QED
      BY <2>2 DEF WireTells
  <1> QED
    BY <1>3, <1>4

LEMMA WireTellsStill ==
    ASSUME BornInv, WireTells, GivenStays, wire' = wire \/ wire' = <<>> \/ (wire # <<>> /\ wire' = Tail(wire))
    PROVE  WireTells'
  <1>1. wire \in Seq(Frame) /\ \A i \in 1..Len(wire) : Speaks(wire[i], born)
    BY DEF BornInv, WireOK
  <1>2. \A i \in 1..Len(wire) : Tells(wire[i], given')
    BY <1>1, TellsStill DEF WireTells
  <1>3. CASE wire # <<>> /\ wire' = Tail(wire)
    BY <1>1, <1>2, <1>3, Shorter DEF WireTells
  <1> QED
    BY <1>2, <1>3 DEF WireTells

LEMMA SlicesTellStill ==
    ASSUME BornInv, SlicesTell, GivenStays,
           \A s \in Ids' : s \in Ids /\ slices'[s].conv = slices[s].conv
    PROVE  SlicesTell'
  BY DEF BornInv, ScreenOK, SlicesTell, GivenStays

(* A request that is moved is accepted by what it was written under.       *)
LEMMA MovedTells ==
    ASSUME BornInv, PostsTell, GivenStays, NEW p \in posts, NEW st \in {"turn", "done", "failed"},
           NEW s \in Sessions \cup {None}, Moved(p, st, s),
           p.op \in {"submit", "promote"} /\ st # "failed" =>
              s \in born' /\ given'[s] = IF p.op = "submit" THEN given'[p.from] ELSE p.conv
    PROVE  PostsTell'
  <1>1. posts \subseteq Post /\ \A q \in posts : Asks(q)
    BY DEF BornInv, PostsOK
  <1>2. \A q \in posts' : \E r \in posts :
              /\ q.op = r.op /\ q.from = r.from /\ q.conv = r.conv
              /\ q = r \/ (r = p /\ q.st = st /\ q.sid = s)
    BY <1>1, MovedIsTyped
  <1>3. ASSUME NEW q \in posts'
        PROVE  /\ q.op = "submit" => q.conv \in {None, given'[q.from]}
               /\ Accepted(q) => q.sid \in born' /\ given'[q.sid] = WrittenUnder(q)'
    <2>1. PICK r \in posts : /\ q.op = r.op /\ q.from = r.from /\ q.conv = r.conv
                             /\ q = r \/ (r = p /\ q.st = st /\ q.sid = s)
      BY <1>2
    <2>2. q.op = "submit" => q.from \in born /\ given'[q.from] = given[q.from]
      BY <2>1, <1>1 DEF Asks, GivenStays
    <2>3. q.op = "submit" => q.conv \in {None, given'[q.from]}
      BY <2>1, <2>2 DEF PostsTell
    <2>4. CASE q = r
      <3>1. Accepted(q) => q.sid \in born /\ given[q.sid] = WrittenUnder(q)
        BY <2>4 DEF PostsTell
      <3>2. Accepted(q) => q.sid \in born' /\ given'[q.sid] = given[q.sid]
        BY <3>1 DEF GivenStays
      <3>3. WrittenUnder(q)' = WrittenUnder(q)
        BY <2>2 DEF WrittenUnder
      <3> QED
        BY <2>3, <3>1, <3>2, <3>3
    <2>5. CASE r = p /\ q.st = st /\ q.sid = s
      <3>1. q.op = p.op /\ q.from = p.from /\ q.conv = p.conv /\ q.st = st /\ q.sid = s
        BY <2>1, <2>5
      <3>2. WrittenUnder(q)' = IF p.op = "submit" THEN given'[p.from] ELSE p.conv
        BY <3>1 DEF WrittenUnder
      <3>3. Accepted(q) => p.op \in {"submit", "promote"} /\ st # "failed"
        BY <3>1 DEF Accepted
      <3>4. Accepted(q) => q.sid \in born' /\ given'[q.sid] = WrittenUnder(q)'
        BY <3>1, <3>2, <3>3
      <3> QED
        BY <2>3, <3>4
    <2> QED
      BY <2>1, <2>3, <2>4, <2>5
  <1> QED
    BY <1>3 DEF PostsTell

LEMMA PostsTellStill ==
    ASSUME BornInv, PostsTell, GivenStays,
           \A q \in posts' : \/ q \in posts
                             \/ q.st = "sent" /\ (q.op = "submit" => q.conv \in {None, given'[q.from]})
    PROVE  PostsTell'
  <1>1. ASSUME NEW q \in posts'
        PROVE  /\ q.op = "submit" => q.conv \in {None, given'[q.from]}
               /\ Accepted(q) => q.sid \in born' /\ given'[q.sid] = WrittenUnder(q)'
    <2>1. CASE q \in posts
      <3>1. q.op = "submit" => given'[q.from] = given[q.from]
        BY <2>1 DEF BornInv, PostsOK, Asks, GivenStays
      <3> QED
        BY <2>1, <3>1 DEF PostsTell, GivenStays, Accepted, WrittenUnder
    <2>2. CASE q \notin posts
      BY <1>1, <2>2 DEF Accepted
    <2> QED
      BY <2>1, <2>2
  <1> QED
    BY <1>1 DEF PostsTell

LEMMA SpeechTells ==
    ASSUME NEW s \in Sessions
    PROVE  /\ \A e \in Events, g \in Events :
                 /\ <<Event(s, e)>> \in Seq(Frame)
                 /\ \A k \in 1..Len(<<Event(s, e)>>) : Tells(<<Event(s, e)>>[k], given')
                 /\ <<Event(s, e), Event(s, g)>> \in Seq(Frame)
                 /\ \A k \in 1..Len(<<Event(s, e), Event(s, g)>>) :
                       Tells(<<Event(s, e), Event(s, g)>>[k], given')
           /\ \A e \in Events :
                 /\ <<Event(s, e), Removed(s)>> \in Seq(Frame)
                 /\ \A k \in 1..Len(<<Event(s, e), Removed(s)>>) :
                       Tells(<<Event(s, e), Removed(s)>>[k], given')
  <1>1. Removed(s) \in Frame /\ Tells(Removed(s), given')
    BY Frames DEF Removed, Tells
  <1>2. ASSUME NEW e \in Events PROVE Event(s, e) \in Frame /\ Tells(Event(s, e), given')
    BY Frames DEF Event, Tells
  <1>3. ASSUME NEW a \in Frame, NEW b \in Frame, Tells(a, given'), Tells(b, given')
        PROVE  <<a, b>> \in Seq(Frame) /\ \A k \in 1..Len(<<a, b>>) : Tells(<<a, b>>[k], given')
    <2>1. /\ <<a, b>> \in Seq(Frame)
          /\ \A k \in 1..Len(<<a, b>>) : <<a, b>>[k] = a \/ <<a, b>>[k] = b
      BY Two
    <2> QED
      BY <2>1, <1>3
  <1>4. ASSUME NEW a \in Frame, Tells(a, given')
        PROVE  <<a>> \in Seq(Frame) /\ \A k \in 1..Len(<<a>>) : Tells(<<a>>[k], given')
    <2>1. <<a>> \in Seq(Frame) /\ \A k \in 1..Len(<<a>>) : <<a>>[k] = a
      BY One
    <2> QED
      BY <2>1, <1>4
  <1>5. ASSUME NEW e \in Events, NEW g \in Events
        PROVE  /\ <<Event(s, e)>> \in Seq(Frame)
               /\ \A k \in 1..Len(<<Event(s, e)>>) : Tells(<<Event(s, e)>>[k], given')
               /\ <<Event(s, e), Event(s, g)>> \in Seq(Frame)
               /\ \A k \in 1..Len(<<Event(s, e), Event(s, g)>>) :
                     Tells(<<Event(s, e), Event(s, g)>>[k], given')
    BY <1>2, <1>3, <1>4
  <1>6. ASSUME NEW e \in Events
        PROVE  /\ <<Event(s, e), Removed(s)>> \in Seq(Frame)
               /\ \A k \in 1..Len(<<Event(s, e), Removed(s)>>) :
                     Tells(<<Event(s, e), Removed(s)>>[k], given')
    BY <1>1, <1>2, <1>3
  <1> QED
    BY <1>5, <1>6

LEMMA OpensTells ==
    ASSUME BornInv, ThreadInv, GivenStays, NEW s \in Sessions, NEW conv \in Convs, NEW d, NEW frames,
           Opens(s, conv, d, frames), frames = <<>> \/ \E e \in Events : frames = <<Event(s, e)>>
    PROVE  LiveAsGiven' /\ WireTells' /\ given'[s] = conv /\ s \in born'
  <1>1. /\ LiveIds' = LiveIds \cup {s} /\ live'[s] = conv /\ born' = born \cup {s}
        /\ \A x \in LiveIds : x # s => live'[x] = live[x]
        /\ given' = [given EXCEPT ![s] = conv] /\ s \notin born
    BY DEF Opens, LiveIds
  <1>2. given'[s] = conv /\ LiveIds \subseteq born
    BY <1>1 DEF BornInv, ServerOK
  <1>3. LiveAsGiven'
    BY <1>1, <1>2 DEF ThreadInv, LiveAsGiven, GivenStays
  <1> DEFINE u == Announced(s, conv, frames)
  <1>4. /\ u \in Seq(Frame) /\ u[1].is = Descriptor("idle", conv)
        /\ \A k \in 1..Len(u) : u[k].id = s /\ (k # 1 => u[k].t = "event")
        /\ u[1].t = "added"
    BY Announcement
  <1>5. Sends(u)
    BY DEF Opens
  <1> HIDE DEF u
  <1>6. Descriptor("idle", conv).conv = given'[s]
    BY <1>2 DEF Descriptor
  <1>7. ASSUME NEW k \in 1..Len(u) PROVE Tells(u[k], given')
    <2>1. CASE k = 1
      BY <1>4, <1>6, <2>1 DEF Tells
    <2>2. CASE k # 1
      BY <1>4, <2>2 DEF Tells
    <2> QED
      BY <2>1, <2>2
  <1>8. WireTells'
    BY <1>4, <1>5, <1>7, SentTells DEF ThreadInv
  <1> QED
    BY <1>1, <1>2, <1>3, <1>8

LEMMA ThreadSession ==
    ASSUME BornInv, ThreadInv, GivenStays, NEW s \in Sessions, ModelCallEnds(s) \/ TurnLands(s)
    PROVE  ThreadInv'
  <1>1. UNCHANGED <<live, given, born, slices, posts>> /\ s \in LiveIds
    BY DEF ModelCallEnds, TurnLands, ServerMoves, server, screen
  <1>2. \E u : u \in Seq(Frame) /\ Sends(u) /\ \A k \in 1..Len(u) : Tells(u[k], given')
    <2>1. CASE ModelCallEnds(s)
      BY <2>1, SpeechTells DEF ModelCallEnds, Events
    <2>2. CASE TurnLands(s)
      <3>1. PICK next \in {"idle", "awaiting"} :
               Sends(<<Event(s, IF next = "idle" THEN "assistant-end" ELSE "awaiting-input")>>)
        BY <2>2 DEF TurnLands
      <3> DEFINE e == IF next = "idle" THEN "assistant-end" ELSE "awaiting-input"
      <3>2. e \in Events /\ Sends(<<Event(s, e)>>)
        BY <3>1 DEF Events
      <3> HIDE DEF e
      <3> QED
        BY <3>2, SpeechTells
    <2> QED
      BY <2>1, <2>2
  <1>3. WireTells'
    BY <1>2, SentTells DEF ThreadInv
  <1> QED
    BY <1>1, <1>3 DEF ThreadInv, LiveAsGiven, SlicesTell, PostsTell, LiveIds, Ids, Accepted, WrittenUnder

LEMMA ThreadServer ==
    ASSUME BornInv, ThreadInv, GivenStays, NEW p \in posts, Chat(p) \/ ChatAnswers(p) \/ Serve(p)
    PROVE  ThreadInv'
  <1> USE DEF ThreadInv
  <1>0. UNCHANGED slices /\ p \in Post /\ Asks(p) /\ LiveIds \subseteq born /\ born \subseteq Sessions
    BY DEF Chat, ChatAnswers, Serve, ServerMoves, screen, BornInv, PostsOK, ServerOK
  <1>1. SlicesTell'
    BY <1>0, SlicesTellStill DEF Ids
  <1>2. ASSUME UNCHANGED <<live, given>> PROVE LiveAsGiven'
    BY <1>2 DEF LiveAsGiven, LiveIds
  (* A session goes on with what was asked.                                *)
  <1>3. ASSUME NEW s \in LiveIds, Sends(<<Event(s, "assistant-start")>>), Moved(p, "turn", s),
               UNCHANGED <<live, given>>,
               p.op \in {"submit", "promote"} =>
                  given'[s] = IF p.op = "submit" THEN given'[p.from] ELSE p.conv
        PROVE  ThreadInv'
    <2>1. s \in Sessions /\ s \in born'
      BY <1>0 DEF GivenStays
    <2>2. WireTells'
      <3>1. "assistant-start" \in Events
        BY DEF Events
      <3> QED
        BY <3>1, <1>3, <2>1, SpeechTells, SentTells
    <2>3. PostsTell'
      BY <1>3, <2>1, MovedTells
    <2> QED
      BY <1>1, <1>2, <1>3, <2>2, <2>3
  (* Nothing is done.                                                      *)
  <1>4. ASSUME NEW s \in Sessions \cup {None}, NEW st \in {"done", "failed"}, Moved(p, st, s),
               UNCHANGED <<server, wire>>,
               p.op \in {"submit", "promote"} /\ st # "failed" =>
                  s \in born' /\ given'[s] = IF p.op = "submit" THEN given'[p.from] ELSE p.conv
        PROVE  ThreadInv'
    <2>1. PostsTell'
      BY <1>4, MovedTells
    <2>2. WireTells' /\ LiveAsGiven'
      BY <1>4, <1>2, WireTellsStill DEF server
    <2> QED
      BY <1>1, <2>1, <2>2
  (* The conversation an accepted message goes to is its own.              *)
  <1>5. ASSUME p.op \in {"submit", "promote"}, NEW s \in Attached(p)
        PROVE  s \in LiveIds /\ given[s] = IF p.op = "submit" THEN given[p.from] ELSE p.conv
    <2>1. s \in LiveIds /\ given[s] = live[s] /\ live[s] # None
      BY DEF Attached, LiveAsGiven, BornInv, ServerOK
    <2>2. CASE p.from \in LiveIds
      <3>1. s = p.from /\ p.op = "submit"
        BY <1>0, <1>5, <2>2 DEF Attached, Asks
      <3> QED
        BY <2>1, <3>1
    <2>3. CASE p.from \notin LiveIds
      <3>1. live[s] = p.conv
        BY <2>3 DEF Attached
      <3>2. p.op = "submit" => p.conv \in {None, given[p.from]}
        BY DEF PostsTell
      <3> QED
        BY <1>5, <2>1, <3>1, <3>2
    <2> QED
      BY <2>2, <2>3
  <1>6. CASE ChatAnswers(p)
    <2>1. p.st = "turn" /\ Moved(p, "done", p.sid) /\ UNCHANGED <<server, wire>>
      BY <1>6 DEF ChatAnswers
    <2>2. p.sid \in Sessions \cup {None}
      BY <1>0 DEF Post
    <2>3. p.op \in {"submit", "promote"} =>
             p.sid \in born' /\ given'[p.sid] = IF p.op = "submit" THEN given'[p.from] ELSE p.conv
      BY <2>1 DEF PostsTell, Accepted, WrittenUnder, server
    <2> QED
      BY <2>1, <2>2, <2>3, <1>4
  <1>7. CASE Chat(p)
    <2>0. p.op \in {"submit", "promote"}
      BY <1>7 DEF Chat
    <2>1. CASE \E s \in Attached(p) :
                 /\ Sends(<<Event(s, "assistant-start")>>)
                 /\ Moved(p, "turn", s) /\ UNCHANGED <<live, born, given>>
      <3>1. PICK s \in Attached(p) :
                 /\ Sends(<<Event(s, "assistant-start")>>)
                 /\ Moved(p, "turn", s) /\ UNCHANGED <<live, born, given>>
        BY <2>1
      <3>2. s \in LiveIds /\ given[s] = IF p.op = "submit" THEN given[p.from] ELSE p.conv
        BY <2>0, <1>5
      <3>3. given'[s] = IF p.op = "submit" THEN given'[p.from] ELSE p.conv
        BY <3>1, <3>2
      <3> QED
        BY <3>1, <3>2, <3>3, <1>3
    <2>2. CASE \E s \in Attached(p) \cup {p.from} : Moved(p, "failed", s) /\ UNCHANGED <<server, wire>>
      <3>1. PICK s \in Attached(p) \cup {p.from} : Moved(p, "failed", s) /\ UNCHANGED <<server, wire>>
        BY <2>2
      <3>2. s \in Sessions \cup {None}
        BY <2>0, <1>0, <1>5 DEF Post
      <3> QED
        BY <3>1, <3>2, <1>4
    <2>3. CASE \E s \in Sessions, c \in Loaded(p) :
                    /\ Opens(s, c, "turn", <<Event(s, "assistant-start")>>)
                    /\ Moved(p, "turn", s)
      <3>1. PICK s \in Sessions, c \in Loaded(p) :
                    /\ Opens(s, c, "turn", <<Event(s, "assistant-start")>>)
                    /\ Moved(p, "turn", s)
        BY <2>3
      <3>2. c = p.conv /\ c \in Convs /\ c # None
        BY <1>0 DEF Loaded, BornInv, ServerOK, Convs
      <3>3. \E e \in Events : <<Event(s, "assistant-start")>> = <<Event(s, e)>>
        BY DEF Events
      <3>4. LiveAsGiven' /\ WireTells' /\ given'[s] = c /\ s \in born'
        BY <3>1, <3>2, <3>3, OpensTells
      <3>5. p.op = "submit" => given'[p.from] = c
        <4>1. p.op = "submit" => p.from \in born /\ p.conv = given[p.from]
          BY <3>2, <1>0 DEF Asks, PostsTell
        <4> QED
          BY <4>1, <3>2 DEF GivenStays
      <3>6. PostsTell'
        BY <3>1, <3>2, <3>4, <3>5, MovedTells
      <3> QED
        BY <3>4, <3>6, <1>1
    <2> QED
      BY <1>7, <2>1, <2>2, <2>3 DEF Chat
  <1>8. CASE Serve(p)
    <2>0. p.op \notin {"submit", "promote"} \/ UNCHANGED <<server, wire>>
      BY <1>8 DEF Serve
    <2>1. CASE p.op \in {"new", "first"} /\ \E s \in Sessions : Opens(s, s, "idle", <<>>) /\ Moved(p, "done", s)
      <3>1. PICK s \in Sessions : Opens(s, s, "idle", <<>>) /\ Moved(p, "done", s)
        BY <2>1
      <3>2. LiveAsGiven' /\ WireTells'
        BY <3>1, OpensTells DEF Convs
      <3>3. PostsTell'
        BY <2>1, <3>1, MovedTells
      <3> QED
        BY <3>2, <3>3, <1>1
    <2>2. CASE /\ p.op = "answer" /\ p.from \in LiveIds
               /\ Sends(<<Event(p.from, "assistant-start")>>)
               /\ Moved(p, "turn", p.from) /\ UNCHANGED <<live, born, logged, given>>
      BY <2>2, <1>3
    <2>3. CASE Moved(p, "failed", p.from) /\ UNCHANGED <<server, wire>>
      <3>1. p.from \in Sessions \cup {None}
        BY <1>0 DEF Post
      <3> QED
        BY <2>3, <3>1, <1>4
    <2>4. CASE /\ p.op = "close" /\ p.from \in LiveIds
               /\ live' = [s \in LiveIds \ {p.from} |-> live[s]]
               /\ Sends(<<Event(p.from, "stopped"), Removed(p.from)>>)
               /\ Moved(p, "done", p.from) /\ UNCHANGED <<born, logged, given>>
      <3>1. LiveIds' = LiveIds \ {p.from} /\ \A s \in LiveIds' : live'[s] = live[s]
        BY <2>4 DEF LiveIds
      <3>2. LiveAsGiven'
        BY <3>1, <2>4 DEF LiveAsGiven
      <3>3. p.from \in Sessions
        BY <2>4, <1>0
      <3>4. WireTells'
        <4>1. "stopped" \in Events
          BY DEF Events
        <4> QED
          BY <2>4, <3>3, <4>1, SpeechTells, SentTells
      <3>5. PostsTell'
        BY <2>4, <3>3, MovedTells
      <3> QED
        BY <3>2, <3>4, <3>5, <1>1
    <2> QED
      BY <1>8, <2>1, <2>2, <2>3, <2>4 DEF Serve
  <1> QED
    BY <1>6, <1>7, <1>8

LEMMA ThreadConnection ==
    ASSUME BornInv, ThreadInv, GivenStays, Breaks \/ Connects \/ Restarts
    PROVE  ThreadInv'
  <1> USE DEF ThreadInv
  <1>0. UNCHANGED <<slices, given, born>>
    BY DEF Breaks, Connects, Restarts, screen, server
  <1>1. SlicesTell'
    BY <1>0, SlicesTellStill DEF Ids
  <1>2. ASSUME UNCHANGED <<server, posts>> PROVE LiveAsGiven' /\ PostsTell'
    BY <1>2, PostsTellStill DEF server, LiveAsGiven, LiveIds
  <1>3. CASE Breaks
    <2>1. WireTells'
      BY <1>3, WireTellsStill DEF Breaks
    <2> QED
      BY <1>1, <1>2, <1>3, <2>1 DEF Breaks
  <1>4. CASE Connects
    <2> DEFINE f == [t |-> "roster", of |-> [s \in LiveIds |-> Descriptor(doing[s], live[s])]]
    <2>1. wire' = <<f>>
      BY <1>4 DEF Connects
    <2>2. f.t = "roster" /\ DOMAIN f.of = LiveIds /\ \A s \in LiveIds : f.of[s].conv = live[s]
      BY DEF Descriptor
    <2> HIDE DEF f
    <2>3. Tells(f, given')
      BY <1>0, <2>2 DEF Tells, LiveAsGiven
    <2>4. WireTells'
      BY <2>1, <2>3 DEF WireTells
    <2> QED
      BY <1>1, <1>2, <1>4, <2>4 DEF Connects
  <1>5. CASE Restarts
    <2>1. LiveIds' = {} /\ wire' = <<>>
      BY <1>5 DEF Restarts, LiveIds
    <2>2. LiveAsGiven' /\ WireTells'
      BY <2>1 DEF LiveAsGiven, WireTells
    <2>3. ASSUME NEW q \in posts'
          PROVE  /\ q.op = "submit" => q.conv \in {None, given'[q.from]}
                 /\ Accepted(q) => q.sid \in born' /\ given'[q.sid] = WrittenUnder(q)'
      <3>1. PICK r \in posts : /\ q.op = r.op /\ q.from = r.from /\ q.conv = r.conv /\ q.sid = r.sid
                               /\ q.st \in {"turn", "done"} => q.st = r.st
        BY <1>5, RestartsKeep DEF BornInv, PostsOK
      <3>2. Accepted(q) => Accepted(r)
        BY <3>1 DEF Accepted
      <3> QED
        BY <1>0, <3>1, <3>2 DEF PostsTell, WrittenUnder
    <2>4. PostsTell'
      BY <2>3 DEF PostsTell
    <2> QED
      BY <1>1, <2>2, <2>4
  <1> QED
    BY <1>3, <1>4, <1>5

(* What a session is put at on the screen is what it was given out for.    *)
LEMMA PutTells ==
    ASSUME BornInv, SlicesTell, GivenStays, NEW s \in born, NEW slice, Put(s, slice),
           slice.conv \in {None, given[s]}
    PROVE  SlicesTell'
  <1>1. /\ Ids' = Ids \cup {s} /\ slices'[s] = slice /\ \A x \in Ids \ {s} : slices'[x] = slices[x]
    BY PutIs
  <1>2. Ids \subseteq born
    BY DEF BornInv, ScreenOK
  <1> QED
    BY <1>1, <1>2 DEF SlicesTell, GivenStays

LEMMA ToldOfSlice ==
    ASSUME SlicesTell, NEW s
    PROVE  SliceOf(s).conv \in {None, given[s]}
  BY DEF SlicesTell, SliceOf, NewSlice

LEMMA ThreadFrames ==
    ASSUME BornInv, ThreadInv, GivenStays, HandleRoster \/ HandleAdded \/ HandleRemoved \/ HandleEvent
    PROVE  ThreadInv'
  <1> USE DEF ThreadInv
  <1> DEFINE f == Head(wire)
  <1>0. Took
    BY DEF HandleRoster, HandleAdded, HandleRemoved, HandleEvent
  <1>1. wire # <<>> /\ wire' = Tail(wire) /\ UNCHANGED <<live, born, given>>
    BY <1>0 DEF Took, server
  <1>2. /\ f \in Frame /\ Speaks(f, born) /\ Tells(f, given)
    <2>1. f = wire[1] /\ f \in Frame /\ Speaks(f, born) /\ 1 \in 1..Len(wire)
      BY <1>1, HeadIsTyped, Shorter DEF BornInv, WireOK
    <2> QED
      BY <2>1 DEF WireTells
  <1>3. WireTells' /\ LiveAsGiven'
    BY <1>1, WireTellsStill DEF LiveAsGiven, LiveIds
  <1>4. PostsTell'
    <2>1. \A q \in posts' : q \in posts \/ (q.st = "sent" /\ q.op # "submit")
      BY DEF HandleRoster, HandleAdded, HandleRemoved, HandleEvent
    <2> QED
      BY <2>1, PostsTellStill
  <1> HIDE DEF f
  <1>5. CASE HandleRoster
    <2>1. f.t = "roster" /\ slices' = Roster(f.of)
      BY <1>5 DEF HandleRoster, f
    <2>2. Ids' = DOMAIN f.of /\ \A s \in Ids' : slices'[s] = ApplyState(SliceOf(s), f.of[s])
      BY <2>1, RosterIs
    <2>3. ASSUME NEW s \in Ids' PROVE slices'[s].conv = given'[s]
      <3> DEFINE x == SliceOf(s)
      <3> DEFINE d == f.of[s]
      <3>1. x \in Slice /\ d \in Descs /\ d.conv = given'[s] /\ slices'[s] = ApplyState(x, d)
        BY <1>1, <1>2, <2>1, <2>2, FrameKinds, SliceOfIsOne DEF BornInv, Tells
      <3> HIDE DEF x, d
      <3>2. ApplyState(x, d).conv = d.conv
        BY <3>1, DescribedSlice
      <3> QED
        BY <3>1, <3>2
    <2> QED
      BY <1>3, <1>4, <2>3 DEF SlicesTell
  <1>6. CASE HandleAdded
    <2> DEFINE x == SliceOf(f.id)
    <2> DEFINE d == f.is
    <2> DEFINE slice == ApplyState(x, d)
    <2>1. Put(f.id, slice) /\ f.t = "added"
      BY <1>6 DEF HandleAdded, f
    <2>2. x \in Slice /\ d \in Descs /\ d.conv = given[f.id] /\ f.id \in born
      BY <1>2, <2>1, FrameKinds, SliceOfIsOne DEF BornInv, Tells, Speaks
    <2> HIDE DEF x, d
    <2>3. slice.conv = given[f.id]
      BY <2>2, DescribedSlice
    <2> HIDE DEF slice
    <2> QED
      BY <1>3, <1>4, <2>1, <2>2, <2>3, PutTells
  <1>7. CASE HandleRemoved
    <2>1. slices' = [s \in Ids \ {f.id} |-> slices[s]]
      BY <1>7 DEF HandleRemoved, f
    <2>2. Ids' = Ids \ {f.id} /\ \A s \in Ids' : slices'[s] = slices[s]
      BY <2>1 DEF Ids
    <2> QED
      BY <1>3, <1>4, <2>2, SlicesTellStill
  <1>8. CASE HandleEvent
    <2> DEFINE x == SliceOf(f.id)
    <2> DEFINE e == f.e
    <2> DEFINE slice == ReduceEvent(x, e)
    <2>1. Put(f.id, slice) /\ f.t = "event"
      BY <1>8 DEF HandleEvent, f
    <2>2. x \in Slice /\ e \in Events /\ f.id \in born /\ x.conv \in {None, given[f.id]}
      BY <1>2, <2>1, FrameKinds, SliceOfIsOne, ToldOfSlice DEF BornInv, Speaks
    <2> HIDE DEF x, e
    <2>3. slice.conv = x.conv
      BY <2>2, SliceKinds
    <2> HIDE DEF slice
    <2> QED
      BY <1>3, <1>4, <2>1, <2>2, <2>3, PutTells
  <1> QED
    BY <1>5, <1>6, <1>7, <1>8

LEMMA ThreadPerson ==
    ASSUME BornInv, ThreadInv, GivenStays,
           \/ Render \/ PromotePeek \/ NewSession \/ \E c \in logged : OpenPeek(c)
           \/ \E s \in Sessions : TreeArrives(s) \/ Focus(s) \/ Submit(s) \/ CloseOne(s) \/ Answer(s)
    PROVE  ThreadInv'
  <1> USE DEF ThreadInv
  <1>0. UNCHANGED <<server, wire>> /\ given' = given
    BY DEF Render, PromotePeek, NewSession, OpenPeek, TreeArrives, Focus, Submit, CloseOne, Answer,
           Acts, bus, server
  <1>1. WireTells' /\ LiveAsGiven'
    BY <1>0, WireTellsStill DEF server, LiveAsGiven, LiveIds
  <1>2. ASSUME UNCHANGED slices PROVE SlicesTell'
    BY <1>2, SlicesTellStill DEF Ids
  <1>3. ASSUME UNCHANGED posts PROVE PostsTell'
    BY <1>3, PostsTellStill
  <1>4. ASSUME NEW op, NEW from, NEW conv, Posts(op, from, conv),
               op = "submit" => conv \in {None, given[from]}
        PROVE  PostsTell'
    <2> DEFINE q == [op |-> op, from |-> from, conv |-> conv, st |-> "sent", sid |-> None]
    <2>1. posts' = posts \cup {q} /\ q.op = op /\ q.from = from /\ q.conv = conv /\ q.st = "sent"
      BY <1>4 DEF Posts
    <2> HIDE DEF q
    <2> QED
      BY <1>0, <1>4, <2>1, PostsTellStill
  <1>5. CASE Render
    <2>1. Ids' = Ids /\ \A s \in Ids : slices'[s] = [slices[s] EXCEPT !.moved = FALSE] /\ slices[s] \in Slice
      BY <1>5, Rendered DEF BornInv, ScreenOK
    <2>2. \A s \in Ids : slices'[s].conv = slices[s].conv
      <3>1. \A x \in Slice : [x EXCEPT !.moved = FALSE].conv = x.conv
        BY SliceKinds
      <3> QED
        BY <2>1, <3>1
    <2>3. SlicesTell'
      BY <2>1, <2>2, SlicesTellStill
    <2> QED
      BY <1>1, <1>3, <1>5, <2>3 DEF Render
  <1>6. CASE PromotePeek \/ NewSession
    BY <1>1, <1>2, <1>4, <1>6 DEF PromotePeek, NewSession, screen
  <1>7. ASSUME NEW c \in logged, OpenPeek(c) PROVE ThreadInv'
    BY <1>1, <1>2, <1>3, <1>7 DEF OpenPeek
  <1>8. ASSUME NEW s \in Sessions, Focus(s) PROVE ThreadInv'
    BY <1>1, <1>2, <1>3, <1>8 DEF Focus
  <1>9. ASSUME NEW s \in Sessions, CloseOne(s) PROVE ThreadInv'
    BY <1>1, <1>2, <1>4, <1>9 DEF CloseOne, screen
  <1>10. ASSUME NEW s \in Sessions, Submit(s) PROVE ThreadInv'
    <2>1. slices[s].conv \in {None, given[s]}
      BY <1>10 DEF Submit, SlicesTell
    <2> QED
      BY <1>1, <1>2, <1>4, <1>10, <2>1 DEF Submit, screen
  <1>11. ASSUME NEW s \in Sessions, Answer(s) PROVE ThreadInv'
    <2> DEFINE slice == [slices[s] EXCEPT !.ask = FALSE, !.working = TRUE]
    <2>1. s \in Ids /\ slices[s] \in Slice /\ s \in born /\ Put(s, slice)
      BY <1>11 DEF Answer, BornInv, ScreenOK
    <2>2. slice.conv = slices[s].conv
      BY <2>1, SliceKinds
    <2> HIDE DEF slice
    <2>3. SlicesTell'
      BY <2>1, <2>2, PutTells DEF SlicesTell
    <2>4. PostsTell'
      BY <1>11, <1>4 DEF Answer
    <2> QED
      BY <1>1, <2>3, <2>4
  <1>12. ASSUME NEW s \in Sessions, TreeArrives(s) PROVE ThreadInv'
    <2>1. PICK c \in Told(s) : Put(s, [SliceOf(s) EXCEPT !.conv = c])
      BY <1>12 DEF TreeArrives
    <2>2. c \in {None, given[s]} /\ s \in born /\ posts' = posts
      BY <1>12 DEF Told, TreeArrives, BornInv, ScreenOK
    <2> DEFINE was == SliceOf(s)
    <2> DEFINE slice == [was EXCEPT !.conv = c]
    <2>3. Put(s, slice) /\ was \in Slice /\ c \in Convs
      BY <2>1, <2>2, SliceOfIsOne DEF BornInv, ServerOK, Convs
    <2> HIDE DEF was
    <2>4. slice.conv = c
      BY <2>3, ToldSlice
    <2> HIDE DEF slice
    <2>5. SlicesTell'
      BY <2>2, <2>3, <2>4, PutTells
    <2> QED
      BY <1>1, <1>3, <2>2, <2>5
  <1> QED
    BY <1>5, <1>6, <1>7, <1>8, <1>9, <1>10, <1>11, <1>12

LEMMA ThreadReplies ==
    ASSUME BornInv, ThreadInv, GivenStays, NEW p \in posts,
           Promoted(p) \/ Landed(p) \/ Quietly(p) \/ Failed(p)
    PROVE  ThreadInv'
  <1> USE DEF ThreadInv
  <1>0. UNCHANGED <<server, wire>> /\ posts' = posts \ {p}
    BY DEF Promoted, Landed, Quietly, Failed, Handled, bus
  <1>1. WireTells' /\ LiveAsGiven' /\ PostsTell'
    BY <1>0, WireTellsStill, PostsTellStill DEF server, LiveAsGiven, LiveIds
  <1>2. CASE UNCHANGED slices
    BY <1>1, <1>2, SlicesTellStill DEF Ids
  <1>3. CASE Failed(p) /\ p.op = "answer" /\ p.from \in Ids
    <2> DEFINE slice == [slices[p.from] EXCEPT !.working = FALSE, !.ask = TRUE]
    <2>1. slices[p.from] \in Slice /\ p.from \in born /\ Put(p.from, slice)
      BY <1>3 DEF Failed, CardBack, BornInv, ScreenOK
    <2>2. slice.conv = slices[p.from].conv
      BY <2>1, SliceKinds
    <2> HIDE DEF slice
    <2> QED
      BY <1>1, <1>3, <2>1, <2>2, PutTells DEF SlicesTell
  <1> QED
    BY <1>2, <1>3 DEF Promoted, Landed, Quietly, Failed, screen

LEMMA ThreadStep == BornInv /\ ThreadInv /\ [Next]_vars => ThreadInv'
  <1> SUFFICES ASSUME BornInv, ThreadInv, [Next]_vars PROVE ThreadInv'
    OBVIOUS
  <1>0. GivenStays
    BY GivenOnce
  <1>1. CASE Next
    BY <1>0, <1>1, Steps, ThreadSession, ThreadServer, ThreadConnection, ThreadFrames, ThreadPerson, ThreadReplies
  <1>2. CASE UNCHANGED vars
    <2>1. UNCHANGED <<live, born, given, wire, slices, posts>>
      BY <1>2 DEF vars, server, bus, screen
    <2> QED
      BY <2>1 DEF ThreadInv, LiveAsGiven, WireTells, SlicesTell, PostsTell, LiveIds, Ids, Accepted, WrittenUnder
  <1> QED
    BY <1>1, <1>2

(* What is typed under a thread goes on in that thread, or is refused: no  *)
(* two live sessions are on one conversation, and the session that took a  *)
(* message was given out for the conversation the message was written      *)
(* under, whatever was closed, revived, restarted or told late in between  *)
(* (POST /chat and startSession in server.ts, submit and promotePeek in    *)
(* App.tsx).                                                               *)
THEOREM MessagesReachTheirThread == Spec => []MessagesFindTheirThread
  <1>1. BornInv /\ ThreadInv => MessagesFindTheirThread
    BY DEF BornInv, ThreadInv, PostsTell, MessagesFindTheirThread
  <1>2. Spec => []ThreadInv
    BY ThreadInit, ThreadStep, BornInvariance, PTL DEF Spec
  <1> QED
    BY <1>1, <1>2, BornInvariance, PTL

-----------------------------------------------------------------------------
(* The pane that a promotion took: its session is on the rail once it is   *)
(* described, and until then it is the one that is waited for.             *)

Claimed ==
    claim # None =>
        IF claim \in describedRef THEN claim \in Ids
        ELSE promoting = claim /\ seen.promoting \in {None, claim}

LEMMA ClaimInit == Init => Claimed /\ PromotionKeepsFocus
  BY DEF Init, Claimed, PromotionKeepsFocus

LEMMA ClaimKept ==
    ASSUME Claimed, PromotionKeepsFocus, Ids \subseteq Ids',
           UNCHANGED <<claim, describedRef, promoting, seen, focusedId>>
    PROVE  Claimed' /\ PromotionKeepsFocus'
  BY DEF Claimed, PromotionKeepsFocus

LEMMA ScreenKept ==
    ASSUME \/ \E s \in Sessions : ModelCallEnds(s) \/ TurnLands(s)
           \/ \E p \in posts : Chat(p) \/ ChatAnswers(p) \/ Serve(p)
           \/ Breaks \/ Connects \/ Restarts
    PROVE  UNCHANGED <<screen, refs, ghosts>>
  BY DEF ModelCallEnds, TurnLands, Chat, ChatAnswers, Serve, Breaks, Connects, Restarts, ServerMoves

LEMMA ClaimFrames ==
    ASSUME BornInv, Claimed, PromotionKeepsFocus,
           HandleRoster \/ HandleAdded \/ HandleRemoved \/ HandleEvent
    PROVE  Claimed' /\ PromotionKeepsFocus'
  <1>0. None \notin describedRef' /\ None \notin describedRef
    BY FrameActions DEF BornInv, ServerOK, ScreenOK
  <1>1. seen' = seen
    BY DEF HandleRoster, HandleAdded, HandleRemoved, HandleEvent, Took
  <1> DEFINE f == Head(wire)
  (* What is described hands the pane over to the one that is waited for.  *)
  <1>2. ASSUME NEW ids, Describes(ids), ids \subseteq Ids',
               \/ claim' = claim /\ (claim \in describedRef /\ claim # None => claim \in Ids')
               \/ claim' = None
        PROVE  Claimed' /\ PromotionKeepsFocus'
    <2>1. describedRef' = describedRef \cup ids
      BY <1>2 DEF Describes
    <2>2. promoting' = IF seen.promoting \in describedRef' THEN None ELSE promoting
      BY <1>2 DEF Describes
    <2>3. focusedId' = focusedId \/ (focusedId' = seen.promoting /\ seen.focusedId = seen.promoting)
      BY <1>2 DEF Describes, FocusOn, pane
    <2>4. PromotionKeepsFocus'
      BY <1>1, <1>2, <2>3 DEF PromotionKeepsFocus
    <2>5. Claimed'
      BY <1>0, <1>1, <1>2, <2>1, <2>2 DEF Claimed
    <2> QED
      BY <2>4, <2>5
  <1>3. CASE HandleRoster
    <2>1. Ids' = DOMAIN f.of
      BY <1>3, RosterIs DEF HandleRoster
    <2>2. CASE initialized \/ f.of = <<>>
      <3>1. Describes(DOMAIN f.of) /\ Unclaimed(DOMAIN f.of)
        BY <1>3, <2>2 DEF HandleRoster
      <3>2. \/ claim' = claim /\ (claim \in describedRef /\ claim # None => claim \in Ids')
            \/ claim' = None
        BY <3>1, <2>1 DEF Unclaimed
      <3> QED
        BY <3>1, <3>2, <2>1, <1>2
    <2>3. CASE ~(initialized \/ f.of = <<>>)
      <3>1. /\ FirstFocus(DOMAIN f.of)
            /\ claim' = IF claim \in DOMAIN f.of THEN claim ELSE None
        BY <1>3, <2>3 DEF HandleRoster
      <3>2. PICK s \in DOMAIN f.of : (focusedId \in DOMAIN f.of => s = focusedId)
                                     /\ DescribesFor(DOMAIN f.of, s)
        BY <3>1 DEF FirstFocus
      <3>3. focusedId' = s /\ describedRef' = describedRef \cup DOMAIN f.of
        BY <3>2 DEF DescribesFor, FocusOn
      <3>4. PromotionKeepsFocus'
        BY <3>1, <3>2, <3>3, <1>1 DEF PromotionKeepsFocus
      <3>5. Claimed'
        BY <3>1, <3>3, <2>1 DEF Claimed
      <3> QED
        BY <3>4, <3>5
    <2> QED
      BY <2>2, <2>3
  <1>4. CASE HandleAdded
    <2>1. Ids' = Ids \cup {f.id} /\ claim' = claim
      BY <1>4, PutIs DEF HandleAdded, ghosts
    <2>2. CASE seen.focusedId = None
      <3>1. /\ describedRef' = describedRef \cup {f.id}
            /\ promoting' = IF seen.promoting \in describedRef' THEN None ELSE promoting
        BY <1>4, <2>2 DEF HandleAdded, DescribesFor
      <3>2. PromotionKeepsFocus'
        BY <1>1, <2>2, <2>1 DEF PromotionKeepsFocus
      <3>3. Claimed'
        BY <1>0, <1>1, <2>1, <3>1 DEF Claimed
      <3> QED
        BY <3>2, <3>3
    <2>3. CASE seen.focusedId # None
      <3>1. Describes({f.id})
        BY <1>4, <2>3 DEF HandleAdded
      <3> QED
        BY <3>1, <2>1, <1>2 DEF Claimed
    <2> QED
      BY <2>2, <2>3
  <1>5. CASE HandleRemoved
    <2>1. Ids' = Ids \ {f.id} /\ Unclaimed(Ids \ {f.id})
          /\ UNCHANGED <<focusedId, promoting, describedRef>>
      BY <1>5 DEF HandleRemoved, Ids, pane
    <2> QED
      BY <2>1, <1>1 DEF Unclaimed, Claimed, PromotionKeepsFocus
  <1>6. CASE HandleEvent
    <2>1. Ids \subseteq Ids' /\ UNCHANGED <<claim, describedRef, promoting, focusedId>>
      BY <1>6, PutIs DEF HandleEvent, pane
    <2> QED
      BY <2>1, <1>1, ClaimKept
  <1> QED
    BY <1>3, <1>4, <1>5, <1>6

LEMMA ClaimPerson ==
    ASSUME BornInv, Claimed, PromotionKeepsFocus,
           \/ Render \/ PromotePeek \/ NewSession \/ \E c \in logged : OpenPeek(c)
           \/ \E s \in Sessions : TreeArrives(s) \/ Focus(s) \/ Submit(s) \/ CloseOne(s) \/ Answer(s)
    PROVE  Claimed' /\ PromotionKeepsFocus'
  <1>1. CASE Render
    <2>1. Ids' = Ids /\ UNCHANGED <<claim, describedRef, promoting>>
          /\ seen'.promoting = promoting /\ seen'.focusedId = focusedId
      BY <1>1, Rendered DEF BornInv, Render
    <2>2. focusedId' = focusedId \/ focusedId \notin Ids \cup {None, promoting}
      BY <1>1 DEF Render, Fallback
    <2> QED
      BY <2>1, <2>2 DEF Claimed, PromotionKeepsFocus
  <1>2. ASSUME UNCHANGED slices, UNCHANGED <<describedRef, promoting, seen, focusedId, claim>>
        PROVE  Claimed' /\ PromotionKeepsFocus'
    BY <1>2, ClaimKept DEF Ids
  <1>3. CASE PromotePeek \/ NewSession \/ \E c \in logged : OpenPeek(c)
    BY <1>3, <1>2 DEF PromotePeek, NewSession, OpenPeek, Acts, screen, pane
  <1>4. ASSUME NEW s \in Sessions, Submit(s) \/ CloseOne(s) PROVE Claimed' /\ PromotionKeepsFocus'
    BY <1>4, <1>2 DEF Submit, CloseOne, Acts, screen, pane
  <1>5. ASSUME NEW s \in Sessions, Focus(s) PROVE Claimed' /\ PromotionKeepsFocus'
    BY <1>5 DEF Focus, Claimed, PromotionKeepsFocus
  <1>6. ASSUME NEW s \in Sessions, Answer(s) \/ TreeArrives(s) PROVE Claimed' /\ PromotionKeepsFocus'
    <2>1. Ids \subseteq Ids'
      BY <1>6, PutIs DEF Answer, TreeArrives
    <2> QED
      BY <2>1, <1>6, ClaimKept DEF Answer, TreeArrives, Acts, pane
  <1> QED
    BY <1>1, <1>3, <1>4, <1>5, <1>6

LEMMA ClaimReplies ==
    ASSUME BornInv, Claimed, PromotionKeepsFocus, NEW p \in posts,
           Promoted(p) \/ Landed(p) \/ Quietly(p) \/ Failed(p)
    PROVE  Claimed' /\ PromotionKeepsFocus'
  <1>0. UNCHANGED <<seen, describedRef>>
    BY DEF Promoted, Landed, Quietly, Failed, Handled
  <1>1. CASE Promoted(p)
    <2>1. /\ slices' = slices /\ focusedId' = p.sid
          /\ IF p.sid \in describedRef THEN promoting' = promoting ELSE promoting' = p.sid
          /\ claim' = IF \/ p.sid \in Ids \cap describedRef
                         \/ (p.sid \notin describedRef /\ seen.promoting \in {None, p.sid})
                      THEN p.sid ELSE None
      BY <1>1 DEF Promoted, FocusOn
    <2> QED
      BY <1>0, <2>1 DEF Claimed, PromotionKeepsFocus, Ids
  <1>2. CASE Landed(p)
    <2>1. slices' = slices /\ promoting' = promoting
          /\ (claim' = None \/ (claim' = claim /\ focusedId' = focusedId))
      BY <1>2 DEF Landed, FocusOn, pane
    <2> QED
      BY <1>0, <2>1 DEF Claimed, PromotionKeepsFocus, Ids
  <1>3. CASE Quietly(p)
    <2>1. UNCHANGED <<slices, focusedId, promoting, claim>>
      BY <1>3 DEF Quietly, screen, pane
    <2> QED
      BY <1>0, <2>1, ClaimKept DEF Ids
  <1>4. CASE Failed(p)
    <2>1. UNCHANGED <<focusedId, promoting, claim>>
      BY <1>4 DEF Failed
    <2>2. Ids \subseteq Ids'
      BY <1>4, PutIs DEF Failed, Ids
    <2> QED
      BY <1>0, <2>1, <2>2, ClaimKept
  <1> QED
    BY <1>1, <1>2, <1>3, <1>4

LEMMA ClaimStep ==
    BornInv /\ Claimed /\ PromotionKeepsFocus /\ [Next]_vars => Claimed' /\ PromotionKeepsFocus'
  <1> SUFFICES ASSUME BornInv, Claimed, PromotionKeepsFocus, [Next]_vars
               PROVE  Claimed' /\ PromotionKeepsFocus'
    OBVIOUS
  <1>1. ASSUME UNCHANGED <<screen, refs, ghosts>> PROVE Claimed' /\ PromotionKeepsFocus'
    BY <1>1, ClaimKept DEF screen, pane, refs, ghosts, Ids
  <1>2. CASE UNCHANGED vars
    BY <1>2, <1>1 DEF vars
  <1>3. CASE Next
    BY <1>3, <1>1, Steps, ScreenKept, ClaimFrames, ClaimPerson, ClaimReplies
  <1> QED
    BY <1>2, <1>3

(* The pane stays with the thread that was promoted, whatever frames come  *)
(* and whenever they are rendered (App.tsx, described and promoteToFocus). *)
THEOREM PromotionsKeepTheFocus == Spec => []PromotionKeepsFocus
  BY ClaimInit, ClaimStep, BornInvariance, PTL DEF Spec

-----------------------------------------------------------------------------
(* A settle that was folded is counted in its slice until it is rendered.  *)

Counted == \A s \in due : s \in Ids \cap DOMAIN memory /\ slices[s].moved

LEMMA CountedInit == Init => Counted /\ HandBackIsTold
  BY DEF Init, Counted, HandBackIsTold

LEMMA CountedPut ==
    ASSUME Counted, NEW s, NEW slice, Put(s, slice), s \in due => slice.moved,
           UNCHANGED <<due, memory>>
    PROVE  Counted'
  BY PutIs DEF Counted

LEMMA CountedFrames ==
    ASSUME BornInv, Counted, HandleRoster \/ HandleAdded \/ HandleRemoved \/ HandleEvent
    PROVE  Counted' /\ HandBackIsTold'
  <1> DEFINE f == Head(wire)
  <1>1. stale' = TRUE /\ memory' = memory /\ wire # <<>>
    BY DEF HandleRoster, HandleAdded, HandleRemoved, HandleEvent, Took
  <1>2. HandBackIsTold'
    BY <1>1 DEF HandBackIsTold
  <1>3. f \in Frame
    BY <1>1, HeadIsTyped DEF BornInv
  <1>4. CASE HandleRoster
    <2>1. /\ Ids' = DOMAIN f.of /\ due' = due \cap DOMAIN f.of
          /\ \A s \in Ids' : slices'[s] = ApplyState(SliceOf(s), f.of[s])
      BY <1>4, RosterIs DEF HandleRoster
    <2>2. ASSUME NEW s \in due' PROVE s \in Ids' \cap DOMAIN memory /\ slices'[s].moved
      <3>1. s \in Ids /\ s \in DOMAIN memory /\ slices[s].moved /\ SliceOf(s) = slices[s]
        BY <2>1, <2>2, SliceOfIsOne DEF Counted, BornInv
      <3> DEFINE x == slices[s]
      <3> DEFINE d == f.of[s]
      <3>2. x \in Slice /\ d \in Descs
        BY <3>1, <2>1, <2>2, <1>3, <1>4, FrameKinds DEF HandleRoster, BornInv, ScreenOK
      <3>3. slices'[s] = ApplyState(x, d)
        BY <2>1, <2>2, <3>1
      <3> HIDE DEF d
      <3>4. ApplyState(x, d).moved = x.moved
        BY <3>2, SliceKinds
      <3> QED
        BY <2>1, <2>2, <3>1, <3>3, <3>4
    <2> QED
      BY <2>2, <1>1, <1>2 DEF Counted
  <1>5. CASE HandleAdded
    <2> DEFINE x == SliceOf(f.id)
    <2> DEFINE d == f.is
    <2>1. Put(f.id, ApplyState(x, d)) /\ due' = due /\ f.t = "added"
      BY <1>5 DEF HandleAdded, ghosts
    <2>2. x \in Slice /\ d \in Descs /\ (f.id \in due => x.moved)
      BY <1>3, <2>1, FrameKinds, SliceOfIsOne DEF Counted, BornInv
    <2> HIDE DEF x, d
    <2>3. f.id \in due => ApplyState(x, d).moved
      BY <2>2, SliceKinds
    <2> QED
      BY <1>1, <1>2, <2>1, <2>3, CountedPut
  <1>6. CASE HandleRemoved
    <2>1. Ids' = Ids \ {f.id} /\ due' = due \ {f.id} /\ \A s \in Ids' : slices'[s] = slices[s]
      BY <1>6 DEF HandleRemoved, Ids
    <2> QED
      BY <2>1, <1>1, <1>2 DEF Counted
  <1>7. CASE HandleEvent
    <2> DEFINE x == SliceOf(f.id)
    <2> DEFINE e == f.e
    <2>1. /\ Put(f.id, ReduceEvent(x, e)) /\ f.t = "event"
          /\ due' = IF e \in Settles /\ f.id \in DOMAIN memory THEN due \cup {f.id} ELSE due
      BY <1>7 DEF HandleEvent
    <2>2. x \in Slice /\ e \in Events /\ (f.id \in due => x.moved)
      BY <1>3, <2>1, FrameKinds, SliceOfIsOne DEF Counted, BornInv
    <2> HIDE DEF x, e
    <2>3. (f.id \in due \/ e \in Settles) => ReduceEvent(x, e).moved
      BY <2>2, SliceKinds
    <2> DEFINE r == ReduceEvent(x, e)
    <2>4. /\ Ids' = Ids \cup {f.id} /\ slices'[f.id] = r
          /\ \A s \in Ids \ {f.id} : slices'[s] = slices[s]
      BY <2>1, PutIs
    <2> HIDE DEF r
    <2>5. (f.id \in due \/ e \in Settles) => r.moved
      BY <2>3 DEF r
    <2> QED
      BY <2>1, <2>4, <2>5, <1>1, <1>2 DEF Counted
  <1> QED
    BY <1>4, <1>5, <1>6, <1>7

LEMMA CountedPerson ==
    ASSUME BornInv, Counted, HandBackIsTold,
           \/ Render \/ PromotePeek \/ NewSession \/ \E c \in logged : OpenPeek(c)
           \/ \E s \in Sessions : TreeArrives(s) \/ Focus(s) \/ Submit(s) \/ CloseOne(s) \/ Answer(s)
    PROVE  Counted' /\ HandBackIsTold'
  <1>1. CASE Render
    <2>1. PICK hidden \in BOOLEAN :
             due' = {s \in due : ~(s \in Fired(hidden) \/ Watched(s, hidden) \/ Reason(s) = "busy")}
      BY <1>1 DEF Render
    <2>2. \A s \in due : s \in Fired(hidden) \/ Watched(s, hidden) \/ Reason(s) = "busy"
      BY DEF Counted, Fired, Edge
    <2> QED
      BY <2>1, <2>2 DEF Counted, HandBackIsTold
  <1>2. ASSUME UNCHANGED <<slices, due, memory>>, stale' = stale \/ stale'
        PROVE  Counted' /\ HandBackIsTold'
    BY <1>2 DEF Counted, HandBackIsTold, Ids
  <1>3. CASE PromotePeek \/ NewSession \/ \E c \in logged : OpenPeek(c)
    BY <1>3, <1>2 DEF PromotePeek, NewSession, OpenPeek, Acts, screen, pane
  <1>4. ASSUME NEW s \in Sessions, Submit(s) \/ CloseOne(s) \/ Focus(s)
        PROVE  Counted' /\ HandBackIsTold'
    BY <1>4, <1>2 DEF Submit, CloseOne, Focus, Acts, screen, pane
  <1>5. ASSUME NEW s \in Sessions, Answer(s) PROVE Counted' /\ HandBackIsTold'
    <2>1. slices[s] \in Slice
      BY <1>5 DEF Answer, BornInv, ScreenOK
    <2>2. [slices[s] EXCEPT !.ask = FALSE, !.working = TRUE].moved = slices[s].moved
      BY <2>1, SliceKinds
    <2>3. Counted'
      BY <1>5, <2>2, CountedPut DEF Answer, Acts, Counted
    <2> QED
      BY <1>5, <2>3 DEF Answer, HandBackIsTold
  <1>6. ASSUME NEW s \in Sessions, TreeArrives(s) PROVE Counted' /\ HandBackIsTold'
    <2>1. PICK c \in Told(s) : Put(s, [SliceOf(s) EXCEPT !.conv = c])
      BY <1>6 DEF TreeArrives
    <2> DEFINE was == SliceOf(s)
    <2> DEFINE slice == [was EXCEPT !.conv = c]
    <2>2. Put(s, slice) /\ was \in Slice /\ c \in Convs /\ (s \in due => was.moved)
      BY <2>1, SliceOfIsOne DEF Counted, BornInv, ServerOK, Told, Convs
    <2> HIDE DEF was
    <2>3. s \in due => slice.moved
      BY <2>2, ToldSlice
    <2> HIDE DEF slice
    <2>4. Counted'
      BY <1>6, <2>2, <2>3, CountedPut DEF TreeArrives
    <2> QED
      BY <1>6, <2>4 DEF TreeArrives, HandBackIsTold
  <1> QED
    BY <1>1, <1>3, <1>4, <1>5, <1>6

LEMMA CountedReplies ==
    ASSUME BornInv, Counted, NEW p \in posts, Promoted(p) \/ Landed(p) \/ Quietly(p) \/ Failed(p)
    PROVE  Counted' /\ HandBackIsTold'
  <1>1. stale' = TRUE /\ UNCHANGED <<due, memory>>
    BY DEF Promoted, Landed, Quietly, Failed, Handled
  <1>2. HandBackIsTold'
    BY <1>1 DEF HandBackIsTold
  <1>3. CASE UNCHANGED slices
    BY <1>1, <1>2, <1>3 DEF Counted, Ids
  <1>4. CASE Failed(p) /\ p.op = "answer" /\ p.from \in Ids
    <2>1. slices[p.from] \in Slice
      BY <1>4 DEF BornInv, ScreenOK
    <2>2. [slices[p.from] EXCEPT !.working = FALSE, !.ask = TRUE].moved = slices[p.from].moved
      BY <2>1, SliceKinds
    <2>3. Put(p.from, [slices[p.from] EXCEPT !.working = FALSE, !.ask = TRUE])
      BY <1>4 DEF Failed, CardBack
    <2>4. Counted'
      BY <2>2, <2>3, <1>1, CountedPut DEF Counted
    <2> QED
      BY <1>2, <2>4
  <1> QED
    BY <1>3, <1>4 DEF Promoted, Landed, Quietly, Failed, screen

LEMMA CountedStep ==
    BornInv /\ Counted /\ HandBackIsTold /\ [Next]_vars => Counted' /\ HandBackIsTold'
  <1> SUFFICES ASSUME BornInv, Counted, HandBackIsTold, [Next]_vars
               PROVE  Counted' /\ HandBackIsTold'
    OBVIOUS
  <1>1. ASSUME UNCHANGED <<screen, refs, ghosts>> PROVE Counted' /\ HandBackIsTold'
    BY <1>1 DEF screen, refs, ghosts, Counted, HandBackIsTold, Ids
  <1>2. CASE UNCHANGED vars
    BY <1>2, <1>1 DEF vars
  <1>3. CASE Next
    BY <1>3, <1>1, Steps, ScreenKept, CountedFrames, CountedPerson, CountedReplies
  <1> QED
    BY <1>2, <1>3

(* No turn that came back is lost between a fold and a render, however     *)
(* many events one render takes in (attention.ts, stepAttention).          *)
THEOREM HandBacksAreTold == Spec => []HandBackIsTold
  BY CountedInit, CountedStep, BornInvariance, PTL DEF Spec

-----------------------------------------------------------------------------
(* The wire. A roster only comes first, a session's announcement before    *)
(* everything else about it, its removal after it; what is announced is    *)
(* new to the browser, and who is gone has a removal under way.            *)

Rostered == wire # <<>> /\ wire[1].t = "roster"
Heard    == IF Rostered THEN DOMAIN wire[1].of ELSE {}
HasAdded(s)   == \E i \in 1..Len(wire) : wire[i].t = "added" /\ wire[i].id = s
HasRemoved(s) == \E i \in 1..Len(wire) : wire[i].t = "removed" /\ wire[i].id = s

RosterLeads == \A i \in 1..Len(wire) : wire[i].t = "roster" => i = 1
AddedLeads ==
    \A i, j \in 1..Len(wire) :
        wire[i].t = "added" /\ wire[j].t # "roster" /\ wire[j].id = wire[i].id => i <= j
RemovedEnds ==
    \A i, j \in 1..Len(wire) :
        wire[i].t = "removed" /\ wire[j].t # "roster" /\ wire[j].id = wire[i].id => j <= i
AddedIsNew ==
    \A i \in 1..Len(wire) : wire[i].t = "added" =>
        wire[i].is.doing = "idle" /\ wire[i].id \notin describedRef \cup Ids \cup Heard
RemovedIsGone == \A i \in 1..Len(wire) : wire[i].t = "removed" => wire[i].id \notin LiveIds
GoneIsRemoved ==
    \A i \in 1..Len(wire) :
        wire[i].t # "roster" /\ wire[i].id \notin LiveIds => HasRemoved(wire[i].id)

WireInv == RosterLeads /\ AddedLeads /\ RemovedEnds /\ AddedIsNew /\ RemovedIsGone /\ GoneIsRemoved

LEMMA SilentWire == ASSUME wire = <<>> PROVE WireInv
  BY DEF WireInv, RosterLeads, AddedLeads, RemovedEnds, AddedIsNew, RemovedIsGone, GoneIsRemoved

(* What a wire that has grown shows.                                       *)
LEMMA Grown ==
    ASSUME wire \in Seq(Frame), NEW u \in Seq(Frame), wire' = wire \o u,
           \A k \in 1..Len(u) : u[k].t # "roster"
    PROVE  /\ Len(wire) \in Nat /\ Len(u) \in Nat /\ Len(wire') = Len(wire) + Len(u)
           /\ \A i \in 1..Len(wire) : i \in 1..Len(wire') /\ wire'[i] = wire[i]
           /\ \A k \in 1..Len(u) : Len(wire) + k \in 1..Len(wire') /\ wire'[Len(wire) + k] = u[k]
           /\ \A i \in 1..Len(wire') : i \in 1..Len(wire) \/ \E k \in 1..Len(u) : i = Len(wire) + k
           /\ Rostered' <=> Rostered
           /\ Rostered => wire'[1] = wire[1]
           /\ Heard' = Heard
           /\ \A s : (HasAdded(s) => HasAdded(s)') /\ (HasRemoved(s) => HasRemoved(s)')
           /\ \A k \in 1..Len(u) : u[k].t = "added" => HasAdded(u[k].id)'
           /\ \A k \in 1..Len(u) : u[k].t = "removed" => HasRemoved(u[k].id)'
  <1>1. Len(wire) \in Nat /\ Len(u) \in Nat /\ Len(wire') = Len(wire) + Len(u) /\ wire' \in Seq(Frame)
    BY Joined
  <1>2. /\ \A i \in 1..Len(wire) : wire'[i] = wire[i]
        /\ \A k \in 1..Len(u) : wire'[Len(wire) + k] = u[k]
        /\ \A i \in 1..Len(wire') : i \in 1..Len(wire) \/ \E k \in 1..Len(u) : i = Len(wire) + k
    <2>1. \A i \in 1..Len(wire) : wire'[i] = wire[i]
      BY Joined
    <2>2. \A k \in 1..Len(u) : wire'[Len(wire) + k] = u[k]
      BY Joined
    <2>3. \A i \in 1..Len(wire') : i \in 1..Len(wire) \/ \E k \in 1..Len(u) : i = Len(wire) + k
      BY Joined
    <2> QED
      BY <2>1, <2>2, <2>3
  <1>3. /\ \A i \in 1..Len(wire) : i \in 1..Len(wire')
        /\ \A k \in 1..Len(u) : Len(wire) + k \in 1..Len(wire')
    BY <1>1
  <1>4. (Rostered' <=> Rostered) /\ (Rostered => wire'[1] = wire[1])
    <2>1. CASE wire # <<>>
      <3>1. 1 \in 1..Len(wire)
        BY <2>1, Shorter
      <3>2. wire' # <<>>
        BY <3>1, <1>1
      <3> QED
        BY <3>1, <3>2, <1>2, <2>1 DEF Rostered
    <2>2. CASE wire = <<>>
      <3>1. ~Rostered
        BY <2>2 DEF Rostered
      <3>2. ASSUME wire' # <<>> PROVE wire'[1].t # "roster"
        <4>1. 1 \in 1..Len(wire')
          BY <3>2, <1>1, Shorter
        <4>2. Len(wire) = 0
          BY <2>2
        <4>3. PICK k \in 1..Len(u) : 1 = Len(wire) + k
          BY <4>1, <4>2, <1>2
        <4> QED
          BY <4>3, <1>2
      <3> QED
        BY <3>1, <3>2 DEF Rostered
    <2> QED
      BY <2>1, <2>2
  <1>5. Heard' = Heard
    BY <1>4 DEF Heard
  <1>6. \A s : (HasAdded(s) => HasAdded(s)') /\ (HasRemoved(s) => HasRemoved(s)')
    BY <1>2, <1>3 DEF HasAdded, HasRemoved
  <1>7. /\ \A k \in 1..Len(u) : u[k].t = "added" => HasAdded(u[k].id)'
        /\ \A k \in 1..Len(u) : u[k].t = "removed" => HasRemoved(u[k].id)'
    BY <1>2, <1>3 DEF HasAdded, HasRemoved
  <1> QED
    BY <1>1, <1>2, <1>3, <1>4, <1>5, <1>6, <1>7

(* A session that is there speaks.                                         *)
LEMMA EventsGrow ==
    ASSUME WireInv, wire \in Seq(Frame), NEW u \in Seq(Frame), wire' = wire \o u,
           NEW s \in LiveIds, \A k \in 1..Len(u) : u[k].t = "event" /\ u[k].id = s,
           UNCHANGED <<LiveIds, slices, describedRef>>
    PROVE  WireInv'
  <1> USE DEF WireInv
  <1> DEFINE n == Len(wire)
  <1>1. /\ n \in Nat /\ \A i \in 1..n : i \in 1..Len(wire') /\ wire'[i] = wire[i]
        /\ \A k \in 1..Len(u) : n + k \in 1..Len(wire') /\ wire'[n + k] = u[k]
        /\ \A i \in 1..Len(wire') : i \in 1..n \/ \E k \in 1..Len(u) : i = n + k
        /\ Heard' = Heard /\ \A x : HasRemoved(x) => HasRemoved(x)'
    BY Grown
  <1>2. \A i \in 1..Len(wire') : (i \in 1..n /\ wire'[i] = wire[i])
                                 \/ (i > n /\ wire'[i].t = "event" /\ wire'[i].id = s)
    <2>1. SUFFICES ASSUME NEW i \in 1..Len(wire'), i \notin 1..n
                   PROVE  i > n /\ wire'[i].t = "event" /\ wire'[i].id = s
      BY <1>1
    <2>2. PICK k \in 1..Len(u) : i = n + k
      BY <1>1, <2>1
    <2>3. wire'[i] = u[k]
      BY <1>1, <2>2
    <2>4. i \in Nat /\ i >= 1
      BY <2>1
    <2>5. i > n
      BY <1>1, <2>1, <2>4
    <2> QED
      BY <2>3, <2>5
  <1> HIDE DEF n
  <1>3. RosterLeads'
    BY <1>2 DEF RosterLeads
  <1>4. ASSUME NEW i \in 1..Len(wire'), NEW j \in 1..Len(wire'), wire'[j].t # "roster",
               wire'[j].id = wire'[i].id
        PROVE  (wire'[i].t = "added" => i <= j) /\ (wire'[i].t = "removed" => j <= i)
    <2>1. CASE i \in 1..n /\ j \in 1..n
      <3>1. wire'[i] = wire[i] /\ wire'[j] = wire[j]
        BY <2>1, <1>1
      <3> QED
        BY <2>1, <3>1, <1>4 DEF AddedLeads, RemovedEnds, n
    <2>2. CASE i \in 1..n /\ j > n
      <3>0. i <= n /\ i \in Nat /\ n \in Nat /\ j \in Nat
        BY <2>2, <1>1
      <3>1. wire'[i] = wire[i] /\ wire'[j].id = s /\ i <= j
        <4>1. wire'[i] = wire[i]
          BY <2>2, <1>1
        <4>2. j \notin 1..n
          BY <2>2, <3>0
        <4>3. wire'[j].id = s
          BY <4>2, <1>2
        <4> QED
          BY <2>2, <3>0, <4>1, <4>3
      <3>2. wire[i].t # "removed"
        BY <2>2, <3>1, <1>4 DEF RemovedIsGone, n
      <3> QED
        BY <3>1, <3>2
    <2>3. CASE i > n
      BY <2>3, <1>1, <1>2
    <2> QED
      BY <2>1, <2>2, <2>3, <1>2
  <1>5. AddedLeads' /\ RemovedEnds'
    BY <1>4 DEF AddedLeads, RemovedEnds
  <1>6. AddedIsNew'
    <2>1. SUFFICES ASSUME NEW i \in 1..Len(wire'), wire'[i].t = "added"
                   PROVE  wire'[i].is.doing = "idle" /\ wire'[i].id \notin describedRef \cup Ids \cup Heard
      BY <1>1 DEF AddedIsNew, Ids
    <2>2. i \in 1..n /\ wire'[i] = wire[i]
      BY <2>1, <1>2
    <2> QED
      BY <2>1, <2>2 DEF AddedIsNew, n
  <1>7. RemovedIsGone'
    BY <1>2 DEF RemovedIsGone
  <1>8. GoneIsRemoved'
    BY <1>1, <1>2 DEF GoneIsRemoved
  <1> QED
    BY <1>3, <1>5, <1>6, <1>7, <1>8

(* A session is announced: nothing was said of it before.                  *)
LEMMA AnnouncedGrows ==
    ASSUME BornInv, WireInv, NEW u \in Seq(Frame), wire' = wire \o u, Len(u) >= 1,
           NEW s \in Sessions \ born, u[1].t = "added", u[1].is.doing = "idle",
           \A k \in 1..Len(u) : u[k].id = s /\ (k # 1 => u[k].t = "event"),
           LiveIds' = LiveIds \cup {s}, UNCHANGED <<slices, describedRef>>
    PROVE  WireInv'
  <1> USE DEF WireInv
  <1> DEFINE n == Len(wire)
  <1>0. wire \in Seq(Frame) /\ \A k \in 1..Len(u) : u[k].t # "roster"
    BY DEF BornInv, WireOK
  <1>1. /\ n \in Nat /\ \A i \in 1..n : i \in 1..Len(wire') /\ wire'[i] = wire[i]
        /\ \A k \in 1..Len(u) : n + k \in 1..Len(wire') /\ wire'[n + k] = u[k]
        /\ \A i \in 1..Len(wire') : i \in 1..n \/ \E k \in 1..Len(u) : i = n + k
        /\ Heard' = Heard /\ \A x : HasRemoved(x) => HasRemoved(x)'
        /\ Len(u) \in Nat /\ Len(wire') = n + Len(u)
    BY <1>0, Grown
  <1>2. \A i \in 1..Len(wire') :
           \/ i \in 1..n /\ wire'[i] = wire[i]
           \/ i > n /\ wire'[i].t \in {"added", "event"} /\ wire'[i].id = s
              /\ (wire'[i].t = "added" => i = n + 1 /\ wire'[i].is.doing = "idle")
    <2>1. ASSUME NEW k \in 1..Len(u)
          PROVE  /\ wire'[n + k].t \in {"added", "event"} /\ wire'[n + k].id = s /\ n + k > n
                 /\ wire'[n + k].t = "added" => n + k = n + 1 /\ wire'[n + k].is.doing = "idle"
      <3>1. wire'[n + k] = u[k] /\ n + k > n
        <4>1. k \in Nat /\ k >= 1
          BY <1>1
        <4> QED
          BY <4>1, <1>1
      <3>2. CASE k = 1
        BY <3>1, <3>2
      <3>3. CASE k # 1
        BY <3>1, <3>3
      <3> QED
        BY <3>2, <3>3
    <2>2. ASSUME NEW i \in 1..Len(wire'), i \notin 1..n
          PROVE  i > n /\ wire'[i].t \in {"added", "event"} /\ wire'[i].id = s
                 /\ (wire'[i].t = "added" => i = n + 1 /\ wire'[i].is.doing = "idle")
      <3>1. PICK k \in 1..Len(u) : i = n + k
        BY <1>1, <2>2
      <3> QED
        BY <3>1, <2>1
    <2> QED
      BY <2>2, <1>1
  <1>3. \A i \in 1..n : (wire[i].t # "roster" => wire[i].id # s)
                        /\ (wire[i].t = "roster" => DOMAIN wire[i].of \subseteq born)
    BY DEF BornInv, WireOK, Speaks
  <1>4. s \notin Heard /\ s \notin Ids /\ s \notin describedRef
    <2>1. Rostered => 1 \in 1..n
      BY <1>0, Shorter DEF Rostered
    <2> QED
      BY <2>1, <1>3 DEF Heard, Rostered, BornInv, ScreenOK
  <1> HIDE DEF n
  <1>5. RosterLeads'
    BY <1>2 DEF RosterLeads, n
  <1>6. ASSUME NEW i \in 1..Len(wire'), NEW j \in 1..Len(wire'), wire'[j].t # "roster",
               wire'[j].id = wire'[i].id
        PROVE  (wire'[i].t = "added" => i <= j) /\ (wire'[i].t = "removed" => j <= i)
    <2>1. CASE i \in 1..n /\ j \in 1..n
      <3>1. wire'[i] = wire[i] /\ wire'[j] = wire[j]
        BY <2>1, <1>1
      <3> QED
        BY <2>1, <3>1, <1>6 DEF AddedLeads, RemovedEnds, n
    <2>2. CASE i \in 1..n /\ j > n
      <3>1. wire'[i] = wire[i] /\ wire'[j].id = s
        BY <2>2, <1>1, <1>2
      <3>2. wire[i].t = "roster"
        BY <2>2, <3>1, <1>3, <1>6
      <3> QED
        BY <3>1, <3>2
    <2>3. CASE i > n /\ j \in 1..n
      <3>1. wire'[j] = wire[j] /\ i \notin 1..n
        BY <2>3, <1>1
      <3>2. wire'[i].id = s
        BY <3>1, <1>2
      <3> QED
        BY <2>3, <3>1, <3>2, <1>3, <1>6
    <2>4. CASE i > n /\ j > n
      <3>1. wire'[i].t = "added" => i = n + 1
        BY <2>4, <1>1, <1>2
      <3>2. wire'[i].t # "removed"
        BY <2>4, <1>1, <1>2, SMTT(30)
      <3> QED
        BY <2>4, <3>1, <3>2, <1>1
    <2> QED
      BY <2>1, <2>2, <2>3, <2>4, <1>2
  <1>7. AddedLeads' /\ RemovedEnds'
    BY <1>6 DEF AddedLeads, RemovedEnds
  <1>8. AddedIsNew'
    <2>1. ASSUME NEW i \in 1..Len(wire'), wire'[i].t = "added"
          PROVE  wire'[i].is.doing = "idle" /\ wire'[i].id \notin describedRef \cup Ids \cup Heard
      <3>1. CASE i \in 1..n
        BY <3>1, <2>1, <1>1 DEF AddedIsNew, n
      <3>2. CASE i \notin 1..n
        BY <3>2, <2>1, <1>2, <1>4
      <3> QED
        BY <3>1, <3>2
    <2> QED
      BY <2>1, <1>1 DEF AddedIsNew, Ids
  <1>9. RemovedIsGone'
    BY <1>2, <1>3 DEF RemovedIsGone, n
  <1>10. GoneIsRemoved'
    BY <1>1, <1>2 DEF GoneIsRemoved, n
  <1> QED
    BY <1>5, <1>7, <1>8, <1>9, <1>10

(* A session is closed: nothing is said of it after that.                  *)
LEMMA FarewellGrows ==
    ASSUME WireInv, wire \in Seq(Frame), NEW u \in Seq(Frame), wire' = wire \o u, Len(u) = 2,
           NEW s \in LiveIds, u[1].t = "event", u[2].t = "removed", u[1].id = s, u[2].id = s,
           LiveIds' = LiveIds \ {s}, UNCHANGED <<slices, describedRef>>
    PROVE  WireInv'
  <1> USE DEF WireInv
  <1> DEFINE n == Len(wire)
  <1>0. \A k \in 1..Len(u) : u[k].t # "roster"
    OBVIOUS
  <1>1. /\ n \in Nat /\ \A i \in 1..n : i \in 1..Len(wire') /\ wire'[i] = wire[i]
        /\ \A k \in 1..Len(u) : n + k \in 1..Len(wire') /\ wire'[n + k] = u[k]
        /\ \A i \in 1..Len(wire') : i \in 1..n \/ \E k \in 1..Len(u) : i = n + k
        /\ Heard' = Heard /\ \A x : HasRemoved(x) => HasRemoved(x)'
        /\ \A k \in 1..Len(u) : u[k].t = "removed" => HasRemoved(u[k].id)'
        /\ Len(wire') = n + Len(u)
    BY <1>0, Grown
  <1>2. \A i \in 1..Len(wire') :
           \/ i \in 1..n /\ wire'[i] = wire[i]
           \/ i > n /\ wire'[i].t \in {"removed", "event"} /\ wire'[i].id = s
              /\ (wire'[i].t = "removed" => i = Len(wire'))
    BY <1>1
  <1>3. HasRemoved(s)'
    BY <1>1
  <1> HIDE DEF n
  <1>5. RosterLeads'
    BY <1>2 DEF RosterLeads, n
  <1>6. ASSUME NEW i \in 1..Len(wire'), NEW j \in 1..Len(wire'), wire'[j].t # "roster",
               wire'[j].id = wire'[i].id
        PROVE  (wire'[i].t = "added" => i <= j) /\ (wire'[i].t = "removed" => j <= i)
    <2>1. CASE i \in 1..n /\ j \in 1..n
      <3>1. wire'[i] = wire[i] /\ wire'[j] = wire[j]
        BY <2>1, <1>1
      <3> QED
        BY <2>1, <3>1, <1>6 DEF AddedLeads, RemovedEnds, n
    <2>2. CASE i \in 1..n /\ j > n
      <3>0. i <= n /\ i \in Nat /\ n \in Nat /\ j \in Nat
        BY <2>2, <1>1
      <3>1. wire'[i] = wire[i] /\ wire'[j].id = s /\ i <= j
        <4>1. wire'[i] = wire[i]
          BY <2>2, <1>1
        <4>2. j \notin 1..n
          BY <2>2, <3>0
        <4>3. wire'[j].id = s
          BY <4>2, <1>2
        <4> QED
          BY <2>2, <3>0, <4>1, <4>3
      <3>2. wire[i].t # "removed"
        BY <2>2, <3>1, <1>6 DEF RemovedIsGone, n
      <3> QED
        BY <3>1, <3>2
    <2>3. CASE i > n
      <3>1. wire'[i].t # "added" /\ (wire'[i].t = "removed" => i = Len(wire'))
        BY <2>3, <1>1, <1>2, SMTT(40)
      <3>2. j <= Len(wire')
        BY <1>1
      <3> QED
        BY <3>1, <3>2
    <2> QED
      BY <2>1, <2>2, <2>3, <1>2
  <1>7. AddedLeads' /\ RemovedEnds'
    BY <1>6 DEF AddedLeads, RemovedEnds
  <1>8. AddedIsNew'
    BY <1>1, <1>2 DEF AddedIsNew, Ids, n
  <1>9. RemovedIsGone'
    BY <1>2 DEF RemovedIsGone, n
  <1>10. GoneIsRemoved'
    BY <1>1, <1>2, <1>3 DEF GoneIsRemoved, n
  <1> QED
    BY <1>5, <1>7, <1>8, <1>9, <1>10

(* A frame is handled: what the browser has learned is of that frame.      *)
LEMMA TakenShrinks ==
    ASSUME WireInv, wire \in Seq(Frame), wire # <<>>, wire' = Tail(wire), UNCHANGED LiveIds,
           \A x \in describedRef' \cup Ids' :
              x \in describedRef \cup Ids \cup Heard \/ (wire[1].t # "roster" /\ x = wire[1].id)
    PROVE  /\ WireInv' /\ ~Rostered'
           /\ \A s : HasAdded(s) => HasAdded(s)' \/ (wire[1].t = "added" /\ wire[1].id = s)
           /\ \A s : HasRemoved(s) => HasRemoved(s)' \/ (wire[1].t = "removed" /\ wire[1].id = s)
           /\ \A i \in 1..Len(wire) : i # 1 => i - 1 \in 1..Len(wire') /\ wire'[i - 1] = wire[i]
  <1> USE DEF WireInv
  <1>1. /\ Len(wire) \in Nat /\ Len(wire) >= 1 /\ Len(wire') = Len(wire) - 1 /\ wire' \in Seq(Frame)
        /\ \A i \in 1..Len(wire') : i + 1 \in 1..Len(wire) /\ wire'[i] = wire[i + 1]
        /\ \A i \in 1..Len(wire) : i # 1 => i - 1 \in 1..Len(wire') /\ wire'[i - 1] = wire[i]
    BY Shorter
  <1>2. \A i \in 1..Len(wire') : wire'[i].t # "roster" /\ i + 1 # 1
    BY <1>1 DEF RosterLeads
  <1>3. RosterLeads' /\ ~Rostered' /\ Heard' = {}
    <2>1. wire' # <<>> => 1 \in 1..Len(wire')
      BY <1>1, Shorter
    <2> QED
      BY <2>1, <1>2 DEF RosterLeads, Rostered, Heard
  <1>4. 1 \in 1..Len(wire)
    BY <1>1
  <1>5. AddedLeads' /\ RemovedEnds'
    <2>1. ASSUME NEW i \in 1..Len(wire'), NEW j \in 1..Len(wire'), wire'[j].t # "roster",
                 wire'[j].id = wire'[i].id
          PROVE  (wire'[i].t = "added" => i <= j) /\ (wire'[i].t = "removed" => j <= i)
      <3>1. /\ i + 1 \in 1..Len(wire) /\ j + 1 \in 1..Len(wire)
            /\ wire'[i] = wire[i + 1] /\ wire'[j] = wire[j + 1]
        BY <1>1
      <3>2. (wire'[i].t = "added" => i + 1 <= j + 1) /\ (wire'[i].t = "removed" => j + 1 <= i + 1)
        BY <3>1, <2>1 DEF AddedLeads, RemovedEnds
      <3> QED
        BY <3>2
    <2> QED
      BY <2>1 DEF AddedLeads, RemovedEnds
  <1>6. AddedIsNew'
    <2>1. ASSUME NEW i \in 1..Len(wire'), wire'[i].t = "added"
          PROVE  wire'[i].is.doing = "idle" /\ wire'[i].id \notin describedRef' \cup Ids'
      <3>1. i + 1 \in 1..Len(wire) /\ wire'[i] = wire[i + 1] /\ ~(i + 1 <= 1)
        BY <1>1
      <3>2. wire[i + 1].is.doing = "idle" /\ wire[i + 1].id \notin describedRef \cup Ids \cup Heard
        BY <3>1, <2>1 DEF AddedIsNew
      <3>3. wire[1].t # "roster" => wire[1].id # wire[i + 1].id
        BY <3>1, <1>4, <2>1 DEF AddedLeads
      <3> QED
        BY <3>1, <3>2, <3>3
    <2> QED
      BY <2>1, <1>3 DEF AddedIsNew
  <1>7. RemovedIsGone'
    BY <1>1 DEF RemovedIsGone
  <1>8. \A s : HasAdded(s) => HasAdded(s)' \/ (wire[1].t = "added" /\ wire[1].id = s)
    BY <1>1 DEF HasAdded
  <1>9. \A s : HasRemoved(s) => HasRemoved(s)' \/ (wire[1].t = "removed" /\ wire[1].id = s)
    BY <1>1 DEF HasRemoved
  <1>10. GoneIsRemoved'
    <2>1. ASSUME NEW i \in 1..Len(wire'), NEW x, x = wire'[i].id, x \notin LiveIds'
          PROVE  HasRemoved(x)'
      <3>1. i + 1 \in 1..Len(wire) /\ wire'[i] = wire[i + 1] /\ ~(i + 1 <= 1) /\ wire[i + 1].t # "roster"
        BY <1>1, <1>2
      <3>2. HasRemoved(x)
        BY <3>1, <2>1 DEF GoneIsRemoved
      <3>3. ~(wire[1].t = "removed" /\ wire[1].id = x)
        BY <2>1, <3>1, <1>4 DEF RemovedEnds
      <3> QED
        BY <3>1, <3>2, <3>3, <1>9
    <2> QED
      BY <2>1 DEF GoneIsRemoved
  <1> QED
    BY <1>1, <1>3, <1>5, <1>6, <1>7, <1>8, <1>9, <1>10

(* Nothing of the wire changes.                                            *)
LEMMA WireStays ==
    ASSUME WireInv, UNCHANGED <<wire, LiveIds>>, describedRef' \cup Ids' \subseteq describedRef \cup Ids
    PROVE  WireInv'
  <1>1. \A i \in 1..Len(wire) : wire[i].id \notin LiveIds /\ wire[i].t # "roster" => HasRemoved(wire[i].id)'
    BY DEF WireInv, GoneIsRemoved, HasRemoved
  <1>2. Heard' = Heard
    BY DEF Heard, Rostered
  <1> QED
    BY <1>1, <1>2 DEF WireInv, RosterLeads, AddedLeads, RemovedEnds, AddedIsNew, RemovedIsGone, GoneIsRemoved

-----------------------------------------------------------------------------
(* The rail and the cards: what the browser does not show yet, or still    *)
(* shows, is under way.                                                    *)

Known == IF Rostered THEN DOMAIN wire[1].of ELSE Ids \ conjured

AnswerOf(s) == \E p \in posts : p.op = "answer" /\ p.from = s /\ p.st \in {"sent", "failed"}
AskComes(s) == \E i \in 1..Len(wire) : /\ wire[i].t = "event" /\ wire[i].id = s
                                       /\ wire[i].e = "awaiting-input"
AskShows(s) ==
    \/ AskComes(s)
    \/ Rostered /\ s \in DOMAIN wire[1].of /\ wire[1].of[s].doing = "awaiting"
    \/ ~Rostered /\ s \in Ids /\ slices[s].ask
    \/ ~Rostered /\ AnswerOf(s)

Described == describedRef \cap LiveIds \subseteq Ids
Conjured  == conjured \cap LiveIds = {} /\ conjured \subseteq Ids
Present   ==
    connected => /\ \A s \in LiveIds : s \in Known \/ HasAdded(s)
                 /\ \A s \in Known : s \in LiveIds \/ HasRemoved(s)
Cards     == connected => \A s \in LiveIds : doing[s] = "awaiting" => AskShows(s)
Answers   == \A p \in posts : p.op = "answer" /\ p.from \in LiveIds => p.from \in Ids
Silent    == ~connected => wire = <<>>

ScreenInv == Silent /\ WireInv /\ Described /\ Conjured /\ Present /\ Cards /\ Answers

LEMMA ScreenInit == Init => ScreenInv
  <1> SUFFICES ASSUME Init PROVE ScreenInv
    OBVIOUS
  <1>1. wire = <<>> /\ ~connected /\ posts = {} /\ describedRef = {} /\ conjured = {}
    BY DEF Init
  <1> QED
    BY <1>1, SilentWire DEF ScreenInv, Silent, Described, Conjured, Present, Cards, Answers

(* The parts that a break leaves are of the browser alone.                 *)
LEMMA Unconnected ==
    ASSUME ~connected', wire' = <<>>, Described', Conjured', Answers'
    PROVE  ScreenInv'
  <1>1. WireInv'
    BY DEF WireInv, RosterLeads, AddedLeads, RemovedEnds, AddedIsNew, RemovedIsGone, GoneIsRemoved
  <1> QED
    BY <1>1 DEF ScreenInv, Silent, Present, Cards

(* A step of the server, about session s: what it says is on the wire.     *)
LEMMA SaidOnTheWire ==
    ASSUME BornInv, ScreenInv, NEW s \in Sessions, NEW u \in Seq(Frame), Sends(u),
           UNCHANGED <<slices, conjured, describedRef, connected>>,
           \A k \in 1..Len(u) : u[k].t # "roster" /\ u[k].id = s,
           connected => WireInv',
           LiveIds' \subseteq LiveIds \cup {s}, LiveIds \ {s} \subseteq LiveIds',
           s \in LiveIds' \ LiveIds => s \notin born /\ \E k \in 1..Len(u) : u[k].t = "added",
           s \in LiveIds \ LiveIds' => \E k \in 1..Len(u) : u[k].t = "removed",
           \A x \in LiveIds' : x # s => doing'[x] = doing[x],
           s \in LiveIds' /\ doing'[s] = "awaiting" =>
              \/ s \in LiveIds /\ doing[s] = "awaiting"
              \/ \E k \in 1..Len(u) : u[k].t = "event" /\ u[k].e = "awaiting-input",
           \A q \in posts' : q.op = "answer" =>
              \E r \in posts : r.op = "answer" /\ r.from = q.from,
           \A x \in LiveIds' : doing'[x] = "awaiting" /\ AnswerOf(x) => AnswerOf(x)'
    PROVE  ScreenInv'
  <1> USE DEF ScreenInv
  <1>1. Ids' = Ids
    BY DEF Ids
  <1>2. s \notin LiveIds /\ s \in LiveIds' => s \notin Ids \cup describedRef \cup conjured
    BY DEF BornInv, ScreenOK, Conjured
  <1>3. Described' /\ Conjured'
    BY <1>1, <1>2 DEF Described, Conjured
  <1>4. Answers'
    <2>1. ASSUME NEW q \in posts', q.op = "answer", q.from \in LiveIds' PROVE q.from \in Ids
      <3>1. PICK r \in posts : r.op = "answer" /\ r.from = q.from
        BY <2>1
      <3>2. r.from \in born
        BY <3>1 DEF BornInv, PostsOK, Asks
      <3>3. r.from \in LiveIds
        BY <3>1, <3>2, <2>1
      <3> QED
        BY <3>1, <3>3 DEF Answers
    <2> QED
      BY <2>1, <1>1 DEF Answers
  <1>5. CASE ~connected
    <2>1. ~connected' /\ wire' = <<>>
      BY <1>5 DEF Silent, Sends
    <2> QED
      BY <2>1, <1>3, <1>4, Unconnected
  <1>6. CASE connected
    <2>0. wire \in Seq(Frame) /\ wire' = wire \o u
      BY <1>6 DEF BornInv, WireOK, Sends
    <2>1. /\ Len(wire) \in Nat
          /\ \A i \in 1..Len(wire) : i \in 1..Len(wire') /\ wire'[i] = wire[i]
          /\ \A k \in 1..Len(u) : Len(wire) + k \in 1..Len(wire') /\ wire'[Len(wire) + k] = u[k]
          /\ Rostered' <=> Rostered
          /\ Rostered => wire'[1] = wire[1]
          /\ \A x : (HasAdded(x) => HasAdded(x)') /\ (HasRemoved(x) => HasRemoved(x)')
          /\ \A k \in 1..Len(u) : u[k].t = "added" => HasAdded(u[k].id)'
          /\ \A k \in 1..Len(u) : u[k].t = "removed" => HasRemoved(u[k].id)'
      BY <2>0, Grown
    <2>2. Known' = Known
      BY <2>1, <1>1 DEF Known
    <2>3. Present'
      <3>1. ASSUME NEW x \in LiveIds' PROVE x \in Known' \/ HasAdded(x)'
        <4>1. CASE x \in LiveIds
          BY <4>1, <2>1, <2>2, <1>6 DEF Present
        <4>2. CASE x \notin LiveIds
          <5>1. x = s /\ HasAdded(s)'
            BY <4>2, <2>1
          <5> QED
            BY <5>1
        <4> QED
          BY <4>1, <4>2
      <3>2. ASSUME NEW x \in Known' PROVE x \in LiveIds' \/ HasRemoved(x)'
        <4>1. CASE x \in LiveIds /\ x \notin LiveIds'
          <5>1. x = s /\ HasRemoved(s)'
            BY <4>1, <2>1
          <5> QED
            BY <5>1
        <4>2. CASE x \notin LiveIds
          BY <4>2, <2>1, <2>2, <1>6 DEF Present
        <4> QED
          BY <4>1, <4>2
      <3> QED
        BY <3>1, <3>2 DEF Present
    <2>4. \A x : AskComes(x) => AskComes(x)'
      BY <2>1 DEF AskComes
    <2>5. Cards'
      <3>1. ASSUME NEW x \in LiveIds', doing'[x] = "awaiting", x \in LiveIds, doing[x] = "awaiting"
            PROVE  AskShows(x)'
        <4>1. AskShows(x)
          BY <3>1, <1>6 DEF Cards
        <4>2. AnswerOf(x) => AnswerOf(x)'
          BY <3>1
        <4>3. slices' = slices
          OBVIOUS
        <4> QED
          BY <4>1, <4>2, <4>3, <2>1, <2>4, <1>1 DEF AskShows
      <3>2. ASSUME s \in LiveIds', doing'[s] = "awaiting", ~(s \in LiveIds /\ doing[s] = "awaiting")
            PROVE  AskShows(s)'
        <4>1. PICK k \in 1..Len(u) : u[k].t = "event" /\ u[k].e = "awaiting-input"
          BY <3>2
        <4>2. AskComes(s)'
          BY <4>1, <2>1, SMTT(40) DEF AskComes
        <4> QED
          BY <4>2 DEF AskShows
      <3> QED
        BY <3>1, <3>2 DEF Cards
    <2> QED
      BY <1>6, <2>3, <2>5, <1>3, <1>4 DEF Silent
  <1> QED
    BY <1>5, <1>6

(* Only the requests change.                                               *)
LEMMA OnlyRequests ==
    ASSUME ScreenInv, UNCHANGED <<server, wire, connected, slices, conjured, describedRef>>,
           \A q \in posts' : q.op = "answer" =>
              \/ \E r \in posts : r.op = "answer" /\ r.from = q.from
              \/ q.from \in Ids,
           \A x \in LiveIds : doing[x] = "awaiting" /\ AnswerOf(x) => AnswerOf(x)'
    PROVE  ScreenInv'
  <1> USE DEF ScreenInv
  <1>1. Ids' = Ids /\ LiveIds' = LiveIds /\ doing' = doing
    BY DEF Ids, LiveIds, server
  <1>2. WireInv'
    BY <1>1, WireStays
  <1>3. Silent' /\ Described' /\ Conjured' /\ Answers'
    BY <1>1 DEF Silent, Described, Conjured, Answers
  <1>4. \A s : (HasAdded(s)' <=> HasAdded(s)) /\ (HasRemoved(s)' <=> HasRemoved(s))
               /\ (AskComes(s)' <=> AskComes(s))
    BY DEF HasAdded, HasRemoved, AskComes
  <1>5. Rostered' <=> Rostered
    BY DEF Rostered
  <1>6. Present'
    BY <1>1, <1>4, <1>5 DEF Present, Known
  <1>7. ASSUME NEW s \in LiveIds, connected, doing[s] = "awaiting" PROVE AskShows(s)'
    <2>1. AskShows(s) /\ (AnswerOf(s) => AnswerOf(s)')
      BY <1>7 DEF Cards
    <2> QED
      BY <2>1, <1>1, <1>4, <1>5 DEF AskShows
  <1> QED
    BY <1>1, <1>2, <1>3, <1>6, <1>7 DEF Cards

(* What a request is moved to keeps what is asked, unless it was an answer *)
(* that has been taken, and then the session is at work.                   *)
LEMMA RequestMoves ==
    ASSUME BornInv, NEW p \in posts, NEW st \in {"turn", "done", "failed"},
           NEW t \in Sessions \cup {None}, Moved(p, st, t)
    PROVE  /\ \A q \in posts' : \E r \in posts : q.op = r.op /\ q.from = r.from
           /\ \A x : AnswerOf(x) => \/ AnswerOf(x)'
                                    \/ /\ x = p.from /\ p.op = "answer" /\ p.st \in {"sent", "failed"}
                                       /\ st # "failed"
  <1>1. posts \subseteq Post
    BY DEF BornInv, PostsOK
  <1>2. /\ \A q \in posts' : \E r \in posts : q.op = r.op /\ q.from = r.from
        /\ \A r \in posts : r \in posts' \/ r = p
        /\ \E q \in posts' : q.op = p.op /\ q.from = p.from /\ q.st = st
    BY <1>1, MovedIsTyped
  <1>3. ASSUME NEW x, AnswerOf(x), ~(/\ x = p.from /\ p.op = "answer" /\ p.st \in {"sent", "failed"}
                                     /\ st # "failed")
        PROVE  AnswerOf(x)'
    <2>1. PICK r \in posts : r.op = "answer" /\ r.from = x /\ r.st \in {"sent", "failed"}
      BY <1>3 DEF AnswerOf
    <2>2. CASE r \in posts'
      BY <2>1, <2>2 DEF AnswerOf
    <2>3. CASE r = p
      BY <2>1, <2>3, <1>2, <1>3 DEF AnswerOf
    <2> QED
      BY <2>2, <2>3, <1>2
  <1> QED
    BY <1>2, <1>3

(* Session s goes on, and says so in events.                               *)
LEMMA ScreenEvents ==
    ASSUME BornInv, ScreenInv, NEW s \in LiveIds, NEW d \in Doings, doing' = [doing EXCEPT ![s] = d],
           UNCHANGED <<live, slices, conjured, describedRef, connected>>,
           NEW u \in Seq(Frame), Sends(u), \A k \in 1..Len(u) : u[k].t = "event" /\ u[k].id = s,
           d = "awaiting" => doing[s] = "awaiting" \/ \E k \in 1..Len(u) : u[k].e = "awaiting-input",
           \A q \in posts' : \E r \in posts : q.op = r.op /\ q.from = r.from,
           \A x \in LiveIds : doing'[x] = "awaiting" /\ AnswerOf(x) => AnswerOf(x)'
    PROVE  ScreenInv'
  <1>1. LiveIds' = LiveIds /\ s \in Sessions /\ doing \in [Sessions -> Doings] /\ LiveIds \subseteq Sessions
        /\ wire \in Seq(Frame)
    BY DEF LiveIds, BornInv, ServerOK, WireOK
  <1>2. connected => WireInv'
    BY <1>1, EventsGrow DEF Sends, ScreenInv
  <1>3. doing'[s] = d /\ \A x \in LiveIds : x # s => doing'[x] = doing[x]
    BY <1>1
  <1>4. \A q \in posts' : q.op = "answer" => \E r \in posts : r.op = "answer" /\ r.from = q.from
    OBVIOUS
  <1>5. \A k \in 1..Len(u) : u[k].t # "roster" /\ u[k].id = s
    OBVIOUS
  <1> QED
    BY <1>1, <1>2, <1>3, <1>4, <1>5, SaidOnTheWire

LEMMA ScreenOpens ==
    ASSUME BornInv, ScreenInv, NEW s \in Sessions, NEW conv \in Convs, NEW d \in {"idle", "turn"}, NEW frames,
           Opens(s, conv, d, frames), UNCHANGED <<slices, conjured, describedRef, connected>>,
           frames = <<>> \/ \E e \in Events : frames = <<Event(s, e)>>,
           \A q \in posts' : \E r \in posts : q.op = r.op /\ q.from = r.from,
           \A x \in LiveIds : AnswerOf(x) => AnswerOf(x)'
    PROVE  ScreenInv'
  <1>1. s \in Sessions \ born /\ LiveIds' = LiveIds \cup {s} /\ doing' = [doing EXCEPT ![s] = d]
        /\ Sends(Announced(s, conv, frames))
    BY DEF Opens, LiveIds
  <1>2. doing \in [Sessions -> Doings] /\ LiveIds \subseteq Sessions /\ s \notin LiveIds
    BY <1>1 DEF BornInv, ServerOK
  <1> DEFINE u == Announced(s, conv, frames)
  <1>3. /\ u \in Seq(Frame) /\ Len(u) >= 1 /\ u[1].t = "added" /\ u[1].is.doing = "idle"
        /\ \A k \in 1..Len(u) : u[k].id = s /\ (k # 1 => u[k].t = "event")
    <2>1. Descriptor("idle", conv).doing = "idle"
      BY DEF Descriptor
    <2> QED
      BY <2>1, Announcement
  <1>4. Sends(u)
    BY <1>1
  <1> HIDE DEF u
  <1>5. connected => WireInv'
    BY <1>1, <1>3, <1>4, AnnouncedGrows DEF Sends, ScreenInv
  <1>6. doing'[s] = d /\ d # "awaiting" /\ \A x \in LiveIds' : x # s => doing'[x] = doing[x]
    BY <1>1, <1>2
  <1>7. 1 \in 1..Len(u)
    BY <1>3
  <1>8. \A k \in 1..Len(u) : u[k].t # "roster" /\ u[k].id = s
    BY <1>3
  <1>9. s \notin born /\ \E k \in 1..Len(u) : u[k].t = "added"
    BY <1>1, <1>3, <1>7
  <1>10. \A x : doing'[s] # "awaiting" \/ x # s
    BY <1>6
  <1>11. \A x \in LiveIds' : doing'[x] = "awaiting" /\ AnswerOf(x) => AnswerOf(x)'
    BY <1>1, <1>6
  <1>12. LiveIds' \subseteq LiveIds \cup {s} /\ LiveIds \ {s} \subseteq LiveIds' /\ s \notin LiveIds \ LiveIds'
    BY <1>1
  <1>13. \A q \in posts' : q.op = "answer" => \E r \in posts : r.op = "answer" /\ r.from = q.from
    OBVIOUS
  <1> QED
    BY <1>3, <1>4, <1>5, <1>6, <1>8, <1>9, <1>11, <1>12, <1>13, SaidOnTheWire

LEMMA ScreenCloses ==
    ASSUME BornInv, ScreenInv, NEW s \in LiveIds, live' = [x \in LiveIds \ {s} |-> live[x]],
           doing' = [doing EXCEPT ![s] = "idle"],
           UNCHANGED <<slices, conjured, describedRef, connected>>,
           Sends(<<Event(s, "stopped"), Removed(s)>>),
           \A q \in posts' : \E r \in posts : q.op = r.op /\ q.from = r.from,
           \A x \in LiveIds : x # s /\ AnswerOf(x) => AnswerOf(x)'
    PROVE  ScreenInv'
  <1>1. LiveIds' = LiveIds \ {s} /\ s \in Sessions /\ wire \in Seq(Frame)
        /\ doing \in [Sessions -> Doings] /\ LiveIds \subseteq Sessions
    BY DEF LiveIds, BornInv, ServerOK, WireOK
  <1> DEFINE a == Event(s, "stopped")
  <1> DEFINE b == Removed(s)
  <1> DEFINE u == <<a, b>>
  <1>2. a \in Frame /\ b \in Frame /\ a.t = "event" /\ b.t = "removed" /\ a.id = s /\ b.id = s
    BY <1>1, Frames DEF Events
  <1>3. Sends(u)
    OBVIOUS
  <1> HIDE DEF a, b
  <1>4. /\ u \in Seq(Frame) /\ Len(u) = 2 /\ u[1] = a /\ u[2] = b
        /\ \A k \in 1..Len(u) : k = 1 \/ k = 2
    BY <1>2, Two
  <1> HIDE DEF u
  <1>5. connected => WireInv'
    BY <1>1, <1>2, <1>3, <1>4, FarewellGrows DEF Sends, ScreenInv
  <1>6. \A x \in LiveIds' : x # s => doing'[x] = doing[x]
    BY <1>1
  <1>7. s \notin LiveIds'
    BY <1>1
  <1>8. \E k \in 1..Len(u) : u[k].t = "removed"
    BY <1>2, <1>4
  <1>9. \A k \in 1..Len(u) : u[k].t # "roster" /\ u[k].id = s
    BY <1>2, <1>4
  <1>10. \A x \in LiveIds' : doing'[x] = "awaiting" /\ AnswerOf(x) => AnswerOf(x)'
    BY <1>1
  <1>11. LiveIds' \subseteq LiveIds \cup {s} /\ LiveIds \ {s} \subseteq LiveIds'
    BY <1>1
  <1>12. \A q \in posts' : q.op = "answer" => \E r \in posts : r.op = "answer" /\ r.from = q.from
    OBVIOUS
  <1> QED
    BY <1>1, <1>3, <1>4, <1>5, <1>6, <1>7, <1>8, <1>9, <1>10, <1>11, <1>12, SaidOnTheWire

LEMMA ScreenSession ==
    ASSUME BornInv, ScreenInv, NEW s \in Sessions, ModelCallEnds(s) \/ TurnLands(s)
    PROVE  ScreenInv'
  <1>0. s \in LiveIds /\ UNCHANGED <<live, slices, conjured, describedRef, connected, posts>>
        /\ doing[s] = "turn" /\ doing \in [Sessions -> Doings]
    BY DEF ModelCallEnds, TurnLands, ServerMoves, screen, refs, ghosts, server, BornInv, ServerOK
  <1>1. \A x : AnswerOf(x) => AnswerOf(x)'
    BY <1>0 DEF AnswerOf
  <1>2. \A q \in posts' : \E r \in posts : q.op = r.op /\ q.from = r.from
    BY <1>0
  <1>3. CASE ModelCallEnds(s)
    <2> DEFINE a == Event(s, "assistant-end")
    <2> DEFINE b == Event(s, "assistant-start")
    <2> DEFINE u == <<a, b>>
    <2>1. Sends(u)
      BY <1>3 DEF ModelCallEnds
    <2>2. a \in Frame /\ b \in Frame /\ a.t = "event" /\ b.t = "event" /\ a.id = s /\ b.id = s
      BY Frames DEF Events
    <2> HIDE DEF a, b
    <2>3. u \in Seq(Frame) /\ \A k \in 1..Len(u) : u[k].t = "event" /\ u[k].id = s
      BY <2>2, Two
    <2> HIDE DEF u
    <2>4. doing' = [doing EXCEPT ![s] = "turn"]
      BY <1>0, <1>3 DEF ModelCallEnds, server
    <2> QED
      BY <1>0, <1>1, <1>2, <2>1, <2>3, <2>4, ScreenEvents DEF Doings
  <1>4. CASE TurnLands(s)
    <2>1. PICK next \in {"idle", "awaiting"} :
             /\ doing' = [doing EXCEPT ![s] = next]
             /\ Sends(<<Event(s, IF next = "idle" THEN "assistant-end" ELSE "awaiting-input")>>)
      BY <1>4 DEF TurnLands
    <2> DEFINE e == IF next = "idle" THEN "assistant-end" ELSE "awaiting-input"
    <2> DEFINE a == Event(s, e)
    <2> DEFINE u == <<a>>
    <2>2. Sends(u) /\ (next = "awaiting" => e = "awaiting-input") /\ e \in Events
      BY <2>1 DEF Events
    <2> HIDE DEF e
    <2>3. a \in Frame /\ a.t = "event" /\ a.id = s /\ a.e = e
      BY <2>2, Frames
    <2> HIDE DEF a
    <2>4. u \in Seq(Frame) /\ Len(u) = 1 /\ u[1] = a /\ \A k \in 1..Len(u) : k = 1
      BY <2>3, One
    <2> HIDE DEF u
    <2>5. \A k \in 1..Len(u) : u[k].t = "event" /\ u[k].id = s
      BY <2>3, <2>4
    <2>6. next = "awaiting" => \E k \in 1..Len(u) : u[k].e = "awaiting-input"
      BY <2>2, <2>3, <2>4
    <2>7. next \in Doings
      BY DEF Doings
    <2> QED
      BY <1>0, <1>1, <1>2, <2>1, <2>2, <2>4, <2>5, <2>6, <2>7, ScreenEvents
  <1> QED
    BY <1>3, <1>4

LEMMA ScreenServer ==
    ASSUME BornInv, ScreenInv, NEW p \in posts, Chat(p) \/ ChatAnswers(p) \/ Serve(p)
    PROVE  ScreenInv'
  <1>0. UNCHANGED <<slices, conjured, describedRef, connected>>
    BY DEF Chat, ChatAnswers, Serve, ServerMoves, screen, refs, ghosts
  <1>1. p \in Post /\ LiveIds \subseteq Sessions /\ doing \in [Sessions -> Doings]
    BY DEF BornInv, PostsOK, ServerOK
  (* A request is moved and the session at the end of it starts a turn.    *)
  <1>2. ASSUME NEW s \in LiveIds, doing' = [doing EXCEPT ![s] = "turn"], UNCHANGED live,
               Sends(<<Event(s, "assistant-start")>>), Moved(p, "turn", s),
               p.op = "answer" => p.from = s
        PROVE  ScreenInv'
    <2>1. /\ \A q \in posts' : \E r \in posts : q.op = r.op /\ q.from = r.from
          /\ \A x : AnswerOf(x) => AnswerOf(x)' \/ (x = p.from /\ p.op = "answer")
      BY <1>1, <1>2, RequestMoves
    <2>2. \A x \in LiveIds : doing'[x] = "awaiting" /\ AnswerOf(x) => AnswerOf(x)'
      BY <1>1, <1>2, <2>1
    <2> DEFINE a == Event(s, "assistant-start")
    <2> DEFINE u == <<a>>
    <2>3. a \in Frame /\ a.t = "event" /\ a.id = s /\ Sends(u)
      BY <1>1, <1>2, Frames DEF Events
    <2> HIDE DEF a
    <2>4. u \in Seq(Frame) /\ \A k \in 1..Len(u) : u[k].t = "event" /\ u[k].id = s
      BY <2>3, One
    <2> HIDE DEF u
    <2> QED
      BY <1>0, <1>2, <2>1, <2>2, <2>3, <2>4, ScreenEvents DEF Doings
  (* A request is only moved.                                              *)
  <1>3. ASSUME NEW t \in Sessions \cup {None}, NEW st \in {"turn", "done", "failed"}, Moved(p, st, t),
               UNCHANGED <<server, wire>>,
               st = "failed" \/ p.op # "answer" \/ p.st \notin {"sent", "failed"}
        PROVE  ScreenInv'
    <2>1. /\ \A q \in posts' : \E r \in posts : q.op = r.op /\ q.from = r.from
          /\ \A x : AnswerOf(x) => AnswerOf(x)'
      BY <1>3, RequestMoves
    <2> QED
      BY <1>0, <1>3, <2>1, OnlyRequests
  (* A session opens.                                                      *)
  <1>4. ASSUME NEW s \in Sessions, NEW conv \in Convs, NEW d \in {"idle", "turn"}, NEW frames,
               NEW st \in {"turn", "done"},
               Opens(s, conv, d, frames), Moved(p, st, s), p.op # "answer",
               frames = <<>> \/ \E e \in Events : frames = <<Event(s, e)>>
        PROVE  ScreenInv'
    <2>1. /\ \A q \in posts' : \E r \in posts : q.op = r.op /\ q.from = r.from
          /\ \A x : AnswerOf(x) => AnswerOf(x)'
      BY <1>4, RequestMoves
    <2> QED
      BY <1>0, <1>4, <2>1, ScreenOpens
  <1>5. CASE ChatAnswers(p)
    <2>1. p.st \notin {"sent", "failed"} /\ Moved(p, "done", p.sid) /\ UNCHANGED <<server, wire>>
          /\ p.sid \in Sessions \cup {None}
      BY <1>5, <1>1 DEF ChatAnswers, Post
    <2> QED
      BY <2>1, <1>3
  <1>6. CASE Chat(p)
    <2>0. p.op # "answer" /\ Attached(p) \subseteq LiveIds
      BY <1>6 DEF Chat, Attached
    <2>1. CASE \E s \in Attached(p) :
                 /\ doing[s] = "idle"
                 /\ doing' = [doing EXCEPT ![s] = "turn"]
                 /\ Sends(<<Event(s, "assistant-start")>>)
                 /\ logged' = logged \cup {live[s]}
                 /\ Moved(p, "turn", s) /\ UNCHANGED <<live, born, given>>
      BY <2>0, <2>1, <1>2
    <2>2. CASE \E s \in Attached(p) \cup {p.from} : Moved(p, "failed", s) /\ UNCHANGED <<server, wire>>
      <3>1. p.from \in Sessions \cup {None}
        BY <1>1 DEF Post
      <3> QED
        BY <2>0, <2>2, <3>1, <1>1, <1>3
    <2>3. CASE \E s \in Sessions, c \in Loaded(p) :
                 /\ Opens(s, c, "turn", <<Event(s, "assistant-start")>>)
                 /\ Moved(p, "turn", s)
      <3>1. PICK s \in Sessions, c \in Loaded(p) :
                 /\ Opens(s, c, "turn", <<Event(s, "assistant-start")>>)
                 /\ Moved(p, "turn", s)
        BY <2>3
      <3>2. \E e \in Events : <<Event(s, "assistant-start")>> = <<Event(s, e)>>
        BY DEF Events
      <3>3. c \in Convs
        BY <1>1 DEF Loaded, Post
      <3> QED
        BY <2>0, <3>1, <3>2, <3>3, <1>4
    <2> QED
      BY <1>6, <2>1, <2>2, <2>3 DEF Chat
  <1>7. CASE Serve(p)
    <2>1. CASE p.op \in {"new", "first"} /\ \E s \in Sessions : Opens(s, s, "idle", <<>>) /\ Moved(p, "done", s)
      BY <2>1, <1>4 DEF Convs
    <2>2. CASE /\ p.op = "answer" /\ p.from \in LiveIds
               /\ doing' = [doing EXCEPT ![p.from] = "turn"]
               /\ Sends(<<Event(p.from, "assistant-start")>>)
               /\ Moved(p, "turn", p.from) /\ UNCHANGED <<live, born, logged, given>>
      BY <2>2, <1>2
    <2>3. CASE Moved(p, "failed", p.from) /\ UNCHANGED <<server, wire>>
      <3>1. p.from \in Sessions \cup {None}
        BY <1>1 DEF Post
      <3> QED
        BY <2>3, <3>1, <1>3
    <2>4. CASE /\ p.op = "close" /\ p.from \in LiveIds
               /\ live' = [s \in LiveIds \ {p.from} |-> live[s]]
               /\ doing' = [doing EXCEPT ![p.from] = "idle"]
               /\ Sends(<<Event(p.from, "stopped"), Removed(p.from)>>)
               /\ Moved(p, "done", p.from) /\ UNCHANGED <<born, logged, given>>
      <3>1. /\ \A q \in posts' : \E r \in posts : q.op = r.op /\ q.from = r.from
            /\ \A x : AnswerOf(x) => AnswerOf(x)'
        BY <2>4, <1>1, RequestMoves
      <3> QED
        BY <1>0, <2>4, <3>1, ScreenCloses
    <2> QED
      BY <1>7, <2>1, <2>2, <2>3, <2>4 DEF Serve
  <1> QED
    BY <1>5, <1>6, <1>7

LEMMA ScreenConnection ==
    ASSUME BornInv, ScreenInv, Breaks \/ Connects \/ Restarts
    PROVE  ScreenInv'
  <1> USE DEF ScreenInv
  <1>0. UNCHANGED <<slices, conjured, describedRef>> /\ Ids' = Ids
    BY DEF Breaks, Connects, Restarts, screen, refs, ghosts, Ids
  <1>1. ASSUME UNCHANGED <<server, posts>>
        PROVE  /\ LiveIds' = LiveIds /\ doing' = doing
               /\ Described' /\ Conjured' /\ Answers'
    BY <1>0, <1>1 DEF LiveIds, server, Described, Conjured, Answers
  <1>3. CASE Breaks
    BY <1>1, <1>3, Unconnected DEF Breaks
  <1>5. CASE Restarts
    <2>1. LiveIds' = {} /\ ~connected' /\ wire' = <<>>
      BY <1>5 DEF Restarts, LiveIds
    <2>2. Described' /\ Conjured' /\ Answers'
      BY <1>0, <2>1 DEF Described, Conjured, Answers
    <2> QED
      BY <2>1, <2>2, Unconnected
  <1>4. CASE Connects
    <2> DEFINE f == [t |-> "roster", of |-> [s \in LiveIds |-> Descriptor(doing[s], live[s])]]
    <2>1. f.t = "roster" /\ DOMAIN f.of = LiveIds /\ \A s \in LiveIds : f.of[s].doing = doing[s]
      BY DEF Descriptor
    <2>2. wire' = <<f>> /\ connected'
      BY <1>4 DEF Connects
    <2>a. LiveIds' = LiveIds /\ doing' = doing /\ Described' /\ Conjured' /\ Answers'
      BY <1>1, <1>4 DEF Connects
    <2> HIDE DEF f
    <2>3. Len(wire') = 1 /\ wire'[1] = f /\ wire' # <<>> /\ \A i \in 1..Len(wire') : i = 1
      BY <2>2
    <2>4. Rostered'
      BY <2>1, <2>3 DEF Rostered
    <2>5. WireInv'
      BY <2>1, <2>3 DEF WireInv, RosterLeads, AddedLeads, RemovedEnds, AddedIsNew, RemovedIsGone, GoneIsRemoved
    <2>6. Present'
      BY <1>0, <2>a, <2>1, <2>3, <2>4 DEF Present, Known
    <2>7. Cards'
      BY <2>a, <2>1, <2>3, <2>4 DEF Cards, AskShows
    <2> QED
      BY <2>a, <2>2, <2>5, <2>6, <2>7 DEF Silent
  <1> QED
    BY <1>3, <1>4, <1>5

LEMMA ScreenFrames ==
    ASSUME BornInv, ScreenInv, HandleRoster \/ HandleAdded \/ HandleRemoved \/ HandleEvent
    PROVE  ScreenInv'
  <1> USE DEF ScreenInv
  <1> DEFINE f == Head(wire)
  <1>0. Took
    BY DEF HandleRoster, HandleAdded, HandleRemoved, HandleEvent
  <1>1. /\ wire # <<>> /\ wire' = Tail(wire) /\ UNCHANGED <<server, connected>> /\ connected
        /\ LiveIds' = LiveIds /\ doing' = doing /\ wire \in Seq(Frame)
    BY <1>0 DEF Took, server, LiveIds, Silent, BornInv, ServerOK, WireOK
  <1>2. f = wire[1] /\ f \in Frame /\ 1 \in 1..Len(wire)
    BY <1>1, HeadIsTyped, Shorter DEF BornInv
  <1>3. Rostered <=> f.t = "roster"
    BY <1>1, <1>2 DEF Rostered
  <1>4. Silent'
    BY <1>1 DEF Silent
  <1> DEFINE Learned == \A x \in describedRef' \cup Ids' :
                           x \in describedRef \cup Ids \cup Heard \/ (f.t # "roster" /\ x = f.id)
  <1>5. ASSUME Learned
        PROVE  /\ WireInv' /\ ~Rostered'
               /\ \A s : HasAdded(s) => HasAdded(s)' \/ (f.t = "added" /\ f.id = s)
               /\ \A s : HasRemoved(s) => HasRemoved(s)' \/ (f.t = "removed" /\ f.id = s)
               /\ \A i \in 1..Len(wire) : i # 1 => i - 1 \in 1..Len(wire') /\ wire'[i - 1] = wire[i]
    BY <1>1, <1>2, <1>5, TakenShrinks
  <1>6. ASSUME Learned, NEW s, AskComes(s)
        PROVE  AskComes(s)' \/ (f.t = "event" /\ f.id = s /\ f.e = "awaiting-input")
    <2>1. PICK i \in 1..Len(wire) : wire[i].t = "event" /\ wire[i].id = s /\ wire[i].e = "awaiting-input"
      BY <1>6 DEF AskComes
    <2>2. CASE i = 1
      BY <2>1, <2>2, <1>2
    <2>3. CASE i # 1
      <3>1. i - 1 \in 1..Len(wire') /\ wire'[i - 1] = wire[i]
        BY <2>3, <1>5, <1>6
      <3> QED
        BY <2>1, <3>1 DEF AskComes
    <2> QED
      BY <2>2, <2>3
  <1> HIDE DEF f
  <1>7. \A s : (f.t = "added" /\ f.id = s) => s \notin describedRef \cup Ids /\ f.is.doing = "idle"
    BY <1>2 DEF WireInv, AddedIsNew
  <1>8. (f.t = "removed" => f.id \notin LiveIds)
        /\ (f.t # "roster" /\ f.id \notin LiveIds => HasRemoved(f.id))
    BY <1>2 DEF WireInv, RemovedIsGone, GoneIsRemoved
  <1>9. CASE HandleRoster
    <2>1. f.t = "roster" /\ conjured' = {} /\ slices' = Roster(f.of)
      BY <1>9 DEF HandleRoster, f
    <2>2. Ids' = DOMAIN f.of /\ \A s \in Ids' : slices'[s] = ApplyState(SliceOf(s), f.of[s])
      BY <2>1, RosterIs
    <2>3. describedRef' = describedRef \cup DOMAIN f.of
      BY <1>9 DEF HandleRoster, Describes, FirstFocus, DescribesFor, f
    <2>4. Rostered /\ Heard = DOMAIN f.of /\ Known = DOMAIN f.of
      BY <2>1, <1>2, <1>3 DEF Heard, Known
    <2>5. Learned
      BY <2>2, <2>3, <2>4
    <2>6. \A s \in LiveIds : s \in DOMAIN f.of \/ HasAdded(s)
      BY <2>4, <1>1 DEF Present
    <2>7. \A s : HasAdded(s) => s \notin describedRef \cup Ids \cup Heard
      BY DEF WireInv, AddedIsNew, HasAdded
    <2>8. Described' /\ Conjured'
      BY <1>1, <2>1, <2>2, <2>3, <2>6, <2>7 DEF Described, Conjured
    <2>9. Answers'
      <3>1. \A q \in posts' : q.op = "answer" => q \in posts
        BY <1>9 DEF HandleRoster
      <3> QED
        BY <3>1, <1>1, <2>2, <2>6, <2>7 DEF Answers
    <2>10. Known' = DOMAIN f.of
      BY <1>5, <2>1, <2>2, <2>5 DEF Known
    <2>11. Present'
      BY <1>1, <1>5, <2>1, <2>4, <2>5, <2>10 DEF Present
    <2>12. Cards'
      <3>1. ASSUME NEW s \in LiveIds, doing[s] = "awaiting" PROVE AskShows(s)'
        <4>1. AskShows(s)
          BY <3>1, <1>1 DEF Cards
        <4>2. CASE AskComes(s)
          BY <4>2, <1>6, <2>1, <2>5 DEF AskShows
        <4>3. CASE s \in DOMAIN f.of /\ f.of[s].doing = "awaiting"
          <5> DEFINE x == SliceOf(s)
          <5> DEFINE d == f.of[s]
          <5>1. x \in Slice /\ d \in Descs /\ d.doing = "awaiting"
            BY <4>3, <2>1, <1>2, FrameKinds, SliceOfIsOne DEF BornInv
          <5>2. slices'[s] = ApplyState(x, d) /\ s \in Ids'
            BY <4>3, <2>2
          <5> HIDE DEF x, d
          <5>3. ApplyState(x, d).ask
            BY <5>1, SliceKinds
          <5>4. slices'[s].ask
            BY <5>2, <5>3
          <5> QED
            BY <5>2, <5>4, <1>5, <2>5 DEF AskShows
        <4> QED
          BY <4>1, <4>2, <4>3, <2>4, <1>2 DEF AskShows
      <3> QED
        BY <3>1, <1>1 DEF Cards
    <2> QED
      BY <1>4, <1>5, <2>5, <2>8, <2>9, <2>11, <2>12
  (* The other frames leave what is known of other sessions as it is.      *)
  <1>10. ASSUME f.t # "roster", posts' = posts,
                IF f.t = "removed" THEN conjured' = conjured \ {f.id} ELSE conjured' = conjured,
                describedRef' = describedRef \/ (f.t = "added" /\ describedRef' = describedRef \cup {f.id}),
                IF f.t = "removed" THEN Ids' = Ids \ {f.id} ELSE Ids' = Ids \cup {f.id},
                \A x \in Ids \ {f.id} : slices'[x] = slices[x],
                f.t # "removed" /\ f.id \in Ids /\ slices[f.id].ask => slices'[f.id].ask,
                f.t = "event" /\ f.e = "awaiting-input" => slices'[f.id].ask
         PROVE  ScreenInv'
    <2>1. ~Rostered /\ Known = Ids \ conjured
      BY <1>3, <1>10 DEF Known
    <2>2. Learned
      BY <1>10
    <2>3. Known' = Ids' \ conjured'
      BY <1>5, <2>2 DEF Known
    <2>4. Described'
      <3>1. ASSUME NEW x \in describedRef', x \in LiveIds PROVE x \in Ids'
        <4>1. CASE f.t = "removed"
          BY <4>1, <3>1, <1>8, <1>10 DEF Described
        <4>2. CASE f.t # "removed"
          BY <4>2, <3>1, <1>10 DEF Described
        <4> QED
          BY <4>1, <4>2
      <3> QED
        BY <3>1, <1>1 DEF Described
    <2>5. Conjured'
      BY <1>1, <1>10 DEF Conjured
    <2>6. Answers'
      BY <1>1, <1>8, <1>10 DEF Answers
    <2>7. Present'
      <3>1. ASSUME NEW s \in LiveIds PROVE s \in Known' \/ HasAdded(s)'
        <4>1. s \in Known \/ HasAdded(s)
          BY <1>1 DEF Present
        <4>2. s \in Known => s \in Known'
          BY <2>1, <2>3, <1>8, <1>10
        <4>3. s \notin conjured'
          BY <1>10 DEF Conjured
        <4> QED
          BY <4>1, <4>2, <4>3, <1>5, <2>2, <2>3, <1>10
      <3>2. ASSUME NEW s \in Known', s \notin LiveIds PROVE HasRemoved(s)'
        <4>1. s \in Ids' /\ s \notin conjured'
          BY <2>3, <3>2
        <4>2. ~(f.t = "removed" /\ f.id = s)
          BY <4>1, <1>10
        <4>3. HasRemoved(s)
          <5>1. CASE s = f.id
            BY <5>1, <3>2, <1>8, <1>10
          <5>2. CASE s # f.id
            BY <5>2, <4>1, <3>2, <1>1, <2>1, <1>10 DEF Present
          <5> QED
            BY <5>1, <5>2
        <4> QED
          BY <4>2, <4>3, <1>5, <2>2
      <3> QED
        BY <3>1, <3>2, <1>1 DEF Present
    <2>8. Cards'
      <3>1. ASSUME NEW s \in LiveIds, doing[s] = "awaiting" PROVE AskShows(s)'
        <4>1. AskShows(s)
          BY <3>1, <1>1 DEF Cards
        <4>2. ~Rostered'
          BY <1>5, <2>2
        <4>3. CASE AskComes(s)
          <5>1. CASE AskComes(s)'
            BY <5>1 DEF AskShows
          <5>2. CASE f.t = "event" /\ f.id = s /\ f.e = "awaiting-input"
            BY <5>2, <4>2, <1>10 DEF AskShows
          <5> QED
            BY <5>1, <5>2, <4>3, <1>6, <2>2
        <4>4. CASE s \in Ids /\ slices[s].ask
          <5>1. s \in Ids'
            BY <4>4, <1>8, <1>10
          <5>2. slices'[s].ask
            BY <4>4, <1>8, <1>10
          <5> QED
            BY <5>1, <5>2, <4>2 DEF AskShows
        <4>5. CASE AnswerOf(s)
          BY <4>5, <4>2, <1>10 DEF AskShows, AnswerOf
        <4> QED
          BY <4>1, <4>3, <4>4, <4>5, <2>1 DEF AskShows
      <3> QED
        BY <3>1, <1>1 DEF Cards
    <2> QED
      BY <1>4, <1>5, <2>2, <2>4, <2>5, <2>6, <2>7, <2>8
  <1>11. CASE HandleAdded
    <2>1. f.t = "added" /\ Put(f.id, ApplyState(SliceOf(f.id), f.is)) /\ posts' = posts
          /\ conjured' = conjured
      BY <1>11 DEF HandleAdded, ghosts, f
    <2>2. describedRef' = describedRef \cup {f.id}
      BY <1>11 DEF HandleAdded, Describes, DescribesFor, f
    <2>3. Ids' = Ids \cup {f.id} /\ \A x \in Ids \ {f.id} : slices'[x] = slices[x]
      BY <2>1, PutIs
    <2>4. f.id \notin Ids
      BY <2>1, <1>7
    <2> QED
      BY <2>1, <2>2, <2>3, <2>4, <1>10
  <1>12. CASE HandleRemoved
    <2>1. /\ f.t = "removed" /\ UNCHANGED <<posts, describedRef>> /\ conjured' = conjured \ {f.id}
          /\ slices' = [s \in Ids \ {f.id} |-> slices[s]]
      BY <1>12 DEF HandleRemoved, f
    <2>2. Ids' = Ids \ {f.id} /\ \A x \in Ids \ {f.id} : slices'[x] = slices[x]
      BY <2>1 DEF Ids
    <2> QED
      BY <2>1, <2>2, <1>10
  <1>13. CASE HandleEvent
    <2> DEFINE x == SliceOf(f.id)
    <2> DEFINE e == f.e
    <2> DEFINE r == ReduceEvent(x, e)
    <2>1. /\ f.t = "event" /\ Put(f.id, r) /\ UNCHANGED <<posts, describedRef, conjured>>
      BY <1>13 DEF HandleEvent, f
    <2>2. x \in Slice /\ e \in Events /\ (f.id \in Ids => x = slices[f.id])
      BY <1>2, <2>1, FrameKinds, SliceOfIsOne DEF BornInv
    <2>3. e = f.e
      OBVIOUS
    <2> HIDE DEF x, e
    <2>4. (x.ask \/ e = "awaiting-input") => r.ask
      BY <2>2, SliceKinds
    <2> HIDE DEF r
    <2>5. Ids' = Ids \cup {f.id} /\ slices'[f.id] = r /\ \A y \in Ids \ {f.id} : slices'[y] = slices[y]
      BY <2>1, PutIs
    <2> QED
      BY <2>1, <2>2, <2>3, <2>4, <2>5, <1>10
  <1> QED
    BY <1>9, <1>11, <1>12, <1>13

(* The browser's own steps: the sessions on the rail stay, no card goes    *)
(* without an answer, and no slice is made of a session that is live.      *)
LEMMA OwnStep ==
    ASSUME BornInv, ScreenInv, UNCHANGED <<server, wire, connected, describedRef>>,
           Ids \subseteq Ids', Ids' \subseteq Ids \cup conjured', conjured \subseteq conjured',
           conjured' \subseteq conjured \cup (describedRef \ Ids), conjured' \subseteq Ids',
           \A q \in posts' : q.op = "answer" =>
              q.from \in Ids \/ \E r \in posts : r.op = "answer" /\ r.from = q.from,
           \A s \in LiveIds : (s \in Ids /\ slices[s].ask) \/ AnswerOf(s) =>
              (s \in Ids' /\ slices'[s].ask) \/ AnswerOf(s)'
    PROVE  ScreenInv'
  <1> USE DEF ScreenInv
  <1>1. LiveIds' = LiveIds /\ doing' = doing
    BY DEF LiveIds, server
  <1>2. describedRef' \cup Ids' \subseteq describedRef \cup Ids
    BY DEF Conjured
  <1>3. WireInv'
    BY <1>1, <1>2, WireStays
  <1>4. (describedRef \ Ids) \cap LiveIds = {}
    BY DEF Described
  <1>5. Silent' /\ Described'
    BY <1>1 DEF Silent, Described
  <1>6. Conjured'
    BY <1>1, <1>4 DEF Conjured
  <1>7. Answers'
    BY <1>1 DEF Answers
  <1>8. \A s : (HasAdded(s)' <=> HasAdded(s)) /\ (HasRemoved(s)' <=> HasRemoved(s))
               /\ (AskComes(s)' <=> AskComes(s))
    BY DEF HasAdded, HasRemoved, AskComes
  <1>9. Rostered' <=> Rostered
    BY DEF Rostered
  <1>10. Ids' \ conjured' = Ids \ conjured
    <2>1. \A x \in Ids \ conjured : x \notin conjured'
      OBVIOUS
    <2> QED
      BY <2>1
  <1>11. Present'
    BY <1>1, <1>8, <1>9, <1>10 DEF Present, Known
  <1>12. ASSUME NEW s \in LiveIds, connected, doing[s] = "awaiting" PROVE AskShows(s)'
    <2>1. AskShows(s)
      BY <1>12 DEF Cards
    <2>2. (s \in Ids /\ slices[s].ask) \/ AnswerOf(s) => (s \in Ids' /\ slices'[s].ask) \/ AnswerOf(s)'
      OBVIOUS
    <2> QED
      BY <2>1, <2>2, <1>8, <1>9 DEF AskShows
  <1> QED
    BY <1>1, <1>3, <1>5, <1>6, <1>7, <1>11, <1>12 DEF Cards

LEMMA ScreenPerson ==
    ASSUME BornInv, ScreenInv,
           \/ Render \/ PromotePeek \/ NewSession \/ \E c \in logged : OpenPeek(c)
           \/ \E s \in Sessions : TreeArrives(s) \/ Focus(s) \/ Submit(s) \/ CloseOne(s) \/ Answer(s)
    PROVE  ScreenInv'
  <1>0. UNCHANGED <<server, wire, connected, describedRef>>
    BY DEF Render, PromotePeek, NewSession, OpenPeek, TreeArrives, Focus, Submit, CloseOne, Answer, Acts, bus
  <1>a. conjured \subseteq Ids
    BY DEF ScreenInv, Conjured
  <1>1. ASSUME UNCHANGED <<slices, conjured>>, posts \subseteq posts',
               \A q \in posts' : q.op = "answer" => q \in posts
        PROVE  ScreenInv'
    <2>1. Ids' = Ids /\ \A s : AnswerOf(s) => AnswerOf(s)'
      BY <1>1 DEF Ids, AnswerOf
    <2> QED
      BY <1>0, <1>a, <1>1, <2>1, OwnStep
  <1>2. ASSUME NEW op, op # "answer", NEW from, NEW conv, Posts(op, from, conv)
        PROVE  posts \subseteq posts' /\ \A q \in posts' : q.op = "answer" => q \in posts
    BY <1>2 DEF Posts
  <1>3. CASE Render
    <2>1. Ids' = Ids /\ (\A s \in Ids : slices'[s].ask = slices[s].ask) /\ UNCHANGED <<posts, conjured>>
      BY <1>3, Rendered DEF BornInv, Render
    <2>2. \A s : AnswerOf(s)' <=> AnswerOf(s)
      BY <2>1 DEF AnswerOf
    <2> QED
      BY <1>0, <1>a, <2>1, <2>2, OwnStep
  <1>4. CASE PromotePeek \/ NewSession
    BY <1>4, <1>1, <1>2 DEF PromotePeek, NewSession, Acts, screen
  <1>5. ASSUME NEW s \in Sessions, Submit(s) \/ CloseOne(s) PROVE ScreenInv'
    BY <1>5, <1>1, <1>2 DEF Submit, CloseOne, Acts, screen
  <1>6. ASSUME NEW s \in Sessions, Focus(s) PROVE ScreenInv'
    BY <1>6, <1>1 DEF Focus, Acts
  <1>7. ASSUME NEW c \in logged, OpenPeek(c) PROVE ScreenInv'
    BY <1>7, <1>1 DEF OpenPeek, Acts
  <1>8. ASSUME NEW s \in Sessions, Answer(s) PROVE ScreenInv'
    <2>1. s \in Ids /\ Posts("answer", s, None) /\ conjured' = conjured
          /\ Put(s, [slices[s] EXCEPT !.ask = FALSE, !.working = TRUE])
      BY <1>8 DEF Answer, Acts
    <2>2. Ids' = Ids /\ \A x \in Ids \ {s} : slices'[x] = slices[x]
      BY <2>1, PutIs
    <2> DEFINE q == [op |-> "answer", from |-> s, conv |-> None, st |-> "sent", sid |-> None]
    <2>3. posts' = posts \cup {q} /\ q.op = "answer" /\ q.from = s /\ q.st = "sent"
      BY <2>1 DEF Posts
    <2> HIDE DEF q
    <2>4. AnswerOf(s)' /\ \A x : AnswerOf(x) => AnswerOf(x)'
      BY <2>3 DEF AnswerOf
    <2> QED
      BY <1>0, <1>a, <2>1, <2>2, <2>3, <2>4, OwnStep
  <1>9. ASSUME NEW s \in Sessions, TreeArrives(s) PROVE ScreenInv'
    <2>1. PICK c \in Told(s) : Put(s, [SliceOf(s) EXCEPT !.conv = c])
      BY <1>9 DEF TreeArrives
    <2> DEFINE was == SliceOf(s)
    <2> DEFINE slice == [was EXCEPT !.conv = c]
    <2>2. Put(s, slice) /\ was \in Slice /\ c \in Convs /\ (s \in Ids => was = slices[s])
      BY <2>1, SliceOfIsOne DEF BornInv, ServerOK, Told, Convs
    <2> HIDE DEF was
    <2>3. slice.ask = was.ask
      BY <2>2, ToldSlice
    <2> HIDE DEF slice
    <2>4. /\ s \in describedRef /\ conjured' = conjured \cup ({s} \ Ids) /\ posts' = posts
      BY <1>9 DEF TreeArrives
    <2>5. Ids' = Ids \cup {s} /\ slices'[s] = slice /\ \A x \in Ids \ {s} : slices'[x] = slices[x]
      BY <2>2, PutIs
    <2>6. \A x : AnswerOf(x) => AnswerOf(x)'
      BY <2>4 DEF AnswerOf
    <2>7. \A x \in Ids : slices'[x].ask = slices[x].ask
      BY <2>2, <2>3, <2>5
    <2> QED
      BY <1>0, <1>a, <2>4, <2>5, <2>6, <2>7, OwnStep
  <1> QED
    BY <1>3, <1>4, <1>5, <1>6, <1>7, <1>8, <1>9

LEMMA ScreenReplies ==
    ASSUME BornInv, ScreenInv, NEW p \in posts, Promoted(p) \/ Landed(p) \/ Quietly(p) \/ Failed(p)
    PROVE  ScreenInv'
  <1>0. UNCHANGED <<server, wire, connected, describedRef, conjured>> /\ posts' = posts \ {p}
    BY DEF Promoted, Landed, Quietly, Failed, Handled, bus
  <1>a. conjured \subseteq Ids
    BY DEF ScreenInv, Conjured
  <1>1. \A x : AnswerOf(x) => AnswerOf(x)' \/ (x = p.from /\ p.op = "answer" /\ p.st # "done")
    BY <1>0 DEF AnswerOf
  <1>2. ASSUME UNCHANGED slices, p.op # "answer" \/ p.st = "done" \/ p.from \notin Ids PROVE ScreenInv'
    <2>1. Ids' = Ids
      BY <1>2 DEF Ids
    <2>2. ASSUME NEW x \in LiveIds, AnswerOf(x) PROVE AnswerOf(x)'
      <3>1. CASE x = p.from /\ p.op = "answer"
        BY <3>1, <2>2, <1>1, <1>2 DEF ScreenInv, Answers
      <3>2. CASE ~(x = p.from /\ p.op = "answer")
        BY <3>2, <2>2, <1>1
      <3> QED
        BY <3>1, <3>2
    <2> QED
      BY <1>0, <1>a, <1>2, <2>1, <2>2, OwnStep
  <1>3. CASE Promoted(p) \/ Landed(p) \/ Quietly(p)
    BY <1>3, <1>2 DEF Promoted, Landed, Quietly, screen
  <1>4. CASE Failed(p) /\ p.op = "answer" /\ p.from \in Ids
    <2> DEFINE card == [slices[p.from] EXCEPT !.working = FALSE, !.ask = TRUE]
    <2>1. slices[p.from] \in Slice
      BY <1>4 DEF BornInv, ScreenOK
    <2>2. card.ask
      BY <2>1, SliceKinds
    <2>3. Put(p.from, card)
      BY <1>4 DEF Failed, CardBack
    <2> HIDE DEF card
    <2>4. Ids' = Ids /\ slices'[p.from].ask /\ \A x \in Ids \ {p.from} : slices'[x] = slices[x]
      BY <2>2, <2>3, <1>4, PutIs
    <2> QED
      BY <1>0, <1>a, <1>1, <1>4, <2>4, OwnStep
  <1>5. CASE Failed(p) /\ ~(p.op = "answer" /\ p.from \in Ids)
    BY <1>5, <1>2 DEF Failed
  <1> QED
    BY <1>3, <1>4, <1>5

LEMMA ScreenStep == BornInv /\ ScreenInv /\ [Next]_vars => ScreenInv'
  <1> SUFFICES ASSUME BornInv, ScreenInv, [Next]_vars PROVE ScreenInv'
    OBVIOUS
  <1>1. CASE Next
    BY <1>1, Steps, ScreenSession, ScreenServer, ScreenConnection, ScreenFrames, ScreenPerson, ScreenReplies
  <1>2. CASE UNCHANGED vars
    <2>1. UNCHANGED <<server, wire, connected, slices, conjured, describedRef, posts>>
      BY <1>2 DEF vars, bus, screen, refs, ghosts
    <2>2. \A x : AnswerOf(x) => AnswerOf(x)'
      BY <2>1 DEF AnswerOf
    <2> QED
      BY <2>1, <2>2, OnlyRequests
  <1> QED
    BY <1>1, <1>2

(* What the browser lacks is under way, and what it still shows is leaving.*)
THEOREM ScreenInvariance == Spec => []ScreenInv
  BY ScreenInit, ScreenStep, BornInvariance, PTL DEF Spec

(* Once the stream is up and drained, the rail and the cards are what the  *)
(* server has, over any number of breaks (GET /events in server.ts, the    *)
(* roster and the frames in App.tsx and session-state.ts).                 *)
THEOREM ScreenCatchesUp == Spec => []ScreenIsTheServer
  <1>1. BornInv /\ ScreenInv => ScreenIsTheServer
    <2> SUFFICES ASSUME BornInv, ScreenInv, Drained PROVE
                    /\ Ids = LiveIds \cup conjured
                    /\ \A s \in LiveIds : doing[s] = "awaiting" =>
                          SliceOf(s).ask \/ \E p \in posts : p.op = "answer" /\ p.from = s
      BY DEF ScreenIsTheServer
    <2>1. connected /\ wire = <<>> /\ ~Rostered
      BY DEF Drained, Rostered
    <2>2. \A s : ~HasAdded(s) /\ ~HasRemoved(s) /\ ~AskComes(s)
      BY <2>1 DEF HasAdded, HasRemoved, AskComes
    <2>3. LiveIds \subseteq Ids \ conjured /\ Ids \ conjured \subseteq LiveIds
      BY <2>1, <2>2 DEF ScreenInv, Present, Known
    <2>4. Ids = LiveIds \cup conjured
      BY <2>3 DEF ScreenInv, Conjured
    <2>5. ASSUME NEW s \in LiveIds, doing[s] = "awaiting"
          PROVE  SliceOf(s).ask \/ \E p \in posts : p.op = "answer" /\ p.from = s
      <3>1. AskShows(s)
        BY <2>1, <2>5 DEF ScreenInv, Cards
      <3>2. (s \in Ids /\ slices[s].ask) \/ AnswerOf(s)
        BY <3>1, <2>1, <2>2 DEF AskShows
      <3> QED
        BY <3>2 DEF SliceOf, AnswerOf
    <2> QED
      BY <2>4, <2>5
  <1> QED
    BY <1>1, BornInvariance, ScreenInvariance, PTL
=============================================================================
