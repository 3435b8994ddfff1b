------------------------------- MODULE Speech -------------------------------
(* The one voice of the web client (src/web/src/tts.ts, createSpeaker): the*)
(* button of a message and auto-read ask for a read, the person hushes it, *)
(* timers watch over it.  The speech engine of the browser is not ours: it *)
(* says what it likes about being busy, may lose an utterance, fall silent,*)
(* throw, or report on one that was replaced long ago.                     *)
(***************************************************************************)
EXTENDS Naturals

CONSTANTS
    Keys,               \* what can be read
    None,
    CancelSettleTries,  \* CANCEL_SETTLE_TRIES
    MaxGen              \* bound: generation at which the person still asks

ASSUME TriesAssumption == CancelSettleTries \in Nat
ASSUME KeysAssumption == None \notin Keys /\ None \notin Nat
ASSUME GenAssumption == MaxGen \in Nat

VARIABLES
    gen,        \* bumped by every speak and every stop
    current,    \* the key the client shows as being read, or None
    gesture,    \* the person has clicked or typed
    timers,     \* pending timers, each with the generation it was armed under
    tries,      \* how often the engine will still be looked at before speaking
    started,    \* the start event of the utterance has been seen
    queued,     \* generations of the utterances that wait in the engine
    voice,      \* the one that is heard, or None
    owing,      \* those the engine may still report on
    paused      \* the engine has paused its own queue

speaker == <<gen, current, timers>>
engine  == <<queued, voice, owing, paused>>
speechVars    == <<speaker, engine, gesture, tries, started>>

Kinds == {"settle", "drain", "start", "progress", "keepalive"}
Timer(kind) == [kind |-> kind, mine |-> gen]

SpeechInit ==
    /\ gen = 0 /\ current = None /\ gesture = FALSE
    /\ timers = {} /\ tries = 0 /\ started = FALSE
    /\ queued = {} /\ voice = None /\ owing = {} /\ paused = FALSE

-----------------------------------------------------------------------------
(* stop: with the engine's cancel, which silences it and empties its queue *)
(* but takes back no report, or where there is nothing left to cancel.     *)

PutBack == gen' = gen + 1 /\ timers' = {} /\ current' = None
Cancelled == queued' = {} /\ voice' = None /\ UNCHANGED <<owing, paused>>

StopsAndCancels == PutBack /\ Cancelled /\ UNCHANGED <<gesture, tries, started>>

-----------------------------------------------------------------------------
(* The person, and auto-read                                               *)

(* speak: two generations, since it stops first.  The engine is not spoken *)
(* to in the task that cancelled it.                                       *)
SettlesFirst(g) == {[kind |-> "settle", mine |-> g]}

Speak(key) ==
    /\ gen < MaxGen
    /\ gen' = gen + 2 /\ current' = key
    /\ timers' = SettlesFirst(gen')
    /\ tries' = CancelSettleTries
    /\ Cancelled
    /\ UNCHANGED started

(* toggleSpeak: the click is itself the gesture.                           *)
Toggle(key) ==
    /\ gesture' = TRUE
    /\ \/ current # key /\ Speak(key)
       \/ /\ current = key /\ PutBack /\ Cancelled
          /\ UNCHANGED <<tries, started>>

(* Auto-read, which says nothing before there was a gesture.               *)
ReadAloud(key) == gesture /\ Speak(key) /\ UNCHANGED gesture

Arm == gesture' = TRUE /\ UNCHANGED <<speaker, engine, tries, started>>

(* Typing, answering a card, changing the pane, auto-read switched off.    *)
Hush == gen < MaxGen /\ StopsAndCancels

-----------------------------------------------------------------------------
(* speakWhenDrained                                                        *)

Looking == {t \in timers : t.kind \in {"settle", "drain"} /\ t.mine = gen}

MayWait == tries > 0

StillBusy == \E t \in Looking :
    /\ MayWait
    /\ tries' = tries - 1
    /\ timers' = (timers \ {t}) \cup {Timer("drain")}
    /\ UNCHANGED <<gen, current, engine, gesture, started>>

StartWatchdogOnly == {Timer("start"), Timer("keepalive")}      \* mutant: no bound on a read that began
Watchdogs == {Timer("start"), Timer("progress"), Timer("keepalive")}

HandsOver == \E t \in Looking :
    /\ queued' = queued \cup {gen} /\ owing' = owing \cup {gen}
    /\ started' = FALSE
    /\ timers' = (timers \ {t}) \cup Watchdogs
    /\ UNCHANGED <<gen, current, gesture, tries, voice, paused>>

EngineThrows ==
    /\ Looking # {}
    /\ PutBack
    /\ UNCHANGED <<engine, gesture, tries, started>>

-----------------------------------------------------------------------------
(* The watchdogs.  Four seconds for the start, more than eight for the end.*)

NeverBegan ==
    /\ Timer("start") \in timers
    /\ ~started
    /\ StopsAndCancels

BeganInTime ==
    /\ Timer("start") \in timers
    /\ started
    /\ timers' = timers \ {Timer("start")}
    /\ UNCHANGED <<gen, current, engine, gesture, tries, started>>

NeverEnded ==
    /\ Timer("progress") \in timers /\ Timer("start") \notin timers
    /\ StopsAndCancels

(* The nudge, and the next one is armed.                                   *)
KeepAlive ==
    /\ Timer("keepalive") \in timers
    /\ paused' = FALSE
    /\ UNCHANGED <<speaker, queued, voice, owing, gesture, tries, started>>

-----------------------------------------------------------------------------
(* The engine                                                              *)

(* Every callback looks at the generation it was made under.               *)
Mine(g) == g = gen

(* Its start event arrives, or does not.                                   *)
Begins(g) ==
    /\ g \in queued /\ voice = None /\ ~paused
    /\ voice' = g /\ queued' = queued \ {g}
    /\ \E seen \in BOOLEAN : started' = (started \/ (seen /\ Mine(g)))
    /\ UNCHANGED <<speaker, owing, paused, gesture, tries>>

(* The end of an utterance, or an error instead of it (onend, onerror).    *)
Terminal(g) ==
    /\ g \in owing
    /\ owing' = owing \ {g} /\ queued' = queued \ {g}
    /\ voice' = IF voice = g THEN None ELSE voice
    /\ IF Mine(g) THEN PutBack ELSE UNCHANGED speaker
    /\ UNCHANGED <<paused, gesture, tries, started>>

(* Lost without a word.                                                    *)
Drops(g) ==
    /\ g \in owing
    /\ owing' = owing \ {g} /\ queued' = queued \ {g}
    /\ voice' = IF voice = g THEN None ELSE voice
    /\ UNCHANGED <<speaker, paused, gesture, tries, started>>

Pauses ==
    /\ ~paused /\ paused' = TRUE
    /\ UNCHANGED <<speaker, queued, voice, owing, gesture, tries, started>>

-----------------------------------------------------------------------------
SpeechNext ==
    \/ \E key \in Keys : Toggle(key) \/ ReadAloud(key)
    \/ Arm \/ Hush
    \/ StillBusy \/ HandsOver \/ EngineThrows
    \/ NeverBegan \/ BeganInTime \/ NeverEnded \/ KeepAlive
    \/ \E g \in owing : Begins(g) \/ Terminal(g) \/ Drops(g)
    \/ Pauses

SpeechSpec == SpeechInit /\ [][SpeechNext]_speechVars

(* Timers fire.  The engine owes nothing, and no event of it is needed.    *)
Looks == StillBusy \/ HandsOver \/ EngineThrows
SpeechFairness ==
    /\ WF_speechVars(Looks) /\ WF_speechVars(NeverBegan)
    /\ WF_speechVars(BeganInTime) /\ WF_speechVars(NeverEnded)

-----------------------------------------------------------------------------
(* Properties                                                              *)

SpeechTypeOK ==
    /\ gen \in Nat
    /\ current \in Keys \cup {None}
    /\ gesture \in BOOLEAN /\ started \in BOOLEAN /\ paused \in BOOLEAN
    /\ timers \subseteq [kind : Kinds, mine : 0..gen]
    /\ tries \in 0..CancelSettleTries
    /\ queued \subseteq 1..gen /\ owing \subseteq 1..gen
    /\ voice \in {None} \cup 1..gen

(* While the client claims to read, a timer is armed that moves the read on*)
(* or ends it, whatever the engine says; and no timer outlives its read    *)
(* ("a caller that registers only onend has states it can enter and never  *)
(* leave", H-07).                                                          *)
Attended ==
    /\ current # None => Looking # {} \/ Timer("progress") \in timers
    /\ \A t \in timers : current # None /\ t.mine = gen

(* What is heard is the read the client shows: nothing is heard that it    *)
(* does not show, and a late report on a replaced utterance does not take  *)
(* the light off the one that replaced it.                                 *)
HeardIsLit == voice # None => voice = gen /\ current # None

(* "The channel resets even when the engine says nothing at all": each read*)
(* comes to its end.                                                       *)
ReadEnds == \A g \in 1..(MaxGen + 2) : current # None /\ gen = g ~> gen # g
=============================================================================
