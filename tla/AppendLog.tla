----------------------------- MODULE AppendLog ------------------------------
(***************************************************************************)
(* The append-only log of one file (src/src/persist/append-log.ts): a      *)
(* queue of records drained one at a time, each written and fsynced on a   *)
(* descriptor of its own, a failed write stalling the queue until retry()  *)
(* or discardPending(); and what a reader of the file finds afterwards.    *)
(*                                                                         *)
(* drain() is at an await exactly while a write is in progress, so the     *)
(* draining flag is writing # "none".  Continuations of drainPromise run   *)
(* as microtasks, before anyone else: a drain that ends settles its        *)
(* waiters in the same step.  A record is its number in submission order.  *)
(***************************************************************************)
EXTENDS Integers, Sequences

CONSTANTS
    Callers,        \* concurrent callers of flush() and retry()
    Failures,       \* how a write may go wrong: "open", "short", "sync"
    Tears,          \* what a crash does to an unsynced record: "lost", "torn"
    MaxRecords,     \* bound: records appended
    Capacity,       \* bound: records the disk has room for
    MaxCrashes      \* bound: times the process dies

ASSUME FailuresAssumption == Failures \subseteq {"open", "short", "sync"}
ASSUME TearsAssumption == Tears \subseteq {"lost", "torn"}
ASSUME BoundsAssumption == MaxRecords \in Nat /\ Capacity \in Nat /\ MaxCrashes \in Nat

VARIABLES
    promise,        \* per record: what became of the promise append() returned
    queue,          \* records waiting, the one being written at the head
    writing,        \* where the write of the head stands
    currentFault,
    disk,           \* the bytes of the file, record by record
    synced,         \* how many of them an fsync covers
    calls,          \* the flush() and retry() calls of the callers
    crashes

vars == <<promise, queue, writing, currentFault, disk, synced, calls, crashes>>

Records  == 1 .. Len(promise)
Idle     == [op |-> "none", st |-> "free", upto |-> 0]
Draining == writing # "none"

(* kick(): start a drain unless one runs or the log is stalled.            *)
Kick(fault) == writing' = IF ~Draining /\ ~fault THEN "opening" ELSE writing

(* The drain is over; whoever awaited drainPromise learns how it ended.    *)
DrainOverIsGreen(ok) ==     \* mutant: flush resolves whatever happened
    calls' = [c \in Callers |-> IF calls[c].st = "waiting" THEN [calls[c] EXCEPT !.st = "ok"] ELSE calls[c]]
DrainOver(ok) ==
    calls' = [c \in Callers |->
        IF calls[c].st = "waiting" THEN [calls[c] EXCEPT !.st = IF ok THEN "ok" ELSE "failed"] ELSE calls[c]]

-----------------------------------------------------------------------------
Submit ==
    /\ Len(promise) < MaxRecords
    /\ promise' = Append(promise, "pending")
    /\ queue' = Append(queue, Len(promise'))
    /\ Kick(currentFault)
    /\ UNCHANGED <<currentFault, disk, synced, calls, crashes>>

(* raiseFault: the record stays at the head and the rest waits behind it.  *)
RaiseFaultDrops ==      \* mutant: drains past the failure
    /\ currentFault' = FALSE
    /\ queue' = Tail(queue)
    /\ promise' = [promise EXCEPT ![Head(queue)] = "resolved"]
    /\ writing' = IF Tail(queue) = <<>> THEN "none" ELSE "opening"
    /\ IF Tail(queue) = <<>> THEN DrainOver(TRUE) ELSE UNCHANGED calls
RaiseFault ==
    /\ currentFault' = TRUE
    /\ writing' = "none"
    /\ DrainOver(FALSE)
    /\ UNCHANGED <<promise, queue>>

(* mkdir, open or write rejects (a full disk always): nothing reached the  *)
(* file.                                                                   *)
DiskFull == Len(disk) = Capacity

OpenFails ==
    /\ writing = "opening"
    /\ "open" \in Failures \/ DiskFull
    /\ RaiseFault
    /\ UNCHANGED <<disk, synced, crashes>>

Land(form) ==
    /\ ~DiskFull
    /\ disk' = Append(disk, [rec |-> Head(queue), form |-> form])
    /\ writing' = "syncing"
    /\ UNCHANGED <<promise, queue, currentFault, synced, calls, crashes>>

WriteLands == writing = "opening" /\ Land("whole")

(* handle.write resolves with fewer bytes than the line, which write() does*)
(* not look at; the cut may take the newline alone.                        *)
WriteShort ==
    /\ writing = "opening" /\ "short" \in Failures
    /\ Land("torn") \/ Land("noeol")

(* fsync or close rejects after the bytes were written.                    *)
SyncFails ==
    /\ writing = "syncing" /\ "sync" \in Failures
    /\ RaiseFault
    /\ UNCHANGED <<disk, synced, crashes>>

SyncedByNow == Len(disk)

SyncEnds ==
    /\ writing = "syncing"
    /\ synced' = SyncedByNow
    /\ promise' = [promise EXCEPT ![Head(queue)] = "resolved"]
    /\ queue' = Tail(queue)
    /\ IF Tail(queue) = <<>>
         THEN writing' = "none" /\ DrainOver(TRUE)
         ELSE writing' = "opening" /\ UNCHANGED calls
    /\ UNCHANGED <<currentFault, disk, crashes>>

-----------------------------------------------------------------------------
Call(c, op, st) ==
    /\ calls[c].st # "waiting"
    /\ calls' = [calls EXCEPT ![c] = [op |-> op, st |-> st, upto |-> Len(promise)]]

Flush(c) ==
    /\ Call(c, "flush", IF Draining THEN "waiting" ELSE IF currentFault THEN "failed" ELSE "ok")
    /\ UNCHANGED <<promise, queue, writing, currentFault, disk, synced, crashes>>

RetryNeverKicks(c) ==   \* mutant: waits without starting a drain
    /\ currentFault
    /\ currentFault' = FALSE
    /\ Call(c, "retry", "waiting")
    /\ UNCHANGED <<promise, queue, writing, disk, synced, crashes>>
Retry(c) ==
    /\ currentFault
    /\ currentFault' = FALSE
    /\ Kick(FALSE)
    /\ Call(c, "retry", "waiting")
    /\ UNCHANGED <<promise, queue, disk, synced, crashes>>

(* Retry pressed again before the first answer: retry() finds no fault and *)
(* returns at once.                                                        *)
RetryAgain(c) ==
    /\ ~currentFault
    /\ \E d \in Callers : calls[d].op = "retry" /\ calls[d].st = "waiting"
    /\ Call(c, "retry", "ok")
    /\ UNCHANGED <<promise, queue, writing, currentFault, disk, synced, crashes>>

(* The store discards a stalled log only.                                  *)
DiscardPending ==
    /\ currentFault
    /\ currentFault' = FALSE
    /\ queue' = <<>>
    /\ promise' = [r \in Records |-> IF \E i \in 1 .. Len(queue) : queue[i] = r THEN "rejected" ELSE promise[r]]
    /\ UNCHANGED <<writing, disk, synced, calls, crashes>>

(* The process dies and another opens the file again: the synced records   *)
(* are there, then some of the others, the last of them perhaps torn.      *)
Crash ==
    /\ crashes < MaxCrashes
    /\ crashes' = crashes + 1
    /\ \E k \in synced .. Len(disk) :
          /\ k < Len(disk) => "lost" \in Tears
          /\ \/ disk' = SubSeq(disk, 1, k)
             \/ /\ "torn" \in Tears /\ k > synced
                /\ disk' = [SubSeq(disk, 1, k) EXCEPT ![k].form = "torn"]
          /\ synced' = k
    /\ promise' = [r \in Records |-> IF promise[r] = "pending" THEN "crashed" ELSE promise[r]]
    /\ queue' = <<>> /\ writing' = "none" /\ currentFault' = FALSE
    /\ calls' = [c \in Callers |-> Idle]

Init ==
    /\ promise = <<>> /\ queue = <<>> /\ writing = "none" /\ currentFault = FALSE
    /\ disk = <<>> /\ synced = 0
    /\ calls = [c \in Callers |-> Idle]
    /\ crashes = 0

WriteStep == OpenFails \/ WriteLands \/ WriteShort \/ SyncFails \/ SyncEnds

Next ==
    \/ Submit \/ WriteStep \/ DiscardPending \/ Crash
    \/ \E c \in Callers : Flush(c) \/ Retry(c) \/ RetryAgain(c)

Spec == Init /\ [][Next]_vars

(* Every file operation ends, well or badly.                               *)
FairSpec == Spec /\ WF_vars(WriteStep)

-----------------------------------------------------------------------------
(* Properties                                                              *)

Chunk == [rec : Nat, form : {"whole", "noeol", "torn"}]

(* Every variable has its type.                                            *)
TypeOK ==
    /\ promise \in Seq({"pending", "resolved", "rejected", "crashed"})
    /\ queue \in Seq(Nat) /\ disk \in Seq(Chunk)
    /\ writing \in {"none", "opening", "syncing"} /\ currentFault \in BOOLEAN
    /\ synced \in 0 .. Len(disk) /\ crashes \in Nat
    /\ calls \in [Callers -> [op : {"none", "flush", "retry"}, st : {"free", "waiting", "ok", "failed"}, upto : Nat]]

(* Nobody waits for a drain that does not run, and a stalled log is parked *)
(* with its backlog (kick, drain): the store may discard it safely.        *)
BacklogAttended ==
    /\ currentFault => ~Draining /\ queue # <<>>
    /\ queue # <<>> <=> Draining \/ currentFault
    /\ (\E c \in Callers : calls[c].st = "waiting") => Draining

(* A record whose promise resolved is on disk, and no crash takes it away. *)
AckedIsOnDisk == \A r \in Records : promise[r] = "resolved" => \E i \in 1 .. synced : disk[i].rec = r

(* Which records load() finds: a line runs to a newline, so what follows a *)
(* torn record shares its line and is lost with it.                        *)
Parses(i) ==
    /\ \/ disk[i].form = "whole"
       \/ disk[i].form = "noeol" /\ i = Len(disk)
    /\ i = 1 \/ disk[i - 1].form = "whole"
Loaded == {disk[i].rec : i \in {j \in 1 .. Len(disk) : Parses(j)}}

(* "append() resolves when that record is durably written" (D-37): a record*)
(* whose promise resolved is found by every later load.                    *)
AckedIsReadable == \A r \in Records : promise[r] = "resolved" => r \in Loaded

(* Records land in submission order, however often a write is retried.     *)
SubmissionOrder == \A i, j \in 1 .. Len(disk) : i < j => disk[i].rec <= disk[j].rec

(* D-46: nothing lands behind a record that did not, unless that record was*)
(* given up: no entry on disk has a parent that was never written.         *)
NoDangling ==
    \A i \in 1 .. Len(disk), r \in Records :
        r < disk[i].rec /\ promise[r] \in {"pending", "resolved"} => \E j \in 1 .. i : disk[j].rec = r

(* A call of op that resolves at this step vouches for all that was        *)
(* appended before it was made: it is on disk, or was given up.            *)
Vouches(op) ==
    \A c \in Callers : calls'[c].op = op /\ calls'[c].st = "ok" /\ calls'[c] # calls[c] =>
        \A r \in 1 .. calls'[c].upto : promise'[r] # "pending"

(* "A failed write must never look like a successful flush" (H-01).        *)
FlushVouches == [][Vouches("flush")]_vars

(* Every append settles, or the log is stalled and has said so.            *)
Pending(r) == r \in Records /\ promise[r] = "pending"
AppendSettles == \A r \in 1 .. MaxRecords : Pending(r) ~> (~Pending(r) \/ currentFault)

(* The code implements what DurableLog promises.                           *)
Durable == INSTANCE DurableLog WITH
    accepted <- Len(promise),
    waiting  <- queue,
    stored   <- {disk[i].rec : i \in 1 .. Len(disk)},
    acked    <- {r \in Records : promise[r] = "resolved"}
ImplementsDurableLog == Durable!Spec
=============================================================================
