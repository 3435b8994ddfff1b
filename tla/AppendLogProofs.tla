-------------------------- MODULE AppendLogProofs --------------------------
(* Proofs about AppendLog, for every value of its constants: what a        *)
(* resolved append or flush guarantees, the order of the file, and that the*)
(* code implements DurableLog.                                             *)
EXTENDS AppendLog, SequenceTheorems, TLAPS

(* Records that have left the queue: the queue holds all the later ones.   *)
Settled == Len(promise) - Len(queue)

QueueIsTail ==
    /\ Len(queue) <= Len(promise)
    /\ \A i \in 1 .. Len(queue) : queue[i] = Settled + i

PendingAreQueued == \A r \in Records : promise[r] = "pending" <=> r > Settled

(* The head of the queue may be on disk, nothing behind it is.             *)
DiskBehindQueue ==
    \A i \in 1 .. Len(disk) : disk[i].rec <= IF queue = <<>> THEN Settled ELSE Settled + 1

HeadIsLast == writing = "syncing" => disk # <<>> /\ disk[Len(disk)].rec = Head(queue)

CallsLookBack == \A c \in Callers : calls[c].upto <= Len(promise)

LogInv ==
    /\ TypeOK /\ BacklogAttended /\ QueueIsTail /\ PendingAreQueued
    /\ DiskBehindQueue /\ HeadIsLast /\ CallsLookBack
    /\ AckedIsOnDisk /\ SubmissionOrder /\ NoDangling

USE DEF Records, Draining, Idle

(* A drain that is over leaves nobody waiting for it.                      *)
LEMMA DrainOverLeavesNobody ==
    ASSUME TypeOK, NEW ok \in BOOLEAN, DrainOver(ok)
    PROVE  /\ calls' \in [Callers -> [op : {"none", "flush", "retry"}, st : {"free", "waiting", "ok", "failed"}, upto : Nat]]
           /\ \A c \in Callers : calls'[c].st # "waiting" /\ calls'[c].upto = calls[c].upto
BY DEF TypeOK, DrainOver

(* The records in the file are numbers, none beyond the head of the queue. *)
LEMMA DiskRecords ==
    ASSUME LogInv
    PROVE  /\ Len(promise) \in Nat /\ Len(queue) \in Nat /\ Settled \in Nat
           /\ Settled + Len(queue) = Len(promise)
           /\ \A i \in 1 .. Len(disk) :
                 disk[i].rec \in Nat /\ disk[i].rec <= Settled + 1 /\ disk[i].rec <= Len(promise)
<1>1. Len(promise) \in Nat /\ Len(queue) \in Nat /\ disk \in Seq(Chunk) /\ queue \in Seq(Nat)
    BY DEF LogInv, TypeOK
<1>2. Settled \in Nat /\ Settled + Len(queue) = Len(promise)
    BY <1>1 DEF LogInv, QueueIsTail, Settled
<1>3. ASSUME NEW i \in 1 .. Len(disk)
      PROVE  disk[i].rec \in Nat /\ disk[i].rec <= Settled + 1 /\ disk[i].rec <= Len(promise)
  <2>1. disk[i] \in Chunk
      BY <1>1
  <2>2. disk[i].rec \in Nat
      BY <2>1 DEF Chunk
  <2>3. disk[i].rec <= IF queue = <<>> THEN Settled ELSE Settled + 1
      BY DEF LogInv, DiskBehindQueue
  <2>4. queue # <<>> => Len(queue) > 0
      BY <1>1
  <2> QED BY <1>1, <1>2, <2>2, <2>3, <2>4
<1> QED BY <1>1, <1>2, <1>3

LEMMA SubmitInv == LogInv /\ Submit => LogInv'
<1>1. HAVE LogInv /\ Submit
<1>2. /\ promise \in Seq({"pending", "resolved", "rejected", "crashed"}) /\ queue \in Seq(Nat)
      /\ Len(promise) \in Nat /\ Len(queue) \in Nat
    BY <1>1 DEF LogInv, TypeOK
<1>3. /\ Len(promise') = Len(promise) + 1 /\ Len(queue') = Len(queue) + 1
      /\ promise' = Append(promise, "pending") /\ queue' = Append(queue, Len(promise) + 1)
    BY <1>1, <1>2 DEF Submit
<1>4. \A r \in Records : promise'[r] = promise[r]
    BY <1>2, <1>3
<1>5. promise'[Len(promise) + 1] = "pending"
    BY <1>2, <1>3
<1>6. \A i \in 1 .. Len(queue) : queue'[i] = queue[i]
    BY <1>2, <1>3
<1>7. queue'[Len(queue) + 1] = Len(promise) + 1 /\ queue' # <<>>
    BY <1>2, <1>3
<1>8. UNCHANGED <<disk, synced, calls, currentFault>> /\ crashes' = crashes
    BY <1>1 DEF Submit
<1>9. TypeOK'
  <2>1. promise' \in Seq({"pending", "resolved", "rejected", "crashed"}) /\ queue' \in Seq(Nat)
      BY <1>2, <1>3
  <2> QED BY <2>1, <1>1, <1>8 DEF LogInv, TypeOK, Submit, Kick
<1>10. BacklogAttended'
    BY <1>1, <1>7, <1>8 DEF LogInv, BacklogAttended, Submit, Kick
<1>19. Settled' = Settled /\ Settled \in Nat /\ Settled + Len(queue) = Len(promise)
    BY <1>1, <1>2, <1>3 DEF LogInv, QueueIsTail, Settled
<1>11. QueueIsTail'
  <2>1. SUFFICES ASSUME NEW i \in 1 .. Len(queue) + 1 PROVE queue'[i] = Settled + i
      BY <1>2, <1>3, <1>19, <1>1 DEF LogInv, QueueIsTail
  <2>2. CASE i \in 1 .. Len(queue)
      BY <1>1, <1>6, <2>2 DEF LogInv, QueueIsTail
  <2>3. CASE i = Len(queue) + 1
      BY <1>2, <1>7, <1>19, <2>3
  <2> QED BY <1>2, <2>2, <2>3
<1>12. PendingAreQueued'
    BY <1>1, <1>2, <1>3, <1>4, <1>5, <1>19 DEF LogInv, PendingAreQueued
<1>13. DiskBehindQueue'
    BY <1>1, <1>7, <1>8, <1>19, DiskRecords DEF DiskBehindQueue
<1>14. HeadIsLast'
  <2>1. SUFFICES ASSUME writing' = "syncing" PROVE (disk # <<>> /\ disk[Len(disk)].rec = Head(queue))'
      BY DEF HeadIsLast
  <2>2. writing = "syncing" /\ queue # <<>>
      BY <1>1, <2>1 DEF Submit, Kick, LogInv, BacklogAttended
  <2>3. Head(queue') = Head(queue)
      BY <1>2, <1>3, <2>2
  <2> QED BY <1>1, <1>8, <2>2, <2>3 DEF LogInv, HeadIsLast
<1>15. CallsLookBack'
    BY <1>1, <1>2, <1>3, <1>8 DEF LogInv, CallsLookBack, TypeOK
<1>16. AckedIsOnDisk'
    BY <1>1, <1>2, <1>3, <1>4, <1>5, <1>8 DEF LogInv, AckedIsOnDisk
<1>17. SubmissionOrder'
    BY <1>1, <1>8 DEF LogInv, SubmissionOrder
<1>18. NoDangling'
    BY <1>1, <1>2, <1>3, <1>4, <1>8, DiskRecords DEF LogInv, NoDangling
<1> QED BY <1>9, <1>10, <1>11, <1>12, <1>13, <1>14, <1>15, <1>16, <1>17, <1>18 DEF LogInv

(* A write that fails changes nothing but the fault and who waits.         *)
LEMMA FaultInv == LogInv /\ (OpenFails \/ SyncFails) => LogInv'
<1>1. HAVE LogInv /\ (OpenFails \/ SyncFails)
<1>2. /\ UNCHANGED <<promise, queue, disk, synced, crashes>>
      /\ writing' = "none" /\ currentFault' = TRUE /\ DrainOver(FALSE)
      /\ writing # "none"
    BY <1>1 DEF OpenFails, SyncFails, RaiseFault
<1>3. /\ calls' \in [Callers -> [op : {"none", "flush", "retry"}, st : {"free", "waiting", "ok", "failed"}, upto : Nat]]
      /\ \A c \in Callers : calls'[c].st # "waiting" /\ calls'[c].upto = calls[c].upto
    BY <1>1, <1>2, DrainOverLeavesNobody DEF LogInv
<1>4. TypeOK' /\ BacklogAttended' /\ HeadIsLast' /\ CallsLookBack'
    BY <1>1, <1>2, <1>3 DEF LogInv, TypeOK, BacklogAttended, HeadIsLast, CallsLookBack
<1>5. QueueIsTail' /\ PendingAreQueued' /\ DiskBehindQueue'
    BY <1>1, <1>2 DEF LogInv, QueueIsTail, PendingAreQueued, DiskBehindQueue, Settled
<1>6. AckedIsOnDisk' /\ SubmissionOrder' /\ NoDangling'
    BY <1>1, <1>2 DEF LogInv, AckedIsOnDisk, SubmissionOrder, NoDangling
<1> QED BY <1>4, <1>5, <1>6 DEF LogInv

(* What reaches the file is the head of the queue, and all that came before*)
(* it has been settled.                                                    *)
LEMMA LandInv == LogInv /\ (WriteLands \/ WriteShort) => LogInv'
<1>1. HAVE LogInv /\ (WriteLands \/ WriteShort)
<1>2. PICK form \in {"whole", "torn", "noeol"} : writing = "opening" /\ Land(form)
    BY <1>1 DEF WriteLands, WriteShort
<1>3. /\ disk' = Append(disk, [rec |-> Head(queue), form |-> form]) /\ writing' = "syncing"
      /\ UNCHANGED <<promise, queue, currentFault, synced, calls, crashes>>
    BY <1>2 DEF Land
<1>4. /\ queue \in Seq(Nat) /\ queue # <<>> /\ disk \in Seq(Chunk) /\ Len(disk) \in Nat
      /\ Len(promise) \in Nat /\ Len(queue) \in Nat /\ synced \in 0 .. Len(disk)
    BY <1>1, <1>2 DEF LogInv, TypeOK, BacklogAttended
<1>5. Head(queue) \in Nat /\ Head(queue) = queue[1] /\ Head(queue) = Settled + 1
    BY <1>1, <1>4 DEF LogInv, QueueIsTail
<1>6. [rec |-> Head(queue), form |-> form] \in Chunk
    BY <1>5 DEF Chunk
<1>7. /\ disk' \in Seq(Chunk) /\ Len(disk') = Len(disk) + 1
      /\ \A i \in 1 .. Len(disk) : disk'[i] = disk[i]
      /\ disk'[Len(disk) + 1].rec = Head(queue)
    BY <1>3, <1>4, <1>6
<1>8. TypeOK' /\ BacklogAttended' /\ CallsLookBack'
    BY <1>1, <1>2, <1>3, <1>4, <1>7 DEF LogInv, TypeOK, BacklogAttended, CallsLookBack
<1>9. QueueIsTail' /\ PendingAreQueued'
    BY <1>1, <1>3 DEF LogInv, QueueIsTail, PendingAreQueued, Settled
<1>10. Settled' = Settled /\ queue' = queue
    BY <1>3 DEF Settled
<1>11. \A i \in 1 .. Len(disk) : disk[i].rec \in Nat /\ disk[i].rec <= Settled + 1
    BY <1>1, DiskRecords
<1>12. DiskBehindQueue' /\ HeadIsLast'
    BY <1>4, <1>5, <1>7, <1>10, <1>11 DEF DiskBehindQueue, HeadIsLast
<1>13. SubmissionOrder'
  <2>1. SUFFICES ASSUME NEW i \in 1 .. Len(disk'), NEW j \in 1 .. Len(disk'), i < j
                 PROVE  disk'[i].rec <= disk'[j].rec
      BY DEF SubmissionOrder
  <2>3. i \in 1 .. Len(disk) /\ (j \in 1 .. Len(disk) \/ j = Len(disk) + 1)
      BY <1>4, <1>7, <2>1
  <2> QED BY <1>1, <1>4, <1>5, <1>7, <1>11, <2>1, <2>3 DEF LogInv, SubmissionOrder
<1>14. AckedIsOnDisk'
  <2>1. SUFFICES ASSUME NEW r \in Records', promise'[r] = "resolved"
                 PROVE  \E i \in 1 .. synced' : disk'[i].rec = r
      BY DEF AckedIsOnDisk
  <2>3. PICK i \in 1 .. synced : disk[i].rec = r
      BY <1>1, <1>3, <2>1 DEF LogInv, AckedIsOnDisk
  <2> QED BY <1>3, <1>4, <1>7, <2>3
<1>15. NoDangling'
  <2>1. SUFFICES ASSUME NEW i \in 1 .. Len(disk'), NEW r \in Records',
                        r < disk'[i].rec, promise'[r] \in {"pending", "resolved"}
                 PROVE  \E j \in 1 .. i : disk'[j].rec = r
      BY DEF NoDangling
  <2>3. r \in Records /\ promise[r] \in {"pending", "resolved"}
      BY <1>3, <2>1
  <2>4. CASE i \in 1 .. Len(disk)
    <3>1. PICK j \in 1 .. i : disk[j].rec = r
        BY <1>1, <1>7, <2>1, <2>3, <2>4 DEF LogInv, NoDangling
    <3> QED BY <1>4, <1>7, <2>4, <3>1
  <2>5. CASE i = Len(disk) + 1
    <3>1. r < Settled + 1
        BY <1>5, <1>7, <2>1, <2>5
    <3>2. promise[r] = "resolved"
        BY <1>1, <1>4, <2>3, <3>1 DEF LogInv, PendingAreQueued, Settled
    <3>3. PICK j \in 1 .. synced : disk[j].rec = r
        BY <1>1, <2>3, <3>2 DEF LogInv, AckedIsOnDisk
    <3>4. j \in 1 .. Len(disk) /\ j \in 1 .. i
        BY <1>4, <2>5, <3>3
    <3>5. disk'[j].rec = r
        BY <1>7, <3>3, <3>4
    <3> QED BY <3>4, <3>5
  <2> QED BY <1>4, <1>7, <2>1, <2>4, <2>5
<1> QED BY <1>8, <1>9, <1>12, <1>13, <1>14, <1>15 DEF LogInv

(* The head of the queue is acknowledged, and the next one has its turn.   *)
LEMMA SyncEndsInv == LogInv /\ SyncEnds => LogInv'
<1>1. HAVE LogInv /\ SyncEnds
<1>2. /\ writing = "syncing" /\ queue # <<>>
      /\ promise \in Seq({"pending", "resolved", "rejected", "crashed"})
      /\ queue \in Seq(Nat) /\ disk \in Seq(Chunk) /\ synced \in 0 .. Len(disk)
      /\ Len(promise) \in Nat /\ Len(queue) \in Nat /\ Len(disk) \in Nat /\ Len(queue) > 0
    BY <1>1 DEF SyncEnds, LogInv, TypeOK, BacklogAttended
<1>3. /\ Settled \in Nat /\ Settled + Len(queue) = Len(promise)
      /\ Head(queue) = Settled + 1 /\ Head(queue) \in Records
    BY <1>1, <1>2, DiskRecords DEF LogInv, QueueIsTail
<1>4. /\ queue' = Tail(queue) /\ queue' \in Seq(Nat) /\ Len(queue') = Len(queue) - 1
      /\ \A i \in 1 .. Len(queue') : queue'[i] = queue[i + 1]
    BY <1>1, <1>2 DEF SyncEnds
<1>5. /\ promise' = [promise EXCEPT ![Head(queue)] = "resolved"]
      /\ promise' \in Seq({"pending", "resolved", "rejected", "crashed"})
      /\ Len(promise') = Len(promise)
      /\ promise'[Head(queue)] = "resolved"
      /\ \A r \in Records : r # Head(queue) => promise'[r] = promise[r]
  <2>1. promise' = [promise EXCEPT ![Head(queue)] = "resolved"]
      BY <1>1 DEF SyncEnds
  <2> QED BY <1>2, <1>3, <2>1
<1>6. synced' = Len(disk) /\ UNCHANGED <<currentFault, disk, crashes>>
    BY <1>1 DEF SyncEnds, SyncedByNow
<1>7. /\ \/ queue' = <<>> /\ writing' = "none" /\ DrainOver(TRUE)
         \/ queue' # <<>> /\ writing' = "opening" /\ UNCHANGED calls
      /\ \A c \in Callers : calls'[c].upto = calls[c].upto
      /\ calls' \in [Callers -> [op : {"none", "flush", "retry"}, st : {"free", "waiting", "ok", "failed"}, upto : Nat]]
      /\ writing' = "none" => \A c \in Callers : calls'[c].st # "waiting"
    BY <1>1, <1>4, DrainOverLeavesNobody DEF SyncEnds, LogInv, TypeOK
<1>8. Settled' = Settled + 1
    BY <1>2, <1>3, <1>4, <1>5 DEF Settled
<1>9. TypeOK'
  <2>1. synced' \in 0 .. Len(disk') /\ disk' \in Seq(Chunk)
      BY <1>2, <1>6
  <2>2. writing' \in {"none", "opening", "syncing"} /\ currentFault' \in BOOLEAN /\ crashes' \in Nat
      BY <1>1, <1>6, <1>7 DEF LogInv, TypeOK
  <2> QED BY <1>4, <1>5, <1>7, <2>1, <2>2 DEF TypeOK
<1>10. BacklogAttended'
    BY <1>1, <1>2, <1>6, <1>7 DEF LogInv, BacklogAttended
<1>11. QueueIsTail'
  <2>1. SUFFICES ASSUME NEW i \in 1 .. Len(queue') PROVE queue'[i] = Settled' + i
      BY <1>2, <1>4, <1>5, <1>1 DEF LogInv, QueueIsTail
  <2>2. queue[i + 1] = Settled + (i + 1)
      BY <1>1, <1>2, <1>4 DEF LogInv, QueueIsTail
  <2> QED BY <1>3, <1>4, <1>8, <2>2
<1>12. PendingAreQueued'
    BY <1>1, <1>2, <1>3, <1>5, <1>8 DEF LogInv, PendingAreQueued
<1>13. DiskBehindQueue'
    BY <1>1, <1>6, <1>8, DiskRecords DEF DiskBehindQueue
<1>14. HeadIsLast' /\ CallsLookBack'
    BY <1>1, <1>5, <1>7 DEF LogInv, HeadIsLast, CallsLookBack
<1>15. AckedIsOnDisk'
  <2>1. SUFFICES ASSUME NEW r \in Records, promise'[r] = "resolved"
                 PROVE  \E i \in 1 .. Len(disk) : disk[i].rec = r
      BY <1>5, <1>6 DEF AckedIsOnDisk
  <2>2. CASE r = Head(queue)
    <3>1. Len(disk) \in 1 .. Len(disk) /\ disk[Len(disk)].rec = r
        BY <1>1, <1>2, <2>2 DEF LogInv, HeadIsLast
    <3> QED BY <3>1
  <2>3. CASE r # Head(queue)
    <3>1. PICK i \in 1 .. synced : disk[i].rec = r
        BY <1>1, <1>5, <2>1, <2>3 DEF LogInv, AckedIsOnDisk
    <3>2. i \in 1 .. Len(disk)
        BY <1>2
    <3> QED BY <3>1, <3>2
  <2> QED BY <2>2, <2>3
<1>16. SubmissionOrder' /\ NoDangling'
  <2>1. \A r \in Records : promise'[r] \in {"pending", "resolved"} => promise[r] \in {"pending", "resolved"}
      BY <1>1, <1>3, <1>5 DEF LogInv, PendingAreQueued
  <2> QED BY <1>1, <1>5, <1>6, <2>1 DEF LogInv, SubmissionOrder, NoDangling
<1> QED BY <1>9, <1>10, <1>11, <1>12, <1>13, <1>14, <1>15, <1>16 DEF LogInv

(* flush() and retry() touch the calls, the fault and the drain only.      *)
LEMMA CallInv == LogInv /\ (\E c \in Callers : Flush(c) \/ Retry(c) \/ RetryAgain(c)) => LogInv'
<1>1. HAVE LogInv /\ \E c \in Callers : Flush(c) \/ Retry(c) \/ RetryAgain(c)
<1>2. PICK c \in Callers : Flush(c) \/ Retry(c) \/ RetryAgain(c)
    BY <1>1
<1>3. UNCHANGED <<promise, queue, disk, synced, crashes>>
    BY <1>2 DEF Flush, Retry, RetryAgain
<1>11. Len(promise) \in Nat
    BY <1>1 DEF LogInv, TypeOK
<1>4. PICK op \in {"flush", "retry"}, st \in {"waiting", "failed", "ok"} :
          calls' = [calls EXCEPT ![c] = [op |-> op, st |-> st, upto |-> Len(promise)]]
    BY <1>2 DEF Flush, Retry, RetryAgain, Call
<1>5. TypeOK'
    BY <1>1, <1>2, <1>3, <1>4, <1>11 DEF LogInv, TypeOK, Flush, Retry, RetryAgain, Kick
<1>6. BacklogAttended'
  <2>1. CASE Flush(c)
      BY <1>1, <1>3, <2>1 DEF LogInv, TypeOK, BacklogAttended, Flush, Call
  <2>2. CASE Retry(c)
      BY <1>1, <1>3, <2>2 DEF LogInv, TypeOK, BacklogAttended, Retry, Call, Kick
  <2>3. CASE RetryAgain(c)
      BY <1>1, <1>3, <2>3 DEF LogInv, TypeOK, BacklogAttended, RetryAgain, Call
  <2> QED BY <1>2, <2>1, <2>2, <2>3
<1>7. HeadIsLast'
    BY <1>1, <1>2, <1>3 DEF LogInv, HeadIsLast, Flush, Retry, RetryAgain, Kick
<1>8. CallsLookBack'
    BY <1>1, <1>3, <1>4, <1>11 DEF LogInv, TypeOK, CallsLookBack
<1>9. QueueIsTail' /\ PendingAreQueued' /\ DiskBehindQueue'
    BY <1>1, <1>3 DEF LogInv, QueueIsTail, PendingAreQueued, DiskBehindQueue, Settled
<1>10. AckedIsOnDisk' /\ SubmissionOrder' /\ NoDangling'
    BY <1>1, <1>3 DEF LogInv, AckedIsOnDisk, SubmissionOrder, NoDangling
<1> QED BY <1>5, <1>6, <1>7, <1>8, <1>9, <1>10 DEF LogInv

(* What is given up was pending, so nothing acknowledged is taken back.    *)
LEMMA DiscardInv == LogInv /\ DiscardPending => LogInv'
<1>1. HAVE LogInv /\ DiscardPending
<1>2. /\ promise \in Seq({"pending", "resolved", "rejected", "crashed"})
      /\ queue' = <<>> /\ currentFault' = FALSE /\ writing = "none" /\ writing' = "none"
      /\ UNCHANGED <<disk, synced, calls, crashes>>
    BY <1>1 DEF DiscardPending, LogInv, TypeOK, BacklogAttended
<1>3. /\ promise' \in Seq({"pending", "resolved", "rejected", "crashed"}) /\ Len(promise') = Len(promise)
      /\ \A r \in Records : IF promise[r] = "pending" THEN promise'[r] = "rejected" ELSE promise'[r] = promise[r]
  <2>1. \A r \in Records : (\E i \in 1 .. Len(queue) : queue[i] = r) <=> promise[r] = "pending"
    <3>1. SUFFICES ASSUME NEW r \in Records
                   PROVE  (\E i \in 1 .. Len(queue) : queue[i] = r) <=> r > Settled
        BY <1>1 DEF LogInv, PendingAreQueued
    <3>2. ASSUME r > Settled PROVE r - Settled \in 1 .. Len(queue) /\ queue[r - Settled] = r
        BY <1>1, <3>2, DiskRecords DEF LogInv, QueueIsTail
    <3> QED BY <1>1, <3>2, DiskRecords DEF LogInv, QueueIsTail
  <2>2. promise' = [r \in Records |-> IF promise[r] = "pending" THEN "rejected" ELSE promise[r]]
      BY <1>1, <2>1 DEF DiscardPending
  <2> QED BY <1>2, <2>2
<1>4. Settled' = Len(promise) /\ Len(promise) \in Nat /\ Len(queue') = 0
    BY <1>2, <1>3 DEF Settled
<1>5. BacklogAttended' /\ HeadIsLast' /\ CallsLookBack'
    BY <1>1, <1>2, <1>3 DEF LogInv, BacklogAttended, HeadIsLast, CallsLookBack
<1>9. TypeOK'
  <2>1. queue' \in Seq(Nat)
      BY <1>2
  <2> QED BY <1>1, <1>2, <1>3, <2>1 DEF LogInv, TypeOK
<1>6. QueueIsTail' /\ PendingAreQueued'
    BY <1>1, <1>2, <1>3, <1>4 DEF LogInv, QueueIsTail, PendingAreQueued
<1>7. DiskBehindQueue'
    BY <1>1, <1>2, <1>4, DiskRecords DEF DiskBehindQueue
<1>8. AckedIsOnDisk' /\ SubmissionOrder' /\ NoDangling'
    BY <1>1, <1>2, <1>3 DEF LogInv, AckedIsOnDisk, SubmissionOrder, NoDangling
<1> QED BY <1>5, <1>6, <1>7, <1>8, <1>9 DEF LogInv

(* A crash keeps a prefix of the file that holds all that was synced.      *)
LEMMA CrashKeeps ==
    ASSUME LogInv, Crash
    PROVE  /\ disk' \in Seq(Chunk) /\ synced <= Len(disk') /\ Len(disk') <= Len(disk)
           /\ \A i \in 1 .. Len(disk') : disk'[i].rec = disk[i].rec
           /\ synced' = Len(disk')
<1>1. disk \in Seq(Chunk) /\ synced \in 0 .. Len(disk)
    BY DEF LogInv, TypeOK
<1>2. PICK k \in synced .. Len(disk) :
          /\ synced' = k
          /\ \/ disk' = SubSeq(disk, 1, k)
             \/ k > synced /\ disk' = [SubSeq(disk, 1, k) EXCEPT ![k].form = "torn"]
    BY DEF Crash
<1>3. /\ SubSeq(disk, 1, k) \in Seq(Chunk) /\ Len(SubSeq(disk, 1, k)) = k
      /\ \A i \in 1 .. k : SubSeq(disk, 1, k)[i] = disk[i] /\ disk[i] \in Chunk
    BY <1>1, <1>2, SubSeqProperties
<1>4. CASE disk' = SubSeq(disk, 1, k)
    BY <1>2, <1>3, <1>4
<1>5. CASE k > synced /\ disk' = [SubSeq(disk, 1, k) EXCEPT ![k].form = "torn"]
  <2> DEFINE kept == SubSeq(disk, 1, k)
  <2>1. disk' = [kept EXCEPT ![k] = [kept[k] EXCEPT !.form = "torn"]]
      BY <1>5
  <2>2. k \in 1 .. k /\ kept[k] \in Chunk
      BY <1>1, <1>2, <1>3, <1>5
  <2>3. [kept[k] EXCEPT !.form = "torn"] \in Chunk /\ [kept[k] EXCEPT !.form = "torn"].rec = kept[k].rec
      BY <2>2 DEF Chunk
  <2>4. /\ disk' \in Seq(Chunk) /\ Len(disk') = k
        /\ \A i \in 1 .. k : disk'[i].rec = kept[i].rec
    <3> HIDE DEF kept
    <3>1. kept \in Seq(Chunk) /\ Len(kept) = k
        BY <1>3 DEF kept
    <3> QED BY <2>1, <2>2, <2>3, <3>1
  <2> QED BY <1>2, <1>3, <2>4
<1> QED BY <1>2, <1>4, <1>5

LEMMA CrashInv == LogInv /\ Crash => LogInv'
<1>1. HAVE LogInv /\ Crash
<1>2. /\ queue' = <<>> /\ writing' = "none" /\ currentFault' = FALSE
      /\ calls' = [c \in Callers |-> [op |-> "none", st |-> "free", upto |-> 0]]
      /\ crashes' \in Nat
    BY <1>1 DEF Crash, LogInv, TypeOK
<1>3. /\ promise' \in Seq({"pending", "resolved", "rejected", "crashed"})
      /\ Len(promise') = Len(promise) /\ Len(promise) \in Nat
      /\ \A r \in Records : promise'[r] = IF promise[r] = "pending" THEN "crashed" ELSE promise[r]
    BY <1>1 DEF Crash, LogInv, TypeOK
<1>4. Settled' = Len(promise) /\ Len(queue') = 0 /\ queue' \in Seq(Nat)
    BY <1>2, <1>3 DEF Settled
<1>5. /\ disk' \in Seq(Chunk) /\ synced <= Len(disk') /\ Len(disk') <= Len(disk)
      /\ \A i \in 1 .. Len(disk') : disk'[i].rec = disk[i].rec
      /\ synced' = Len(disk')
    BY <1>1, CrashKeeps
<1>6. Len(disk) \in Nat /\ Len(disk') \in Nat /\ synced \in Nat
    BY <1>1, <1>5 DEF LogInv, TypeOK
<1>7. TypeOK'
  <2>1. calls' \in [Callers -> [op : {"none", "flush", "retry"}, st : {"free", "waiting", "ok", "failed"}, upto : Nat]]
      BY <1>2
  <2>2. synced' \in 0 .. Len(disk')
      BY <1>5, <1>6
  <2> QED BY <1>2, <1>3, <1>4, <1>5, <2>1, <2>2 DEF TypeOK
<1>8. BacklogAttended' /\ HeadIsLast' /\ CallsLookBack'
    BY <1>2, <1>3 DEF BacklogAttended, HeadIsLast, CallsLookBack
<1>9. QueueIsTail' /\ PendingAreQueued'
    BY <1>3, <1>4 DEF QueueIsTail, PendingAreQueued
<1>10. DiskBehindQueue'
  <2>1. ASSUME NEW i \in 1 .. Len(disk') PROVE disk'[i].rec <= Len(promise)
    <3>1. i \in 1 .. Len(disk)
        BY <1>5, <1>6
    <3> QED BY <1>1, <1>5, <3>1, DiskRecords
  <2> QED BY <1>2, <1>4, <2>1 DEF DiskBehindQueue
<1>11. AckedIsOnDisk'
  <2>1. SUFFICES ASSUME NEW r \in Records, promise[r] = "resolved"
                 PROVE  \E i \in 1 .. Len(disk') : disk'[i].rec = r
      BY <1>3, <1>5 DEF AckedIsOnDisk
  <2>2. PICK i \in 1 .. synced : disk[i].rec = r
      BY <1>1, <2>1 DEF LogInv, AckedIsOnDisk
  <2>3. i \in 1 .. Len(disk')
      BY <1>5, <1>6
  <2> QED BY <1>5, <2>2, <2>3
<1>12. SubmissionOrder'
    BY <1>1, <1>5, <1>6 DEF LogInv, SubmissionOrder
<1>13. NoDangling'
  <2>1. SUFFICES ASSUME NEW i \in 1 .. Len(disk'), NEW r \in Records, r < disk[i].rec,
                        promise[r] = "resolved"
                 PROVE  \E j \in 1 .. i : disk'[j].rec = r
      BY <1>3, <1>5, SMTT(30) DEF NoDangling
  <2>2. i \in 1 .. Len(disk)
      BY <1>5, <1>6
  <2>3. PICK j \in 1 .. i : disk[j].rec = r
      BY <1>1, <2>1, <2>2 DEF LogInv, NoDangling
  <2>4. j \in 1 .. Len(disk')
      BY <1>6, <2>1
  <2> QED BY <1>5, <2>3, <2>4
<1> QED BY <1>7, <1>8, <1>9, <1>10, <1>11, <1>12, <1>13 DEF LogInv

LEMMA InitInv == Init => LogInv
<1>1. HAVE Init
<1>2. /\ Len(promise) = 0 /\ Len(queue) = 0 /\ Len(disk) = 0 /\ synced = 0 /\ crashes = 0
      /\ promise \in Seq({"pending", "resolved", "rejected", "crashed"})
      /\ queue \in Seq(Nat) /\ disk \in Seq(Chunk) /\ queue = <<>>
      /\ writing = "none" /\ currentFault = FALSE
    BY <1>1 DEF Init
<1>3. calls = [c \in Callers |-> [op |-> "none", st |-> "free", upto |-> 0]]
    BY <1>1 DEF Init
<1>4. calls \in [Callers -> [op : {"none", "flush", "retry"}, st : {"free", "waiting", "ok", "failed"}, upto : Nat]]
    BY <1>3
<1>5. TypeOK
  <2>1. synced \in 0 .. Len(disk) /\ crashes \in Nat
      BY <1>2
  <2>2. writing \in {"none", "opening", "syncing"} /\ currentFault \in BOOLEAN
      BY <1>2
  <2> QED BY <1>2, <1>4, <2>1, <2>2, Zenon DEF TypeOK
<1>6. BacklogAttended /\ HeadIsLast /\ CallsLookBack
    BY <1>2, <1>3 DEF BacklogAttended, HeadIsLast, CallsLookBack
<1>7. QueueIsTail /\ PendingAreQueued /\ DiskBehindQueue
    BY <1>2 DEF QueueIsTail, PendingAreQueued, DiskBehindQueue, Settled
<1>8. AckedIsOnDisk /\ SubmissionOrder /\ NoDangling
    BY <1>2 DEF AckedIsOnDisk, SubmissionOrder, NoDangling
<1> QED BY <1>5, <1>6, <1>7, <1>8 DEF LogInv

LEMMA StepInv == LogInv /\ [Next]_vars => LogInv'
<1>1. HAVE LogInv /\ [Next]_vars
<1>2. CASE Next
    BY <1>1, <1>2, SubmitInv, FaultInv, LandInv, SyncEndsInv, CallInv, DiscardInv, CrashInv DEF Next, WriteStep
<1>3. CASE UNCHANGED vars
    BY <1>1, <1>3 DEF vars, LogInv, TypeOK, BacklogAttended, QueueIsTail, PendingAreQueued, Settled,
       DiskBehindQueue, HeadIsLast, CallsLookBack, AckedIsOnDisk, SubmissionOrder, NoDangling
<1> QED BY <1>1, <1>2, <1>3

-----------------------------------------------------------------------------
(* The queue is the records still pending, in order, and the file holds the*)
(* settled ones and at most its head: all the rest follows from this.      *)
THEOREM LogInvariant == Spec => []LogInv
BY InitInv, StepInv, PTL DEF Spec

(* The types of every reachable state of the log and its file.             *)
THEOREM LogTypeCorrect == Spec => []TypeOK
<1>1. LogInv => TypeOK BY DEF LogInv
<1> QED BY <1>1, LogInvariant, PTL

(* append() resolves only for a record that is on disk for good, whatever  *)
(* writes fail and whenever the process dies (append-log.ts, drain).       *)
THEOREM AckedStaysOnDisk == Spec => []AckedIsOnDisk
<1>1. LogInv => AckedIsOnDisk BY DEF LogInv
<1> QED BY <1>1, LogInvariant, PTL

(* No record is in the file behind a hole that nobody gave up (D-46).      *)
THEOREM NothingDangles == Spec => []NoDangling
<1>1. LogInv => NoDangling BY DEF LogInv
<1> QED BY <1>1, LogInvariant, PTL

(* Retried or not, the records of the file are in submission order.        *)
THEOREM OrderKept == Spec => []SubmissionOrder
<1>1. LogInv => SubmissionOrder BY DEF LogInv
<1> QED BY <1>1, LogInvariant, PTL

(* A stalled log keeps its backlog, a backlog is drained or stalled, and   *)
(* nobody awaits a drain that does not run (kick, drain, raiseFault).      *)
THEOREM BacklogNeverForgotten == Spec => []BacklogAttended
<1>1. LogInv => BacklogAttended BY DEF LogInv
<1> QED BY <1>1, LogInvariant, PTL

(* A flush that resolves vouches for every append made before it: none of  *)
(* them is still waiting (H-01).                                           *)
THEOREM FlushNeverLies == Spec => FlushVouches
<1>1. LogInv /\ LogInv' /\ [Next]_vars => [Vouches("flush")]_vars
  <2>1. SUFFICES ASSUME LogInv, LogInv', Next, NEW c \in Callers,
                        calls'[c].op = "flush", calls'[c].st = "ok", calls'[c] # calls[c]
                 PROVE  \A r \in 1 .. calls'[c].upto : promise'[r] # "pending"
      BY DEF Vouches
  <2>2. SUFFICES queue' = <<>>
    <3>1. Len(queue') = 0 /\ Len(promise') \in Nat /\ calls'[c].upto <= Len(promise') /\ calls'[c].upto \in Nat
        BY <2>1, <2>2 DEF LogInv, CallsLookBack, TypeOK
    <3>2. Settled' = Len(promise')
        BY <3>1 DEF Settled
    <3> QED BY <2>1, <3>1, <3>2 DEF LogInv, PendingAreQueued
  <2>3. CASE Submit \/ WriteLands \/ WriteShort \/ DiscardPending
      BY <2>1, <2>3 DEF Submit, WriteLands, WriteShort, Land, DiscardPending
  <2>4. CASE OpenFails \/ SyncFails
      BY <2>1, <2>4 DEF OpenFails, SyncFails, RaiseFault, DrainOver, LogInv, TypeOK
  <2>5. CASE SyncEnds
      BY <2>1, <2>5 DEF SyncEnds
  <2>6. CASE Crash
      BY <2>6 DEF Crash
  <2>7. ASSUME NEW d \in Callers, Flush(d) PROVE queue' = <<>>
      BY <2>1, <2>7 DEF Flush, Call, LogInv, TypeOK, BacklogAttended
  <2>8. ASSUME NEW d \in Callers, Retry(d) \/ RetryAgain(d) PROVE queue' = <<>>
    <3>1. PICK st \in {"waiting", "ok"} :
              calls' = [calls EXCEPT ![d] = [op |-> "retry", st |-> st, upto |-> Len(promise)]]
        BY <2>8 DEF Retry, RetryAgain, Call
    <3>2. DOMAIN calls = Callers
        BY <2>1 DEF LogInv, TypeOK
    <3> QED BY <2>1, <3>1, <3>2
  <2> QED BY <2>1, <2>3, <2>4, <2>5, <2>6, <2>7, <2>8 DEF Next, WriteStep
<1> QED BY <1>1, LogInvariant, PTL DEF Spec, FlushVouches

-----------------------------------------------------------------------------
(* Refinement.                                                             *)

Stored == {disk[i].rec : i \in 1 .. Len(disk)}
Acked  == {r \in Records : promise[r] = "resolved"}

(* One step of the log is a step of DurableLog or leaves it as it is.      *)
LEMMA StepImplements == LogInv /\ [Next]_vars => [Durable!Next]_(Durable!logVars)
<1>1. HAVE LogInv /\ [Next]_vars
<1>2. /\ Len(promise) \in Nat /\ queue \in Seq(Nat) /\ disk \in Seq(Chunk) /\ Len(disk) \in Nat
      /\ Len(queue) \in Nat /\ promise \in Seq({"pending", "resolved", "rejected", "crashed"})
      /\ synced \in 0 .. Len(disk)
    BY <1>1 DEF LogInv, TypeOK
<1>3. CASE Submit
  <2>1. promise' = Append(promise, "pending") /\ queue' = Append(queue, Len(promise')) /\ UNCHANGED disk
      BY <1>3 DEF Submit
  <2>2. /\ Len(promise') = Len(promise) + 1 /\ promise'[Len(promise) + 1] = "pending"
        /\ \A r \in Records : promise'[r] = promise[r]
      BY <1>2, <2>1
  <2>3. Acked' = Acked
      BY <1>2, <2>2 DEF Acked
  <2> QED BY <2>1, <2>2, <2>3 DEF Durable!Next, Durable!Submit, Acked
<1>4. CASE WriteLands \/ WriteShort
  <2>1. PICK form : writing = "opening" /\ Land(form)
      BY <1>4 DEF WriteLands, WriteShort
  <2>2. /\ disk' = Append(disk, [rec |-> Head(queue), form |-> form])
        /\ UNCHANGED <<promise, queue>> /\ queue # <<>>
      BY <1>1, <2>1 DEF Land, LogInv, BacklogAttended
  <2>3. /\ Len(disk') = Len(disk) + 1 /\ disk'[Len(disk) + 1].rec = Head(queue)
        /\ \A i \in 1 .. Len(disk) : disk'[i] = disk[i]
      BY <1>2, <2>2
  <2>4. Stored' = Stored \cup {Head(queue)}
    <3>1. ASSUME NEW r \in Stored \cup {Head(queue)} PROVE r \in Stored'
      <4>1. CASE r \in Stored
        <5>1. PICK i \in 1 .. Len(disk) : disk[i].rec = r
            BY <4>1 DEF Stored
        <5>2. i \in 1 .. Len(disk') /\ disk'[i].rec = r
            BY <1>2, <2>3, <5>1
        <5> QED BY <5>2 DEF Stored
      <4>2. CASE r = Head(queue)
        <5>1. Len(disk) + 1 \in 1 .. Len(disk')
            BY <1>2, <2>3
        <5> QED BY <2>3, <4>2, <5>1 DEF Stored
      <4> QED BY <4>1, <4>2
    <3>2. ASSUME NEW i \in 1 .. Len(disk) + 1 PROVE disk'[i].rec \in Stored \cup {Head(queue)}
      <4>1. CASE i \in 1 .. Len(disk)
          BY <2>3, <4>1 DEF Stored
      <4>2. CASE i = Len(disk) + 1
          BY <2>3, <4>2
      <4> QED BY <1>2, <4>1, <4>2
    <3> QED BY <2>3, <3>1, <3>2 DEF Stored
  <2> QED BY <2>2, <2>4 DEF Durable!Next, Durable!Land, Stored
<1>5. CASE SyncEnds
  <2>1. /\ promise' = [promise EXCEPT ![Head(queue)] = "resolved"]
        /\ queue' = Tail(queue) /\ UNCHANGED disk
        /\ queue # <<>> /\ disk # <<>> /\ disk[Len(disk)].rec = Head(queue)
      BY <1>1, <1>5 DEF SyncEnds, LogInv, BacklogAttended, HeadIsLast
  <2>2. Head(queue) \in Stored
    <3>1. Len(disk) \in 1 .. Len(disk)
        BY <1>2, <2>1
    <3> QED BY <2>1, <3>1 DEF Stored
  <2>3. Head(queue) = Settled + 1 /\ Head(queue) \in Records
      BY <1>1, <1>2, <2>1, DiskRecords DEF LogInv, QueueIsTail
  <2>4. Len(promise') = Len(promise)
      BY <1>2, <2>1
  <2>5. Acked' = Acked \cup {Head(queue)}
      BY <1>2, <2>1, <2>3, <2>4 DEF Acked
  <2> QED BY <2>1, <2>2, <2>4, <2>5 DEF Durable!Next, Durable!Acknowledge, Acked, Stored
<1>6. CASE DiscardPending
  <2>1. queue' = <<>> /\ UNCHANGED disk
      BY <1>6 DEF DiscardPending
  <2>2. /\ Len(promise') = Len(promise)
        /\ promise' = [r \in Records |-> IF \E i \in 1 .. Len(queue) : queue[i] = r THEN "rejected" ELSE promise[r]]
      BY <1>2, <1>6 DEF DiscardPending
  <2>3. \A i \in 1 .. Len(queue) : queue[i] \in Records => promise[queue[i]] = "pending"
      BY <1>1, DiskRecords DEF LogInv, QueueIsTail, PendingAreQueued
  <2>4. Acked' = Acked
      BY <1>2, <2>2, <2>3 DEF Acked
  <2> QED BY <2>1, <2>2, <2>4 DEF Durable!Next, Durable!GiveUp, Acked
<1>7. CASE Crash
  <2>1. /\ queue' = <<>> /\ Len(promise') = Len(promise)
        /\ promise' = [r \in Records |-> IF promise[r] = "pending" THEN "crashed" ELSE promise[r]]
      BY <1>2, <1>7 DEF Crash
  <2>2. Acked' = Acked
      BY <1>2, <2>1 DEF Acked
  <2>3. /\ synced <= Len(disk') /\ Len(disk') <= Len(disk) /\ Len(disk') \in Nat
        /\ \A i \in 1 .. Len(disk') : disk'[i].rec = disk[i].rec
      BY <1>1, <1>7, CrashKeeps
  <2>4. Stored' \subseteq Stored
      BY <1>2, <2>3 DEF Stored
  <2>5. Acked \subseteq Stored'
    <3>1. SUFFICES ASSUME NEW r \in Records, promise[r] = "resolved" PROVE r \in Stored'
        BY DEF Acked
    <3>2. PICK i \in 1 .. synced : disk[i].rec = r
        BY <1>1, <3>1 DEF LogInv, AckedIsOnDisk
    <3>3. i \in 1 .. Len(disk')
        BY <1>2, <2>3
    <3> QED BY <2>3, <3>2, <3>3 DEF Stored
  <2> QED BY <2>1, <2>2, <2>4, <2>5 DEF Durable!Next, Durable!Crash, Acked, Stored
<1>8. CASE OpenFails \/ SyncFails \/ UNCHANGED vars \/ \E c \in Callers : Flush(c) \/ Retry(c) \/ RetryAgain(c)
  <2>1. UNCHANGED <<promise, queue, disk>>
      BY <1>8 DEF OpenFails, SyncFails, RaiseFault, vars, Flush, Retry, RetryAgain
  <2> QED BY <2>1 DEF Durable!logVars
<1> QED BY <1>1, <1>3, <1>4, <1>5, <1>6, <1>7, <1>8 DEF Next, WriteStep

(* AppendLog implements DurableLog: in particular a record reaches the file*)
(* only at its turn, and what was acknowledged survives every crash.       *)
THEOREM LogImplementsDurableLog == Spec => ImplementsDurableLog
<1>1. Init => Durable!Init
    BY DEF Init, Durable!Init
<1> QED BY <1>1, StepImplements, LogInvariant, PTL DEF Spec, ImplementsDurableLog, Durable!Spec
=============================================================================
