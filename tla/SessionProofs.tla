--------------------------- MODULE SessionProofs ---------------------------
(* Proofs about Session, for every value of its constants: type            *)
(* correctness, the persistence pause that always has its fault, the loop  *)
(* that is never running twice, and what follows from there being one.     *)
(* Some properties do not hold of every instance (README, Findings); the   *)
(* theorems about them name the operations they leave out.                 *)
EXTENDS Session, SequenceTheorems, TLAPS

USE DEF Root, Unpinned, NoCap, convVars, cardVars, inputVars, spendVars, budgetVars, healthVars,
        settingVars, requestVars

AllPcs == {"free"} \cup AwaitPcs \cup StretchPcs

(* One entry appended below an existing one leaves a well-formed tree.     *)
LEMMA Append1Type ==
    ASSUME NEW e, ConversationOK, e \in Entry, e.parent <= Len(entries), Append1(e)
    PROVE  ConversationOK' /\ Len(entries') = Len(entries) + 1
<1>1. entries' = Append(entries, e) /\ entries \in Seq(Entry) BY DEF Append1, ConversationOK
<1>2. entries' \in Seq(Entry) /\ Len(entries') = Len(entries) + 1 /\ Len(entries) \in Nat
    BY <1>1
<1>3. \A i \in 1 .. Len(entries') : entries'[i].parent < i
  <2>1. TAKE i \in 1 .. Len(entries')
  <2>2. CASE i = Len(entries) + 1 BY <1>1, <1>2, <2>2 DEF Entry
  <2>3. CASE i # Len(entries) + 1
    <3>1. i \in 1 .. Len(entries) BY <1>2, <2>3
    <3>2. entries'[i] = entries[i] BY <1>1, <3>1
    <3> QED BY <3>1, <3>2 DEF ConversationOK
  <2> QED BY <2>2, <2>3
<1> QED BY <1>1, <1>2, <1>3 DEF Append1, ConversationOK, Leaves

(* The same for a chain of user messages.                                  *)
LEMMA PushUsersType ==
    ASSUME NEW k \in Nat, ConversationOK, PushUsers(k)
    PROVE  ConversationOK' /\ Len(entries') = Len(entries) + k
<1> DEFINE chain == [i \in 1 .. k |-> [kind |-> "user", of |-> 0, n |-> 0,
                      parent |-> IF i = 1 THEN WorkingLeaf ELSE Len(entries) + i - 1]]
<1>1. entries' = entries \o chain /\ entries \in Seq(Entry) /\ Len(entries) \in Nat
    BY DEF PushUsers, PushUsersAt, ConversationOK
<1>2. WorkingLeaf \in 0 .. Len(entries) BY <1>1 DEF WorkingLeaf, ConversationOK, Leaves
<1>3. \A i \in 1 .. k : chain[i] \in Entry /\ chain[i].parent < Len(entries) + i
    BY <1>1, <1>2 DEF Entry
<1>4. chain \in Seq(Entry) /\ Len(chain) = k
  <2> HIDE DEF chain
  <2>1. chain \in [1 .. k -> Entry] BY <1>3 DEF chain
  <2> QED BY <2>1
<1> HIDE DEF chain
<1>5. entries' \in Seq(Entry) /\ Len(entries') = Len(entries) + k BY <1>1, <1>4, ConcatProperties
<1>6. \A i \in 1 .. Len(entries') : entries'[i].parent < i
  <2>1. TAKE i \in 1 .. Len(entries')
  <2>2. CASE i \in 1 .. Len(entries)
    <3>1. entries'[i] = entries[i] BY <1>1, <1>4, <2>2
    <3> QED BY <2>2, <3>1 DEF ConversationOK
  <2>3. CASE i \notin 1 .. Len(entries)
    <3>1. i - Len(entries) \in 1 .. k BY <1>1, <1>5, <2>3
    <3>2. entries'[i] = chain[i - Len(entries)] BY <1>1, <1>4, <1>5, <2>3
    <3> QED BY <1>1, <1>3, <3>1, <3>2
  <2> QED BY <2>2, <2>3
<1>7. activeLeaf' \in Leaves' /\ turnLeaf' \in Leaves' \cup {Unpinned}
    BY <1>1, <1>5 DEF PushUsers, PushUsersAt, ConversationOK, Leaves
<1> QED BY <1>5, <1>6, <1>7 DEF ConversationOK

(* Moving an activation to another point keeps the activations typed while *)
(* the tree does not shrink.                                               *)
LEMMA GotoType ==
    ASSUME NEW f \in Activations, NEW p \in AllPcs, ActivationsOK, ConversationOK, ConversationOK',
           Len(entries') >= Len(entries), Goto(f, p)
    PROVE  ActivationsOK'
<1>1. Len(entries) \in Nat /\ Len(entries') \in Nat BY DEF ConversationOK
<1>2. [Fresh EXCEPT !.pc = p] \in Activation /\ [Fresh EXCEPT !.pc = p].attempt = 0
        /\ [Fresh EXCEPT !.pc = p].leaf = 0
    BY DEF Fresh, Activation, AllPcs, NoCall, Call, AllCallKinds
<1> QED BY <1>1, <1>2, BoundsAssumption DEF Goto, ActivationsOK, Leaves

(* A step that leaves the tree, or the activations, alone.                 *)
LEMMA UnchangedTree ==
    ASSUME ConversationOK, UNCHANGED convVars
    PROVE  ConversationOK' /\ Len(entries') >= Len(entries)
BY DEF ConversationOK, Leaves

LEMMA UnchangedActivations ==
    ASSUME ActivationsOK, ConversationOK, ConversationOK', Len(entries') >= Len(entries), UNCHANGED act
    PROVE  ActivationsOK'
BY DEF ActivationsOK, ConversationOK, Leaves

LEMMA FlushType ==
    ASSUME ConversationOK, ScalarsOK, FlushPendingUser
    PROVE  /\ ConversationOK' /\ Len(entries') >= Len(entries)
           /\ queue' \in Nat /\ pendingNote' \in BOOLEAN
<1> DEFINE k == (IF pendingNote THEN 1 ELSE 0) + (IF stopScope = "none" THEN queue ELSE 0)
<1>1. k \in Nat /\ PushUsers(k) BY DEF ScalarsOK, FlushPendingUser
<1>2. Len(entries) \in Nat BY DEF ConversationOK
<1>3. queue \in Nat BY DEF ScalarsOK
<1>4. queue' \in Nat /\ pendingNote' \in BOOLEAN BY <1>3 DEF FlushPendingUser
<1> HIDE DEF k
<1>5. ConversationOK' /\ Len(entries') = Len(entries) + k BY <1>1, PushUsersType
<1> QED BY <1>1, <1>2, <1>4, <1>5

LEMMA ShiftType ==
    ASSUME CallsOK, Shift
    PROVE  pendingToolCalls' \in Seq(Call)
BY HeadTailProperties DEF CallsOK, Shift

(* The result of a call lands below the leaf the session works on.         *)
LEMMA PushResultType ==
    ASSUME NEW c \in Call, ConversationOK, PushResult(c)
    PROVE  ConversationOK' /\ Len(entries') >= Len(entries)
<1> DEFINE e == [kind |-> "tool", parent |-> WorkingLeaf, of |-> c.asst, n |-> c.idx]
<1>1. Len(entries) \in Nat BY DEF ConversationOK
<1>2. e \in Entry /\ e.parent <= Len(entries)
    BY <1>1 DEF Entry, Call, WorkingLeaf, ConversationOK, Leaves
<1>3. Append1(e) BY DEF PushResult
<1> HIDE DEF e
<1> QED BY <1>1, <1>2, <1>3, Append1Type

LEMMA PushAssistantType ==
    ASSUME NEW n \in Nat, ConversationOK, PushAssistant(n)
    PROVE  ConversationOK' /\ Len(entries') >= Len(entries)
<1> DEFINE e == [kind |-> "assistant", parent |-> WorkingLeaf, of |-> 0, n |-> n]
<1>1. Len(entries) \in Nat BY DEF ConversationOK
<1>2. e \in Entry /\ e.parent <= Len(entries)
    BY <1>1 DEF Entry, WorkingLeaf, ConversationOK, Leaves
<1>3. Append1(e) BY DEF PushAssistant
<1> HIDE DEF e
<1> QED BY <1>1, <1>2, <1>3, Append1Type

LEMMA CompactionType ==
    ASSUME NEW f \in Activations, NEW ok \in BOOLEAN, ConversationOK, ActivationsOK, ScalarsOK,
           CompactionOutcome(f, ok)
    PROVE  ConversationOK' /\ Len(entries') >= Len(entries) /\ spendUsd' \in 0 .. MaxSpend
<1> DEFINE e == [kind |-> "compaction", parent |-> WorkingLeaf, of |-> act[f].leaf, n |-> 0]
<1>1. Len(entries) \in Nat BY DEF ConversationOK
<1>2. e \in Entry /\ e.parent <= Len(entries)
    BY <1>1 DEF Entry, WorkingLeaf, ConversationOK, ActivationsOK, Leaves
<1>3. CASE ok
  <2>1. Append1(e) /\ Spend BY <1>3 DEF CompactionOutcome, PushCompaction
  <2>2. spendUsd' \in 0 .. MaxSpend BY <2>1, BoundsAssumption DEF Spend, ScalarsOK
  <2> HIDE DEF e
  <2> QED BY <1>1, <1>2, <2>1, <2>2, Append1Type
<1>4. CASE ~ok BY <1>4, UnchangedTree DEF CompactionOutcome, ScalarsOK
<1> QED BY <1>3, <1>4

(* The head of the batch is a call, the leaf of the session is in the tree *)
LEMMA HeadCall ==
    ASSUME CallsOK, pendingToolCalls # <<>>
    PROVE  Head(pendingToolCalls) \in Call
BY HeadTailProperties DEF CallsOK

LEMMA LeafType ==
    ASSUME ConversationOK
    PROVE  WorkingLeaf \in Leaves /\ activeLeaf \in Leaves /\ WorkingLeaf \in Nat
BY DEF ConversationOK, WorkingLeaf, Leaves

(* Parking an activation at an await, or starting one.                     *)
LEMMA ArmType ==
    ASSUME NEW f \in Activations, NEW a \in Activation, ActivationsOK, ConversationOK, ConversationOK',
           Len(entries') >= Len(entries), a.attempt \in 0 .. MaxAutoRetries + 1, a.leaf \in Leaves,
           a.pc = "backoff" => a.attempt <= MaxAutoRetries,
           act' = [act EXCEPT ![f] = a]
    PROVE  ActivationsOK'
<1>1. Len(entries) \in Nat /\ Len(entries') \in Nat BY DEF ConversationOK
<1>2. MaxAutoRetries \in Nat BY BoundsAssumption
<1>3. act' \in [Activations -> Activation] BY DEF ActivationsOK
<1>4. \A g \in Activations : 
          /\ act'[g].attempt <= MaxAutoRetries + 1 /\ act'[g].leaf \in Leaves'
          /\ act'[g].pc = "backoff" => act'[g].attempt <= MaxAutoRetries
  <2>1. TAKE g \in Activations
  <2>2. CASE g = f BY <1>1, <1>2, <2>2 DEF ActivationsOK, Leaves, Activation
  <2>3. CASE g # f BY <1>1, <2>3 DEF ActivationsOK, Leaves
  <2> QED BY <2>2, <2>3
<1> QED BY <1>3, <1>4 DEF ActivationsOK

LEMMA ParentType ==
    ASSUME ConversationOK, NEW e \in 1 .. Len(entries)
    PROVE  entries[e].parent \in Leaves
<1>1. Len(entries) \in Nat /\ entries[e] \in Entry BY ElementOfSeq DEF ConversationOK
<1>2. entries[e].parent < e BY DEF ConversationOK
<1> QED BY <1>1, <1>2 DEF Entry, Leaves

(* A turn opened below a leaf of the tree.                                 *)
LEMMA OpenTurnType ==
    ASSUME NEW f \in Activations, NEW base \in Leaves, TypeOK, OpenTurn(f, base)
    PROVE  /\ ConversationOK' /\ Len(entries') >= Len(entries)
           /\ ActivationsOK' /\ CallsOK'
           /\ stopScope' = "none" /\ status' = status /\ retryable' = FALSE
           /\ toolRounds' = 0 /\ iterationBudget' \in Nat /\ pendingStall' = 0
<1> DEFINE e == [kind |-> "user", parent |-> base, of |-> 0, n |-> 0]
<1> USE TypeOK DEF TypeOK
<1>1. Len(entries) \in Nat BY DEF ConversationOK
<1>2. e \in Entry /\ e.parent <= Len(entries) BY <1>1 DEF Entry, Leaves
<1>3. entries' = Append(entries, e) /\ activeLeaf' = Len(entries) + 1 /\ turnLeaf' = Len(entries) + 1
    BY DEF OpenTurn
<1>4. ConversationOK' /\ Len(entries') = Len(entries) + 1
  <2> HIDE DEF e
  <2>1. entries' \in Seq(Entry) /\ Len(entries') = Len(entries) + 1
    BY <1>1, <1>2, <1>3 DEF ConversationOK
  <2>2. \A i \in 1 .. Len(entries') : entries'[i].parent < i
    <3>1. TAKE i \in 1 .. Len(entries')
    <3>2. CASE i = Len(entries) + 1 BY <1>1, <1>2, <1>3, <2>1, <3>2 DEF ConversationOK, Entry
    <3>3. CASE i # Len(entries) + 1
      <4>1. i \in 1 .. Len(entries) BY <1>1, <2>1, <3>3
      <4>2. entries'[i] = entries[i] BY <1>2, <1>3, <4>1 DEF ConversationOK
      <4> QED BY <4>1, <4>2 DEF ConversationOK
    <3> QED BY <3>2, <3>3
  <2> QED BY <1>1, <1>3, <2>1, <2>2 DEF ConversationOK, Leaves
<1>5. ActivationsOK' BY <1>1, <1>4, GotoType DEF OpenTurn, AllPcs, StretchPcs, LoopStretches
<1>6. CallsOK' BY EmptySeq DEF CallsOK, OpenTurn
<1> QED BY <1>1, <1>4, <1>5, <1>6, BoundsAssumption DEF OpenTurn, FreshBudget

(* Every synchronous stretch keeps the types. *)
LEMMA StretchType ==
    ASSUME TypeOK, NEW f \in Activations, Stretch(f)
    PROVE  TypeOK'
<1> USE TypeOK DEF TypeOK
<1>1. CASE StartLoop(f)
  <2>1. ConversationOK' /\ Len(entries') >= Len(entries) BY <1>1, FlushType, UnchangedTree DEF StartLoop, FlushIfDrained
  <2>2. ActivationsOK' BY <1>1, <2>1, GotoType DEF StartLoop, AllPcs, AwaitPcs, StretchPcs, LoopAwaits, LoopStretches
  <2>3. CallsOK' BY <1>1 DEF StartLoop, CallsOK
  <2>4. ScalarsOK' BY <1>1, FlushType DEF StartLoop, ScalarsOK, Statuses, Waiting, FlushIfDrained
  <2> QED BY <2>1, <2>2, <2>3, <2>4 DEF TypeOK
<1>2. CASE ObserveStop(f)
  <2>1. ConversationOK' /\ Len(entries') >= Len(entries) BY <1>2, UnchangedTree DEF ObserveStop
  <2>2. ActivationsOK' BY <1>2, <2>1, GotoType DEF ObserveStop, AllPcs, AwaitPcs, StretchPcs, LoopAwaits, LoopStretches
  <2>3. CallsOK' BY <1>2 DEF ObserveStop, CallsOK
  <2>4. ScalarsOK' BY <1>2 DEF ObserveStop, ScalarsOK, Statuses, Waiting, SettleStopped, Settled
  <2> QED BY <2>1, <2>2, <2>3, <2>4 DEF TypeOK
<1>3. CASE BatchDrained(f)
  <2>1. ConversationOK' /\ Len(entries') >= Len(entries) BY <1>3, FlushType DEF BatchDrained
  <2>2. ActivationsOK' BY <1>3, <2>1, GotoType DEF BatchDrained, AllPcs, AwaitPcs, StretchPcs, LoopAwaits, LoopStretches
  <2>3. CallsOK' BY <1>3 DEF BatchDrained, CallsOK
  <2>4. ScalarsOK' BY <1>3, FlushType DEF BatchDrained, ScalarsOK
  <2> QED BY <2>1, <2>2, <2>3, <2>4 DEF TypeOK
<1>4. CASE RefuseCall(f)
  <2>1. ConversationOK' /\ Len(entries') >= Len(entries) BY <1>4, PushResultType, HeadCall DEF RefuseCall, HeadIs
  <2>2. ActivationsOK' BY <1>4, <2>1, GotoType DEF RefuseCall, AllPcs, AwaitPcs, StretchPcs, LoopAwaits, LoopStretches
  <2>3. CallsOK' BY <1>4, ShiftType DEF RefuseCall, CallsOK
  <2>4. ScalarsOK' BY <1>4 DEF RefuseCall, ScalarsOK
  <2> QED BY <2>1, <2>2, <2>3, <2>4 DEF TypeOK
<1>5. CASE PauseForApproval(f)
  <2>1. ConversationOK' /\ Len(entries') >= Len(entries) BY <1>5, UnchangedTree DEF PauseForApproval
  <2>2. ActivationsOK' BY <1>5, <2>1, GotoType DEF PauseForApproval, AllPcs, AwaitPcs, StretchPcs, LoopAwaits, LoopStretches
  <2>3. CallsOK' BY <1>5, HeadCall DEF PauseForApproval, CallsOK, HeadIs
  <2>4. ScalarsOK' BY <1>5 DEF PauseForApproval, ScalarsOK, Statuses, Waiting
  <2> QED BY <2>1, <2>2, <2>3, <2>4 DEF TypeOK
<1>6. CASE PauseForInput(f)
  <2>1. ConversationOK' /\ Len(entries') >= Len(entries) BY <1>6, UnchangedTree DEF PauseForInput
  <2>2. ActivationsOK' BY <1>6, <2>1, GotoType DEF PauseForInput, AllPcs, AwaitPcs, StretchPcs, LoopAwaits, LoopStretches
  <2>3. CallsOK' BY <1>6, HeadCall DEF PauseForInput, CallsOK, HeadIs
  <2>4. ScalarsOK' BY <1>6 DEF PauseForInput, ScalarsOK, Statuses, Waiting
  <2> QED BY <2>1, <2>2, <2>3, <2>4 DEF TypeOK
<1>7. CASE StartTool(f)
  <2>1. ConversationOK' /\ Len(entries') >= Len(entries) BY <1>7, UnchangedTree DEF StartTool
  <2>2. ActivationsOK' 
    <3>1. [Fresh EXCEPT !.pc = "tool", !.call = Head(pendingToolCalls)] \in Activation
        BY <1>7, HeadCall DEF StartTool, HeadIs, Fresh, Activation, NoCall, Call, AllCallKinds, Leaves, ConversationOK,
           AllPcs, AwaitPcs, StretchPcs, LoopAwaits, LoopStretches
    <3>2. [Fresh EXCEPT !.pc = "tool", !.call = Head(pendingToolCalls)].attempt \in 0 .. MaxAutoRetries + 1 /\ [Fresh EXCEPT !.pc = "tool", !.call = Head(pendingToolCalls)].leaf \in Leaves /\ [Fresh EXCEPT !.pc = "tool", !.call = Head(pendingToolCalls)].pc # "backoff"
        BY <1>7, HeadCall, BoundsAssumption DEF StartTool, HeadIs, Fresh, Leaves, ConversationOK
    <3> QED BY <1>7, <2>1, <3>1, <3>2, ArmType DEF StartTool
  <2>3. CallsOK' BY <1>7 DEF StartTool, CallsOK
  <2>4. ScalarsOK' BY <1>7 DEF StartTool, ScalarsOK
  <2> QED BY <2>1, <2>2, <2>3, <2>4 DEF TypeOK
<1>8. CASE DeclineAtCap(f)
  <2>1. ConversationOK' /\ Len(entries') >= Len(entries) BY <1>8, UnchangedTree DEF DeclineAtCap
  <2>2. ActivationsOK' BY <1>8, <2>1, GotoType DEF DeclineAtCap, AllPcs, AwaitPcs, StretchPcs, LoopAwaits, LoopStretches
  <2>3. CallsOK' BY <1>8 DEF DeclineAtCap, CallsOK
  <2>4. ScalarsOK' BY <1>8 DEF DeclineAtCap, ScalarsOK, Statuses, Waiting
  <2> QED BY <2>1, <2>2, <2>3, <2>4 DEF TypeOK
<1>9. CASE RaiseStallPause(f)
  <2>1. ConversationOK' /\ Len(entries') >= Len(entries) BY <1>9, UnchangedTree DEF RaiseStallPause
  <2>2. ActivationsOK' BY <1>9, <2>1, GotoType DEF RaiseStallPause, AllPcs, AwaitPcs, StretchPcs, LoopAwaits, LoopStretches
  <2>3. CallsOK' BY <1>9 DEF RaiseStallPause, CallsOK
  <2>4. ScalarsOK' BY <1>9 DEF RaiseStallPause, ScalarsOK, Statuses, Waiting
  <2> QED BY <2>1, <2>2, <2>3, <2>4 DEF TypeOK
<1>10. CASE RaiseCompactionPause(f)
  <2>1. ConversationOK' /\ Len(entries') >= Len(entries) BY <1>10, UnchangedTree DEF RaiseCompactionPause
  <2>2. ActivationsOK' BY <1>10, <2>1, GotoType DEF RaiseCompactionPause, AllPcs, AwaitPcs, StretchPcs, LoopAwaits, LoopStretches
  <2>3. CallsOK' BY <1>10 DEF RaiseCompactionPause, CallsOK
  <2>4. ScalarsOK' BY <1>10 DEF RaiseCompactionPause, ScalarsOK, Statuses, Waiting
  <2> QED BY <2>1, <2>2, <2>3, <2>4 DEF TypeOK
<1>11. CASE StartAutoCompact(f)
  <2>1. ConversationOK' /\ Len(entries') >= Len(entries) BY <1>11, UnchangedTree DEF StartAutoCompact
  <2>2. ActivationsOK' 
    <3>1. [Fresh EXCEPT !.pc = "autoCompact", !.leaf = WorkingLeaf] \in Activation
        BY <1>11, LeafType DEF Fresh, Activation, NoCall, Call, AllCallKinds, Leaves, ConversationOK,
           AllPcs, AwaitPcs, StretchPcs, LoopAwaits, LoopStretches
    <3>2. [Fresh EXCEPT !.pc = "autoCompact", !.leaf = WorkingLeaf].attempt \in 0 .. MaxAutoRetries + 1 /\ [Fresh EXCEPT !.pc = "autoCompact", !.leaf = WorkingLeaf].leaf \in Leaves /\ [Fresh EXCEPT !.pc = "autoCompact", !.leaf = WorkingLeaf].pc # "backoff"
        BY <1>11, LeafType, BoundsAssumption DEF Fresh, Leaves, ConversationOK
    <3> QED BY <1>11, <2>1, <3>1, <3>2, ArmType DEF StartAutoCompact
  <2>3. CallsOK' BY <1>11 DEF StartAutoCompact, CallsOK
  <2>4. ScalarsOK' BY <1>11 DEF StartAutoCompact, ScalarsOK
  <2> QED BY <2>1, <2>2, <2>3, <2>4 DEF TypeOK
<1>12. CASE ProceedToSend(f)
  <2>1. ConversationOK' /\ Len(entries') >= Len(entries) BY <1>12, UnchangedTree DEF ProceedToSend
  <2>2. ActivationsOK' BY <1>12, <2>1, GotoType DEF ProceedToSend, AllPcs, AwaitPcs, StretchPcs, LoopAwaits, LoopStretches
  <2>3. CallsOK' BY <1>12 DEF ProceedToSend, CallsOK
  <2>4. ScalarsOK' BY <1>12 DEF ProceedToSend, ScalarsOK
  <2> QED BY <2>1, <2>2, <2>3, <2>4 DEF TypeOK
<1>13. CASE AskLoopTitle(f)
  <2>1. ConversationOK' /\ Len(entries') >= Len(entries) BY <1>13, UnchangedTree DEF AskLoopTitle
  <2>2. ActivationsOK' BY <1>13, <2>1, GotoType DEF AskLoopTitle, AllPcs, AwaitPcs, StretchPcs, LoopAwaits, LoopStretches
  <2>3. CallsOK' BY <1>13 DEF AskLoopTitle, CallsOK
  <2>4. ScalarsOK' BY <1>13 DEF AskLoopTitle, ScalarsOK
  <2> QED BY <2>1, <2>2, <2>3, <2>4 DEF TypeOK
<1>14. CASE SendRequest(f)
  <2>1. ConversationOK' /\ Len(entries') >= Len(entries) BY <1>14, UnchangedTree DEF SendRequest
  <2>2. ActivationsOK' 
    <3>1. [Fresh EXCEPT !.pc = "llm", !.attempt = 1] \in Activation
        BY <1>14, BoundsAssumption DEF Fresh, Activation, NoCall, Call, AllCallKinds, Leaves, ConversationOK,
           AllPcs, AwaitPcs, StretchPcs, LoopAwaits, LoopStretches
    <3>2. [Fresh EXCEPT !.pc = "llm", !.attempt = 1].attempt \in 0 .. MaxAutoRetries + 1 /\ [Fresh EXCEPT !.pc = "llm", !.attempt = 1].leaf \in Leaves /\ [Fresh EXCEPT !.pc = "llm", !.attempt = 1].pc # "backoff"
        BY <1>14, BoundsAssumption, BoundsAssumption DEF Fresh, Leaves, ConversationOK
    <3> QED BY <1>14, <2>1, <3>1, <3>2, ArmType DEF SendRequest
  <2>3. CallsOK' BY <1>14 DEF SendRequest, CallsOK
  <2>4. ScalarsOK' BY <1>14 DEF SendRequest, ScalarsOK
  <2> QED BY <2>1, <2>2, <2>3, <2>4 DEF TypeOK
<1>15. CASE Settle(f)
  <2>1. ConversationOK' /\ Len(entries') >= Len(entries) BY <1>15, UnchangedTree DEF Settle
  <2>2. ActivationsOK' BY <1>15, <2>1, GotoType DEF Settle, AllPcs, AwaitPcs, StretchPcs, LoopAwaits, LoopStretches
  <2>3. CallsOK' BY <1>15 DEF Settle, CallsOK
  <2>4. ScalarsOK' BY <1>15 DEF Settle, ScalarsOK, Statuses, Waiting, SettleNormally
  <2> QED BY <2>1, <2>2, <2>3, <2>4 DEF TypeOK
<1>16. CASE DrainQueue(f)
  <2>1. CASE MayDrain /\ queue > 0
    <3>1. OpenTurn(f, activeLeaf) /\ queue' = queue - 1 /\ UNCHANGED <<config, needsCompaction>> /\ UNCHANGED stopped
        BY <1>16, <2>1 DEF DrainQueue
    <3>2. /\ ConversationOK' /\ ActivationsOK' /\ CallsOK'
          /\ stopScope' = "none" /\ status' = status /\ retryable' = FALSE
          /\ toolRounds' = 0 /\ iterationBudget' \in Nat /\ pendingStall' = 0
        BY <3>1, LeafType, OpenTurnType
    <3>3. queue' \in Nat BY <2>1, <3>1 DEF ScalarsOK
    <3>4. UNCHANGED <<pendingCompaction, pendingPersistence, pendingNote, spendVars, consecutiveFailures,
                      config, triggerMode, needsCompaction, requestVars, stopped>> BY <3>1 DEF OpenTurn
    <3>5. ScalarsOK' BY <3>2, <3>3, <3>4 DEF ScalarsOK
    <3> QED BY <3>2, <3>5
  <2>2. CASE ~(MayDrain /\ queue > 0)
    <3>1. Goto(f, "exit") /\ UNCHANGED <<status, stopScope, pendingToolCalls, convVars, cardVars, inputVars,
                             spendVars, budgetVars, healthVars, settingVars, requestVars, stopped>>
        BY <1>16, <2>2 DEF DrainQueue
    <3>2. ConversationOK' /\ Len(entries') >= Len(entries) BY <3>1, UnchangedTree
    <3>3. ActivationsOK' BY <3>1, <3>2, GotoType DEF AllPcs, StretchPcs
    <3>4. CallsOK' /\ ScalarsOK' BY <3>1 DEF CallsOK, ScalarsOK
    <3> QED BY <3>2, <3>3, <3>4
  <2> QED BY <2>1, <2>2
<1>17. CASE Exit(f)
  <2>1. ConversationOK' /\ Len(entries') >= Len(entries) BY <1>17, UnchangedTree DEF Exit, ConversationOK, Leaves
  <2>2. ActivationsOK' BY <1>17, <2>1, GotoType DEF Exit, AllPcs, AwaitPcs, StretchPcs, LoopAwaits, LoopStretches
  <2>3. CallsOK' BY <1>17 DEF Exit, CallsOK
  <2>4. ScalarsOK' BY <1>17 DEF Exit, ScalarsOK
  <2> QED BY <2>1, <2>2, <2>3, <2>4 DEF TypeOK
<1> QED BY <1>1, <1>2, <1>3, <1>4, <1>5, <1>6, <1>7, <1>8, <1>9, <1>10, <1>11, <1>12, <1>13, <1>14, <1>15, <1>16, <1>17 DEF Stretch

(* An attempt without a result leaves the activation at one point or other.*)
LEMMA NoResultType ==
    ASSUME NEW f \in Activations, NEW st \in Statuses, ScalarsOK, NoResult(f, st)
    PROVE  /\ \E p \in AllPcs : Goto(f, p)
           /\ status' \in Statuses /\ stopScope' \in {"none", "soft", "hard"}
           /\ toolRounds' \in Nat /\ restartRequested' \in BOOLEAN
<1>1. CASE restartRequested
    BY <1>1 DEF NoResult, ScalarsOK, AllPcs, StretchPcs, LoopStretches
<1>2. CASE ~restartRequested
    BY <1>2 DEF NoResult, ScalarsOK, AllPcs, StretchPcs, SettleStopped, Settled, Statuses, Waiting
<1> QED BY <1>1, <1>2

(* The request of a further attempt.                                       *)
LEMMA NextAttemptType ==
    ASSUME NEW n \in Nat, NEW again \in BOOLEAN
    PROVE  LET a == [Fresh EXCEPT !.pc = "llm", !.attempt = n, !.again = again] IN
           a \in Activation /\ a.pc = "llm" /\ a.attempt = n /\ a.leaf = 0
BY DEF Activation, AwaitPcs, LoopAwaits, Fresh, NoCall, Call, AllCallKinds

(* A batch of tool calls is a sequence of calls.                           *)
LEMMA BatchType ==
    ASSUME NEW kinds \in Batches, NEW asst \in Nat
    PROVE  /\ Len(kinds) \in Nat
           /\ [i \in 1 .. Len(kinds) |-> [asst |-> asst, idx |-> i, kind |-> kinds[i]]] \in Seq(Call)
<1>1. PICK k \in 0 .. MaxCalls : kinds \in [1 .. k -> CallKinds] BY DEF Batches
<1>2. k \in Nat BY BoundsAssumption
<1>3. kinds \in Seq(CallKinds) BY <1>1, <1>2
<1>4. Len(kinds) \in Nat /\ \A i \in 1 .. Len(kinds) : kinds[i] \in AllCallKinds
    BY <1>3, KindsAssumption
<1> DEFINE calls == [i \in 1 .. Len(kinds) |-> [asst |-> asst, idx |-> i, kind |-> kinds[i]]]
<1>5. calls \in [1 .. Len(kinds) -> Call] BY <1>4 DEF Call
<1> HIDE DEF calls
<1>6. calls \in Seq(Call) BY <1>4, <1>5
<1> QED BY <1>4, <1>6 DEF calls

(* Every completion of an await keeps the types. *)
LEMMA CompletionType ==
    ASSUME TypeOK, NEW f \in Activations, Completion(f)
    PROVE  TypeOK'
<1> USE TypeOK DEF TypeOK
<1>1. CASE ToolReturns(f)
  <2>1. ConversationOK' /\ Len(entries') >= Len(entries) BY <1>1, PushResultType DEF ToolReturns, ActivationsOK, Activation
  <2>2. ActivationsOK' BY <1>1, <2>1, GotoType DEF ToolReturns, AllPcs, AwaitPcs, StretchPcs, LoopAwaits, LoopStretches
  <2>3. CallsOK' BY <1>1, ShiftType DEF ToolReturns, CallsOK
  <2>4. ScalarsOK' BY <1>1 DEF ToolReturns, ScalarsOK, Statuses, Waiting, SettleStopped, Settled
  <2> QED BY <2>1, <2>2, <2>3, <2>4 DEF TypeOK
<1>2. CASE ToolThrows(f)
  <2>1. ConversationOK' /\ Len(entries') >= Len(entries) BY <1>2, UnchangedTree DEF ToolThrows
  <2>2. ActivationsOK' BY <1>2, <2>1, GotoType DEF ToolThrows, AllPcs, AwaitPcs, StretchPcs, LoopAwaits, LoopStretches
  <2>3. CallsOK' BY <1>2 DEF ToolThrows, CallsOK
  <2>4. ScalarsOK' BY <1>2 DEF ToolThrows, ScalarsOK
  <2> QED BY <2>1, <2>2, <2>3, <2>4 DEF TypeOK
<1>3. CASE ApprovedToolReturns(f)
  <2>1. ConversationOK' /\ Len(entries') >= Len(entries) BY <1>3, PushResultType DEF ApprovedToolReturns, ActivationsOK, Activation
  <2>2. ActivationsOK' BY <1>3, <2>1, GotoType DEF ApprovedToolReturns, AllPcs, AwaitPcs, StretchPcs, LoopAwaits, LoopStretches
  <2>3. CallsOK' BY <1>3, ShiftType DEF ApprovedToolReturns, CallsOK
  <2>4. ScalarsOK' BY <1>3 DEF ApprovedToolReturns, ScalarsOK
  <2> QED BY <2>1, <2>2, <2>3, <2>4 DEF TypeOK
<1>4. CASE ApprovedToolThrows(f)
  <2>1. ConversationOK' /\ Len(entries') >= Len(entries) BY <1>4, UnchangedTree DEF ApprovedToolThrows
  <2>2. ActivationsOK' BY <1>4, <2>1, GotoType DEF ApprovedToolThrows, AllPcs, AwaitPcs, StretchPcs, LoopAwaits, LoopStretches
  <2>3. CallsOK' BY <1>4 DEF ApprovedToolThrows, CallsOK
  <2>4. ScalarsOK' BY <1>4 DEF ApprovedToolThrows, ScalarsOK
  <2> QED BY <2>1, <2>2, <2>3, <2>4 DEF TypeOK
<1>5. ASSUME NEW kinds \in Batches, NEW cut \in BOOLEAN, AnswerLands(f, kinds, cut) PROVE TypeOK'
  <2>1. ConversationOK' /\ Len(entries') >= Len(entries) BY <1>5, BatchType, PushAssistantType DEF AnswerLands
  <2>2. ActivationsOK' BY <1>5, <2>1, GotoType DEF AnswerLands, AllPcs, AwaitPcs, StretchPcs, LoopAwaits, LoopStretches
  <2>3. CallsOK' BY <1>5, BatchType DEF AnswerLands, CallsOK, ConversationOK
  <2>4. ScalarsOK' 
    <3>1. spendUsd' \in 0 .. MaxSpend /\ needsCompaction' \in BOOLEAN
        BY <1>5, BoundsAssumption DEF AnswerLands, ScalarsOK, Spend
    <3>2. toolRounds' \in Nat /\ consecutiveFailures' \in Nat BY <1>5 DEF AnswerLands, ScalarsOK
    <3>3. retryable' = FALSE /\ streaming' = FALSE /\ restartRequested' = FALSE BY <1>5 DEF AnswerLands
    <3>4. UNCHANGED <<status, stopScope, cardVars, inputVars, spendCapUsd, capReached, iterationBudget,
                      config, triggerMode, abortController, stopped>> BY <1>5 DEF AnswerLands
    <3> QED BY <3>1, <3>2, <3>3, <3>4 DEF ScalarsOK
  <2> QED BY <2>1, <2>2, <2>3, <2>4 DEF TypeOK
<1>6. CASE RequestUnwinds(f)
  <2>1. ConversationOK' /\ Len(entries') >= Len(entries) BY <1>6, UnchangedTree DEF RequestUnwinds
  <2>2. ActivationsOK' 
    <3>1. \E st \in Statuses : NoResult(f, st) BY <1>6 DEF RequestUnwinds, ScalarsOK, Statuses
    <3> QED BY <2>1, <3>1, NoResultType, GotoType
  <2>3. CallsOK' BY <1>6 DEF RequestUnwinds, CallsOK
  <2>4. ScalarsOK'
    <3>1. \E st \in Statuses : NoResult(f, st) BY <1>6 DEF RequestUnwinds, ScalarsOK
    <3>2. /\ status' \in Statuses /\ stopScope' \in {"none", "soft", "hard"}
          /\ toolRounds' \in Nat /\ restartRequested' \in BOOLEAN BY <3>1, NoResultType
    <3>3. /\ streaming' = FALSE
          /\ UNCHANGED <<cardVars, inputVars, spendVars, iterationBudget, healthVars, settingVars,
                         abortController, stopped>>
        BY <1>6 DEF RequestUnwinds
    <3> QED BY <3>2, <3>3 DEF ScalarsOK
  <2> QED BY <2>1, <2>2, <2>3, <2>4 DEF TypeOK
<1>7. CASE RequestOverWindow(f)
  <2>1. ConversationOK' /\ Len(entries') >= Len(entries) BY <1>7, UnchangedTree DEF RequestOverWindow
  <2>2. CallsOK' BY <1>7 DEF RequestOverWindow, CallsOK
  <2>3. CASE act[f].again \/ stopScope # "none"
    <3>1. \E st \in Statuses : NoResult(f, st) BY <1>7, <2>3 DEF RequestOverWindow, ScalarsOK, Statuses
    <3>2. ActivationsOK' BY <2>1, <3>1, NoResultType, GotoType
    <3>3. ScalarsOK'
      <4>1. /\ status' \in Statuses /\ stopScope' \in {"none", "soft", "hard"}
            /\ toolRounds' \in Nat /\ restartRequested' \in BOOLEAN BY <3>1, NoResultType
      <4>2. needsCompaction' \in BOOLEAN BY <1>7, <2>3 DEF RequestOverWindow, ScalarsOK
      <4>3. /\ streaming' = FALSE
            /\ UNCHANGED <<cardVars, inputVars, spendVars, iterationBudget, healthVars, config, triggerMode,
                           abortController, stopped>>
          BY <1>7, <2>3 DEF RequestOverWindow
      <4> QED BY <4>1, <4>2, <4>3 DEF ScalarsOK
    <3> QED BY <2>1, <2>2, <3>2, <3>3
  <2>4. CASE ~(act[f].again \/ stopScope # "none")
    <3> DEFINE a == [Fresh EXCEPT !.pc = "forcedCompact", !.leaf = WorkingLeaf]
    <3>1. a \in Activation
        BY LeafType DEF Fresh, Activation, NoCall, Call, AllCallKinds,
           AllPcs, AwaitPcs, StretchPcs, LoopAwaits, LoopStretches
    <3>2. a.attempt \in 0 .. MaxAutoRetries + 1 /\ a.leaf \in Leaves /\ a.pc # "backoff" BY LeafType, BoundsAssumption DEF Fresh
    <3>3. act' = [act EXCEPT ![f] = a] BY <1>7, <2>4 DEF RequestOverWindow
    <3> HIDE DEF a
    <3>4. ActivationsOK' BY <2>1, <3>1, <3>2, <3>3, ArmType
    <3>5. ScalarsOK' BY <1>7, <2>4 DEF RequestOverWindow, ScalarsOK
    <3> QED BY <2>1, <2>2, <3>4, <3>5
  <2> QED BY <2>3, <2>4
<1>8. CASE RequestTransient(f)
  <2>1. ConversationOK' /\ Len(entries') >= Len(entries) BY <1>8, UnchangedTree DEF RequestTransient
  <2>2. ActivationsOK' 
    <3> DEFINE a == [act[f] EXCEPT !.pc = "backoff"]
    <3>1. act' = [act EXCEPT ![f] = a] BY <1>8 DEF RequestTransient, ActivationsOK
    <3>2. act[f] \in Activation /\ act[f].attempt <= MaxAutoRetries + 1 /\ act[f].leaf \in Leaves BY DEF ActivationsOK
    <3>3. a \in Activation /\ a.attempt \in 0 .. MaxAutoRetries + 1 /\ a.attempt <= MaxAutoRetries /\ a.leaf \in Leaves
        BY <1>8, <3>2, BoundsAssumption DEF RequestTransient, Activation, AwaitPcs, LoopAwaits
    <3> HIDE DEF a
    <3> QED BY <2>1, <3>1, <3>3, BoundsAssumption, ArmType
  <2>3. CallsOK' BY <1>8 DEF RequestTransient, CallsOK
  <2>4. ScalarsOK' BY <1>8 DEF RequestTransient, ScalarsOK
  <2> QED BY <2>1, <2>2, <2>3, <2>4 DEF TypeOK
<1>9. CASE BackOffEnds(f)
  <2>1. ConversationOK' /\ Len(entries') >= Len(entries) BY <1>9, UnchangedTree DEF BackOffEnds
  <2>2. ActivationsOK' 
    <3>1. CASE Interrupted
      <4>1. NoResult(f, status) /\ status \in Statuses BY <1>9, <3>1 DEF BackOffEnds, ScalarsOK
      <4> QED BY <2>1, <4>1, NoResultType, GotoType
    <3>2. CASE ~Interrupted
      <4> DEFINE a == [Fresh EXCEPT !.pc = "llm", !.attempt = act[f].attempt + 1, !.again = act[f].again]
      <4>1. act' = [act EXCEPT ![f] = a] BY <1>9, <3>2 DEF BackOffEnds
      <4>2. act[f] \in Activation /\ act[f].attempt <= MaxAutoRetries /\ act[f].leaf \in Leaves
          BY <1>9 DEF ActivationsOK, BackOffEnds
      <4>3. act[f].attempt + 1 \in Nat /\ act[f].attempt + 1 \in 0 .. MaxAutoRetries + 1 /\ act[f].again \in BOOLEAN
          BY <4>2, BoundsAssumption DEF Activation
      <4>4. a \in Activation /\ a.pc = "llm" /\ a.attempt = act[f].attempt + 1 /\ a.leaf = 0
          BY <4>3, NextAttemptType
      <4>5. 0 \in Leaves BY DEF Leaves, ConversationOK
      <4> HIDE DEF a
      <4>6. a.attempt \in 0 .. MaxAutoRetries + 1 BY <4>3, <4>4
      <4>7. a.leaf \in Leaves /\ a.pc # "backoff" BY <4>4, <4>5
      <4> QED BY <2>1, <4>1, <4>4, <4>6, <4>7, ArmType
    <3> QED BY <3>1, <3>2
  <2>3. CallsOK' BY <1>9 DEF BackOffEnds, CallsOK
  <2>4. ScalarsOK'
    <3>1. /\ status' \in Statuses /\ stopScope' \in {"none", "soft", "hard"}
          /\ toolRounds' \in Nat /\ restartRequested' \in BOOLEAN
          /\ streaming' \in BOOLEAN /\ abortController' \in Activations \cup {NoActivation}
      <4>1. CASE Interrupted
        <5>1. NoResult(f, status) /\ status \in Statuses BY <1>9, <4>1 DEF BackOffEnds, ScalarsOK
        <5>2. streaming' = FALSE /\ UNCHANGED abortController BY <1>9, <4>1 DEF BackOffEnds
        <5> QED BY <5>1, <5>2, NoResultType DEF ScalarsOK
      <4>2. CASE ~Interrupted
        <5>1. /\ streaming' = TRUE /\ abortController' = f
              /\ UNCHANGED <<status, stopScope, toolRounds, restartRequested>>
            BY <1>9, <4>2 DEF BackOffEnds
        <5> QED BY <5>1 DEF ScalarsOK
      <4> QED BY <4>1, <4>2
    <3>2. UNCHANGED <<cardVars, inputVars, spendVars, iterationBudget, healthVars, settingVars, stopped>>
        BY <1>9 DEF BackOffEnds
    <3> QED BY <3>1, <3>2 DEF ScalarsOK
  <2> QED BY <2>1, <2>2, <2>3, <2>4 DEF TypeOK
<1>10. CASE RequestFails(f)
  <2>1. ConversationOK' /\ Len(entries') >= Len(entries) BY <1>10, UnchangedTree DEF RequestFails
  <2>2. ActivationsOK' 
    <3>1. \E st \in Statuses : NoResult(f, st) BY <1>10 DEF RequestFails, ScalarsOK, Statuses
    <3> QED BY <2>1, <3>1, NoResultType, GotoType
  <2>3. CallsOK' BY <1>10 DEF RequestFails, CallsOK
  <2>4. ScalarsOK' 
    <3>1. \E st \in Statuses : NoResult(f, st) BY <1>10 DEF RequestFails, Statuses
    <3>2. /\ status' \in Statuses /\ stopScope' \in {"none", "soft", "hard"}
          /\ toolRounds' \in Nat /\ restartRequested' \in BOOLEAN BY <3>1, NoResultType
    <3>3. /\ consecutiveFailures' \in Nat /\ retryable' = TRUE /\ streaming' = FALSE
          /\ UNCHANGED <<cardVars, inputVars, spendVars, iterationBudget, settingVars, abortController, stopped>>
        BY <1>10 DEF RequestFails, ScalarsOK
    <3> QED BY <3>2, <3>3 DEF ScalarsOK
  <2> QED BY <2>1, <2>2, <2>3, <2>4 DEF TypeOK
<1>11. ASSUME NEW ok \in BOOLEAN, AutoCompactEnds(f, ok) PROVE TypeOK'
  <2>1. ConversationOK' /\ Len(entries') >= Len(entries) BY <1>11, CompactionType DEF AutoCompactEnds
  <2>2. ActivationsOK' BY <1>11, <2>1, GotoType DEF AutoCompactEnds, AllPcs, AwaitPcs, StretchPcs, LoopAwaits, LoopStretches
  <2>3. CallsOK' BY <1>11 DEF AutoCompactEnds, CallsOK
  <2>4. ScalarsOK' 
    <3>1. spendUsd' \in 0 .. MaxSpend BY <1>11, CompactionType DEF AutoCompactEnds
    <3>2. status' \in Statuses /\ stopScope' \in {"none", "soft", "hard"} /\ needsCompaction' \in BOOLEAN
        BY <1>11 DEF AutoCompactEnds, ScalarsOK, Statuses, SettleStopped, Settled
    <3> QED BY <1>11, <3>1, <3>2 DEF AutoCompactEnds, ScalarsOK
  <2> QED BY <2>1, <2>2, <2>3, <2>4 DEF TypeOK
<1>12. ASSUME NEW ok \in BOOLEAN, LoopTitleEnds(f, ok) PROVE TypeOK'
  <2>1. ConversationOK' /\ Len(entries') >= Len(entries) BY <1>12, UnchangedTree DEF LoopTitleEnds
  <2>2. ActivationsOK' BY <1>12, <2>1, GotoType DEF LoopTitleEnds, AllPcs, AwaitPcs, StretchPcs, LoopAwaits, LoopStretches
  <2>3. CallsOK' BY <1>12 DEF LoopTitleEnds, CallsOK
  <2>4. ScalarsOK' BY <1>12, BoundsAssumption DEF LoopTitleEnds, ScalarsOK, Spend
  <2> QED BY <2>1, <2>2, <2>3, <2>4 DEF TypeOK
<1>13. ASSUME NEW ok \in BOOLEAN, SettleTitleEnds(f, ok) PROVE TypeOK'
  <2>1. ConversationOK' /\ Len(entries') >= Len(entries) BY <1>13, UnchangedTree DEF SettleTitleEnds
  <2>2. ActivationsOK' BY <1>13, <2>1, GotoType DEF SettleTitleEnds, AllPcs, AwaitPcs, StretchPcs, LoopAwaits, LoopStretches
  <2>3. CallsOK' BY <1>13 DEF SettleTitleEnds, CallsOK
  <2>4. ScalarsOK' BY <1>13, BoundsAssumption DEF SettleTitleEnds, ScalarsOK, Spend
  <2> QED BY <2>1, <2>2, <2>3, <2>4 DEF TypeOK
<1>14. ASSUME NEW ok \in BOOLEAN, ForcedCompactEnds(f, ok) PROVE TypeOK'
  <2>1. ConversationOK' /\ Len(entries') >= Len(entries) BY <1>14, CompactionType DEF ForcedCompactEnds
  <2>2. ActivationsOK' 
    <3>1. CASE stopScope # "none" \/ ~ok
      <4>1. \E st \in Statuses : NoResult(f, st) BY <1>14, <3>1 DEF ForcedCompactEnds, ScalarsOK, Statuses
      <4> QED BY <2>1, <4>1, NoResultType, GotoType
    <3>2. CASE ~(stopScope # "none" \/ ~ok)
      <4> DEFINE a == [Fresh EXCEPT !.pc = "llm", !.attempt = 1, !.again = TRUE]
      <4>1. act' = [act EXCEPT ![f] = a] BY <1>14, <3>2 DEF ForcedCompactEnds
      <4>2. a \in Activation BY DEF Fresh, Activation, NoCall, Call, AllCallKinds, AwaitPcs, LoopAwaits
      <4>3. a.attempt \in 0 .. MaxAutoRetries + 1 /\ a.leaf \in Leaves /\ a.pc = "llm"
          BY BoundsAssumption DEF Fresh, Leaves, ConversationOK
      <4> HIDE DEF a
      <4> QED BY <2>1, <4>1, <4>2, <4>3, ArmType
    <3> QED BY <3>1, <3>2
  <2>3. CallsOK' BY <1>14 DEF ForcedCompactEnds, CallsOK
  <2>4. ScalarsOK' 
    <3>1. spendUsd' \in 0 .. MaxSpend /\ needsCompaction' \in BOOLEAN
        BY <1>14, CompactionType DEF ForcedCompactEnds, ScalarsOK
    <3>2. /\ status' \in Statuses /\ stopScope' \in {"none", "soft", "hard"}
          /\ toolRounds' \in Nat /\ restartRequested' \in BOOLEAN /\ streaming' \in BOOLEAN
          /\ abortController' \in Activations \cup {NoActivation}
      <4>1. CASE stopScope # "none" \/ ~ok
        <5>1. \E st \in Statuses : NoResult(f, st) BY <1>14, <4>1 DEF ForcedCompactEnds, ScalarsOK, Statuses
        <5> QED BY <1>14, <4>1, <5>1, NoResultType DEF ForcedCompactEnds, ScalarsOK
      <4>2. CASE ~(stopScope # "none" \/ ~ok) BY <1>14, <4>2 DEF ForcedCompactEnds, ScalarsOK
      <4> QED BY <4>1, <4>2
    <3> QED BY <1>14, <3>1, <3>2 DEF ForcedCompactEnds, ScalarsOK
  <2> QED BY <2>1, <2>2, <2>3, <2>4 DEF TypeOK
<1>15. ASSUME NEW ok \in BOOLEAN, ResolvedCompactEnds(f, ok) PROVE TypeOK'
  <2>1. ConversationOK' /\ Len(entries') >= Len(entries) BY <1>15, CompactionType DEF ResolvedCompactEnds
  <2>2. ActivationsOK' BY <1>15, <2>1, GotoType DEF ResolvedCompactEnds, AllPcs, AwaitPcs, StretchPcs, LoopAwaits, LoopStretches
  <2>3. CallsOK' BY <1>15 DEF ResolvedCompactEnds, CallsOK
  <2>4. ScalarsOK' 
    <3>1. spendUsd' \in 0 .. MaxSpend BY <1>15, CompactionType DEF ResolvedCompactEnds
    <3>2. status' \in Statuses /\ stopScope' \in {"none", "soft", "hard"} /\ needsCompaction' \in BOOLEAN
        BY <1>15 DEF ResolvedCompactEnds, ScalarsOK, Statuses, SettleStopped, Settled
    <3>3. UNCHANGED <<cardVars, inputVars, spendCapUsd, capReached, budgetVars, healthVars, config,
                      triggerMode, requestVars, stopped>> BY <1>15 DEF ResolvedCompactEnds
    <3> QED BY <3>1, <3>2, <3>3 DEF ScalarsOK
  <2> QED BY <2>1, <2>2, <2>3, <2>4 DEF TypeOK
<1>16. ASSUME NEW ok \in BOOLEAN, CompactNowEnds(f, ok) PROVE TypeOK'
  <2>1. ConversationOK' /\ Len(entries') >= Len(entries) BY <1>16, CompactionType DEF CompactNowEnds
  <2>2. ActivationsOK' BY <1>16, <2>1, GotoType DEF CompactNowEnds, AllPcs, AwaitPcs, StretchPcs, LoopAwaits, LoopStretches
  <2>3. CallsOK' BY <1>16 DEF CompactNowEnds, CallsOK
  <2>4. ScalarsOK' 
    <3>1. spendUsd' \in 0 .. MaxSpend BY <1>16, CompactionType DEF CompactNowEnds
    <3>2. status' \in Statuses /\ stopScope' \in {"none", "soft", "hard"} /\ needsCompaction' \in BOOLEAN
        BY <1>16 DEF CompactNowEnds, ScalarsOK, Statuses, SettleStopped, Settled
    <3>3. UNCHANGED <<cardVars, inputVars, spendCapUsd, capReached, budgetVars, healthVars, config,
                      triggerMode, requestVars, stopped>> BY <1>16 DEF CompactNowEnds
    <3> QED BY <3>1, <3>2, <3>3 DEF ScalarsOK
  <2> QED BY <2>1, <2>2, <2>3, <2>4 DEF TypeOK
<1>17. ASSUME NEW ok \in BOOLEAN, RetryWritesEnds(f, ok) PROVE TypeOK'
  <2>1. ConversationOK' /\ Len(entries') >= Len(entries) BY <1>17, UnchangedTree DEF RetryWritesEnds
  <2>2. ActivationsOK' BY <1>17, <2>1, GotoType DEF RetryWritesEnds, AllPcs, AwaitPcs, StretchPcs, LoopAwaits, LoopStretches
  <2>3. CallsOK' BY <1>17 DEF RetryWritesEnds, CallsOK
  <2>4. ScalarsOK' BY <1>17 DEF RetryWritesEnds, ScalarsOK, Statuses, Waiting
  <2> QED BY <2>1, <2>2, <2>3, <2>4 DEF TypeOK
<1> QED BY <1>1, <1>2, <1>3, <1>4, <1>5, <1>6, <1>7, <1>8, <1>9, <1>10, <1>11, <1>12, <1>13, <1>14, <1>15, <1>16, <1>17 DEF Completion

(* A hard stop, or a Retry, aborts the request in flight and moves nobody. *)
LEMMA AbortType ==
    ASSUME ActivationsOK, ConversationOK, ConversationOK', Len(entries') >= Len(entries),
           NEW g0,
           act' = [g \in Activations |-> [act[g] EXCEPT
                     !.aborted = @ \/ (g = g0 /\ act[g].pc = "llm")]]
    PROVE  ActivationsOK'
<1>1. Len(entries) \in Nat /\ Len(entries') \in Nat BY DEF ConversationOK
<1>2. ASSUME NEW g \in Activations
      PROVE  /\ act'[g] \in Activation
             /\ act'[g].pc = act[g].pc /\ act'[g].attempt = act[g].attempt /\ act'[g].leaf = act[g].leaf
  <2>1. act[g] \in Activation BY DEF ActivationsOK
  <2>2. PICK b \in BOOLEAN : act'[g] = [act[g] EXCEPT !.aborted = b]
      BY <2>1 DEF Activation
  <2> QED BY <2>1, <2>2 DEF Activation
<1>3. act' \in [Activations -> Activation]
  <2>1. DOMAIN act' = Activations /\ act' = [g \in Activations |-> act'[g]] OBVIOUS
  <2> QED BY <1>2, <2>1
<1> QED BY <1>1, <1>2, <1>3 DEF ActivationsOK, Leaves

LEMMA StopEffectsType ==
    ASSUME TypeOK, NEW scope \in {"soft", "hard"}, NEW pp \in BOOLEAN, StopEffects(scope, pp)
    PROVE  /\ ConversationOK' /\ ActivationsOK' /\ CallsOK'
           /\ (pendingPersistence' \in BOOLEAN => ScalarsOK')
<1> USE TypeOK DEF TypeOK
<1>1. ConversationOK' /\ Len(entries') >= Len(entries) BY UnchangedTree DEF StopEffects
<1>2. ActivationsOK'
  <2>1. CASE scope = "hard" BY <1>1, <2>1, AbortType DEF StopEffects
  <2>2. CASE scope # "hard" BY <1>1, <2>2, UnchangedActivations DEF StopEffects
  <2> QED BY <2>1, <2>2
<1>3. CallsOK'
  <2>1. <<>> \in Seq(Call) /\ NoCall \in Call BY EmptySeq DEF NoCall, Call, AllCallKinds
  <2>2. CASE scope = "hard" BY <2>1, <2>2 DEF StopEffects, CallsOK
  <2>3. CASE scope # "hard" BY <2>3 DEF StopEffects, CallsOK
  <2> QED BY <2>2, <2>3
<1>4. ASSUME pendingPersistence' \in BOOLEAN PROVE ScalarsOK'
  <2>1. /\ status' \in Statuses /\ stopScope' \in {"none", "soft", "hard"}
        /\ restartRequested' = FALSE /\ stopped' = TRUE
      BY DEF StopEffects, ScalarsOK, Statuses
  <2>2. queue' \in Nat /\ pendingStall' \in Nat /\ pendingCompaction' \in {"none", "cancelable", "hard"}
      BY DEF StopEffects, ScalarsOK
  <2>3. UNCHANGED <<pendingNote, spendVars, budgetVars, healthVars, settingVars, streaming, abortController>>
      BY DEF StopEffects
  <2> QED BY <1>4, <2>1, <2>2, <2>3 DEF ScalarsOK
<1> QED BY <1>1, <1>2, <1>3, <1>4

(* Every call a person makes keeps the types. *)
LEMMA PersonType ==
    ASSUME TypeOK, Person
    PROVE  TypeOK'
<1> USE TypeOK DEF TypeOK
<1>1. ASSUME NEW f \in Activations, NEW c \in Configs, Send(f, c) PROVE TypeOK'
  <2>1. ConversationOK' /\ Len(entries') >= Len(entries) BY <1>1, LeafType, ParentType, OpenTurnType DEF Send
  <2>2. ActivationsOK' 
    <3>1. OpenTurn(f, activeLeaf) /\ activeLeaf \in Leaves BY <1>1, LeafType, ParentType DEF Send
    <3> QED BY <3>1, OpenTurnType
  <2>3. CallsOK' BY <1>1, LeafType, ParentType, OpenTurnType DEF Send, CallsOK
  <2>4. ScalarsOK' 
    <3>1. OpenTurn(f, activeLeaf) /\ activeLeaf \in Leaves BY <1>1, LeafType, ParentType DEF Send
    <3>2. /\ stopScope' = "none" /\ status' = status /\ retryable' = FALSE
          /\ toolRounds' = 0 /\ iterationBudget' \in Nat /\ pendingStall' = 0 BY <3>1, OpenTurnType
    <3>3. config' \in Configs /\ needsCompaction' \in BOOLEAN /\ queue' = queue /\ stopped' = FALSE
        BY <1>1 DEF Send, AdoptConfig, ScalarsOK
    <3> QED BY <3>1, <3>2, <3>3 DEF OpenTurn, ScalarsOK
  <2> QED BY <2>1, <2>2, <2>3, <2>4 DEF TypeOK
<1>2. ASSUME NEW f \in Activations, NEW c \in Configs, Enqueue(f, c) PROVE TypeOK'
  <2>1. config' \in Configs /\ needsCompaction' \in BOOLEAN BY <1>2 DEF Enqueue, AdoptConfig, ScalarsOK
  <2>2. CASE MayDrain
    <3>1. OpenTurn(f, activeLeaf) /\ activeLeaf \in Leaves /\ stopped' = FALSE /\ queue' = queue
        BY <1>2, <2>2, LeafType DEF Enqueue
    <3>2. /\ ConversationOK' /\ ActivationsOK' /\ CallsOK'
          /\ stopScope' = "none" /\ status' = status /\ retryable' = FALSE
          /\ toolRounds' = 0 /\ iterationBudget' \in Nat /\ pendingStall' = 0
        BY <3>1, OpenTurnType
    <3>3. ScalarsOK' BY <2>1, <3>1, <3>2 DEF OpenTurn, ScalarsOK
    <3> QED BY <3>2, <3>3
  <2>3. CASE ~MayDrain
    <3>1. /\ queue' = queue + 1
          /\ iterationBudget' \in {MaxToolIterations, iterationBudget}
          /\ UNCHANGED <<status, stopScope, pendingToolCalls, convVars, cardVars, pendingNote,
                         spendVars, toolRounds, healthVars, triggerMode, requestVars, act, stopped>>
        BY <1>2, <2>3 DEF Enqueue
    <3>2. ConversationOK' /\ ActivationsOK' /\ CallsOK'
        BY <3>1, UnchangedTree, UnchangedActivations DEF CallsOK
    <3>3. queue' \in Nat /\ iterationBudget' \in Nat BY <3>1, BoundsAssumption DEF ScalarsOK
    <3>4. ScalarsOK' BY <2>1, <3>1, <3>3 DEF ScalarsOK
    <3> QED BY <3>2, <3>4
  <2> QED BY <2>2, <2>3
<1>3. ASSUME NEW f \in Activations, NEW e \in 1 .. Len(entries), EditFork(f, e) PROVE TypeOK'
  <2>1. ConversationOK' /\ Len(entries') >= Len(entries) BY <1>3, LeafType, ParentType, OpenTurnType DEF EditFork
  <2>2. ActivationsOK' 
    <3>1. OpenTurn(f, entries[e].parent) /\ entries[e].parent \in Leaves BY <1>3, LeafType, ParentType DEF EditFork
    <3> QED BY <3>1, OpenTurnType
  <2>3. CallsOK' BY <1>3, LeafType, ParentType, OpenTurnType DEF EditFork, CallsOK
  <2>4. ScalarsOK' 
    <3>1. OpenTurn(f, entries[e].parent) /\ entries[e].parent \in Leaves BY <1>3, LeafType, ParentType DEF EditFork
    <3>2. /\ stopScope' = "none" /\ status' = status /\ retryable' = FALSE
          /\ toolRounds' = 0 /\ iterationBudget' \in Nat /\ pendingStall' = 0 BY <3>1, OpenTurnType
    <3>3. config' \in Configs /\ needsCompaction' \in BOOLEAN /\ queue' = queue /\ stopped' = FALSE
        BY <1>3 DEF EditFork, AdoptConfig, ScalarsOK
    <3> QED BY <3>1, <3>2, <3>3 DEF OpenTurn, ScalarsOK
  <2> QED BY <2>1, <2>2, <2>3, <2>4 DEF TypeOK
<1>4. ASSUME NEW f \in Activations, NEW runs \in BOOLEAN, NEW note \in BOOLEAN, Approve(f, runs, note) PROVE TypeOK'
  <2>1. ConversationOK' /\ Len(entries') >= Len(entries) BY <1>4, PushResultType, UnchangedTree DEF Approve, CallsOK
  <2>2. ActivationsOK' 
    <3>1. CASE runs
      <4> DEFINE a == [Fresh EXCEPT !.pc = "approvedTool", !.call = pendingApproval]
      <4>1. act' = [act EXCEPT ![f] = a] BY <1>4, <3>1 DEF Approve
      <4>2. a \in Activation
          BY DEF CallsOK, Fresh, Activation, NoCall, Call, AllCallKinds, AwaitPcs
      <4>3. a.attempt \in 0 .. MaxAutoRetries + 1 /\ a.leaf \in Leaves /\ a.pc # "backoff"
          BY BoundsAssumption DEF Fresh, Leaves, ConversationOK
      <4> HIDE DEF a
      <4> QED BY <2>1, <4>1, <4>2, <4>3, ArmType
    <3>2. CASE ~runs
      <4>1. Goto(f, "run") BY <1>4, <3>2 DEF Approve
      <4> QED BY <2>1, <4>1, GotoType DEF AllPcs, StretchPcs, LoopStretches
    <3> QED BY <3>1, <3>2
  <2>3. CallsOK' BY <1>4, ShiftType DEF Approve, CallsOK, NoCall, Call, AllCallKinds
  <2>4. ScalarsOK' 
    <3>1. pendingNote' \in BOOLEAN BY <1>4 DEF Approve, ScalarsOK
    <3>2. stopped' \in BOOLEAN BY <1>4 DEF Approve
    <3>3. UNCHANGED <<status, stopScope, pendingCompaction, pendingStall, pendingPersistence, queue, spendVars,
                      budgetVars, healthVars, settingVars, requestVars>>
        BY <1>4 DEF Approve
    <3> QED BY <3>1, <3>2, <3>3 DEF ScalarsOK
  <2> QED BY <2>1, <2>2, <2>3, <2>4 DEF TypeOK
<1>5. ASSUME NEW f \in Activations, Answer(f) PROVE TypeOK'
  <2>1. ConversationOK' /\ Len(entries') >= Len(entries) BY <1>5, PushResultType DEF Answer, CallsOK
  <2>2. ActivationsOK' BY <1>5, <2>1, GotoType DEF Answer, AllPcs, AwaitPcs, StretchPcs, LoopAwaits, LoopStretches
  <2>3. CallsOK' BY <1>5, ShiftType DEF Answer, CallsOK, NoCall, Call, AllCallKinds
  <2>4. ScalarsOK' 
    <3>1. stopped' \in BOOLEAN BY <1>5 DEF Answer
    <3>2. UNCHANGED <<status, stopScope, pendingCompaction, pendingStall, pendingPersistence, inputVars, spendVars, budgetVars, healthVars,
                      settingVars, requestVars>>
        BY <1>5 DEF Answer
    <3> QED BY <3>1, <3>2 DEF ScalarsOK
  <2> QED BY <2>1, <2>2, <2>3, <2>4 DEF TypeOK
<1>6. ASSUME NEW f \in Activations, CompactNow(f) PROVE TypeOK'
  <2>1. ConversationOK' /\ Len(entries') >= Len(entries) BY <1>6, UnchangedTree DEF CompactNow
  <2>2. ActivationsOK' 
    <3>1. [Fresh EXCEPT !.pc = "compactNow", !.leaf = WorkingLeaf] \in Activation
        BY <1>6, LeafType DEF Fresh, Activation, NoCall, Call, AllCallKinds, Leaves, ConversationOK,
           AllPcs, AwaitPcs, StretchPcs, LoopAwaits, LoopStretches
    <3>2. [Fresh EXCEPT !.pc = "compactNow", !.leaf = WorkingLeaf].attempt \in 0 .. MaxAutoRetries + 1 /\ [Fresh EXCEPT !.pc = "compactNow", !.leaf = WorkingLeaf].leaf \in Leaves /\ [Fresh EXCEPT !.pc = "compactNow", !.leaf = WorkingLeaf].pc # "backoff"
        BY <1>6, LeafType, BoundsAssumption DEF Fresh, Leaves, ConversationOK
    <3> QED BY <1>6, <2>1, <3>1, <3>2, ArmType DEF CompactNow
  <2>3. CallsOK' BY <1>6 DEF CompactNow, CallsOK
  <2>4. ScalarsOK' 
    <3>1. abortController' = f BY <1>6 DEF CompactNow
    <3>2. UNCHANGED <<status, stopScope, pendingCompaction, pendingStall, pendingPersistence, inputVars, spendVars, budgetVars, healthVars,
                      settingVars, restartRequested, streaming, stopped>>
        BY <1>6 DEF CompactNow
    <3> QED BY <3>1, <3>2 DEF ScalarsOK
  <2> QED BY <2>1, <2>2, <2>3, <2>4 DEF TypeOK
<1>7. ASSUME NEW f \in Activations, ContinueRun(f) PROVE TypeOK'
  <2>1. ConversationOK' /\ Len(entries') >= Len(entries) BY <1>7, UnchangedTree DEF ContinueRun
  <2>2. ActivationsOK' BY <1>7, <2>1, GotoType DEF ContinueRun, AllPcs, AwaitPcs, StretchPcs, LoopAwaits, LoopStretches
  <2>3. CallsOK' BY <1>7 DEF ContinueRun, CallsOK
  <2>4. ScalarsOK' 
    <3>1. iterationBudget' \in Nat BY <1>7 DEF ContinueRun, ScalarsOK
    <3>2. pendingStall' \in Nat /\ stopped' \in BOOLEAN BY <1>7 DEF ContinueRun
    <3>3. UNCHANGED <<status, stopScope, pendingCompaction, pendingPersistence, inputVars, spendVars, toolRounds,
                      healthVars, settingVars, requestVars>>
        BY <1>7 DEF ContinueRun
    <3> QED BY <3>1, <3>2, <3>3 DEF ScalarsOK
  <2> QED BY <2>1, <2>2, <2>3, <2>4 DEF TypeOK
<1>8. ASSUME NEW f \in Activations, Retry(f) PROVE TypeOK'
  <2>1. ConversationOK' /\ Len(entries') >= Len(entries) BY <1>8, LeafType DEF Retry, ConversationOK, Leaves
  <2>2. ActivationsOK' 
    <3>1. CASE Goto(f, "run") BY <2>1, <3>1, GotoType DEF AllPcs, StretchPcs, LoopStretches
    <3>2. CASE ~Goto(f, "run") BY <1>8, <2>1, <3>2, AbortType DEF Retry
    <3> QED BY <3>1, <3>2
  <2>3. CallsOK' BY <1>8 DEF Retry, CallsOK
  <2>4. ScalarsOK' 
    <3>1. /\ stopScope' \in {"none", "soft", "hard"} /\ stopped' = FALSE
          /\ restartRequested' \in BOOLEAN /\ retryable' \in BOOLEAN
      <4>1. stopScope' = stopScope \/ stopScope' = "none" BY <1>8 DEF Retry
      <4>2. restartRequested' = TRUE \/ UNCHANGED restartRequested BY <1>8, Zenon DEF Retry
      <4>3. retryable' = FALSE \/ UNCHANGED retryable BY <1>8, Zenon DEF Retry, healthVars
      <4>4. stopped' = FALSE BY <1>8, Zenon DEF Retry
      <4>5. stopScope \in {"none", "soft", "hard"} BY DEF ScalarsOK
      <4>6. restartRequested \in BOOLEAN /\ retryable \in BOOLEAN BY Zenon DEF ScalarsOK
      <4>7. stopScope' \in {"none", "soft", "hard"} BY <4>1, <4>5
      <4>8. restartRequested' \in BOOLEAN BY <4>2, <4>6, Zenon
      <4>9. retryable' \in BOOLEAN BY <4>3, <4>6, Zenon
      <4> QED BY <4>4, <4>7, <4>8, <4>9, Zenon
    <3>3. consecutiveFailures' \in Nat
      <4>1. consecutiveFailures' = 0 \/ UNCHANGED consecutiveFailures BY <1>8 DEF Retry, healthVars
      <4> QED BY <4>1 DEF ScalarsOK
    <3>2. UNCHANGED <<status, cardVars, inputVars, spendVars, budgetVars, settingVars, streaming, abortController>>
        BY <1>8 DEF Retry
    <3> QED BY <3>1, <3>2, <3>3 DEF ScalarsOK
  <2> QED BY <2>1, <2>2, <2>3, <2>4 DEF TypeOK
<1>9. ASSUME NEW f \in Activations, RetryPersistence(f) PROVE TypeOK'
  <2>1. ConversationOK' /\ Len(entries') >= Len(entries) BY <1>9, UnchangedTree DEF RetryPersistence
  <2>2. ActivationsOK' BY <1>9, <2>1, GotoType DEF RetryPersistence, AllPcs, AwaitPcs, StretchPcs, LoopAwaits, LoopStretches
  <2>3. CallsOK' BY <1>9 DEF RetryPersistence, CallsOK
  <2>4. ScalarsOK' BY <1>9 DEF RetryPersistence, ScalarsOK
  <2> QED BY <2>1, <2>2, <2>3, <2>4 DEF TypeOK
<1>10. ASSUME NEW f \in Activations, NEW skip \in BOOLEAN, ResolveCompaction(f, skip) PROVE TypeOK'
  <2>1. ConversationOK' /\ Len(entries') >= Len(entries) BY <1>10, UnchangedTree DEF ResolveCompaction
  <2>2. ActivationsOK' 
    <3>1. CASE Goto(f, "run") BY <2>1, <3>1, GotoType DEF AllPcs, StretchPcs, LoopStretches
    <3>2. CASE ~Goto(f, "run")
      <4> DEFINE a == [Fresh EXCEPT !.pc = "resolvedCompact", !.leaf = WorkingLeaf]
      <4>1. act' = [act EXCEPT ![f] = a] BY <1>10, <3>2 DEF ResolveCompaction
      <4>2. a \in Activation
          BY LeafType DEF Fresh, Activation, NoCall, Call, AllCallKinds, AwaitPcs
      <4>3. a.attempt \in 0 .. MaxAutoRetries + 1 /\ a.leaf \in Leaves /\ a.pc # "backoff"
          BY LeafType, BoundsAssumption DEF Fresh
      <4> HIDE DEF a
      <4> QED BY <2>1, <4>1, <4>2, <4>3, ArmType
    <3> QED BY <3>1, <3>2
  <2>3. CallsOK' BY <1>10 DEF ResolveCompaction, CallsOK
  <2>4. ScalarsOK' 
    <3>1. needsCompaction' \in BOOLEAN /\ abortController' \in Activations \cup {NoActivation}
        BY <1>10 DEF ResolveCompaction, ScalarsOK
    <3>2. pendingCompaction' = "none" /\ stopped' = FALSE BY <1>10 DEF ResolveCompaction
    <3>3. UNCHANGED <<status, stopScope, pendingStall, pendingPersistence, inputVars, spendVars, budgetVars,
                      healthVars, config, triggerMode, restartRequested, streaming>>
        BY <1>10 DEF ResolveCompaction
    <3> QED BY <3>1, <3>2, <3>3 DEF ScalarsOK
  <2> QED BY <2>1, <2>2, <2>3, <2>4 DEF TypeOK
<1>11. ASSUME NEW f \in Activations, NEW cap \in Caps \cup {NoCap}, SetSpendCap(f, cap) PROVE TypeOK'
  <2>1. ConversationOK' /\ Len(entries') >= Len(entries) BY <1>11, UnchangedTree DEF SetSpendCap
  <2>2. ActivationsOK'
    <3>1. Goto(f, "run") \/ UNCHANGED act BY <1>11 DEF SetSpendCap
    <3> QED BY <2>1, <3>1, GotoType, UnchangedActivations DEF AllPcs, StretchPcs, LoopStretches
  <2>3. CallsOK' BY <1>11 DEF SetSpendCap, CallsOK
  <2>4. ScalarsOK'
    <3>1. spendCapUsd' \in Caps \cup {NoCap} /\ capReached' \in BOOLEAN /\ stopped' \in BOOLEAN
        BY <1>11 DEF SetSpendCap, ScalarsOK
    <3> QED BY <1>11, <3>1 DEF SetSpendCap, ScalarsOK
  <2> QED BY <2>1, <2>2, <2>3, <2>4
<1>12. ASSUME NEW leaf \in 1 .. Len(entries), SetActiveLeaf(leaf) PROVE TypeOK'
  <2>1. ConversationOK' /\ Len(entries') >= Len(entries) BY <1>12, UnchangedTree DEF SetActiveLeaf, ConversationOK, Leaves
  <2>2. ActivationsOK' BY <1>12, <2>1, UnchangedActivations DEF SetActiveLeaf
  <2>3. CallsOK' BY <1>12 DEF SetActiveLeaf, CallsOK
  <2>4. ScalarsOK' BY <1>12 DEF SetActiveLeaf, ScalarsOK
  <2> QED BY <2>1, <2>2, <2>3, <2>4 DEF TypeOK
<1>13. ASSUME NEW k \in 0 .. MaxQueue, SetQueue(k) PROVE TypeOK'
  <2>1. ConversationOK' /\ Len(entries') >= Len(entries) BY <1>13, UnchangedTree DEF SetQueue
  <2>2. ActivationsOK' BY <1>13, <2>1, UnchangedActivations DEF SetQueue
  <2>3. CallsOK' BY <1>13 DEF SetQueue, CallsOK
  <2>4. ScalarsOK' BY <1>13, BoundsAssumption DEF SetQueue, ScalarsOK
  <2> QED BY <2>1, <2>2, <2>3, <2>4 DEF TypeOK
<1>14. ASSUME NEW scope \in {"soft", "hard"}, Stop(scope) PROVE TypeOK'
  <2>1. StopEffects(scope, pendingPersistence) /\ pendingPersistence \in BOOLEAN
        /\ pendingPersistence' = pendingPersistence BY <1>14 DEF Stop, ScalarsOK
  <2> QED BY <2>1, StopEffectsType
<1>15. ASSUME ParkNotice PROVE TypeOK'
  <2>1. ConversationOK' /\ Len(entries') >= Len(entries) BY <1>15, UnchangedTree DEF ParkNotice
  <2>2. ActivationsOK' BY <1>15, <2>1, UnchangedActivations DEF ParkNotice
  <2>3. CallsOK' BY <1>15 DEF ParkNotice, CallsOK
  <2>4. ScalarsOK' BY <1>15 DEF ParkNotice, ScalarsOK
  <2> QED BY <2>1, <2>2, <2>3, <2>4 DEF TypeOK
<1>16. ASSUME RaisePersistenceFault PROVE TypeOK'
  <2>1. CASE pendingPersistence \/ status # "running"
    <3>1. ConversationOK' /\ ActivationsOK'
        BY <1>16, <2>1, UnchangedTree, UnchangedActivations DEF RaisePersistenceFault
    <3>2. CallsOK' BY <1>16, <2>1 DEF RaisePersistenceFault, CallsOK
    <3>3. status' \in Statuses /\ pendingPersistence' = TRUE
        BY <1>16, <2>1 DEF RaisePersistenceFault, ScalarsOK, Statuses
    <3>4. UNCHANGED <<stopScope, pendingCompaction, pendingStall, inputVars, spendVars, budgetVars, healthVars,
                      settingVars, requestVars, stopped>> BY <1>16, <2>1 DEF RaisePersistenceFault
    <3>5. ScalarsOK' BY <3>3, <3>4 DEF ScalarsOK
    <3> QED BY <3>1, <3>2, <3>5
  <2>2. CASE ~(pendingPersistence \/ status # "running")
    <3>1. StopEffects("hard", TRUE) /\ pendingPersistence' \in BOOLEAN BY <1>16, <2>2 DEF RaisePersistenceFault
    <3> QED BY <3>1, StopEffectsType
  <2> QED BY <2>1, <2>2
<1>17. ASSUME DiscardPersistence PROVE TypeOK'
  <2>1. ConversationOK' /\ Len(entries') >= Len(entries) BY <1>17, UnchangedTree DEF DiscardPersistence
  <2>2. ActivationsOK' BY <1>17, <2>1, UnchangedActivations DEF DiscardPersistence
  <2>3. CallsOK' BY <1>17 DEF DiscardPersistence, CallsOK
  <2>4. ScalarsOK' 
    <3>1. status' \in Statuses /\ pendingPersistence' \in BOOLEAN BY <1>17 DEF DiscardPersistence, Statuses
    <3>2. UNCHANGED <<stopScope, pendingCompaction, pendingStall, inputVars, spendVars, budgetVars, healthVars,
                      settingVars, requestVars, stopped>>
        BY <1>17 DEF DiscardPersistence
    <3> QED BY <3>1, <3>2 DEF ScalarsOK
  <2> QED BY <2>1, <2>2, <2>3, <2>4 DEF TypeOK
<1>18. ASSUME NEW m \in TriggerModes, SetTriggerMode(m) PROVE TypeOK'
  <2>1. ConversationOK' /\ Len(entries') >= Len(entries) BY <1>18, UnchangedTree DEF SetTriggerMode
  <2>2. ActivationsOK' BY <1>18, <2>1, UnchangedActivations DEF SetTriggerMode
  <2>3. CallsOK' BY <1>18 DEF SetTriggerMode, CallsOK
  <2>4. ScalarsOK' BY <1>18 DEF SetTriggerMode, ScalarsOK
  <2> QED BY <2>1, <2>2, <2>3, <2>4 DEF TypeOK
<1> QED BY <1>1, <1>2, <1>3, <1>4, <1>5, <1>6, <1>7, <1>8, <1>9, <1>10, <1>11, <1>12, <1>13, <1>14, <1>15, <1>16, <1>17, <1>18 DEF Person

LEMMA StutterType == ASSUME TypeOK, UNCHANGED vars PROVE TypeOK'
<1> USE TypeOK DEF TypeOK, vars
<1>1. ConversationOK' /\ ActivationsOK' BY UnchangedTree, UnchangedActivations
<1>2. CallsOK' /\ ScalarsOK' BY DEF CallsOK, ScalarsOK
<1> QED BY <1>1, <1>2

LEMMA InitType == ASSUME Init PROVE TypeOK
<1>1. ConversationOK BY EmptySeq DEF Init, ConversationOK, Leaves
<1>2. Fresh \in Activation /\ Fresh.attempt = 0 /\ Fresh.leaf = 0 /\ Fresh.pc = "free"
    BY DEF Fresh, Activation, NoCall, Call, AllCallKinds
<1>3. ActivationsOK BY <1>1, <1>2, BoundsAssumption DEF Init, ActivationsOK, Leaves, ConversationOK
<1>4. CallsOK BY EmptySeq DEF Init, CallsOK, NoCall, Call, AllCallKinds
<1>5. ScalarsOK
  <2>1. /\ spendUsd \in 0 .. MaxSpend /\ spendCapUsd \in Caps \cup {NoCap} /\ iterationBudget \in Nat
        /\ pendingStall \in Nat /\ queue \in Nat /\ toolRounds \in Nat /\ consecutiveFailures \in Nat
      BY BoundsAssumption DEF Init
  <2>2. status \in Statuses BY DEF Init, Statuses
  <2> QED BY <2>1, <2>2 DEF Init, ScalarsOK
<1> QED BY <1>1, <1>3, <1>4, <1>5 DEF TypeOK

(* Whatever the person clicks and whatever the model, the tools and the    *)
(* store do, the session's fields keep their types, the tree stays a tree  *)
(* and no request is re-sent beyond maxAutoRetries (session.ts).           *)
THEOREM TypeCorrect == Spec => []TypeOK
<1>1. Init => TypeOK BY InitType
<1>2. TypeOK /\ [Next]_vars => TypeOK'
  <2>1. ASSUME TypeOK, Next PROVE TypeOK'
    <3>1. CASE Person BY <2>1, <3>1, PersonType
    <3>2. ASSUME NEW f \in Activations, Progress(f) PROVE TypeOK'
        BY <2>1, <3>2, StretchType, CompletionType DEF Progress
    <3> QED BY <2>1, <3>1, <3>2 DEF Next
  <2> QED BY <2>1, StutterType
<1> QED BY <1>1, <1>2, PTL DEF Spec

(* The fields of the persistence pause: left alone, or moved by a settle.  *)
PauseKept == UNCHANGED pendingPersistence
             /\ (status' = "awaiting-persistence" => status = "awaiting-persistence" \/ pendingPersistence)

LEMMA SettleKeepsPause ==
    ASSUME SettleStopped, UNCHANGED pendingPersistence PROVE PauseKept
BY DEF SettleStopped, Settled, PauseKept

LEMMA NoResultKeepsPause ==
    ASSUME NEW f, NEW st, NoResult(f, st), UNCHANGED pendingPersistence,
           st # "awaiting-persistence" \/ st = status
    PROVE  PauseKept
<1>1. CASE restartRequested BY <1>1 DEF NoResult, PauseKept
<1>2. CASE ~restartRequested
  <2>1. CASE stopScope # "none" BY <1>2, <2>1, SettleKeepsPause DEF NoResult
  <2>2. CASE stopScope = "none" BY <1>2, <2>2 DEF NoResult, PauseKept
  <2> QED BY <2>1, <2>2
<1> QED BY <1>1, <1>2

LEMMA StretchKeepsPause ==
    ASSUME NEW f \in Activations, Stretch(f) PROVE PauseKept
<1>1. CASE StartLoop(f) BY <1>1 DEF StartLoop, PauseKept
<1>2. CASE ObserveStop(f) BY <1>2, SettleKeepsPause DEF ObserveStop
<1>3. CASE BatchDrained(f) BY <1>3 DEF BatchDrained, PauseKept
<1>4. CASE RefuseCall(f) BY <1>4 DEF RefuseCall, PauseKept
<1>5. CASE PauseForApproval(f) BY <1>5 DEF PauseForApproval, PauseKept
<1>6. CASE PauseForInput(f) BY <1>6 DEF PauseForInput, PauseKept
<1>7. CASE StartTool(f) BY <1>7 DEF StartTool, PauseKept
<1>8. CASE DeclineAtCap(f) BY <1>8 DEF DeclineAtCap, PauseKept
<1>9. CASE RaiseStallPause(f) BY <1>9 DEF RaiseStallPause, PauseKept
<1>10. CASE RaiseCompactionPause(f) BY <1>10 DEF RaiseCompactionPause, PauseKept
<1>11. CASE StartAutoCompact(f) BY <1>11 DEF StartAutoCompact, PauseKept
<1>12. CASE ProceedToSend(f) BY <1>12 DEF ProceedToSend, PauseKept
<1>13. CASE AskLoopTitle(f) BY <1>13 DEF AskLoopTitle, PauseKept
<1>14. CASE SendRequest(f) BY <1>14 DEF SendRequest, PauseKept
<1>15. CASE Settle(f) BY <1>15 DEF Settle, SettleNormally, PauseKept
<1>16. CASE DrainQueue(f) BY <1>16 DEF DrainQueue, OpenTurn, PauseKept
<1>17. CASE Exit(f) BY <1>17 DEF Exit, PauseKept
<1> QED BY <1>1, <1>2, <1>3, <1>4, <1>5, <1>6, <1>7, <1>8, <1>9, <1>10, <1>11, <1>12, <1>13,
           <1>14, <1>15, <1>16, <1>17 DEF Stretch

LEMMA CompletionKeepsPause ==
    ASSUME NEW f \in Activations, Completion(f)
    PROVE  PauseKept \/ \E ok \in BOOLEAN : RetryWritesEnds(f, ok)
<1>1. CASE ToolReturns(f)
  <2>1. CASE stopScope = "hard" BY <1>1, <2>1, SettleKeepsPause DEF ToolReturns
  <2>2. CASE stopScope # "hard" BY <1>1, <2>2 DEF ToolReturns, PauseKept
  <2> QED BY <2>1, <2>2
<1>2. CASE ToolThrows(f) BY <1>2 DEF ToolThrows, PauseKept
<1>3. CASE ApprovedToolReturns(f) BY <1>3 DEF ApprovedToolReturns, PauseKept
<1>4. CASE ApprovedToolThrows(f) BY <1>4 DEF ApprovedToolThrows, PauseKept
<1>5. ASSUME NEW kinds, NEW cut, AnswerLands(f, kinds, cut) PROVE PauseKept
    BY <1>5 DEF AnswerLands, PauseKept
<1>6. CASE RequestUnwinds(f) BY <1>6, NoResultKeepsPause DEF RequestUnwinds
<1>7. CASE RequestOverWindow(f)
  <2>1. UNCHANGED pendingPersistence BY <1>7 DEF RequestOverWindow
  <2>2. CASE NoResult(f, "idle") BY <2>1, <2>2, NoResultKeepsPause
  <2>3. CASE NoResult(f, status) BY <2>1, <2>3, NoResultKeepsPause
  <2>4. CASE UNCHANGED status BY <2>1, <2>4 DEF PauseKept
  <2> QED BY <1>7, <2>2, <2>3, <2>4 DEF RequestOverWindow
<1>8. CASE RequestTransient(f) BY <1>8 DEF RequestTransient, PauseKept
<1>9. CASE BackOffEnds(f)
  <2>1. UNCHANGED pendingPersistence BY <1>9 DEF BackOffEnds
  <2>2. CASE NoResult(f, status) BY <2>1, <2>2, NoResultKeepsPause
  <2>3. CASE UNCHANGED status BY <2>1, <2>3 DEF PauseKept
  <2> QED BY <1>9, <2>2, <2>3 DEF BackOffEnds
<1>10. CASE RequestFails(f)
  <2> DEFINE st == IF BreakerTrips THEN "halted" ELSE "idle"
  <2>1. NoResult(f, st) /\ UNCHANGED pendingPersistence BY <1>10 DEF RequestFails
  <2>2. st # "awaiting-persistence" OBVIOUS
  <2> HIDE DEF st
  <2> QED BY <2>1, <2>2, NoResultKeepsPause
<1>11. ASSUME NEW ok \in BOOLEAN, AutoCompactEnds(f, ok) PROVE PauseKept
  <2>1. CASE stopScope # "none" BY <1>11, <2>1, SettleKeepsPause DEF AutoCompactEnds
  <2>2. CASE stopScope = "none" BY <1>11, <2>2 DEF AutoCompactEnds, PauseKept
  <2> QED BY <2>1, <2>2
<1>12. ASSUME NEW ok \in BOOLEAN, LoopTitleEnds(f, ok) PROVE PauseKept BY <1>12 DEF LoopTitleEnds, PauseKept
<1>13. ASSUME NEW ok \in BOOLEAN, SettleTitleEnds(f, ok) PROVE PauseKept BY <1>13 DEF SettleTitleEnds, PauseKept
<1>14. ASSUME NEW ok \in BOOLEAN, ForcedCompactEnds(f, ok) PROVE PauseKept
  <2> DEFINE st == IF stopScope # "none" THEN status ELSE "idle"
  <2>1. UNCHANGED pendingPersistence BY <1>14 DEF ForcedCompactEnds
  <2>2. st # "awaiting-persistence" \/ st = status OBVIOUS
  <2>3. NoResult(f, st) \/ UNCHANGED status BY <1>14 DEF ForcedCompactEnds
  <2> HIDE DEF st
  <2>4. CASE NoResult(f, st) BY <2>1, <2>2, <2>4, NoResultKeepsPause
  <2>5. CASE UNCHANGED status BY <2>1, <2>5 DEF PauseKept
  <2> QED BY <2>3, <2>4, <2>5
<1>15. ASSUME NEW ok \in BOOLEAN, ResolvedCompactEnds(f, ok) PROVE PauseKept
  <2>1. CASE stopScope # "none" BY <1>15, <2>1, SettleKeepsPause DEF ResolvedCompactEnds
  <2>2. CASE stopScope = "none" BY <1>15, <2>2 DEF ResolvedCompactEnds, PauseKept
  <2> QED BY <2>1, <2>2
<1>16. ASSUME NEW ok \in BOOLEAN, CompactNowEnds(f, ok) PROVE PauseKept BY <1>16 DEF CompactNowEnds, PauseKept
<1> QED BY <1>1, <1>2, <1>3, <1>4, <1>5, <1>6, <1>7, <1>8, <1>9, <1>10, <1>11, <1>12, <1>13,
           <1>14, <1>15, <1>16 DEF Completion

LEMMA PersonKeepsFaultAnswerable ==
    ASSUME FaultIsAnswerable, Person PROVE FaultIsAnswerable'
<1>1. ASSUME NEW f \in Activations,
             \/ \E c \in Configs : Send(f, c) \/ Enqueue(f, c)
             \/ \E e \in 1 .. Len(entries) : EditFork(f, e)
      PROVE  PauseKept
    BY <1>1 DEF Send, Enqueue, EditFork, OpenTurn, PauseKept
<1>2. ASSUME NEW f \in Activations, NEW runs \in BOOLEAN, NEW note \in BOOLEAN, Approve(f, runs, note)
      PROVE  PauseKept BY <1>2 DEF Approve, PauseKept
<1>3. ASSUME NEW f \in Activations, Answer(f) PROVE PauseKept BY <1>3 DEF Answer, PauseKept
<1>4. ASSUME NEW f \in Activations, CompactNow(f) PROVE PauseKept BY <1>4 DEF CompactNow, PauseKept
<1>5. ASSUME NEW f \in Activations, ContinueRun(f) PROVE PauseKept BY <1>5 DEF ContinueRun, PauseKept
<1>6. ASSUME NEW f \in Activations, Retry(f) PROVE PauseKept BY <1>6, Zenon DEF Retry, PauseKept
<1>7. ASSUME NEW f \in Activations, RetryPersistence(f) PROVE PauseKept BY <1>7 DEF RetryPersistence, PauseKept
<1>8. ASSUME NEW f \in Activations, NEW skip \in BOOLEAN, ResolveCompaction(f, skip) PROVE PauseKept
    BY <1>8 DEF ResolveCompaction, PauseKept
<1>9. ASSUME NEW f \in Activations, NEW cap, SetSpendCap(f, cap) PROVE PauseKept
    BY <1>9 DEF SetSpendCap, PauseKept
<1>10. ASSUME NEW leaf, SetActiveLeaf(leaf) PROVE PauseKept BY <1>10 DEF SetActiveLeaf, PauseKept
<1>11. ASSUME NEW k, SetQueue(k) PROVE PauseKept BY <1>11 DEF SetQueue, PauseKept
<1>12. ASSUME ParkNotice PROVE PauseKept BY <1>12 DEF ParkNotice, PauseKept
<1>13. ASSUME NEW m, SetTriggerMode(m) PROVE PauseKept BY <1>13 DEF SetTriggerMode, PauseKept
<1>14. ASSUME NEW scope, Stop(scope) PROVE PauseKept
  <2>1. UNCHANGED pendingPersistence BY <1>14 DEF Stop
  <2>2. status' = status \/ status' = IF pendingPersistence THEN "awaiting-persistence" ELSE "idle"
      BY <1>14, Zenon DEF Stop, StopEffects
  <2> QED BY <2>1, <2>2 DEF PauseKept
<1>15. CASE RaisePersistenceFault BY <1>15 DEF RaisePersistenceFault, FaultIsAnswerable
<1>16. CASE DiscardPersistence BY <1>16 DEF DiscardPersistence, FaultIsAnswerable
<1>17. ASSUME PauseKept PROVE FaultIsAnswerable' BY <1>17 DEF PauseKept, FaultIsAnswerable
<1> QED BY <1>1, <1>2, <1>3, <1>4, <1>5, <1>6, <1>7, <1>8, <1>9, <1>10, <1>11, <1>12, <1>13, <1>14,
           <1>15, <1>16, <1>17 DEF Person

(* The awaiting-persistence pause never lacks the fault that               *)
(* retryPersistence and discardPersistence resolve, whatever races with a  *)
(* flush in progress: a session cannot be stuck where neither is accepted. *)
THEOREM FaultAlwaysAnswerable == Spec => []FaultIsAnswerable
<1>1. Init => FaultIsAnswerable BY DEF Init, FaultIsAnswerable
<1>2. FaultIsAnswerable /\ [Next]_vars => FaultIsAnswerable'
  <2>1. ASSUME FaultIsAnswerable, Next PROVE FaultIsAnswerable'
    <3>1. CASE Person BY <2>1, <3>1, PersonKeepsFaultAnswerable
    <3>2. ASSUME NEW f \in Activations, Progress(f) PROVE FaultIsAnswerable'
      <4>1. ASSUME PauseKept PROVE FaultIsAnswerable' BY <2>1, <4>1 DEF PauseKept, FaultIsAnswerable
      <4>2. ASSUME NEW ok \in BOOLEAN, RetryWritesEnds(f, ok) PROVE FaultIsAnswerable'
        <5>1. CASE ok BY <4>2, <5>1 DEF RetryWritesEnds, FaultIsAnswerable
        <5>2. CASE ~ok BY <4>2, <5>2 DEF RetryWritesEnds, FaultIsAnswerable
        <5> QED BY <5>1, <5>2
      <4> QED BY <3>2, <4>1, <4>2, StretchKeepsPause, CompletionKeepsPause DEF Progress
    <3> QED BY <2>1, <3>1, <3>2 DEF Next
  <2>2. ASSUME FaultIsAnswerable, UNCHANGED vars PROVE FaultIsAnswerable'
      BY <2>2 DEF vars, FaultIsAnswerable
  <2> QED BY <2>1, <2>2
<1> QED BY <1>1, <1>2, PTL DEF Spec

-----------------------------------------------------------------------------
(* One loop                                                                *)

(* No stop is pressed and no journal fails.                                *)
Unstopped == "stopHard" \notin Ops /\ "stopSoft" \notin Ops /\ "fault" \notin Ops

(* A stop that settles the session at once finds nothing under way: no     *)
(* consented tool, no compaction a person asked for, no retried write.     *)
StopsFindTheLoop == Unstopped \/ ("approve" \notin Ops /\ "compact" \notin Ops /\ "retryWrites" \notin Ops)

(* One activation at a time executes.                                      *)
OneStretch == \A f, g \in Activations : act[f].pc \in StretchPcs /\ act[g].pc \in StretchPcs => f = g

LoopPcs    == LoopAwaits \cup LoopStretches \cup {"approvedTool", "resolvedCompact"}
RunningPcs == LoopPcs \ {"run", "approvedTool", "resolvedCompact"}
DrainedPcs == {"boundary", "title", "loopTitle", "request", "llm", "backoff", "autoCompact",
               "forcedCompact", "settled"}

(* What an activation that stands at p relies on.                          *)
PointOK(p) ==
    /\ p \in RunningPcs => status = "running"
    /\ p = "approvedTool" => Unstopped /\ status = "awaiting-approval" /\ pendingApproval = NoCall
    /\ p = "resolvedCompact" => Unstopped /\ status = "awaiting-compaction" /\ pendingCompaction = "none"
    /\ p \in DrainedPcs => pendingToolCalls = <<>>
    /\ p = "forcedCompact" => ~streaming /\ ~restartRequested
    /\ p # "retryWrites"
    /\ capReached /\ p \in LoopPcs => p \in {"run", "top", "drain", "boundary"}

(* What the session relies on at any time.                                 *)
SessionOK ==
    /\ capReached => CapBlocked /\ pendingToolCalls = <<>> /\ status \notin Waiting
    /\ Unstopped => stopScope = "none" /\ ~pendingPersistence /\ status # "awaiting-persistence"

LoopOK == OneStretch /\ OneLoop /\ SessionOK /\ \A f \in Activations : PointOK(act[f].pc)

(* f moves to p and nobody else moves.                                     *)
Moves(f, p) == act'[f].pc = p /\ \A g \in Activations \ {f} : act'[g] = act[g]
Alone(f) == \A g \in Activations \ {f} : ~InLoop(g)

LEMMA GotoMoves ==
    ASSUME NEW f \in Activations, NEW p, ActivationsOK, Goto(f, p)
    PROVE  Moves(f, p)
BY DEF Goto, Moves, ActivationsOK, Activation, Fresh

LEMMA ArmMoves ==
    ASSUME NEW f \in Activations, NEW r, ActivationsOK, act' = [act EXCEPT ![f] = r]
    PROVE  Moves(f, r.pc)
BY DEF Moves, ActivationsOK, Activation

(* The activation that holds the loop moves, or takes it: only what holds  *)
(* at its new point and of the session has to be shown.                    *)
LEMMA OwnerMoves ==
    ASSUME NEW f \in Activations, NEW p, LoopOK, Quiet \/ act[f].pc \in StretchPcs,
           Alone(f), Moves(f, p), SessionOK', PointOK(p)'
    PROVE  LoopOK'
<1>1. OneStretch' BY DEF LoopOK, OneStretch, Quiet, Moves
<1>2. OneLoop' BY DEF OneLoop, InLoop, Alone, Moves
<1>3. ASSUME NEW g \in Activations PROVE PointOK(act[g].pc)'
  <2>1. CASE g = f BY <2>1 DEF Moves, PointOK, SessionOK, CapBlocked
  <2>2. CASE g # f
    <3>1. act'[g] = act[g] /\ ~InLoop(g) BY <2>2 DEF Moves, Alone
    <3>2. act[g].pc \notin LoopPcs BY <3>1 DEF InLoop, LoopPcs
    <3>3. act[g].pc # "retryWrites" BY DEF LoopOK, PointOK
    <3> QED BY <3>1, <3>2, <3>3 DEF PointOK, LoopPcs, RunningPcs, DrainedPcs, LoopAwaits, LoopStretches
  <2> QED BY <2>1, <2>2
<1> QED BY <1>1, <1>2, <1>3 DEF LoopOK

(* Another activation moves, outside the loop.                             *)
LEMMA OutsiderMoves ==
    ASSUME NEW f \in Activations, NEW p, LoopOK, Quiet \/ act[f].pc \in StretchPcs,
           p \notin LoopPcs \cup {"retryWrites"}, Moves(f, p), SessionOK',
           UNCHANGED <<status, pendingApproval, pendingCompaction, pendingToolCalls, streaming,
                       restartRequested, capReached>>
    PROVE  LoopOK'
<1>1. OneStretch' BY DEF LoopOK, OneStretch, Quiet, Moves
<1>2. OneLoop' BY DEF LoopOK, OneLoop, InLoop, LoopPcs, Moves
<1>3. ASSUME NEW g \in Activations PROVE PointOK(act[g].pc)'
  <2>1. CASE g = f
    BY <2>1 DEF Moves, PointOK, LoopPcs, RunningPcs, DrainedPcs, LoopAwaits, LoopStretches
  <2>2. CASE g # f
    <3>1. act'[g] = act[g] /\ PointOK(act[g].pc) BY <2>2 DEF Moves, LoopOK
    <3> QED BY <3>1 DEF PointOK
  <2> QED BY <2>1, <2>2
<1> QED BY <1>1, <1>2, <1>3 DEF LoopOK

(* Nobody moves.                                                           *)
LEMMA NobodyMoves ==
    ASSUME LoopOK, \A g \in Activations : act'[g].pc = act[g].pc, SessionOK',
           \A g \in Activations : PointOK(act[g].pc)'
    PROVE  LoopOK'
BY DEF LoopOK, OneStretch, OneLoop, InLoop, PointOK

(* When all are parked and the status is not "running", the loop is at     *)
(* most waiting for what a person asked for.                               *)
LEMMA ParkedLoop ==
    ASSUME LoopOK, Quiet, status # "running", NEW g \in Activations, InLoop(g)
    PROVE  \/ act[g].pc = "approvedTool" /\ status = "awaiting-approval" /\ pendingApproval = NoCall
           \/ act[g].pc = "resolvedCompact" /\ status = "awaiting-compaction" /\ pendingCompaction = "none"
<1>1. PointOK(act[g].pc) /\ act[g].pc \notin StretchPcs BY DEF LoopOK, Quiet
<1>2. act[g].pc \in LoopPcs \ {"run"} BY <1>1 DEF InLoop, LoopPcs, StretchPcs, LoopStretches
<1> QED BY <1>1, <1>2 DEF PointOK, RunningPcs

LEMMA LoopIsAlone ==
    ASSUME LoopOK, NEW f \in Activations, InLoop(f)
    PROVE  Alone(f) /\ PointOK(act[f].pc)
BY DEF LoopOK, OneLoop, Alone

(* Spending more never unblocks the cap.                                   *)
LEMMA SpendKeepsCap ==
    ASSUME ScalarsOK, Spend, spendCapUsd' = spendCapUsd, CapBlocked
    PROVE  CapBlocked'
BY BoundsAssumption DEF ScalarsOK, Spend, CapBlocked

(* Of an activation that executes while the session is idle, nobody else is*)
(* in the loop.                                                            *)
LEMMA IdleIsAlone ==
    ASSUME LoopOK, NEW f \in Activations, Quiet \/ act[f].pc \in StretchPcs, ~InLoop(f),
           status \notin {"running", "awaiting-approval", "awaiting-compaction"}
    PROVE  Alone(f)
<1>1. SUFFICES ASSUME NEW g \in Activations \ {f}, InLoop(g) PROVE FALSE BY DEF Alone
<1>2. act[g].pc \notin StretchPcs BY DEF LoopOK, OneStretch, Quiet
<1>3. PointOK(act[g].pc) BY DEF LoopOK
<1>4. act[g].pc \in LoopPcs \ {"run"} BY <1>1, <1>2 DEF InLoop, LoopPcs, StretchPcs, LoopStretches
<1> QED BY <1>3, <1>4 DEF PointOK, RunningPcs

(* A turn opened while nobody is in the loop.                              *)
LEMMA OpensLoop ==
    ASSUME TypeOK, LoopOK, NEW f \in Activations, NEW base, Quiet \/ act[f].pc \in StretchPcs, Alone(f),
           OpenTurn(f, base)
    PROVE  LoopOK'
<1>1. Moves(f, "run") BY GotoMoves DEF OpenTurn, TypeOK
<1>2. SessionOK' /\ PointOK("run")'
    BY DEF OpenTurn, LoopOK, PointOK, SessionOK, LoopPcs, RunningPcs, DrainedPcs, LoopStretches, CapBlocked
<1> QED BY <1>1, <1>2, OwnerMoves

(* Every synchronous stretch keeps the loop alone.                         *)
LEMMA StretchLoop ==
    ASSUME TypeOK, LoopOK, NEW f \in Activations, Stretch(f)
    PROVE  LoopOK'
<1> USE TypeOK, LoopOK DEF TypeOK
<1>0. act[f].pc \in StretchPcs /\ SessionOK
    BY DEF Stretch, StretchPcs, LoopStretches, StartLoop, ObserveStop, BatchDrained, RefuseCall, PauseForApproval,
           PauseForInput, StartTool, DeclineAtCap, RaiseStallPause, RaiseCompactionPause, StartAutoCompact,
           ProceedToSend, AskLoopTitle, SendRequest, Settle, DrainQueue, Exit, HeadIs, Draining, ToSend,
           AtBoundary, LoopOK
<1> USE <1>0
<1>1. CASE StartLoop(f)
  <2>1. Alone(f) /\ PointOK(act[f].pc) /\ act[f].pc \in LoopPcs
    BY <1>1, LoopIsAlone DEF StartLoop, InLoop, LoopPcs, LoopAwaits, LoopStretches
  <2>2. Moves(f, "top") BY <1>1, GotoMoves DEF StartLoop
  <2>3. SessionOK' /\ PointOK("top")' BY <1>1, <2>1 DEF StartLoop, Waiting, PointOK, SessionOK, LoopPcs, RunningPcs, DrainedPcs, LoopAwaits, LoopStretches, CapBlocked
  <2> QED BY <2>1, <2>2, <2>3, OwnerMoves
<1>2. CASE ObserveStop(f)
  <2>1. Alone(f) /\ PointOK(act[f].pc) /\ act[f].pc \in LoopPcs
    BY <1>2, LoopIsAlone DEF ObserveStop, InLoop, LoopPcs, LoopAwaits, LoopStretches
  <2>2. Moves(f, "exit") BY <1>2, GotoMoves DEF ObserveStop
  <2>3. SessionOK' /\ PointOK("exit")' BY <1>2, <2>1 DEF ObserveStop, SettleStopped, Settled, Waiting, PointOK, SessionOK, LoopPcs, RunningPcs, DrainedPcs, LoopAwaits, LoopStretches, CapBlocked
  <2> QED BY <2>1, <2>2, <2>3, OwnerMoves
<1>3. CASE BatchDrained(f)
  <2>1. Alone(f) /\ PointOK(act[f].pc) /\ act[f].pc \in LoopPcs
    BY <1>3, LoopIsAlone DEF BatchDrained, Draining, InLoop, LoopPcs, LoopAwaits, LoopStretches
  <2>2. Moves(f, "boundary") BY <1>3, GotoMoves DEF BatchDrained
  <2>3. SessionOK' /\ PointOK("boundary")' BY <1>3, <2>1 DEF BatchDrained, Draining, PointOK, SessionOK, LoopPcs, RunningPcs, DrainedPcs, LoopAwaits, LoopStretches, CapBlocked
  <2> QED BY <2>1, <2>2, <2>3, OwnerMoves
<1>4. CASE RefuseCall(f)
  <2>1. Alone(f) /\ PointOK(act[f].pc) /\ act[f].pc \in LoopPcs
    BY <1>4, LoopIsAlone DEF RefuseCall, HeadIs, Draining, InLoop, LoopPcs, LoopAwaits, LoopStretches
  <2>2. Moves(f, "drain") BY <1>4, GotoMoves DEF RefuseCall
  <2>3. SessionOK' /\ PointOK("drain")' BY <1>4, <2>1 DEF RefuseCall, HeadIs, Draining, PointOK, SessionOK, LoopPcs, RunningPcs, DrainedPcs, LoopAwaits, LoopStretches, CapBlocked
  <2> QED BY <2>1, <2>2, <2>3, OwnerMoves
<1>5. CASE PauseForApproval(f)
  <2>1. Alone(f) /\ PointOK(act[f].pc) /\ act[f].pc \in LoopPcs
    BY <1>5, LoopIsAlone DEF PauseForApproval, HeadIs, Draining, InLoop, LoopPcs, LoopAwaits, LoopStretches
  <2>2. Moves(f, "exit") BY <1>5, GotoMoves DEF PauseForApproval
  <2>3. SessionOK' /\ PointOK("exit")' BY <1>5, <2>1 DEF PauseForApproval, HeadIs, Draining, Waiting, PointOK, SessionOK, LoopPcs, RunningPcs, DrainedPcs, LoopAwaits, LoopStretches, CapBlocked
  <2> QED BY <2>1, <2>2, <2>3, OwnerMoves
<1>6. CASE PauseForInput(f)
  <2>1. Alone(f) /\ PointOK(act[f].pc) /\ act[f].pc \in LoopPcs
    BY <1>6, LoopIsAlone DEF PauseForInput, HeadIs, Draining, InLoop, LoopPcs, LoopAwaits, LoopStretches
  <2>2. Moves(f, "exit") BY <1>6, GotoMoves DEF PauseForInput
  <2>3. SessionOK' /\ PointOK("exit")' BY <1>6, <2>1 DEF PauseForInput, HeadIs, Draining, Waiting, PointOK, SessionOK, LoopPcs, RunningPcs, DrainedPcs, LoopAwaits, LoopStretches, CapBlocked
  <2> QED BY <2>1, <2>2, <2>3, OwnerMoves
<1>7. CASE StartTool(f)
  <2>1. Alone(f) /\ PointOK(act[f].pc) /\ act[f].pc \in LoopPcs
    BY <1>7, LoopIsAlone DEF StartTool, HeadIs, Draining, InLoop, LoopPcs, LoopAwaits, LoopStretches
  <2>2. Moves(f, "tool") BY <1>7 DEF StartTool, Moves, ActivationsOK, Activation, Fresh
  <2>3. SessionOK' /\ PointOK("tool")' BY <1>7, <2>1 DEF StartTool, HeadIs, Draining, PointOK, SessionOK, LoopPcs, RunningPcs, DrainedPcs, LoopAwaits, LoopStretches, CapBlocked
  <2> QED BY <2>1, <2>2, <2>3, OwnerMoves
<1>8. CASE DeclineAtCap(f)
  <2>1. Alone(f) /\ PointOK(act[f].pc) /\ act[f].pc \in LoopPcs
    BY <1>8, LoopIsAlone DEF DeclineAtCap, AtBoundary, InLoop, LoopPcs, LoopAwaits, LoopStretches
  <2>2. Moves(f, "exit") BY <1>8, GotoMoves DEF DeclineAtCap
  <2>3. SessionOK' /\ PointOK("exit")' BY <1>8, <2>1 DEF DeclineAtCap, AtBoundary, Waiting, PointOK, SessionOK, LoopPcs, RunningPcs, DrainedPcs, LoopAwaits, LoopStretches, CapBlocked
  <2> QED BY <2>1, <2>2, <2>3, OwnerMoves
<1>9. CASE RaiseStallPause(f)
  <2>1. Alone(f) /\ PointOK(act[f].pc) /\ act[f].pc \in LoopPcs
    BY <1>9, LoopIsAlone DEF RaiseStallPause, AtBoundary, InLoop, LoopPcs, LoopAwaits, LoopStretches
  <2>2. Moves(f, "exit") BY <1>9, GotoMoves DEF RaiseStallPause
  <2>3. SessionOK' /\ PointOK("exit")' BY <1>9, <2>1 DEF RaiseStallPause, AtBoundary, Waiting, PointOK, SessionOK, LoopPcs, RunningPcs, DrainedPcs, LoopAwaits, LoopStretches, CapBlocked
  <2> QED BY <2>1, <2>2, <2>3, OwnerMoves
<1>10. CASE RaiseCompactionPause(f)
  <2>1. Alone(f) /\ PointOK(act[f].pc) /\ act[f].pc \in LoopPcs
    BY <1>10, LoopIsAlone DEF RaiseCompactionPause, ToSend, AtBoundary, InLoop, LoopPcs, LoopAwaits, LoopStretches
  <2>2. Moves(f, "exit") BY <1>10, GotoMoves DEF RaiseCompactionPause
  <2>3. SessionOK' /\ PointOK("exit")' BY <1>10, <2>1 DEF RaiseCompactionPause, ToSend, AtBoundary, Waiting, PointOK, SessionOK, LoopPcs, RunningPcs, DrainedPcs, LoopAwaits, LoopStretches, CapBlocked
  <2> QED BY <2>1, <2>2, <2>3, OwnerMoves
<1>11. CASE StartAutoCompact(f)
  <2>1. Alone(f) /\ PointOK(act[f].pc) /\ act[f].pc \in LoopPcs
    BY <1>11, LoopIsAlone DEF StartAutoCompact, ToSend, AtBoundary, InLoop, LoopPcs, LoopAwaits, LoopStretches
  <2>2. Moves(f, "autoCompact") BY <1>11 DEF StartAutoCompact, Moves, ActivationsOK, Activation, Fresh
  <2>3. SessionOK' /\ PointOK("autoCompact")' BY <1>11, <2>1 DEF StartAutoCompact, ToSend, AtBoundary, PointOK, SessionOK, LoopPcs, RunningPcs, DrainedPcs, LoopAwaits, LoopStretches, CapBlocked
  <2> QED BY <2>1, <2>2, <2>3, OwnerMoves
<1>12. CASE ProceedToSend(f)
  <2>1. Alone(f) /\ PointOK(act[f].pc) /\ act[f].pc \in LoopPcs
    BY <1>12, LoopIsAlone DEF ProceedToSend, ToSend, AtBoundary, InLoop, LoopPcs, LoopAwaits, LoopStretches
  <2>2. Moves(f, "title") BY <1>12, GotoMoves DEF ProceedToSend
  <2>3. SessionOK' /\ PointOK("title")' BY <1>12, <2>1 DEF ProceedToSend, ToSend, AtBoundary, PointOK, SessionOK, LoopPcs, RunningPcs, DrainedPcs, LoopAwaits, LoopStretches, CapBlocked
  <2> QED BY <2>1, <2>2, <2>3, OwnerMoves
<1>13. CASE AskLoopTitle(f)
  <2>1. Alone(f) /\ PointOK(act[f].pc) /\ act[f].pc \in LoopPcs
    BY <1>13, LoopIsAlone DEF AskLoopTitle, InLoop, LoopPcs, LoopAwaits, LoopStretches
  <2>2. Moves(f, "loopTitle") BY <1>13, GotoMoves DEF AskLoopTitle
  <2>3. SessionOK' /\ PointOK("loopTitle")' BY <1>13, <2>1 DEF AskLoopTitle, PointOK, SessionOK, LoopPcs, RunningPcs, DrainedPcs, LoopAwaits, LoopStretches, CapBlocked
  <2> QED BY <2>1, <2>2, <2>3, OwnerMoves
<1>14. CASE SendRequest(f)
  <2>1. Alone(f) /\ PointOK(act[f].pc) /\ act[f].pc \in LoopPcs
    BY <1>14, LoopIsAlone DEF SendRequest, InLoop, LoopPcs, LoopAwaits, LoopStretches
  <2>2. Moves(f, "llm") BY <1>14 DEF SendRequest, Moves, ActivationsOK, Activation, Fresh
  <2>3. SessionOK' /\ PointOK("llm")' BY <1>14, <2>1 DEF SendRequest, PointOK, SessionOK, LoopPcs, RunningPcs, DrainedPcs, LoopAwaits, LoopStretches, CapBlocked
  <2> QED BY <2>1, <2>2, <2>3, OwnerMoves
<1>15. CASE Settle(f)
  <2>1. Alone(f) /\ PointOK("settled") BY <1>15, LoopIsAlone DEF Settle, InLoop, LoopStretches
  <2>2. \E p \in {"settleTitle", "drainQueue"} : Moves(f, p) BY <1>15, GotoMoves DEF Settle
  <2>3. SessionOK' /\ PointOK("settleTitle")' /\ PointOK("drainQueue")'
    BY <1>15, <2>1 DEF Settle, SettleNormally, Waiting, PointOK, SessionOK, LoopPcs, RunningPcs, DrainedPcs, LoopAwaits, LoopStretches, CapBlocked
  <2> QED BY <2>1, <2>2, <2>3, OwnerMoves
<1>16. CASE DrainQueue(f)
  <2>1. CASE MayDrain /\ queue > 0
    <3>1. OpenTurn(f, activeLeaf) BY <1>16, <2>1 DEF DrainQueue
    <3>2. Alone(f) BY <1>16, <2>1, IdleIsAlone DEF MayDrain, DrainQueue, InLoop, LoopAwaits, LoopStretches
    <3> QED BY <2>1, <3>1, <3>2, OpensLoop DEF MayDrain
  <2>2. CASE ~(MayDrain /\ queue > 0)
    <3>1. Moves(f, "exit") BY <1>16, <2>2, GotoMoves DEF DrainQueue
    <3>2. SessionOK' BY <1>16, <2>2 DEF DrainQueue, LoopOK, SessionOK, CapBlocked
    <3> QED BY <1>16, <2>2, <3>1, <3>2, OutsiderMoves DEF DrainQueue, LoopPcs, LoopAwaits, LoopStretches
  <2> QED BY <2>1, <2>2
<1>17. CASE Exit(f)
  <2>1. Moves(f, "free") BY <1>17, GotoMoves DEF Exit
  <2>2. SessionOK' BY <1>17 DEF Exit, LoopOK, SessionOK, CapBlocked
  <2> QED BY <1>17, <2>1, <2>2, OutsiderMoves DEF Exit, LoopPcs, LoopAwaits, LoopStretches
<1> QED BY <1>1, <1>2, <1>3, <1>4, <1>5, <1>6, <1>7, <1>8, <1>9, <1>10, <1>11, <1>12, <1>13, <1>14, <1>15, <1>16, <1>17 DEF Stretch

(* An attempt without a result, from any await of the loop.                *)
LEMMA NoResultLoop ==
    ASSUME TypeOK, LoopOK, Quiet, NEW f \in Activations, NEW st, Alone(f),
           act[f].pc \in LoopPcs, ~capReached, pendingToolCalls = <<>>,
           st \notin Waiting \cup {"awaiting-persistence"}, restartRequested => st = "running",
           NoResult(f, st), UNCHANGED <<pendingToolCalls, cardVars, capReached, spendCapUsd>>
    PROVE  LoopOK'
<1>1. CASE restartRequested
  <2>1. Moves(f, "request") BY <1>1, GotoMoves DEF NoResult, TypeOK
  <2>2. SessionOK' /\ PointOK("request")'
    BY <1>1 DEF NoResult, LoopOK, PointOK, SessionOK, LoopPcs, RunningPcs, DrainedPcs, LoopStretches
  <2> QED BY <2>1, <2>2, OwnerMoves
<1>2. CASE ~restartRequested
  <2>1. Moves(f, "exit") BY <1>2, GotoMoves DEF NoResult, TypeOK
  <2>2. SessionOK' /\ PointOK("exit")'
    BY <1>2 DEF NoResult, SettleStopped, Settled, LoopOK, PointOK, SessionOK, LoopPcs, RunningPcs,
                DrainedPcs, LoopAwaits, LoopStretches
  <2> QED BY <2>1, <2>2, OwnerMoves
<1> QED BY <1>1, <1>2

(* Every completion of an await keeps the loop alone.                      *)
LEMMA CompletionLoop ==
    ASSUME TypeOK, LoopOK, Quiet, NEW f \in Activations, Completion(f)
    PROVE  LoopOK'
<1> USE TypeOK, LoopOK, Quiet DEF TypeOK
<1>0. SessionOK BY DEF LoopOK
<1> USE <1>0
<1>1. CASE ToolReturns(f)
  <2>1. Alone(f) /\ PointOK(act[f].pc) /\ act[f].pc \in LoopPcs
    BY <1>1, LoopIsAlone DEF ToolReturns, InLoop, LoopPcs, LoopAwaits, LoopStretches
  <2>2. CASE stopScope = "hard"
    <3>1. Moves(f, "exit") BY <1>1, <2>2, GotoMoves DEF ToolReturns
    <3>2. SessionOK' /\ PointOK("exit")' BY <1>1, <2>1, <2>2 DEF ToolReturns, SettleStopped, Settled, Waiting, PointOK, SessionOK, LoopPcs, RunningPcs, DrainedPcs, LoopAwaits, LoopStretches, CapBlocked
    <3> QED BY <2>1, <3>1, <3>2, OwnerMoves
  <2>3. CASE stopScope # "hard"
    <3>1. Moves(f, "drain") BY <1>1, <2>3, GotoMoves DEF ToolReturns
    <3>2. SessionOK' /\ PointOK("drain")' BY <1>1, <2>1, <2>3 DEF ToolReturns, SettleStopped, Settled, Waiting, PointOK, SessionOK, LoopPcs, RunningPcs, DrainedPcs, LoopAwaits, LoopStretches, CapBlocked
    <3> QED BY <2>1, <3>1, <3>2, OwnerMoves
  <2> QED BY <1>1, <2>2, <2>3 DEF ToolReturns
<1>2. CASE ToolThrows(f)
  <2>1. Alone(f) /\ PointOK(act[f].pc) /\ act[f].pc \in LoopPcs
    BY <1>2, LoopIsAlone DEF ToolThrows, InLoop, LoopPcs, LoopAwaits, LoopStretches
  <2>2. Moves(f, "exit") BY <1>2, GotoMoves DEF ToolThrows
  <2>3. SessionOK' /\ PointOK("exit")' BY <1>2, <2>1 DEF ToolThrows, PointOK, SessionOK, LoopPcs, RunningPcs, DrainedPcs, LoopAwaits, LoopStretches, CapBlocked
  <2> QED BY <2>1, <2>2, <2>3, OwnerMoves
<1>3. ASSUME NEW ok \in BOOLEAN, AutoCompactEnds(f, ok) PROVE LoopOK'
  <2>1. Alone(f) /\ PointOK(act[f].pc) /\ act[f].pc \in LoopPcs
    BY <1>3, LoopIsAlone DEF AutoCompactEnds, InLoop, LoopPcs, LoopAwaits, LoopStretches
  <2>2. CASE stopScope # "none"
    <3>1. Moves(f, "exit") BY <1>3, <2>2, GotoMoves DEF AutoCompactEnds
    <3>2. SessionOK' /\ PointOK("exit")' BY <1>3, <2>1, <2>2 DEF AutoCompactEnds, SettleStopped, Settled, Waiting, PointOK, SessionOK, LoopPcs, RunningPcs, DrainedPcs, LoopAwaits, LoopStretches, CapBlocked
    <3> QED BY <2>1, <3>1, <3>2, OwnerMoves
  <2>3. CASE stopScope = "none"
    <3>1. Moves(f, "title") BY <1>3, <2>3, GotoMoves DEF AutoCompactEnds
    <3>2. SessionOK' /\ PointOK("title")' BY <1>3, <2>1, <2>3 DEF AutoCompactEnds, SettleStopped, Settled, Waiting, PointOK, SessionOK, LoopPcs, RunningPcs, DrainedPcs, LoopAwaits, LoopStretches, CapBlocked
    <3> QED BY <2>1, <3>1, <3>2, OwnerMoves
  <2> QED BY <1>3, <2>2, <2>3 DEF AutoCompactEnds
<1>4. ASSUME NEW ok \in BOOLEAN, LoopTitleEnds(f, ok) PROVE LoopOK'
  <2>1. Alone(f) /\ PointOK(act[f].pc) /\ act[f].pc \in LoopPcs
    BY <1>4, LoopIsAlone DEF LoopTitleEnds, InLoop, LoopPcs, LoopAwaits, LoopStretches
  <2>2. Moves(f, "request") BY <1>4, GotoMoves DEF LoopTitleEnds
  <2>3. SessionOK' /\ PointOK("request")' BY <1>4, <2>1 DEF LoopTitleEnds, PointOK, SessionOK, LoopPcs, RunningPcs, DrainedPcs, LoopAwaits, LoopStretches, CapBlocked
  <2> QED BY <2>1, <2>2, <2>3, OwnerMoves
<1>5. CASE ApprovedToolReturns(f)
  <2>1. Alone(f) /\ PointOK(act[f].pc) /\ act[f].pc \in LoopPcs
    BY <1>5, LoopIsAlone DEF ApprovedToolReturns, InLoop, LoopPcs, LoopAwaits, LoopStretches
  <2>2. Moves(f, "run") BY <1>5, GotoMoves DEF ApprovedToolReturns
  <2>3. SessionOK' /\ PointOK("run")' BY <1>5, <2>1 DEF ApprovedToolReturns, Waiting, PointOK, SessionOK, LoopPcs, RunningPcs, DrainedPcs, LoopAwaits, LoopStretches, CapBlocked
  <2> QED BY <2>1, <2>2, <2>3, OwnerMoves
<1>6. CASE ApprovedToolThrows(f)
  <2>1. Alone(f) /\ PointOK(act[f].pc) /\ act[f].pc \in LoopPcs
    BY <1>6, LoopIsAlone DEF ApprovedToolThrows, InLoop, LoopPcs, LoopAwaits, LoopStretches
  <2>2. Moves(f, "free") BY <1>6, GotoMoves DEF ApprovedToolThrows
  <2>3. SessionOK' /\ PointOK("free")' BY <1>6, <2>1 DEF ApprovedToolThrows, PointOK, SessionOK, LoopPcs, RunningPcs, DrainedPcs, LoopAwaits, LoopStretches, CapBlocked
  <2> QED BY <2>1, <2>2, <2>3, OwnerMoves
<1>7. ASSUME NEW ok \in BOOLEAN, ResolvedCompactEnds(f, ok) PROVE LoopOK'
  <2>1. Alone(f) /\ PointOK(act[f].pc) /\ act[f].pc \in LoopPcs
    BY <1>7, LoopIsAlone DEF ResolvedCompactEnds, InLoop, LoopPcs, LoopAwaits, LoopStretches
  <2>2. CASE stopScope # "none"
    <3>1. Moves(f, "free") BY <1>7, <2>2, GotoMoves DEF ResolvedCompactEnds
    <3>2. SessionOK' /\ PointOK("free")' BY <1>7, <2>1, <2>2 DEF ResolvedCompactEnds, SettleStopped, Settled, Waiting, PointOK, SessionOK, LoopPcs, RunningPcs, DrainedPcs, LoopAwaits, LoopStretches, CapBlocked
    <3> QED BY <2>1, <3>1, <3>2, OwnerMoves
  <2>3. CASE stopScope = "none"
    <3>1. Moves(f, "run") BY <1>7, <2>3, GotoMoves DEF ResolvedCompactEnds
    <3>2. SessionOK' /\ PointOK("run")' BY <1>7, <2>1, <2>3 DEF ResolvedCompactEnds, SettleStopped, Settled, Waiting, PointOK, SessionOK, LoopPcs, RunningPcs, DrainedPcs, LoopAwaits, LoopStretches, CapBlocked
    <3> QED BY <2>1, <3>1, <3>2, OwnerMoves
  <2> QED BY <1>7, <2>2, <2>3 DEF ResolvedCompactEnds
<1>8. ASSUME NEW kinds \in Batches, NEW cut \in BOOLEAN, AnswerLands(f, kinds, cut) PROVE LoopOK'
  <2>1. Alone(f) /\ PointOK(act[f].pc) /\ act[f].pc \in LoopPcs
    BY <1>8, LoopIsAlone DEF AnswerLands, InLoop, LoopPcs, LoopAwaits, LoopStretches
  <2>2. CASE cut \/ kinds = <<>>
    <3>1. Moves(f, "settled") BY <1>8, <2>2, GotoMoves DEF AnswerLands
    <3>2. SessionOK' /\ PointOK("settled")' BY <1>8, <2>1, <2>2 DEF AnswerLands, PointOK, SessionOK, LoopPcs, RunningPcs, DrainedPcs, LoopAwaits, LoopStretches, CapBlocked
    <3> QED BY <2>1, <3>1, <3>2, OwnerMoves
  <2>3. CASE ~(cut \/ kinds = <<>>)
    <3>1. Moves(f, "top") BY <1>8, <2>3, GotoMoves DEF AnswerLands
    <3>2. SessionOK' /\ PointOK("top")' BY <1>8, <2>1, <2>3 DEF AnswerLands, PointOK, SessionOK, LoopPcs, RunningPcs, DrainedPcs, LoopAwaits, LoopStretches, CapBlocked
    <3> QED BY <2>1, <3>1, <3>2, OwnerMoves
  <2> QED BY <1>8, <2>2, <2>3 DEF AnswerLands
<1>9. CASE RequestUnwinds(f)
  <2>1. Alone(f) /\ PointOK(act[f].pc) /\ act[f].pc \in LoopPcs
    BY <1>9, LoopIsAlone DEF RequestUnwinds, InLoop, LoopPcs, LoopAwaits, LoopStretches
  <2>2. NoResult(f, status) /\ UNCHANGED <<pendingToolCalls, cardVars, capReached, spendCapUsd>> BY <1>9 DEF RequestUnwinds
  <2>3. ~capReached /\ pendingToolCalls = <<>> /\ status \notin Waiting \cup {"awaiting-persistence"} BY <1>9, <2>1 DEF RequestUnwinds, PointOK, SessionOK, LoopPcs, RunningPcs, DrainedPcs, LoopAwaits, LoopStretches, CapBlocked, Waiting
  <2>4. restartRequested => status = "running" BY <1>9, <2>1 DEF RequestUnwinds, PointOK, SessionOK, LoopPcs, RunningPcs, DrainedPcs, LoopAwaits, LoopStretches, CapBlocked
  <2> QED BY <2>1, <2>2, <2>3, <2>4, NoResultLoop
<1>10. CASE RequestOverWindow(f)
  <2>1. Alone(f) /\ PointOK(act[f].pc) /\ act[f].pc \in LoopPcs
    BY <1>10, LoopIsAlone DEF RequestOverWindow, InLoop, LoopPcs, LoopAwaits, LoopStretches
  <2>2. CASE ~act[f].again /\ stopScope = "none"
    <3>1. Moves(f, "forcedCompact") BY <1>10, <2>2 DEF RequestOverWindow, Moves, ActivationsOK, Activation, Fresh
    <3>2. SessionOK' /\ PointOK("forcedCompact")' BY <1>10, <2>1, <2>2 DEF RequestOverWindow, Discounted, PointOK, SessionOK, LoopPcs, RunningPcs, DrainedPcs, LoopAwaits, LoopStretches, CapBlocked
    <3> QED BY <2>1, <3>1, <3>2, OwnerMoves
  <2>3. CASE act[f].again \/ stopScope # "none"
    <3>1. NoResult(f, (IF act[f].again THEN "idle" ELSE status)) /\ UNCHANGED <<pendingToolCalls, cardVars, capReached, spendCapUsd>> BY <1>10, <2>3 DEF RequestOverWindow
    <3>2. ~capReached /\ pendingToolCalls = <<>> /\ (IF act[f].again THEN "idle" ELSE status) \notin Waiting \cup {"awaiting-persistence"} BY <1>10, <2>1 DEF RequestOverWindow, PointOK, SessionOK, LoopPcs, RunningPcs, DrainedPcs, LoopAwaits, LoopStretches, CapBlocked, Waiting
    <3>3. restartRequested => (IF act[f].again THEN "idle" ELSE status) = "running" BY <1>10, <2>1, <2>3 DEF RequestOverWindow, PointOK, SessionOK, LoopPcs, RunningPcs, DrainedPcs, LoopAwaits, LoopStretches, CapBlocked, Discounted
    <3> QED BY <2>1, <3>1, <3>2, <3>3, NoResultLoop
  <2> QED BY <1>10, <2>2, <2>3 DEF RequestOverWindow
<1>11. ASSUME NEW ok \in BOOLEAN, ForcedCompactEnds(f, ok) PROVE LoopOK'
  <2>1. Alone(f) /\ PointOK(act[f].pc) /\ act[f].pc \in LoopPcs
    BY <1>11, LoopIsAlone DEF ForcedCompactEnds, InLoop, LoopPcs, LoopAwaits, LoopStretches
  <2>2. CASE ~(stopScope # "none" \/ ~ok)
    <3>1. Moves(f, "llm") BY <1>11, <2>2 DEF ForcedCompactEnds, Moves, ActivationsOK, Activation, Fresh
    <3>2. SessionOK' /\ PointOK("llm")' BY <1>11, <2>1, <2>2 DEF ForcedCompactEnds, PointOK, SessionOK, LoopPcs, RunningPcs, DrainedPcs, LoopAwaits, LoopStretches, CapBlocked
    <3> QED BY <2>1, <3>1, <3>2, OwnerMoves
  <2>3. CASE stopScope # "none" \/ ~ok
    <3>1. NoResult(f, (IF stopScope # "none" THEN status ELSE "idle")) /\ UNCHANGED <<pendingToolCalls, cardVars, capReached, spendCapUsd>> BY <1>11, <2>3 DEF ForcedCompactEnds
    <3>2. ~capReached /\ pendingToolCalls = <<>> /\ (IF stopScope # "none" THEN status ELSE "idle") \notin Waiting \cup {"awaiting-persistence"} BY <1>11, <2>1 DEF ForcedCompactEnds, PointOK, SessionOK, LoopPcs, RunningPcs, DrainedPcs, LoopAwaits, LoopStretches, CapBlocked, Waiting
    <3>3. restartRequested => (IF stopScope # "none" THEN status ELSE "idle") = "running" BY <1>11, <2>1, <2>3 DEF ForcedCompactEnds, PointOK, SessionOK, LoopPcs, RunningPcs, DrainedPcs, LoopAwaits, LoopStretches, CapBlocked
    <3> QED BY <2>1, <3>1, <3>2, <3>3, NoResultLoop
  <2> QED BY <1>11, <2>2, <2>3 DEF ForcedCompactEnds
<1>12. CASE RequestFails(f)
  <2>1. Alone(f) /\ PointOK(act[f].pc) /\ act[f].pc \in LoopPcs
    BY <1>12, LoopIsAlone DEF RequestFails, InLoop, LoopPcs, LoopAwaits, LoopStretches
  <2>2. NoResult(f, (IF BreakerTrips THEN "halted" ELSE "idle")) /\ UNCHANGED <<pendingToolCalls, cardVars, capReached, spendCapUsd>> BY <1>12 DEF RequestFails
  <2>3. ~capReached /\ pendingToolCalls = <<>> /\ (IF BreakerTrips THEN "halted" ELSE "idle") \notin Waiting \cup {"awaiting-persistence"} BY <1>12, <2>1 DEF RequestFails, PointOK, SessionOK, LoopPcs, RunningPcs, DrainedPcs, LoopAwaits, LoopStretches, CapBlocked, Waiting
  <2>4. restartRequested => (IF BreakerTrips THEN "halted" ELSE "idle") = "running" BY <1>12, <2>1 DEF RequestFails, PointOK, SessionOK, LoopPcs, RunningPcs, DrainedPcs, LoopAwaits, LoopStretches, CapBlocked, Discounted
  <2> QED BY <2>1, <2>2, <2>3, <2>4, NoResultLoop
<1>13. CASE RequestTransient(f)
  <2>1. Alone(f) /\ PointOK(act[f].pc) /\ act[f].pc \in LoopPcs
    BY <1>13, LoopIsAlone DEF RequestTransient, InLoop, LoopPcs, LoopAwaits, LoopStretches
  <2>2. Moves(f, "backoff") BY <1>13 DEF RequestTransient, Moves, ActivationsOK, Activation, Fresh
  <2>3. SessionOK' /\ PointOK("backoff")' BY <1>13, <2>1 DEF RequestTransient, PointOK, SessionOK, LoopPcs, RunningPcs, DrainedPcs, LoopAwaits, LoopStretches, CapBlocked
  <2> QED BY <2>1, <2>2, <2>3, OwnerMoves
<1>14. CASE BackOffEnds(f)
  <2>1. Alone(f) /\ PointOK(act[f].pc) /\ act[f].pc \in LoopPcs
    BY <1>14, LoopIsAlone DEF BackOffEnds, InLoop, LoopPcs, LoopAwaits, LoopStretches
  <2>2. CASE ~Interrupted
    <3>1. Moves(f, "llm") BY <1>14, <2>2 DEF BackOffEnds, Moves, ActivationsOK, Activation, Fresh
    <3>2. SessionOK' /\ PointOK("llm")' BY <1>14, <2>1, <2>2 DEF BackOffEnds, PointOK, SessionOK, LoopPcs, RunningPcs, DrainedPcs, LoopAwaits, LoopStretches, CapBlocked
    <3> QED BY <2>1, <3>1, <3>2, OwnerMoves
  <2>3. CASE Interrupted
    <3>1. NoResult(f, status) /\ UNCHANGED <<pendingToolCalls, cardVars, capReached, spendCapUsd>> BY <1>14, <2>3 DEF BackOffEnds
    <3>2. ~capReached /\ pendingToolCalls = <<>> /\ status \notin Waiting \cup {"awaiting-persistence"} BY <1>14, <2>1 DEF BackOffEnds, PointOK, SessionOK, LoopPcs, RunningPcs, DrainedPcs, LoopAwaits, LoopStretches, CapBlocked, Waiting
    <3>3. restartRequested => status = "running" BY <1>14, <2>1, <2>3 DEF BackOffEnds, PointOK, SessionOK, LoopPcs, RunningPcs, DrainedPcs, LoopAwaits, LoopStretches, CapBlocked
    <3> QED BY <2>1, <3>1, <3>2, <3>3, NoResultLoop
  <2> QED BY <1>14, <2>2, <2>3 DEF BackOffEnds
<1>15. ASSUME NEW ok \in BOOLEAN, SettleTitleEnds(f, ok) PROVE LoopOK'
  <2>1. Moves(f, "drainQueue") BY <1>15, GotoMoves DEF SettleTitleEnds
  <2>2. SessionOK' BY <1>15, SpendKeepsCap DEF SettleTitleEnds, SessionOK, CapBlocked
  <2> QED BY <1>15, <2>1, <2>2, OutsiderMoves DEF SettleTitleEnds, LoopPcs, LoopAwaits, LoopStretches
<1>16. ASSUME NEW ok \in BOOLEAN, CompactNowEnds(f, ok) PROVE LoopOK'
  <2>1. Moves(f, "free") BY <1>16, GotoMoves DEF CompactNowEnds
  <2>2. SessionOK' BY <1>16, SpendKeepsCap DEF CompactNowEnds, CompactionOutcome, SessionOK, CapBlocked
  <2> QED BY <1>16, <2>1, <2>2, OutsiderMoves DEF CompactNowEnds, LoopPcs, LoopAwaits, LoopStretches
<1>17. ASSUME NEW ok \in BOOLEAN, RetryWritesEnds(f, ok) PROVE LoopOK'
  BY <1>17 DEF RetryWritesEnds, LoopOK, PointOK
<1> QED BY <1>1, <1>2, <1>3, <1>4, <1>5, <1>6, <1>7, <1>8, <1>9, <1>10, <1>11, <1>12, <1>13, <1>14, <1>15, <1>16, <1>17 DEF Completion

(* A stop: it settles a session that is not running, and then nothing of   *)
(* the loop is under way.                                                  *)
LEMMA StopEffectsLoop ==
    ASSUME StopsFindTheLoop, ~Unstopped, TypeOK, LoopOK, Quiet,
           NEW scope \in {"soft", "hard"}, NEW pp, StopEffects(scope, pp)
    PROVE  LoopOK'
<1> USE TypeOK, LoopOK DEF TypeOK
<1>1. \A g \in Activations : act'[g].pc = act[g].pc
  <2>1. CASE scope = "hard" BY <2>1 DEF StopEffects, ActivationsOK, Activation
  <2>2. CASE scope # "hard" BY <2>2 DEF StopEffects
  <2> QED BY <2>1, <2>2
<1>2. restartRequested' = FALSE /\ UNCHANGED <<spendVars, streaming>>
       /\ (pendingToolCalls = <<>> => pendingToolCalls' = <<>>)
       /\ (status = "running" => status' = "running")
       /\ (status # "running" => status' \in {"idle", "awaiting-persistence"})
    BY DEF StopEffects
<1>3. SessionOK' BY <1>2 DEF LoopOK, SessionOK, CapBlocked, Waiting
<1>4. \A g \in Activations : PointOK(act[g].pc)' BY <1>1, <1>2 DEF LoopOK, PointOK
<1> QED BY <1>1, <1>3, <1>4, NobodyMoves

(* Whatever a person does keeps the loop alone.                            *)
LEMMA PersonLoop ==
    ASSUME StopsFindTheLoop, TypeOK, LoopOK, Person
    PROVE  LoopOK'
<1> USE TypeOK, LoopOK DEF TypeOK
<1>0. SessionOK BY DEF LoopOK
<1>1. ASSUME NEW f \in Activations, NEW c \in Configs, Send(f, c) PROVE LoopOK'
  <2>1. Alone(f) BY <1>1, IdleIsAlone DEF Send, Asked, Free, CanSend, InLoop, LoopAwaits, LoopStretches
  <2> QED BY <1>1, <2>1, OpensLoop DEF Send, Asked
<1>2. ASSUME NEW f \in Activations, NEW c \in Configs, Enqueue(f, c) PROVE LoopOK'
  <2>1. CASE MayDrain
    <3>1. Alone(f) BY <1>2, <2>1, IdleIsAlone DEF Enqueue, Asked, Free, MayDrain, InLoop, LoopAwaits, LoopStretches
    <3> QED BY <1>2, <2>1, <3>1, OpensLoop DEF Enqueue, Asked
  <2>2. CASE ~MayDrain
    <3>1. UNCHANGED <<act, status, stopScope, pendingToolCalls, cardVars, spendVars, requestVars>>
        BY <1>2, <2>2 DEF Enqueue
    <3> QED BY <1>0, <3>1, NobodyMoves DEF LoopOK, SessionOK, PointOK, CapBlocked
  <2> QED BY <2>1, <2>2
<1>3. ASSUME NEW f \in Activations, NEW e \in 1 .. Len(entries), EditFork(f, e) PROVE LoopOK'
  <2>1. Alone(f) BY <1>3, IdleIsAlone DEF EditFork, Asked, Free, CanSend, InLoop, LoopAwaits, LoopStretches
  <2> QED BY <1>3, <2>1, OpensLoop DEF EditFork, Asked
<1>4. ASSUME NEW f \in Activations, NEW runs \in BOOLEAN, NEW note \in BOOLEAN, Approve(f, runs, note)
      PROVE  LoopOK'
  <2>1. Quiet /\ Alone(f) BY <1>4, ParkedLoop DEF Approve, Asked, Alone
  <2>2. status = "awaiting-approval" /\ ~capReached /\ Unstopped
    BY <1>0, <1>4 DEF Approve, Asked, SessionOK, Waiting, StopsFindTheLoop
  <2>3. UNCHANGED <<status, stopScope, pendingCompaction, pendingPersistence, spendVars, requestVars>>
         /\ pendingApproval' = NoCall
    BY <1>4 DEF Approve
  <2>4. SessionOK' BY <1>0, <2>2, <2>3 DEF SessionOK, CapBlocked
  <2>5. CASE runs
    <3>1. Moves(f, "approvedTool") BY <1>4, <2>5 DEF Approve, Moves, ActivationsOK, Activation, Fresh
    <3>2. PointOK("approvedTool")'
        BY <2>2, <2>3 DEF PointOK, LoopPcs, RunningPcs, DrainedPcs, LoopAwaits, LoopStretches
    <3> QED BY <2>1, <2>4, <3>1, <3>2, OwnerMoves
  <2>6. CASE ~runs
    <3>1. Moves(f, "run") BY <1>4, <2>6, GotoMoves DEF Approve
    <3>2. PointOK("run")' BY DEF PointOK, RunningPcs, DrainedPcs
    <3> QED BY <2>1, <2>4, <3>1, <3>2, OwnerMoves
  <2> QED BY <2>5, <2>6
<1>5. ASSUME NEW f \in Activations, Answer(f) PROVE LoopOK'
  <2>1. Quiet /\ Alone(f)
    BY <1>5, IdleIsAlone DEF Answer, Asked, Free, InLoop, LoopAwaits, LoopStretches
  <2>2. Moves(f, "run") BY <1>5, GotoMoves DEF Answer
  <2>3. SessionOK' BY <1>0, <1>5 DEF Answer, SessionOK, CapBlocked, Waiting
  <2>4. PointOK("run")' BY DEF PointOK, RunningPcs, DrainedPcs
  <2> QED BY <2>1, <2>2, <2>3, <2>4, OwnerMoves
<1>6. ASSUME NEW f \in Activations, CompactNow(f) PROVE LoopOK'
  <2>1. Quiet /\ Moves(f, "compactNow") BY <1>6 DEF CompactNow, Asked, Moves, ActivationsOK, Activation, Fresh
  <2>2. SessionOK' BY <1>0, <1>6 DEF CompactNow, SessionOK, CapBlocked
  <2> QED BY <1>6, <2>1, <2>2, OutsiderMoves DEF CompactNow, LoopPcs, LoopAwaits, LoopStretches
<1>7. ASSUME NEW f \in Activations, ContinueRun(f) PROVE LoopOK'
  <2>1. Quiet /\ Alone(f)
    BY <1>7, IdleIsAlone DEF ContinueRun, Asked, Free, InLoop, LoopAwaits, LoopStretches
  <2>2. Moves(f, "run") BY <1>7, GotoMoves DEF ContinueRun
  <2>3. SessionOK' BY <1>0, <1>7 DEF ContinueRun, SessionOK, CapBlocked
  <2>4. PointOK("run")' BY DEF PointOK, RunningPcs, DrainedPcs
  <2> QED BY <2>1, <2>2, <2>3, <2>4, OwnerMoves
<1>8. ASSUME NEW f \in Activations, Retry(f) PROVE LoopOK'
  <2>1. Quiet /\ UNCHANGED <<status, pendingToolCalls, cardVars, spendVars, streaming>>
    BY <1>8 DEF Retry, Asked
  <2>2. CASE status = "running" /\ streaming /\ restartRequested' = TRUE
               /\ act' = [g \in Activations |-> [act[g] EXCEPT
                       !.aborted = @ \/ (g = abortController /\ act[g].pc = "llm")]]
               /\ UNCHANGED <<stopScope, turnLeaf, healthVars>>
    <3>1. \A g \in Activations : act'[g].pc = act[g].pc BY <2>2 DEF ActivationsOK, Activation
    <3>2. SessionOK' BY <1>0, <2>1, <2>2 DEF SessionOK, CapBlocked
    <3>3. \A g \in Activations : PointOK(act[g].pc)' BY <2>1, <2>2, <3>1 DEF LoopOK, PointOK
    <3> QED BY <3>1, <3>2, <3>3, NobodyMoves
  <2>3. CASE Free(f) /\ status \in {"idle", "halted"} /\ stopScope' = "none" /\ Goto(f, "run")
    <3>1. Alone(f) BY <2>1, <2>3, IdleIsAlone DEF Free, InLoop, LoopAwaits, LoopStretches
    <3>2. Moves(f, "run") BY <2>3, GotoMoves
    <3>3. SessionOK' BY <1>0, <2>1, <2>3 DEF SessionOK, CapBlocked
    <3>4. PointOK("run")' BY DEF PointOK, RunningPcs, DrainedPcs
    <3> QED BY <2>1, <3>1, <3>2, <3>3, <3>4, OwnerMoves
  <2> QED BY <1>8, <2>2, <2>3, Zenon DEF Retry
<1>9. ASSUME NEW f \in Activations, RetryPersistence(f) PROVE LoopOK'
  BY <1>0, <1>9 DEF RetryPersistence, Asked, StopsFindTheLoop, SessionOK
<1>10. ASSUME NEW f \in Activations, NEW skip \in BOOLEAN, ResolveCompaction(f, skip) PROVE LoopOK'
  <2>1. Quiet /\ Alone(f) BY <1>10, ParkedLoop DEF ResolveCompaction, Asked, Alone
  <2>2. status = "awaiting-compaction" /\ ~capReached /\ Unstopped
    BY <1>0, <1>10 DEF ResolveCompaction, Asked, SessionOK, Waiting, StopsFindTheLoop
  <2>3. UNCHANGED <<status, stopScope, pendingApproval, pendingPersistence, spendVars>>
         /\ pendingCompaction' = "none"
    BY <1>10 DEF ResolveCompaction
  <2>4. SessionOK' BY <1>0, <2>2, <2>3 DEF SessionOK, CapBlocked
  <2>5. CASE skip /\ pendingCompaction = "cancelable"
    <3>1. Moves(f, "run") BY <1>10, <2>5, GotoMoves DEF ResolveCompaction
    <3>2. PointOK("run")' BY DEF PointOK, RunningPcs, DrainedPcs
    <3> QED BY <2>1, <2>4, <3>1, <3>2, OwnerMoves
  <2>6. CASE ~(skip /\ pendingCompaction = "cancelable")
    <3>1. Moves(f, "resolvedCompact")
        BY <1>10, <2>6 DEF ResolveCompaction, Moves, ActivationsOK, Activation, Fresh
    <3>2. PointOK("resolvedCompact")'
        BY <2>2, <2>3 DEF PointOK, LoopPcs, RunningPcs, DrainedPcs, LoopAwaits, LoopStretches
    <3> QED BY <2>1, <2>4, <3>1, <3>2, OwnerMoves
  <2> QED BY <2>5, <2>6
<1>11. ASSUME NEW f \in Activations, NEW cap \in Caps \cup {NoCap}, SetSpendCap(f, cap) PROVE LoopOK'
  <2>1. Quiet /\ spendCapUsd' = cap
         /\ UNCHANGED <<status, stopScope, pendingToolCalls, cardVars, spendUsd, requestVars>>
    BY <1>11 DEF SetSpendCap, Asked
  <2>2. CASE capReached /\ spendUsd < cap
    <3>1. \A g \in Activations : ~InLoop(g)
      <4>1. SUFFICES ASSUME NEW g \in Activations, InLoop(g) PROVE FALSE OBVIOUS
      <4>2. PointOK(act[g].pc) /\ act[g].pc \in LoopPcs BY <4>1 DEF LoopOK, InLoop, LoopPcs
      <4> QED BY <2>1, <2>2, <4>2 DEF PointOK, Quiet, StretchPcs, LoopStretches
    <3>2. Moves(f, "run") /\ capReached' = FALSE BY <1>11, <2>2, GotoMoves DEF SetSpendCap
    <3>3. SessionOK' BY <1>0, <2>1, <3>2 DEF SessionOK
    <3>4. PointOK("run")' BY DEF PointOK, RunningPcs, DrainedPcs
    <3> QED BY <2>1, <3>1, <3>2, <3>3, <3>4, OwnerMoves DEF Alone
  <2>3. CASE ~(capReached /\ spendUsd < cap)
    <3>1. UNCHANGED <<capReached, act>> BY <1>11, <2>3 DEF SetSpendCap
    <3>2. capReached => CapBlocked' BY <2>1, <2>3, BoundsAssumption DEF CapBlocked, ScalarsOK
    <3>3. SessionOK' BY <1>0, <2>1, <3>1, <3>2 DEF SessionOK
    <3> QED BY <2>1, <3>1, <3>3, NobodyMoves DEF LoopOK, PointOK
  <2> QED BY <2>2, <2>3
<1>12. ASSUME NEW leaf \in 1 .. Len(entries), SetActiveLeaf(leaf) PROVE LoopOK'
  BY <1>0, <1>12, NobodyMoves DEF SetActiveLeaf, LoopOK, SessionOK, PointOK, CapBlocked
<1>13. ASSUME NEW k \in 0 .. MaxQueue, SetQueue(k) PROVE LoopOK'
  BY <1>0, <1>13, NobodyMoves DEF SetQueue, LoopOK, SessionOK, PointOK, CapBlocked
<1>14. ASSUME NEW scope \in {"soft", "hard"}, Stop(scope) PROVE LoopOK'
  <2>1. ~Unstopped /\ Quiet BY <1>14 DEF Stop, Asked, Unstopped
  <2> QED BY <1>14, <2>1, StopEffectsLoop DEF Stop
<1>15. CASE ParkNotice
  BY <1>0, <1>15, NobodyMoves DEF ParkNotice, LoopOK, SessionOK, PointOK, CapBlocked
<1>16. CASE RaisePersistenceFault
  <2>1. ~Unstopped /\ Quiet BY <1>16 DEF RaisePersistenceFault, Asked, Unstopped
  <2>2. CASE pendingPersistence \/ status # "running"
    <3>1. UNCHANGED <<act, stopScope, pendingToolCalls, pendingApproval, pendingCompaction, spendVars, requestVars>>
           /\ status' \in {status, "awaiting-persistence"} /\ (status = "running" => status' = status)
        BY <1>16, <2>2 DEF RaisePersistenceFault
    <3>2. SessionOK' BY <1>0, <2>1, <3>1 DEF SessionOK, CapBlocked, Waiting
    <3>3. \A g \in Activations : PointOK(act[g].pc)' BY <2>1, <3>1 DEF LoopOK, PointOK
    <3> QED BY <3>1, <3>2, <3>3, NobodyMoves
  <2>3. CASE ~(pendingPersistence \/ status # "running")
    BY <1>16, <2>1, <2>3, StopEffectsLoop DEF RaisePersistenceFault
  <2> QED BY <2>2, <2>3
<1>17. CASE DiscardPersistence
  <2>1. Quiet /\ status = "awaiting-persistence" /\ ~Unstopped
    BY <1>0, <1>17 DEF DiscardPersistence, Asked, SessionOK
  <2>2. UNCHANGED <<act, stopScope, pendingToolCalls, pendingApproval, pendingCompaction, spendVars, requestVars>>
         /\ status' = "idle"
    BY <1>17 DEF DiscardPersistence
  <2>3. SessionOK' BY <1>0, <2>1, <2>2 DEF SessionOK, CapBlocked, Waiting
  <2>4. \A g \in Activations : PointOK(act[g].pc)' BY <2>1, <2>2 DEF LoopOK, PointOK
  <2> QED BY <2>2, <2>3, <2>4, NobodyMoves
<1>18. ASSUME NEW m \in TriggerModes, SetTriggerMode(m) PROVE LoopOK'
  BY <1>0, <1>18, NobodyMoves DEF SetTriggerMode, LoopOK, SessionOK, PointOK, CapBlocked
<1> QED BY <1>1, <1>2, <1>3, <1>4, <1>5, <1>6, <1>7, <1>8, <1>9, <1>10, <1>11, <1>12, <1>13, <1>14,
           <1>15, <1>16, <1>17, <1>18 DEF Person

LEMMA LoopInit ==
    ASSUME Init PROVE LoopOK
<1>1. \A f \in Activations : act[f].pc = "free" BY DEF Init, Fresh
<1> QED BY <1>1 DEF Init, LoopOK, OneStretch, OneLoop, InLoop, SessionOK, PointOK, LoopPcs, RunningPcs,
           DrainedPcs, LoopAwaits, LoopStretches, StretchPcs

LEMMA LoopStep ==
    ASSUME StopsFindTheLoop, TypeOK, LoopOK, [Next]_vars
    PROVE  LoopOK'
<1>1. CASE Person BY <1>1, PersonLoop
<1>2. ASSUME NEW f \in Activations, Progress(f) PROVE LoopOK'
  BY <1>2, StretchLoop, CompletionLoop DEF Progress
<1>3. CASE UNCHANGED vars
  BY <1>3, NobodyMoves DEF vars, LoopOK, SessionOK, PointOK, CapBlocked
<1> QED BY <1>1, <1>2, <1>3 DEF Next

(* What each point of the loop relies on holds there (advance, drive).     *)
THEOREM LoopInvariance ==
    ASSUME StopsFindTheLoop
    PROVE  Spec => []LoopOK
<1>1. Init => LoopOK BY LoopInit
<1>2. TypeOK /\ LoopOK /\ [Next]_vars => LoopOK' BY LoopStep
<1> QED BY <1>1, <1>2, TypeCorrect, PTL DEF Spec

(* The loop of a session is never running twice (session.ts advance): as   *)
(* long as a stop that settles the session at once finds nothing under way.*)
THEOREM LoopIsOne ==
    ASSUME StopsFindTheLoop
    PROVE  Spec => []OneLoop
<1>1. LoopOK => OneLoop BY DEF LoopOK
<1> QED BY <1>1, LoopInvariance, PTL

-----------------------------------------------------------------------------
(* The pin                                                                 *)

Pinned == turnLeaf # Unpinned

(* Where an activation of the loop goes on: in the loop or on its way out. *)
OnwardPcs == LoopPcs \cup {"exit", "drainQueue", "settleTitle"}

(* What is appended never releases the pin.                                *)
LEMMA AppendKeepsPin ==
    ASSUME ConversationOK, NEW e, Append1(e)
    PROVE  Pinned' <=> Pinned
BY DEF Append1, ConversationOK, Pinned

LEMMA FlushKeepsPin ==
    ASSUME ConversationOK, ScalarsOK, FlushPendingUser
    PROVE  Pinned' <=> Pinned
<1> DEFINE k == (IF pendingNote THEN 1 ELSE 0) + (IF stopScope = "none" THEN queue ELSE 0)
<1>1. k \in Nat /\ PushUsers(k) BY DEF ScalarsOK, FlushPendingUser
<1>2. Len(entries) \in Nat BY DEF ConversationOK
<1> HIDE DEF k
<1> QED BY <1>1, <1>2 DEF PushUsers, PushUsersAt, Pinned

LEMMA OutcomeKeepsPin ==
    ASSUME ConversationOK, NEW f \in Activations, NEW ok \in BOOLEAN, CompactionOutcome(f, ok)
    PROVE  Pinned' <=> Pinned
<1>1. CASE ok BY <1>1, AppendKeepsPin DEF CompactionOutcome, PushCompaction
<1>2. CASE ~ok BY <1>2 DEF CompactionOutcome, Pinned
<1> QED BY <1>1, <1>2

(* Where a summary of the branch is being written.                         *)
SummaryPcs == {"autoCompact", "forcedCompact", "resolvedCompact"}

(* One activation of the loop goes on, and the pin stays; a summary it     *)
(* starts is of the branch it works on.                                    *)
Advances(f) ==
    /\ \E p \in OnwardPcs :
          /\ Moves(f, p)
          /\ p \in {"loopTitle", "settleTitle"} => AutoTitle
          /\ p \in SummaryPcs => act'[f].leaf = WorkingLeaf /\ UNCHANGED convVars
    /\ Pinned' <=> Pinned

LEMMA StretchAdvances ==
    ASSUME TypeOK, NEW f \in Activations, Stretch(f), act[f].pc \notin {"exit", "drainQueue"}
    PROVE  Advances(f) /\ InLoop(f)
<1> USE TypeOK DEF TypeOK
<1>1. CASE StartLoop(f)
  <2>1. InLoop(f) BY <1>1 DEF StartLoop, InLoop, LoopStretches
  <2>2. Moves(f, "top") BY <1>1, GotoMoves DEF StartLoop
  <2>3. Pinned' <=> Pinned BY <1>1, FlushKeepsPin DEF StartLoop, FlushIfDrained, Pinned
  <2> QED BY <1>1, <2>1, <2>2, <2>3 DEF Advances, OnwardPcs, SummaryPcs, LoopPcs, LoopAwaits, LoopStretches
<1>2. CASE ObserveStop(f)
  <2>1. InLoop(f) BY <1>2 DEF ObserveStop, InLoop, LoopStretches
  <2>2. Moves(f, "exit") BY <1>2, GotoMoves DEF ObserveStop
  <2>3. Pinned' <=> Pinned BY <1>2 DEF ObserveStop, Pinned
  <2> QED BY <1>2, <2>1, <2>2, <2>3 DEF Advances, OnwardPcs, SummaryPcs, LoopPcs, LoopAwaits, LoopStretches
<1>3. CASE BatchDrained(f)
  <2>1. InLoop(f) BY <1>3 DEF BatchDrained, Draining, InLoop, LoopStretches
  <2>2. Moves(f, "boundary") BY <1>3, GotoMoves DEF BatchDrained
  <2>3. Pinned' <=> Pinned BY <1>3, FlushKeepsPin DEF BatchDrained
  <2> QED BY <1>3, <2>1, <2>2, <2>3 DEF Advances, OnwardPcs, SummaryPcs, LoopPcs, LoopAwaits, LoopStretches
<1>4. CASE RefuseCall(f)
  <2>1. InLoop(f) BY <1>4 DEF RefuseCall, HeadIs, Draining, InLoop, LoopStretches
  <2>2. Moves(f, "drain") BY <1>4, GotoMoves DEF RefuseCall
  <2>3. Pinned' <=> Pinned BY <1>4, AppendKeepsPin DEF RefuseCall, PushResult
  <2> QED BY <1>4, <2>1, <2>2, <2>3 DEF Advances, OnwardPcs, SummaryPcs, LoopPcs, LoopAwaits, LoopStretches
<1>5. CASE PauseForApproval(f)
  <2>1. InLoop(f) BY <1>5 DEF PauseForApproval, HeadIs, Draining, InLoop, LoopStretches
  <2>2. Moves(f, "exit") BY <1>5, GotoMoves DEF PauseForApproval
  <2>3. Pinned' <=> Pinned BY <1>5 DEF PauseForApproval, Pinned
  <2> QED BY <1>5, <2>1, <2>2, <2>3 DEF Advances, OnwardPcs, SummaryPcs, LoopPcs, LoopAwaits, LoopStretches
<1>6. CASE PauseForInput(f)
  <2>1. InLoop(f) BY <1>6 DEF PauseForInput, HeadIs, Draining, InLoop, LoopStretches
  <2>2. Moves(f, "exit") BY <1>6, GotoMoves DEF PauseForInput
  <2>3. Pinned' <=> Pinned BY <1>6 DEF PauseForInput, Pinned
  <2> QED BY <1>6, <2>1, <2>2, <2>3 DEF Advances, OnwardPcs, SummaryPcs, LoopPcs, LoopAwaits, LoopStretches
<1>7. CASE StartTool(f)
  <2>1. InLoop(f) BY <1>7 DEF StartTool, HeadIs, Draining, InLoop, LoopStretches
  <2>2. Moves(f, "tool") BY <1>7 DEF StartTool, Moves, ActivationsOK, Activation, Fresh
  <2>3. Pinned' <=> Pinned BY <1>7 DEF StartTool, Pinned
  <2> QED BY <1>7, <2>1, <2>2, <2>3 DEF Advances, OnwardPcs, SummaryPcs, LoopPcs, LoopAwaits, LoopStretches
<1>8. CASE DeclineAtCap(f)
  <2>1. InLoop(f) BY <1>8 DEF DeclineAtCap, AtBoundary, InLoop, LoopStretches
  <2>2. Moves(f, "exit") BY <1>8, GotoMoves DEF DeclineAtCap
  <2>3. Pinned' <=> Pinned BY <1>8 DEF DeclineAtCap, Pinned
  <2> QED BY <1>8, <2>1, <2>2, <2>3 DEF Advances, OnwardPcs, SummaryPcs, LoopPcs, LoopAwaits, LoopStretches
<1>9. CASE RaiseStallPause(f)
  <2>1. InLoop(f) BY <1>9 DEF RaiseStallPause, AtBoundary, InLoop, LoopStretches
  <2>2. Moves(f, "exit") BY <1>9, GotoMoves DEF RaiseStallPause
  <2>3. Pinned' <=> Pinned BY <1>9 DEF RaiseStallPause, Pinned
  <2> QED BY <1>9, <2>1, <2>2, <2>3 DEF Advances, OnwardPcs, SummaryPcs, LoopPcs, LoopAwaits, LoopStretches
<1>10. CASE RaiseCompactionPause(f)
  <2>1. InLoop(f) BY <1>10 DEF RaiseCompactionPause, ToSend, AtBoundary, InLoop, LoopStretches
  <2>2. Moves(f, "exit") BY <1>10, GotoMoves DEF RaiseCompactionPause
  <2>3. Pinned' <=> Pinned BY <1>10 DEF RaiseCompactionPause, Pinned
  <2> QED BY <1>10, <2>1, <2>2, <2>3 DEF Advances, OnwardPcs, SummaryPcs, LoopPcs, LoopAwaits, LoopStretches
<1>11. CASE StartAutoCompact(f)
  <2>1. InLoop(f) BY <1>11 DEF StartAutoCompact, ToSend, AtBoundary, InLoop, LoopStretches
  <2>4. act'[f].leaf = WorkingLeaf /\ UNCHANGED convVars
    BY <1>11 DEF StartAutoCompact, ActivationsOK, Activation, Fresh
  <2>2. Moves(f, "autoCompact") BY <1>11 DEF StartAutoCompact, Moves, ActivationsOK, Activation, Fresh
  <2>3. Pinned' <=> Pinned BY <1>11 DEF StartAutoCompact, Pinned
  <2> QED BY <2>1, <2>2, <2>3, <2>4 DEF Advances, OnwardPcs, LoopPcs, LoopAwaits
<1>12. CASE ProceedToSend(f)
  <2>1. InLoop(f) BY <1>12 DEF ProceedToSend, ToSend, AtBoundary, InLoop, LoopStretches
  <2>2. Moves(f, "title") BY <1>12, GotoMoves DEF ProceedToSend
  <2>3. Pinned' <=> Pinned BY <1>12 DEF ProceedToSend, Pinned
  <2> QED BY <1>12, <2>1, <2>2, <2>3 DEF Advances, OnwardPcs, SummaryPcs, LoopPcs, LoopAwaits, LoopStretches
<1>13. CASE AskLoopTitle(f)
  <2>1. InLoop(f) BY <1>13 DEF AskLoopTitle, InLoop, LoopStretches
  <2>2. Moves(f, "loopTitle") BY <1>13, GotoMoves DEF AskLoopTitle
  <2>3. Pinned' <=> Pinned BY <1>13 DEF AskLoopTitle, Pinned
  <2> QED BY <1>13, <2>1, <2>2, <2>3 DEF Advances, OnwardPcs, SummaryPcs, LoopPcs, LoopAwaits, LoopStretches, TitleMayBeAsked, AskLoopTitle
<1>14. CASE SendRequest(f)
  <2>1. InLoop(f) BY <1>14 DEF SendRequest, InLoop, LoopStretches
  <2>2. Moves(f, "llm") BY <1>14 DEF SendRequest, Moves, ActivationsOK, Activation, Fresh
  <2>3. Pinned' <=> Pinned BY <1>14 DEF SendRequest, Pinned
  <2> QED BY <1>14, <2>1, <2>2, <2>3 DEF Advances, OnwardPcs, SummaryPcs, LoopPcs, LoopAwaits, LoopStretches
<1>15. CASE Settle(f)
  <2>1. InLoop(f) BY <1>15 DEF Settle, InLoop, LoopStretches
  <2>2. \E p \in {"settleTitle", "drainQueue"} : Moves(f, p) /\ (p = "settleTitle" => AutoTitle)
    BY <1>15, GotoMoves DEF Settle, TitleMayBeAsked
  <2>3. Pinned' <=> Pinned BY <1>15 DEF Settle, Pinned
  <2> QED BY <2>1, <2>2, <2>3 DEF Advances, OnwardPcs, SummaryPcs
<1>16. CASE DrainQueue(f) BY <1>16 DEF DrainQueue
<1>17. CASE Exit(f) BY <1>17 DEF Exit
<1> QED BY <1>1, <1>2, <1>3, <1>4, <1>5, <1>6, <1>7, <1>8, <1>9, <1>10, <1>11, <1>12, <1>13, <1>14, <1>15, <1>16, <1>17 DEF Stretch

LEMMA NoResultAdvances ==
    ASSUME TypeOK, NEW f \in Activations, NEW st, NoResult(f, st), UNCHANGED convVars
    PROVE  Advances(f)
<1> USE TypeOK DEF TypeOK
<1>1. \E p \in {"request", "exit"} : Moves(f, p) BY GotoMoves DEF NoResult
<1> QED BY <1>1 DEF Advances, OnwardPcs, SummaryPcs, LoopPcs, LoopStretches, Pinned

(* Two completions leave the loop for good: a consented tool that throws,  *)
(* and the compaction a person asked for when it was stopped.              *)
Resumes(f) == act[f].pc \in {"approvedTool", "resolvedCompact"}

GoesOn(f) ==
    \/ Advances(f)
    \/ /\ Resumes(f) /\ Moves(f, "free") /\ (Pinned' <=> Pinned)
       /\ Unstopped => UNCHANGED status

LEMMA OnwardGoes ==
    ASSUME NEW f \in Activations, Pinned' <=> Pinned,
           NEW p \in {"exit", "drain", "title", "request", "run", "settled", "top", "llm",
                      "backoff"}, Moves(f, p)
    PROVE  GoesOn(f)
BY DEF GoesOn, Advances, OnwardPcs, SummaryPcs, LoopPcs, LoopAwaits, LoopStretches

LEMMA CompletionAdvances ==
    ASSUME TypeOK, LoopOK, NEW f \in Activations, Completion(f), InLoop(f)
    PROVE  GoesOn(f)
<1> USE TypeOK DEF TypeOK
<1>1. CASE ToolReturns(f)
  <2>1. Pinned' <=> Pinned BY <1>1, AppendKeepsPin DEF ToolReturns, PushResult
  <2>2. CASE stopScope = "hard"
    <3>1. Moves(f, "exit") BY <1>1, <2>2, GotoMoves DEF ToolReturns
    <3> QED BY <2>1, <3>1, OnwardGoes
  <2>3. CASE stopScope # "hard"
    <3>1. Moves(f, "drain") BY <1>1, <2>3, GotoMoves DEF ToolReturns
    <3> QED BY <2>1, <3>1, OnwardGoes
  <2> QED BY <2>2, <2>3
<1>2. CASE ToolThrows(f)
  <2>1. Pinned' <=> Pinned BY <1>2 DEF ToolThrows, Pinned
  <2>2. CASE TRUE
    <3>1. Moves(f, "exit") BY <1>2, <2>2, GotoMoves DEF ToolThrows
    <3> QED BY <2>1, <3>1, OnwardGoes
  <2> QED BY <2>2
<1>3. ASSUME NEW ok \in BOOLEAN, AutoCompactEnds(f, ok) PROVE GoesOn(f)
  <2>1. Pinned' <=> Pinned BY <1>3, OutcomeKeepsPin DEF AutoCompactEnds
  <2>2. CASE stopScope # "none"
    <3>1. Moves(f, "exit") BY <1>3, <2>2, GotoMoves DEF AutoCompactEnds
    <3> QED BY <2>1, <3>1, OnwardGoes
  <2>3. CASE stopScope = "none"
    <3>1. Moves(f, "title") BY <1>3, <2>3, GotoMoves DEF AutoCompactEnds
    <3> QED BY <2>1, <3>1, OnwardGoes
  <2> QED BY <2>2, <2>3
<1>4. ASSUME NEW ok \in BOOLEAN, LoopTitleEnds(f, ok) PROVE GoesOn(f)
  <2>1. Pinned' <=> Pinned BY <1>4 DEF LoopTitleEnds, Pinned
  <2>2. CASE TRUE
    <3>1. Moves(f, "request") BY <1>4, <2>2, GotoMoves DEF LoopTitleEnds
    <3> QED BY <2>1, <3>1, OnwardGoes
  <2> QED BY <2>2
<1>5. CASE ApprovedToolReturns(f)
  <2>1. Pinned' <=> Pinned BY <1>5, AppendKeepsPin DEF ApprovedToolReturns, PushResult
  <2>2. CASE TRUE
    <3>1. Moves(f, "run") BY <1>5, <2>2, GotoMoves DEF ApprovedToolReturns
    <3> QED BY <2>1, <3>1, OnwardGoes
  <2> QED BY <2>2
<1>6. CASE ApprovedToolThrows(f)
  <2>1. Moves(f, "free") BY <1>6, GotoMoves DEF ApprovedToolThrows
  <2> QED BY <1>6, <2>1 DEF ApprovedToolThrows, GoesOn, Resumes, Pinned
<1>7. ASSUME NEW ok \in BOOLEAN, ResolvedCompactEnds(f, ok) PROVE GoesOn(f)
  <2>1. Pinned' <=> Pinned BY <1>7, OutcomeKeepsPin DEF ResolvedCompactEnds
  <2>2. CASE stopScope = "none"
    <3>1. Moves(f, "run") BY <1>7, <2>2, GotoMoves DEF ResolvedCompactEnds
    <3> QED BY <2>1, <3>1, OnwardGoes
  <2>3. CASE stopScope # "none"
    <3>1. Moves(f, "free") BY <1>7, <2>3, GotoMoves DEF ResolvedCompactEnds
    <3>2. ~Unstopped BY <2>3 DEF LoopOK, SessionOK
    <3> QED BY <1>7, <2>1, <3>1, <3>2 DEF ResolvedCompactEnds, GoesOn, Resumes
  <2> QED BY <2>2, <2>3
<1>8. ASSUME NEW kinds \in Batches, NEW cut \in BOOLEAN, AnswerLands(f, kinds, cut) PROVE GoesOn(f)
  <2>1. Pinned' <=> Pinned BY <1>8, AppendKeepsPin DEF AnswerLands, PushAssistant
  <2>2. CASE cut \/ kinds = <<>>
    <3>1. Moves(f, "settled") BY <1>8, <2>2, GotoMoves DEF AnswerLands
    <3> QED BY <2>1, <3>1, OnwardGoes
  <2>3. CASE ~(cut \/ kinds = <<>>)
    <3>1. Moves(f, "top") BY <1>8, <2>3, GotoMoves DEF AnswerLands
    <3> QED BY <2>1, <3>1, OnwardGoes
  <2> QED BY <2>2, <2>3
<1>9. CASE RequestUnwinds(f)
  <2>1. Pinned' <=> Pinned BY <1>9 DEF RequestUnwinds, Pinned
  <2>2. CASE TRUE
    <3>1. NoResult(f, status) BY <1>9, <2>2 DEF RequestUnwinds
    <3>2. \E p \in {"request", "exit"} : Moves(f, p) BY <3>1, GotoMoves DEF NoResult
    <3> QED BY <2>1, <3>2, OnwardGoes
  <2> QED BY <2>2
<1>10. CASE RequestOverWindow(f)
  <2>1. Pinned' <=> Pinned BY <1>10 DEF RequestOverWindow, Pinned
  <2>2. CASE ~act[f].again /\ stopScope = "none"
    <3>1. Moves(f, "forcedCompact") BY <1>10, <2>2 DEF RequestOverWindow, Moves, ActivationsOK, Activation, Fresh
    <3>2. act'[f].leaf = WorkingLeaf /\ UNCHANGED convVars
        BY <1>10, <2>2 DEF RequestOverWindow, ActivationsOK, Activation, Fresh
    <3> QED BY <2>1, <3>1, <3>2 DEF GoesOn, Advances, OnwardPcs, LoopPcs, LoopAwaits
  <2>3. CASE act[f].again \/ stopScope # "none"
    <3>1. NoResult(f, (IF act[f].again THEN "idle" ELSE status)) BY <1>10, <2>3 DEF RequestOverWindow
    <3>2. \E p \in {"request", "exit"} : Moves(f, p) BY <3>1, GotoMoves DEF NoResult
    <3> QED BY <2>1, <3>2, OnwardGoes
  <2> QED BY <2>2, <2>3
<1>11. ASSUME NEW ok \in BOOLEAN, ForcedCompactEnds(f, ok) PROVE GoesOn(f)
  <2>1. Pinned' <=> Pinned BY <1>11, OutcomeKeepsPin DEF ForcedCompactEnds
  <2>2. CASE ~(stopScope # "none" \/ ~ok)
    <3>1. Moves(f, "llm") BY <1>11, <2>2 DEF ForcedCompactEnds, Moves, ActivationsOK, Activation, Fresh
    <3> QED BY <2>1, <3>1, OnwardGoes
  <2>3. CASE stopScope # "none" \/ ~ok
    <3>1. NoResult(f, (IF stopScope # "none" THEN status ELSE "idle")) BY <1>11, <2>3 DEF ForcedCompactEnds
    <3>2. \E p \in {"request", "exit"} : Moves(f, p) BY <3>1, GotoMoves DEF NoResult
    <3> QED BY <2>1, <3>2, OnwardGoes
  <2> QED BY <2>2, <2>3
<1>12. CASE RequestFails(f)
  <2>1. Pinned' <=> Pinned BY <1>12 DEF RequestFails, Pinned
  <2>2. CASE TRUE
    <3>1. NoResult(f, (IF BreakerTrips THEN "halted" ELSE "idle")) BY <1>12, <2>2 DEF RequestFails
    <3>2. \E p \in {"request", "exit"} : Moves(f, p) BY <3>1, GotoMoves DEF NoResult
    <3> QED BY <2>1, <3>2, OnwardGoes
  <2> QED BY <2>2
<1>13. CASE RequestTransient(f)
  <2>1. Pinned' <=> Pinned BY <1>13 DEF RequestTransient, Pinned
  <2>2. CASE TRUE
    <3>1. Moves(f, "backoff") BY <1>13, <2>2 DEF RequestTransient, Moves, ActivationsOK, Activation, Fresh
    <3> QED BY <2>1, <3>1, OnwardGoes
  <2> QED BY <2>2
<1>14. CASE BackOffEnds(f)
  <2>1. Pinned' <=> Pinned BY <1>14 DEF BackOffEnds, Pinned
  <2>2. CASE ~Interrupted
    <3>1. Moves(f, "llm") BY <1>14, <2>2 DEF BackOffEnds, Moves, ActivationsOK, Activation, Fresh
    <3> QED BY <2>1, <3>1, OnwardGoes
  <2>3. CASE Interrupted
    <3>1. NoResult(f, status) BY <1>14, <2>3 DEF BackOffEnds
    <3>2. \E p \in {"request", "exit"} : Moves(f, p) BY <3>1, GotoMoves DEF NoResult
    <3> QED BY <2>1, <3>2, OnwardGoes
  <2> QED BY <2>2, <2>3
<1>15. ASSUME NEW ok \in BOOLEAN, SettleTitleEnds(f, ok) PROVE GoesOn(f)
  BY <1>15 DEF SettleTitleEnds, InLoop, LoopAwaits, LoopStretches
<1>16. ASSUME NEW ok \in BOOLEAN, CompactNowEnds(f, ok) PROVE GoesOn(f)
  BY <1>16 DEF CompactNowEnds, InLoop, LoopAwaits, LoopStretches
<1>17. ASSUME NEW ok \in BOOLEAN, RetryWritesEnds(f, ok) PROVE GoesOn(f)
  BY <1>17 DEF RetryWritesEnds, InLoop, LoopAwaits, LoopStretches
<1> QED BY <1>1, <1>2, <1>3, <1>4, <1>5, <1>6, <1>7, <1>8, <1>9, <1>10, <1>11, <1>12, <1>13, <1>14, <1>15, <1>16, <1>17 DEF Completion

(* What keeps the pin of a turn: a turn in the loop, on a card or at the   *)
(* cap has one; who leaves the loop leaves nobody behind in it; and once   *)
(* all have left, and none waits on a person, it is gone.                  *)
Unheld == \A f \in Activations : act[f].pc \notin OnwardPcs
PinOK ==
    /\ \A f \in Activations : InLoop(f) => Pinned
    /\ \A f \in Activations : act[f].pc \notin {"loopTitle", "settleTitle"}
    /\ \A f, g \in Activations : act[f].pc \in {"exit", "drainQueue"} => ~InLoop(g)
    /\ status \in Waiting \/ capReached => Pinned
    /\ Unstopped /\ Unheld /\ status \in {"idle", "halted"} /\ ~capReached => ~Pinned

(* Whoever is leaving the loop was alone in it.                            *)
LEMMA LeaversAreAlone ==
    ASSUME PinOK, NEW f \in Activations, NEW g \in Activations, act[g].pc \in {"exit", "drainQueue"}
    PROVE  ~InLoop(f)
BY DEF PinOK

LEMMA CapLeavesNobody ==
    ASSUME LoopOK, Quiet, capReached, NEW g \in Activations
    PROVE  ~InLoop(g)
<1>1. SUFFICES ASSUME InLoop(g) PROVE FALSE OBVIOUS
<1>2. PointOK(act[g].pc) /\ act[g].pc \in LoopPcs BY <1>1 DEF LoopOK, InLoop, LoopPcs
<1> QED BY <1>2 DEF PointOK, Quiet, StretchPcs, LoopStretches

LEMMA StopEffectsPin ==
    ASSUME ~Unstopped, TypeOK, PinOK, NEW scope \in {"soft", "hard"}, NEW pp, StopEffects(scope, pp)
    PROVE  PinOK'
<1> USE DEF TypeOK
<1>1. \A g \in Activations : act'[g].pc = act[g].pc
  <2>1. CASE scope = "hard" BY <2>1 DEF StopEffects, ActivationsOK, Activation
  <2>2. CASE scope # "hard" BY <2>2 DEF StopEffects
  <2> QED BY <2>1, <2>2
<1>2. UNCHANGED <<turnLeaf, capReached>> /\ (status' = status \/ status' \in {"idle", "awaiting-persistence"})
    BY DEF StopEffects
<1> QED BY <1>1, <1>2 DEF PinOK, InLoop, Pinned, Waiting

(* A step of the loop keeps it.                                            *)
LEMMA AdvancePin ==
    ASSUME ~AutoTitle, TypeOK, PinOK, NEW f \in Activations, InLoop(f), Pinned, Alone(f), Advances(f)
    PROVE  PinOK'
<1>1. PICK p \in OnwardPcs : Moves(f, p) /\ p \notin {"loopTitle", "settleTitle"} BY DEF Advances
<1>2. Pinned' BY DEF Advances
<1>3. ~Unheld' BY <1>1 DEF Moves, Unheld
<1>4. \A g \in Activations : act'[g].pc \notin {"loopTitle", "settleTitle"} BY <1>1 DEF Moves, PinOK
<1>5. ASSUME NEW g \in Activations, NEW h \in Activations, act'[g].pc \in {"exit", "drainQueue"}
      PROVE  ~InLoop(h)'
  <2>1. CASE h = f
    <3>1. CASE g = f BY <1>1, <1>5, <2>1, <3>1 DEF Moves, InLoop, LoopAwaits, LoopStretches
    <3>2. CASE g # f BY <1>1, <1>5, <2>1, <3>2, LeaversAreAlone DEF Moves, PinOK, InLoop
    <3> QED BY <3>1, <3>2
  <2>2. CASE h # f BY <1>1, <2>2 DEF Moves, Alone, InLoop
  <2> QED BY <2>1, <2>2
<1> QED BY <1>2, <1>3, <1>4, <1>5 DEF PinOK

(* A turn opens, or is resumed, while nobody is in the loop.               *)
LEMMA EnterPin ==
    ASSUME ~AutoTitle, TypeOK, LoopOK, PinOK, NEW f \in Activations, NEW p \in LoopPcs \ {"loopTitle"},
           Quiet \/ act[f].pc \in StretchPcs, Alone(f), Moves(f, p), Pinned'
    PROVE  PinOK'
<1>1. ~Unheld' BY DEF Moves, Unheld, OnwardPcs
<1>2. p \notin {"loopTitle", "settleTitle", "exit", "drainQueue"} BY DEF LoopPcs, LoopAwaits, LoopStretches
<1>3. \A g \in Activations : act'[g].pc \notin {"loopTitle", "settleTitle"} BY <1>2 DEF Moves, PinOK
<1>4. \A g \in Activations : act'[g].pc \notin {"exit", "drainQueue"}
  <2>1. TAKE g \in Activations
  <2>2. CASE g = f BY <1>2, <2>2 DEF Moves
  <2>3. CASE g # f BY <2>3 DEF Moves, Quiet, LoopOK, OneStretch, StretchPcs
  <2> QED BY <2>2, <2>3
<1> QED BY <1>1, <1>3, <1>4 DEF PinOK

(* Nobody in or leaving the loop moves, and what the pin hangs on stays.   *)
LEMMA AsidePin ==
    ASSUME PinOK, NEW f \in Activations, NEW p, p \notin OnwardPcs, act[f].pc \notin OnwardPcs,
           Moves(f, p), Pinned' <=> Pinned, UNCHANGED <<status, capReached>>
    PROVE  PinOK'
<1>1. p \notin LoopPcs \cup {"exit", "drainQueue", "settleTitle", "loopTitle"}
       /\ act[f].pc \notin LoopPcs \cup {"exit", "drainQueue", "settleTitle", "loopTitle"}
    BY DEF OnwardPcs, LoopPcs, LoopAwaits
<1>2. Unheld' <=> Unheld BY DEF Moves, Unheld
<1>3. \A g \in Activations : InLoop(g)' <=> InLoop(g)
    BY <1>1 DEF Moves, InLoop, LoopPcs
<1>4. \A g \in Activations : act'[g].pc = act[g].pc \/ act'[g].pc = p BY DEF Moves
<1> QED BY <1>1, <1>2, <1>3, <1>4 DEF PinOK

LEMMA StayPin ==
    ASSUME PinOK, \A g \in Activations : act'[g].pc = act[g].pc, UNCHANGED <<turnLeaf, status, capReached>>
    PROVE  PinOK'
BY DEF PinOK, Unheld, InLoop, Pinned

LEMMA OpenPin ==
    ASSUME ~AutoTitle, TypeOK, LoopOK, PinOK, NEW f \in Activations, NEW base, OpenTurn(f, base),
           Quiet \/ act[f].pc \in StretchPcs, Alone(f)
    PROVE  PinOK'
<1>1. Moves(f, "run") BY GotoMoves DEF OpenTurn, TypeOK
<1>2. Pinned' BY DEF OpenTurn, Pinned, TypeOK, ConversationOK
<1> QED BY <1>1, <1>2, EnterPin DEF LoopPcs, LoopStretches

LEMMA ProgressPin ==
    ASSUME ~AutoTitle, StopsFindTheLoop, TypeOK, LoopOK, PinOK, NEW f \in Activations, Progress(f)
    PROVE  PinOK'
<1> USE DEF TypeOK
<1>1. CASE Stretch(f) /\ act[f].pc \notin {"exit", "drainQueue"}
  <2>1. Advances(f) /\ InLoop(f) BY <1>1, StretchAdvances
  <2> QED BY <2>1, LoopIsAlone, AdvancePin DEF PinOK
<1>2. CASE Stretch(f) /\ act[f].pc = "drainQueue"
  <2>1. DrainQueue(f) BY <1>2 DEF Stretch, StartLoop, ObserveStop, BatchDrained, RefuseCall, PauseForApproval,
           PauseForInput, StartTool, DeclineAtCap, RaiseStallPause, RaiseCompactionPause, StartAutoCompact,
           ProceedToSend, AskLoopTitle, SendRequest, Settle, Exit, HeadIs, Draining, ToSend, AtBoundary
  <2>2. Alone(f) /\ act[f].pc \in StretchPcs BY <1>2 DEF PinOK, Alone, StretchPcs
  <2>3. CASE MayDrain /\ queue > 0 BY <2>1, <2>2, <2>3, OpenPin DEF DrainQueue
  <2>4. CASE ~(MayDrain /\ queue > 0)
    <3>1. Moves(f, "exit") /\ UNCHANGED <<turnLeaf, status, capReached>>
        BY <2>1, <2>4, GotoMoves DEF DrainQueue
    <3>2. ~Unheld' BY <3>1 DEF Unheld, OnwardPcs, Moves
    <3>3. \A g \in Activations : ~InLoop(g)' BY <1>2, <3>1 DEF Moves, PinOK, InLoop, LoopAwaits, LoopStretches
    <3>4. \A g \in Activations : act'[g].pc \notin {"loopTitle", "settleTitle"} BY <3>1 DEF Moves, PinOK
    <3> QED BY <3>1, <3>2, <3>3, <3>4 DEF PinOK, Pinned
  <2> QED BY <2>3, <2>4
<1>3. CASE Stretch(f) /\ act[f].pc = "exit"
  <2>1. Exit(f) BY <1>3 DEF Stretch, StartLoop, ObserveStop, BatchDrained, RefuseCall, PauseForApproval,
           PauseForInput, StartTool, DeclineAtCap, RaiseStallPause, RaiseCompactionPause, StartAutoCompact,
           ProceedToSend, AskLoopTitle, SendRequest, Settle, DrainQueue, HeadIs, Draining, ToSend, AtBoundary
  <2>2. Moves(f, "free") BY <2>1, GotoMoves DEF Exit
  <2>3. \A g \in Activations : ~InLoop(g)' BY <1>3, <2>2 DEF Moves, PinOK, InLoop, LoopAwaits, LoopStretches
  <2>4. \A g \in Activations : act'[g].pc \notin {"loopTitle", "settleTitle"} BY <2>2 DEF Moves, PinOK
  <2>5. status' = status /\ capReached' = capReached /\ turnLeaf' = IF Suspended THEN turnLeaf ELSE Unpinned
    BY <2>1 DEF Exit
  <2> QED BY <2>3, <2>4, <2>5 DEF PinOK, Pinned, Suspended, Waiting
<1>4. CASE Quiet /\ Completion(f) /\ InLoop(f)
  <2>1. Pinned /\ Alone(f) BY <1>4, LoopIsAlone DEF PinOK
  <2>2. CASE Advances(f) BY <1>4, <2>1, <2>2, AdvancePin
  <2>3. CASE Resumes(f) /\ Moves(f, "free") /\ (Pinned' <=> Pinned) /\ (Unstopped => UNCHANGED status)
    <3>1. Unstopped /\ status \in Waiting
        BY <2>3, StopsFindTheLoop DEF LoopOK, PointOK, Resumes, Waiting
    <3>2. status' = status BY <2>3, <3>1
    <3>3. \A g \in Activations : ~InLoop(g)' BY <2>1, <2>3 DEF Moves, Alone, InLoop, LoopAwaits, LoopStretches
    <3>4. \A g \in Activations : act'[g].pc \notin {"loopTitle", "settleTitle"} BY <2>3 DEF Moves, PinOK
    <3> QED BY <2>1, <2>3, <3>1, <3>2, <3>3, <3>4 DEF PinOK, Waiting
  <2> QED BY <1>4, <2>2, <2>3, CompletionAdvances DEF GoesOn
<1>5. CASE Quiet /\ Completion(f) /\ ~InLoop(f)
  <2>1. \E ok \in BOOLEAN : CompactNowEnds(f, ok)
    <3>1. act[f].pc \notin LoopPcs \cup {"settleTitle", "retryWrites"}
        BY <1>5 DEF PinOK, InLoop, LoopPcs, LoopOK, PointOK
    <3> QED BY <1>5, <3>1 DEF Completion, LoopPcs, LoopAwaits, ToolReturns, ToolThrows, ApprovedToolReturns,
           ApprovedToolThrows, AnswerLands, RequestUnwinds, RequestOverWindow, RequestTransient, BackOffEnds,
           RequestFails, AutoCompactEnds, LoopTitleEnds, SettleTitleEnds, ForcedCompactEnds, ResolvedCompactEnds,
           RetryWritesEnds
  <2>2. PICK ok \in BOOLEAN : CompactNowEnds(f, ok) BY <2>1
  <2>3. Moves(f, "free") BY <2>2, GotoMoves DEF CompactNowEnds
  <2>4. Pinned' <=> Pinned BY <2>2, OutcomeKeepsPin DEF CompactNowEnds
  <2> QED BY <2>2, <2>3, <2>4, AsidePin DEF CompactNowEnds, OnwardPcs, LoopPcs, LoopAwaits, LoopStretches
<1> QED BY <1>1, <1>2, <1>3, <1>4, <1>5 DEF Progress

LEMMA PersonPin ==
    ASSUME ~AutoTitle, StopsFindTheLoop, TypeOK, LoopOK, PinOK, Person
    PROVE  PinOK'
<1> USE DEF TypeOK
<1>1. ASSUME NEW f \in Activations, NEW c \in Configs, Send(f, c) PROVE PinOK'
  <2>1. Alone(f) BY <1>1, IdleIsAlone DEF Send, Asked, Free, CanSend, InLoop, LoopAwaits, LoopStretches
  <2> QED BY <1>1, <2>1, OpenPin DEF Send, Asked
<1>2. ASSUME NEW f \in Activations, NEW c \in Configs, Enqueue(f, c) PROVE PinOK'
  <2>1. CASE MayDrain
    <3>1. Alone(f) BY <1>2, <2>1, IdleIsAlone DEF Enqueue, Asked, Free, MayDrain, InLoop, LoopAwaits, LoopStretches
    <3> QED BY <1>2, <2>1, <3>1, OpenPin DEF Enqueue, Asked
  <2>2. CASE ~MayDrain
    <3>1. UNCHANGED <<act, turnLeaf, status, capReached>> BY <1>2, <2>2 DEF Enqueue
    <3> QED BY <3>1, StayPin
  <2> QED BY <2>1, <2>2
<1>3. ASSUME NEW f \in Activations, NEW e \in 1 .. Len(entries), EditFork(f, e) PROVE PinOK'
  <2>1. Alone(f) BY <1>3, IdleIsAlone DEF EditFork, Asked, Free, CanSend, InLoop, LoopAwaits, LoopStretches
  <2> QED BY <1>3, <2>1, OpenPin DEF EditFork, Asked
<1>4. ASSUME NEW f \in Activations, NEW runs \in BOOLEAN, NEW note \in BOOLEAN, Approve(f, runs, note)
      PROVE  PinOK'
  <2>1. Quiet /\ Alone(f) BY <1>4, ParkedLoop DEF Approve, Asked, Alone
  <2>2. Pinned BY <1>4 DEF Approve, PinOK, Waiting
  <2>3. CASE runs
    <3>1. Moves(f, "approvedTool") BY <1>4, <2>3 DEF Approve, Moves, ActivationsOK, Activation, Fresh
    <3>2. Pinned' BY <1>4, <2>2, <2>3 DEF Approve, Pinned
    <3> QED BY <2>1, <3>1, <3>2, EnterPin DEF LoopPcs
  <2>4. CASE ~runs
    <3>1. Moves(f, "run") BY <1>4, <2>4, GotoMoves DEF Approve
    <3>2. Pinned' BY <1>4, <2>2, <2>4, AppendKeepsPin DEF Approve, PushResult
    <3> QED BY <2>1, <3>1, <3>2, EnterPin DEF LoopPcs, LoopStretches
  <2> QED BY <2>3, <2>4
<1>5. ASSUME NEW f \in Activations, Answer(f) PROVE PinOK'
  <2>1. Quiet /\ Alone(f)
    BY <1>5, IdleIsAlone DEF Answer, Asked, Free, InLoop, LoopAwaits, LoopStretches
  <2>2. Moves(f, "run") BY <1>5, GotoMoves DEF Answer
  <2>3. Pinned' BY <1>5, AppendKeepsPin DEF Answer, PushResult, PinOK, Waiting
  <2> QED BY <2>1, <2>2, <2>3, EnterPin DEF LoopPcs, LoopStretches
<1>6. ASSUME NEW f \in Activations, CompactNow(f) PROVE PinOK'
  <2>1. Moves(f, "compactNow") BY <1>6 DEF CompactNow, Moves, ActivationsOK, Activation, Fresh
  <2> QED BY <1>6, <2>1, AsidePin DEF CompactNow, Free, Pinned, OnwardPcs, LoopPcs, LoopAwaits, LoopStretches
<1>7. ASSUME NEW f \in Activations, ContinueRun(f) PROVE PinOK'
  <2>1. Quiet /\ Alone(f)
    BY <1>7, IdleIsAlone DEF ContinueRun, Asked, Free, InLoop, LoopAwaits, LoopStretches
  <2>2. Moves(f, "run") BY <1>7, GotoMoves DEF ContinueRun
  <2>3. Pinned' BY <1>7 DEF ContinueRun, PinOK, Waiting, Pinned
  <2> QED BY <2>1, <2>2, <2>3, EnterPin DEF LoopPcs, LoopStretches
<1>8. ASSUME NEW f \in Activations, Retry(f) PROVE PinOK'
  <2>1. Quiet /\ UNCHANGED <<status, capReached, activeLeaf>> BY <1>8 DEF Retry, Asked
  <2>2. CASE status = "running" /\ streaming /\ restartRequested' = TRUE
               /\ act' = [g \in Activations |-> [act[g] EXCEPT
                       !.aborted = @ \/ (g = abortController /\ act[g].pc = "llm")]]
               /\ UNCHANGED <<stopScope, turnLeaf, healthVars>>
    <3>1. \A g \in Activations : act'[g].pc = act[g].pc BY <2>2 DEF ActivationsOK, Activation
    <3> QED BY <2>1, <2>2, <3>1, StayPin
  <2>3. CASE Free(f) /\ status \in {"idle", "halted"} /\ turnLeaf' = activeLeaf /\ Goto(f, "run")
    <3>1. Alone(f) BY <2>1, <2>3, IdleIsAlone DEF Free, InLoop, LoopAwaits, LoopStretches
    <3>2. Moves(f, "run") BY <2>3, GotoMoves
    <3>3. Pinned' BY <2>1, <2>3 DEF Pinned, ConversationOK, Leaves
    <3> QED BY <2>1, <3>1, <3>2, <3>3, EnterPin DEF LoopPcs, LoopStretches
  <2> QED BY <1>8, <2>2, <2>3, Zenon DEF Retry
<1>9. ASSUME NEW f \in Activations, RetryPersistence(f) PROVE PinOK'
  BY <1>9 DEF RetryPersistence, Asked, StopsFindTheLoop, LoopOK, SessionOK
<1>10. ASSUME NEW f \in Activations, NEW skip \in BOOLEAN, ResolveCompaction(f, skip) PROVE PinOK'
  <2>1. Quiet /\ Alone(f) BY <1>10, ParkedLoop DEF ResolveCompaction, Asked, Alone
  <2>2. Pinned' BY <1>10 DEF ResolveCompaction, PinOK, Waiting, Pinned
  <2>3. CASE skip /\ pendingCompaction = "cancelable"
    <3>1. Moves(f, "run") BY <1>10, <2>3, GotoMoves DEF ResolveCompaction
    <3> QED BY <2>1, <2>2, <3>1, EnterPin DEF LoopPcs, LoopStretches
  <2>4. CASE ~(skip /\ pendingCompaction = "cancelable")
    <3>1. Moves(f, "resolvedCompact")
        BY <1>10, <2>4 DEF ResolveCompaction, Moves, ActivationsOK, Activation, Fresh
    <3> QED BY <2>1, <2>2, <3>1, EnterPin DEF LoopPcs
  <2> QED BY <2>3, <2>4
<1>11. ASSUME NEW f \in Activations, NEW cap \in Caps \cup {NoCap}, SetSpendCap(f, cap) PROVE PinOK'
  <2>1. Quiet /\ UNCHANGED <<status, turnLeaf>> BY <1>11 DEF SetSpendCap, Asked
  <2>2. CASE capReached /\ spendUsd < cap
    <3>1. Alone(f) BY <2>1, <2>2, CapLeavesNobody DEF Alone
    <3>2. Moves(f, "run") BY <1>11, <2>2, GotoMoves DEF SetSpendCap
    <3>3. Pinned' BY <2>1, <2>2 DEF PinOK, Pinned
    <3> QED BY <2>1, <3>1, <3>2, <3>3, EnterPin DEF LoopPcs, LoopStretches
  <2>3. CASE ~(capReached /\ spendUsd < cap)
    <3>1. UNCHANGED <<capReached, act>> BY <1>11, <2>3 DEF SetSpendCap
    <3> QED BY <2>1, <3>1, StayPin
  <2> QED BY <2>2, <2>3
<1>12. ASSUME NEW leaf \in 1 .. Len(entries), SetActiveLeaf(leaf) PROVE PinOK'
  BY <1>12, StayPin DEF SetActiveLeaf
<1>13. ASSUME NEW k \in 0 .. MaxQueue, SetQueue(k) PROVE PinOK'
  BY <1>13, StayPin DEF SetQueue
<1>14. ASSUME NEW scope \in {"soft", "hard"}, Stop(scope) PROVE PinOK'
  <2>1. ~Unstopped BY <1>14 DEF Stop, Asked, Unstopped
  <2> QED BY <1>14, <2>1, StopEffectsPin DEF Stop
<1>15. CASE ParkNotice BY <1>15, StayPin DEF ParkNotice
<1>16. CASE RaisePersistenceFault
  <2>1. ~Unstopped BY <1>16 DEF RaisePersistenceFault, Asked, Unstopped
  <2>2. CASE pendingPersistence \/ status # "running"
    <3>1. UNCHANGED <<act, turnLeaf, capReached>> /\ status' \in {status, "awaiting-persistence"}
        BY <1>16, <2>2 DEF RaisePersistenceFault
    <3> QED BY <2>1, <3>1 DEF PinOK, InLoop, Pinned, Waiting
  <2>3. CASE ~(pendingPersistence \/ status # "running")
    BY <1>16, <2>1, <2>3, StopEffectsPin DEF RaisePersistenceFault
  <2> QED BY <2>2, <2>3
<1>17. CASE DiscardPersistence
  <2>1. ~Unstopped BY <1>17 DEF DiscardPersistence, LoopOK, SessionOK
  <2>2. UNCHANGED <<act, turnLeaf, capReached>> /\ status' = "idle" BY <1>17 DEF DiscardPersistence
  <2> QED BY <2>1, <2>2 DEF PinOK, InLoop, Pinned, Waiting
<1>18. ASSUME NEW m \in TriggerModes, SetTriggerMode(m) PROVE PinOK'
  BY <1>18, StayPin DEF SetTriggerMode
<1> QED BY <1>1, <1>2, <1>3, <1>4, <1>5, <1>6, <1>7, <1>8, <1>9, <1>10, <1>11, <1>12, <1>13, <1>14,
           <1>15, <1>16, <1>17, <1>18 DEF Person

LEMMA PinInit == ASSUME Init PROVE PinOK
<1>1. \A f \in Activations : act[f].pc = "free" BY DEF Init, Fresh
<1> QED BY <1>1 DEF Init, PinOK, Pinned, InLoop, LoopAwaits, LoopStretches, Waiting

LEMMA PinStep ==
    ASSUME ~AutoTitle, StopsFindTheLoop, TypeOK, LoopOK, PinOK, [Next]_vars
    PROVE  PinOK'
<1>1. CASE UNCHANGED vars BY <1>1, StayPin DEF vars
<1> QED BY <1>1, PersonPin, ProgressPin DEF Next

(* Who runs the loop, and whether a turn is owed, tell whether the branch  *)
(* is pinned (turnLeaf).                                                   *)
THEOREM PinInvariance ==
    ASSUME ~AutoTitle, StopsFindTheLoop
    PROVE  Spec => []PinOK
<1>1. Init => PinOK BY PinInit
<1>2. TypeOK /\ LoopOK /\ PinOK /\ [Next]_vars => PinOK' BY PinStep
<1> QED BY <1>1, <1>2, TypeCorrect, LoopInvariance, PTL DEF Spec

(* A turn keeps its branch pinned for as long as it is in flight and no    *)
(* longer (H-05), where nobody presses Stop and no title call outlives the *)
(* turn.                                                                   *)
THEOREM PinIsTheTurns ==
    ASSUME Unstopped, ~AutoTitle
    PROVE  Spec => []PinFollowsTurn
<1>1. LoopOK /\ PinOK => PinFollowsTurn
  <2>1. SUFFICES ASSUME LoopOK, PinOK, Quiet
                 PROVE  /\ (\E f \in Activations : InLoop(f)) \/ status \in Waiting => Pinned
                        /\ ~(\E f \in Activations : InLoop(f)) /\ status \in {"idle", "halted"} /\ ~capReached
                             => ~Pinned
    BY DEF PinFollowsTurn, Pinned
  <2>2. (\A f \in Activations : ~InLoop(f)) => Unheld
    BY <2>1 DEF Unheld, OnwardPcs, InLoop, LoopPcs, PinOK, Quiet, StretchPcs
  <2> QED BY <2>1, <2>2 DEF PinOK
<1>2. StopsFindTheLoop BY DEF StopsFindTheLoop
<1> QED BY <1>1, <1>2, LoopInvariance, PinInvariance, PTL

(* Only a message sent or queued may change the configuration.             *)
LEMMA LoopKeepsConfig ==
    ASSUME NEW f \in Activations, Progress(f) PROVE config' = config
<1>1. CASE Stretch(f)
  BY <1>1 DEF Stretch, StartLoop, ObserveStop, BatchDrained, RefuseCall, PauseForApproval, PauseForInput,
     StartTool, DeclineAtCap, RaiseStallPause, RaiseCompactionPause, StartAutoCompact, ProceedToSend,
     AskLoopTitle, SendRequest, Settle, DrainQueue, Exit
<1>2. CASE Completion(f)
  BY <1>2 DEF Completion, ToolReturns, ToolThrows, ApprovedToolReturns, ApprovedToolThrows, AnswerLands,
     RequestUnwinds, RequestOverWindow, RequestTransient, BackOffEnds, RequestFails, AutoCompactEnds,
     LoopTitleEnds, SettleTitleEnds, ForcedCompactEnds, ResolvedCompactEnds, CompactNowEnds, RetryWritesEnds
<1> QED BY <1>1, <1>2 DEF Progress

LEMMA AdoptionIsIdle ==
    ASSUME Person, config' # config PROVE Quiet /\ status = "idle"
<1>1. ASSUME NEW f \in Activations, NEW c \in Configs, Send(f, c) \/ Enqueue(f, c)
      PROVE  Quiet /\ status = "idle"
  BY <1>1 DEF Send, Enqueue, Asked, AdoptConfig
<1>2. ASSUME NEW f \in Activations, NEW e \in 1 .. Len(entries), EditFork(f, e) PROVE FALSE
  BY <1>2 DEF EditFork
<1>3. ASSUME NEW f \in Activations, NEW runs \in BOOLEAN, NEW note \in BOOLEAN, NEW skip \in BOOLEAN,
             NEW cap \in Caps \cup {NoCap},
             \/ Approve(f, runs, note) \/ Answer(f) \/ CompactNow(f) \/ ContinueRun(f) \/ Retry(f)
             \/ RetryPersistence(f) \/ ResolveCompaction(f, skip) \/ SetSpendCap(f, cap)
      PROVE  FALSE
  BY <1>3 DEF Approve, Answer, CompactNow, ContinueRun, Retry, RetryPersistence, ResolveCompaction, SetSpendCap
<1>4. ASSUME NEW leaf, NEW k, NEW scope, NEW m,
             \/ SetActiveLeaf(leaf) \/ SetQueue(k) \/ Stop(scope) \/ ParkNotice
             \/ RaisePersistenceFault \/ DiscardPersistence \/ SetTriggerMode(m)
      PROVE  FALSE
  BY <1>4 DEF SetActiveLeaf, SetQueue, Stop, StopEffects, ParkNotice, RaisePersistenceFault,
     DiscardPersistence, SetTriggerMode
<1> QED BY <1>1, <1>2, <1>3, <1>4 DEF Person

(* A configuration is adopted only between turns (D-82a), in a session     *)
(* without a spend cap: a turn that rests at the cap is idle and pinned.   *)
THEOREM ConfigurationWaits ==
    ASSUME Unstopped, ~AutoTitle, Caps = {}
    PROVE  Spec => AdoptsAtBoundary
<1>1. ASSUME TypeOK, LoopOK, PinOK, Next, config' # config PROVE turnLeaf = Unpinned
  <2>1. Quiet /\ status = "idle" BY <1>1, LoopKeepsConfig, AdoptionIsIdle DEF Next
  <2>2. ~capReached
    <3>1. spendUsd <= MaxSpend /\ spendCapUsd = MaxSpend + 1 /\ MaxSpend \in Nat /\ spendUsd \in Nat
        BY <1>1, BoundsAssumption DEF TypeOK, ScalarsOK
    <3> QED BY <1>1, <3>1 DEF LoopOK, SessionOK, CapBlocked
  <2>3. \A f \in Activations : ~InLoop(f) BY <1>1, <2>1, ParkedLoop
  <2>4. Unheld
    BY <1>1, <2>1, <2>3 DEF Unheld, OnwardPcs, InLoop, LoopPcs, PinOK, Quiet, StretchPcs
  <2> QED BY <1>1, <2>1, <2>2, <2>4 DEF PinOK, Pinned
<1>2. TypeOK /\ LoopOK /\ PinOK /\ [Next]_vars => [config' # config => turnLeaf = Unpinned]_vars
  BY <1>1 DEF vars
<1>3. StopsFindTheLoop BY DEF StopsFindTheLoop
<1> QED BY <1>2, <1>3, TypeCorrect, LoopInvariance, PinInvariance, PTL DEF Spec, AdoptsAtBoundary

-----------------------------------------------------------------------------
(* Compaction                                                              *)

(* The branch a summary is written of stays the working branch: nobody     *)
(* compacts beside the loop, and where the title of a finished turn may    *)
(* still be asked for, nobody moves the reader's pointer.                  *)
BranchStays == "compactNow" \notin Ops /\ (~AutoTitle \/ "rewind" \notin Ops)

(* Without a rewind the reader follows the turn.                           *)
ViewFollows == "rewind" \notin Ops => WorkingLeaf = activeLeaf

CoverOK ==
    /\ CompactionCoversBranch
    /\ ViewFollows
    /\ \A f \in Activations : act[f].pc \in SummaryPcs => act[f].leaf = WorkingLeaf
    /\ \A f \in Activations : act[f].pc # "compactNow"

LEMMA AppendCovers ==
    ASSUME ConversationOK, NEW e \in Entry, e.kind = "compaction" => e.of = e.parent, Append1(e),
           CompactionCoversBranch, ViewFollows
    PROVE  CompactionCoversBranch' /\ ViewFollows'
<1>1. entries \in Seq(Entry) /\ entries' = Append(entries, e) /\ Len(entries) \in Nat
    BY DEF Append1, ConversationOK
<1>2. \A i \in 1 .. Len(entries') : entries'[i].kind = "compaction" => entries'[i].of = entries'[i].parent
  <2>1. TAKE i \in 1 .. Len(entries')
  <2>2. CASE i = Len(entries) + 1 BY <1>1, <2>2
  <2>3. CASE i # Len(entries) + 1
    <3>1. i \in 1 .. Len(entries) /\ entries'[i] = entries[i] BY <1>1, <2>3
    <3> QED BY <3>1 DEF CompactionCoversBranch
  <2> QED BY <2>2, <2>3
<1>3. ViewFollows' BY <1>1 DEF Append1, ViewFollows, WorkingLeaf
<1> QED BY <1>2, <1>3 DEF CompactionCoversBranch

LEMMA PushUsersCovers ==
    ASSUME ConversationOK, NEW k \in Nat, PushUsers(k), CompactionCoversBranch, ViewFollows
    PROVE  CompactionCoversBranch' /\ ViewFollows'
<1> DEFINE chain == [i \in 1 .. k |-> [kind |-> "user", of |-> 0, n |-> 0,
                      parent |-> IF i = 1 THEN WorkingLeaf ELSE Len(entries) + i - 1]]
<1>1. entries' = entries \o chain /\ entries \in Seq(Entry) /\ Len(entries) \in Nat
    BY DEF PushUsers, PushUsersAt, ConversationOK
<1>2. WorkingLeaf \in 0 .. Len(entries) BY <1>1 DEF WorkingLeaf, ConversationOK, Leaves
<1>3. \A i \in 1 .. k : chain[i] \in Entry /\ chain[i].kind = "user"
    BY <1>1, <1>2 DEF Entry
<1>4. chain \in Seq(Entry) /\ Len(chain) = k
  <2> HIDE DEF chain
  <2>1. chain \in [1 .. k -> Entry] BY <1>3 DEF chain
  <2> QED BY <2>1
<1> HIDE DEF chain
<1>5. \A i \in 1 .. Len(entries') : entries'[i].kind = "compaction" => entries'[i].of = entries'[i].parent
  <2>1. TAKE i \in 1 .. Len(entries')
  <2>2. CASE i \in 1 .. Len(entries)
    <3>1. entries'[i] = entries[i] BY <1>1, <1>4, <2>2
    <3> QED BY <2>2, <3>1 DEF CompactionCoversBranch
  <2>3. CASE i \notin 1 .. Len(entries)
    <3>0. Len(entries') = Len(entries) + k BY <1>1, <1>4, ConcatProperties
    <3>1. i - Len(entries) \in 1 .. k BY <1>1, <2>3, <3>0
    <3>2. entries'[i] = chain[i - Len(entries)] BY <1>1, <1>4, <2>3, <3>0
    <3> QED BY <1>3, <3>1, <3>2
  <2> QED BY <2>2, <2>3
<1>6. ViewFollows' BY <1>1 DEF PushUsers, PushUsersAt, ViewFollows, WorkingLeaf
<1> QED BY <1>5, <1>6 DEF CompactionCoversBranch

LEMMA FlushCovers ==
    ASSUME ConversationOK, ScalarsOK, FlushPendingUser, CompactionCoversBranch, ViewFollows
    PROVE  CompactionCoversBranch' /\ ViewFollows'
<1> DEFINE k == (IF pendingNote THEN 1 ELSE 0) + (IF stopScope = "none" THEN queue ELSE 0)
<1>1. k \in Nat /\ PushUsers(k) BY DEF ScalarsOK, FlushPendingUser
<1> HIDE DEF k
<1> QED BY <1>1, PushUsersCovers

LEMMA PushResultCovers ==
    ASSUME ConversationOK, NEW c \in Call, PushResult(c), CompactionCoversBranch, ViewFollows
    PROVE  CompactionCoversBranch' /\ ViewFollows'
<1> DEFINE e == [kind |-> "tool", parent |-> WorkingLeaf, of |-> c.asst, n |-> c.idx]
<1>1. e \in Entry /\ e.kind = "tool" BY LeafType DEF Entry, Call
<1>2. Append1(e) BY DEF PushResult
<1> HIDE DEF e
<1> QED BY <1>1, <1>2, AppendCovers

LEMMA PushAssistantCovers ==
    ASSUME ConversationOK, NEW n \in Nat, PushAssistant(n), CompactionCoversBranch, ViewFollows
    PROVE  CompactionCoversBranch' /\ ViewFollows'
<1> DEFINE e == [kind |-> "assistant", parent |-> WorkingLeaf, of |-> 0, n |-> n]
<1>1. e \in Entry /\ e.kind = "assistant" BY LeafType DEF Entry
<1>2. Append1(e) BY DEF PushAssistant
<1> HIDE DEF e
<1> QED BY <1>1, <1>2, AppendCovers

LEMMA OutcomeCovers ==
    ASSUME ConversationOK, NEW f \in Activations, NEW ok \in BOOLEAN, CompactionOutcome(f, ok),
           act[f].leaf = WorkingLeaf, CompactionCoversBranch, ViewFollows
    PROVE  CompactionCoversBranch' /\ ViewFollows'
<1> DEFINE e == [kind |-> "compaction", parent |-> WorkingLeaf, of |-> act[f].leaf, n |-> 0]
<1>1. e \in Entry /\ e.of = e.parent BY LeafType DEF Entry
<1>2. CASE ok
  <2>1. Append1(e) BY <1>2 DEF CompactionOutcome, PushCompaction
  <2> HIDE DEF e
  <2> QED BY <1>1, <2>1, AppendCovers
<1>3. CASE ~ok
  BY <1>3 DEF CompactionOutcome, CompactionCoversBranch, ViewFollows, WorkingLeaf
<1> QED BY <1>2, <1>3

LEMMA SameCovers ==
    ASSUME UNCHANGED convVars, CompactionCoversBranch, ViewFollows
    PROVE  CompactionCoversBranch' /\ ViewFollows'
BY DEF CompactionCoversBranch, ViewFollows, WorkingLeaf

LEMMA OpenCovers ==
    ASSUME ConversationOK, NEW f \in Activations, NEW base \in Leaves, OpenTurn(f, base),
           CompactionCoversBranch, ViewFollows
    PROVE  CompactionCoversBranch' /\ ViewFollows'
<1> DEFINE e == [kind |-> "user", parent |-> base, of |-> 0, n |-> 0]
<1>1. entries \in Seq(Entry) /\ entries' = Append(entries, e) /\ Len(entries) \in Nat
       /\ activeLeaf' = Len(entries) + 1 /\ turnLeaf' = Len(entries) + 1
    BY DEF OpenTurn, ConversationOK
<1>2. e \in Entry /\ e.kind = "user" BY <1>1 DEF Entry, Leaves
<1> HIDE DEF e
<1>3. \A i \in 1 .. Len(entries') : entries'[i].kind = "compaction" => entries'[i].of = entries'[i].parent
  <2>1. TAKE i \in 1 .. Len(entries')
  <2>2. CASE i = Len(entries) + 1 BY <1>1, <1>2, <2>2
  <2>3. CASE i # Len(entries) + 1
    <3>1. i \in 1 .. Len(entries) /\ entries'[i] = entries[i] BY <1>1, <1>2, <2>3
    <3> QED BY <3>1 DEF CompactionCoversBranch
  <2> QED BY <2>2, <2>3
<1>4. ViewFollows' BY <1>1 DEF ViewFollows, WorkingLeaf
<1> QED BY <1>3, <1>4 DEF CompactionCoversBranch

(* The owner of the loop moves: the branch it summarizes, if any, is the   *)
(* branch it works on.                                                     *)
LEMMA OwnerCovers ==
    ASSUME CoverOK, NEW f \in Activations, Alone(f), NEW p, Moves(f, p), p # "compactNow",
           p \in SummaryPcs => act'[f].leaf = WorkingLeaf /\ UNCHANGED convVars,
           CompactionCoversBranch', ViewFollows'
    PROVE  CoverOK'
<1>1. p \in SummaryPcs => act'[f].leaf = WorkingLeaf' BY DEF WorkingLeaf
<1>2. \A g \in Activations : act'[g].pc \in SummaryPcs => act'[g].leaf = WorkingLeaf'
  <2>1. TAKE g \in Activations
  <2>2. CASE g = f BY <1>1, <2>2 DEF Moves
  <2>3. CASE g # f BY <2>3 DEF Moves, Alone, InLoop, SummaryPcs, LoopAwaits
  <2> QED BY <2>2, <2>3
<1>3. \A g \in Activations : act'[g].pc # "compactNow" BY DEF Moves, CoverOK
<1> QED BY <1>2, <1>3 DEF CoverOK

LEMMA AdvanceCovers ==
    ASSUME CoverOK, NEW f \in Activations, Alone(f), Advances(f), CompactionCoversBranch', ViewFollows'
    PROVE  CoverOK'
<1>1. PICK p \in OnwardPcs : /\ Moves(f, p)
                             /\ p \in SummaryPcs => act'[f].leaf = WorkingLeaf /\ UNCHANGED convVars
    BY DEF Advances
<1>2. p # "compactNow" BY DEF OnwardPcs, LoopPcs, LoopAwaits, LoopStretches
<1> QED BY <1>1, <1>2, OwnerCovers

(* Another activation moves, or none, and the working leaf stays for       *)
(* whoever is in the loop.                                                 *)
LEMMA AsideCovers ==
    ASSUME CoverOK, CompactionCoversBranch', ViewFollows',
           \A g \in Activations : \/ act'[g].pc \notin SummaryPcs \cup {"compactNow"}
                                  \/ act'[g].pc = act[g].pc /\ act'[g].leaf = act[g].leaf /\ UNCHANGED WorkingLeaf
    PROVE  CoverOK'
BY DEF CoverOK

LEMMA StretchCovers ==
    ASSUME TypeOK, CoverOK, NEW f \in Activations, Stretch(f), act[f].pc \notin {"exit", "drainQueue"}
    PROVE  CompactionCoversBranch' /\ ViewFollows'
<1> USE DEF TypeOK, CoverOK
<1>1. CASE StartLoop(f) BY <1>1, FlushCovers, SameCovers DEF StartLoop, FlushIfDrained
<1>2. CASE BatchDrained(f) BY <1>2, FlushCovers DEF BatchDrained
<1>3. CASE RefuseCall(f) BY <1>3, HeadCall, PushResultCovers DEF RefuseCall, HeadIs
<1>4. CASE \/ ObserveStop(f) \/ PauseForApproval(f) \/ PauseForInput(f) \/ StartTool(f) \/ DeclineAtCap(f)
           \/ RaiseStallPause(f) \/ RaiseCompactionPause(f) \/ StartAutoCompact(f) \/ ProceedToSend(f)
           \/ AskLoopTitle(f) \/ SendRequest(f) \/ Settle(f)
  <2>1. UNCHANGED convVars
    BY <1>4 DEF ObserveStop, PauseForApproval, PauseForInput, StartTool, DeclineAtCap, RaiseStallPause,
       RaiseCompactionPause, StartAutoCompact, ProceedToSend, AskLoopTitle, SendRequest, Settle
  <2> QED BY <2>1, SameCovers
<1>5. CASE DrainQueue(f) \/ Exit(f) BY <1>5 DEF DrainQueue, Exit
<1> QED BY <1>1, <1>2, <1>3, <1>4, <1>5 DEF Stretch

LEMMA CompletionCovers ==
    ASSUME TypeOK, CoverOK, NEW f \in Activations, Completion(f)
    PROVE  CompactionCoversBranch' /\ ViewFollows'
<1> USE DEF TypeOK, CoverOK
<1>1. ASSUME ToolReturns(f) \/ ApprovedToolReturns(f) PROVE CompactionCoversBranch' /\ ViewFollows'
  <2>1. act[f].call \in Call BY DEF ActivationsOK, Activation
  <2> QED BY <1>1, <2>1, PushResultCovers DEF ToolReturns, ApprovedToolReturns
<1>2. ASSUME NEW kinds \in Batches, NEW cut \in BOOLEAN, AnswerLands(f, kinds, cut)
      PROVE  CompactionCoversBranch' /\ ViewFollows'
  BY <1>2, BatchType, PushAssistantCovers DEF AnswerLands
<1>3. ASSUME NEW ok \in BOOLEAN, AutoCompactEnds(f, ok) \/ ForcedCompactEnds(f, ok) \/ ResolvedCompactEnds(f, ok)
      PROVE  CompactionCoversBranch' /\ ViewFollows'
  <2>1. act[f].leaf = WorkingLeaf /\ CompactionOutcome(f, ok)
    BY <1>3 DEF AutoCompactEnds, ForcedCompactEnds, ResolvedCompactEnds, SummaryPcs
  <2> QED BY <2>1, OutcomeCovers
<1>4. ASSUME NEW ok \in BOOLEAN, CompactNowEnds(f, ok) PROVE FALSE BY <1>4 DEF CompactNowEnds
<1>5. ASSUME NEW ok \in BOOLEAN,
             \/ ToolThrows(f) \/ ApprovedToolThrows(f) \/ RequestUnwinds(f) \/ RequestOverWindow(f)
             \/ RequestTransient(f) \/ BackOffEnds(f) \/ RequestFails(f) \/ LoopTitleEnds(f, ok)
             \/ SettleTitleEnds(f, ok) \/ RetryWritesEnds(f, ok)
      PROVE  CompactionCoversBranch' /\ ViewFollows'
  <2>1. UNCHANGED convVars
    BY <1>5 DEF ToolThrows, ApprovedToolThrows, RequestUnwinds, RequestOverWindow, RequestTransient,
       BackOffEnds, RequestFails, LoopTitleEnds, SettleTitleEnds, RetryWritesEnds
  <2> QED BY <2>1, SameCovers
<1> QED BY <1>1, <1>2, <1>3, <1>4, <1>5 DEF Completion

LEMMA OpenKeepsCover ==
    ASSUME TypeOK, CoverOK, NEW f \in Activations, Alone(f), NEW base \in Leaves, OpenTurn(f, base)
    PROVE  CoverOK'
<1>1. Moves(f, "run") BY GotoMoves DEF OpenTurn, TypeOK
<1>2. CompactionCoversBranch' /\ ViewFollows' BY OpenCovers DEF TypeOK, CoverOK
<1> QED BY <1>1, <1>2, OwnerCovers DEF SummaryPcs

(* Nobody takes up a summary, and no entry, leaf or pin changes.           *)
LEMMA StayCovers ==
    ASSUME CoverOK, UNCHANGED convVars,
           \A g \in Activations : \/ act'[g].pc \notin SummaryPcs \cup {"compactNow"}
                                  \/ act'[g].pc = act[g].pc /\ act'[g].leaf = act[g].leaf
    PROVE  CoverOK'
BY SameCovers, AsideCovers DEF CoverOK, WorkingLeaf

LEMMA ProgressCover ==
    ASSUME BranchStays, TypeOK, LoopOK, ~AutoTitle => PinOK, CoverOK, NEW f \in Activations, Progress(f)
    PROVE  CoverOK'
<1> USE DEF TypeOK
<1>1. CASE Stretch(f) /\ act[f].pc \notin {"exit", "drainQueue"}
  <2>1. Advances(f) /\ InLoop(f) BY <1>1, StretchAdvances
  <2>2. CompactionCoversBranch' /\ ViewFollows' BY <1>1, StretchCovers
  <2> QED BY <2>1, <2>2, LoopIsAlone, AdvanceCovers
<1>2. CASE Stretch(f) /\ act[f].pc = "drainQueue"
  <2>1. DrainQueue(f) BY <1>2 DEF Stretch, StartLoop, ObserveStop, BatchDrained, RefuseCall, PauseForApproval,
           PauseForInput, StartTool, DeclineAtCap, RaiseStallPause, RaiseCompactionPause, StartAutoCompact,
           ProceedToSend, AskLoopTitle, SendRequest, Settle, Exit, HeadIs, Draining, ToSend, AtBoundary
  <2>2. CASE MayDrain /\ queue > 0
    <3>1. Alone(f) BY <1>2, <2>2, IdleIsAlone DEF MayDrain, StretchPcs, InLoop, LoopAwaits, LoopStretches
    <3> QED BY <2>1, <2>2, <3>1, LeafType, OpenKeepsCover DEF DrainQueue
  <2>3. CASE ~(MayDrain /\ queue > 0)
    <3>1. Moves(f, "exit") /\ UNCHANGED convVars BY <2>1, <2>3, GotoMoves DEF DrainQueue
    <3> QED BY <3>1, StayCovers DEF Moves, SummaryPcs
  <2> QED BY <2>2, <2>3
<1>3. CASE Stretch(f) /\ act[f].pc = "exit"
  <2>1. Exit(f) BY <1>3 DEF Stretch, StartLoop, ObserveStop, BatchDrained, RefuseCall, PauseForApproval,
           PauseForInput, StartTool, DeclineAtCap, RaiseStallPause, RaiseCompactionPause, StartAutoCompact,
           ProceedToSend, AskLoopTitle, SendRequest, Settle, DrainQueue, HeadIs, Draining, ToSend, AtBoundary
  <2>2. Moves(f, "free") /\ entries' = entries /\ activeLeaf' = activeLeaf /\ turnLeaf' \in {turnLeaf, Unpinned}
    BY <2>1, GotoMoves DEF Exit
  <2>3. CompactionCoversBranch' /\ ViewFollows'
    BY <2>2 DEF CoverOK, CompactionCoversBranch, ViewFollows, WorkingLeaf
  <2>4. CASE AutoTitle
    <3>1. WorkingLeaf' = WorkingLeaf BY <2>2, <2>4 DEF BranchStays, CoverOK, ViewFollows, WorkingLeaf
    <3> QED BY <2>2, <2>3, <3>1, AsideCovers DEF Moves, SummaryPcs
  <2>5. CASE ~AutoTitle
    <3>1. \A g \in Activations : act[g].pc \notin SummaryPcs
        BY <1>3, <2>5, LeaversAreAlone DEF InLoop, SummaryPcs, LoopAwaits
    <3> QED BY <2>2, <2>3, <3>1, AsideCovers DEF Moves, SummaryPcs, CoverOK
  <2> QED BY <2>4, <2>5
<1>4. CASE Quiet /\ Completion(f) /\ InLoop(f)
  <2>1. Alone(f) BY <1>4, LoopIsAlone
  <2>2. CompactionCoversBranch' /\ ViewFollows' BY <1>4, CompletionCovers
  <2>3. CASE Advances(f) BY <2>1, <2>2, <2>3, AdvanceCovers
  <2>4. CASE Moves(f, "free") BY <2>1, <2>2, <2>4, OwnerCovers DEF SummaryPcs
  <2> QED BY <1>4, <2>3, <2>4, CompletionAdvances DEF GoesOn
<1>5. CASE Quiet /\ Completion(f) /\ ~InLoop(f)
  <2>1. PICK ok \in BOOLEAN : SettleTitleEnds(f, ok)
    <3>1. act[f].pc \notin LoopPcs \cup {"compactNow", "retryWrites"}
        BY <1>5 DEF CoverOK, InLoop, LoopPcs, LoopOK, PointOK
    <3> QED BY <1>5, <3>1 DEF Completion, LoopPcs, LoopAwaits, ToolReturns, ToolThrows, ApprovedToolReturns,
           ApprovedToolThrows, AnswerLands, RequestUnwinds, RequestOverWindow, RequestTransient, BackOffEnds,
           RequestFails, AutoCompactEnds, LoopTitleEnds, CompactNowEnds, ForcedCompactEnds, ResolvedCompactEnds,
           RetryWritesEnds
  <2>2. Moves(f, "drainQueue") /\ UNCHANGED convVars BY <2>1, GotoMoves DEF SettleTitleEnds
  <2> QED BY <2>2, StayCovers DEF Moves, SummaryPcs
<1> QED BY <1>1, <1>2, <1>3, <1>4, <1>5 DEF Progress

LEMMA PersonCover ==
    ASSUME StopsFindTheLoop, BranchStays, TypeOK, LoopOK, ~AutoTitle => PinOK, CoverOK, Person
    PROVE  CoverOK'
<1> USE DEF TypeOK
<1>0. CompactionCoversBranch /\ ViewFollows BY DEF CoverOK
<1>1. ASSUME NEW f \in Activations, NEW c \in Configs, Send(f, c) PROVE CoverOK'
  <2>1. Alone(f) BY <1>1, IdleIsAlone DEF Send, Asked, Free, CanSend, InLoop, LoopAwaits, LoopStretches
  <2> QED BY <1>1, <2>1, LeafType, OpenKeepsCover DEF Send
<1>2. ASSUME NEW f \in Activations, NEW c \in Configs, Enqueue(f, c) PROVE CoverOK'
  <2>1. CASE MayDrain
    <3>1. Alone(f) BY <1>2, <2>1, IdleIsAlone DEF Enqueue, Asked, Free, MayDrain, InLoop, LoopAwaits, LoopStretches
    <3> QED BY <1>2, <2>1, <3>1, LeafType, OpenKeepsCover DEF Enqueue
  <2>2. CASE ~MayDrain BY <1>2, <2>2, StayCovers DEF Enqueue
  <2> QED BY <2>1, <2>2
<1>3. ASSUME NEW f \in Activations, NEW e \in 1 .. Len(entries), EditFork(f, e) PROVE CoverOK'
  <2>1. Alone(f) BY <1>3, IdleIsAlone DEF EditFork, Asked, Free, CanSend, InLoop, LoopAwaits, LoopStretches
  <2>2. entries[e].parent \in Leaves BY ParentType
  <2> QED BY <1>3, <2>1, <2>2, OpenKeepsCover DEF EditFork
<1>4. ASSUME NEW f \in Activations, NEW runs \in BOOLEAN, NEW note \in BOOLEAN, Approve(f, runs, note)
      PROVE  CoverOK'
  <2>1. Quiet /\ Alone(f) BY <1>4, ParkedLoop DEF Approve, Asked, Alone
  <2>2. CASE runs
    <3>1. Moves(f, "approvedTool") /\ UNCHANGED convVars
        BY <1>4, <2>2 DEF Approve, Moves, ActivationsOK, Activation, Fresh
    <3> QED BY <3>1, StayCovers DEF Moves, SummaryPcs
  <2>3. CASE ~runs
    <3>1. Moves(f, "run") BY <1>4, <2>3, GotoMoves DEF Approve
    <3>2. CompactionCoversBranch' /\ ViewFollows' BY <1>0, <1>4, <2>3, PushResultCovers DEF Approve, CallsOK
    <3> QED BY <2>1, <3>1, <3>2, OwnerCovers DEF SummaryPcs
  <2> QED BY <2>2, <2>3
<1>5. ASSUME NEW f \in Activations, Answer(f) PROVE CoverOK'
  <2>1. Alone(f) BY <1>5, IdleIsAlone DEF Answer, Asked, Free, InLoop, LoopAwaits, LoopStretches
  <2>2. Moves(f, "run") BY <1>5, GotoMoves DEF Answer
  <2>3. CompactionCoversBranch' /\ ViewFollows' BY <1>0, <1>5, PushResultCovers DEF Answer, CallsOK
  <2> QED BY <2>1, <2>2, <2>3, OwnerCovers DEF SummaryPcs
<1>6. ASSUME NEW f \in Activations, CompactNow(f) PROVE CoverOK' BY <1>6 DEF CompactNow, Asked, BranchStays
<1>7. ASSUME NEW f \in Activations, ContinueRun(f) PROVE CoverOK'
  <2>1. Moves(f, "run") /\ UNCHANGED convVars BY <1>7, GotoMoves DEF ContinueRun
  <2> QED BY <2>1, StayCovers DEF Moves, SummaryPcs
<1>8. ASSUME NEW f \in Activations, Retry(f) PROVE CoverOK'
  <2>1. Quiet /\ UNCHANGED <<status, entries, activeLeaf>> BY <1>8 DEF Retry, Asked
  <2>2. CASE status = "running" /\ streaming /\ restartRequested' = TRUE
               /\ act' = [g \in Activations |-> [act[g] EXCEPT
                       !.aborted = @ \/ (g = abortController /\ act[g].pc = "llm")]]
               /\ UNCHANGED <<stopScope, turnLeaf, healthVars>>
    <3>1. \A g \in Activations : act'[g].pc = act[g].pc /\ act'[g].leaf = act[g].leaf
        BY <2>2 DEF ActivationsOK, Activation
    <3> QED BY <2>1, <2>2, <3>1, StayCovers
  <2>3. CASE Free(f) /\ status \in {"idle", "halted"} /\ turnLeaf' = activeLeaf /\ Goto(f, "run")
    <3>1. Alone(f) BY <2>1, <2>3, IdleIsAlone DEF Free, InLoop, LoopAwaits, LoopStretches
    <3>2. Moves(f, "run") BY <2>3, GotoMoves
    <3>3. CompactionCoversBranch' /\ ViewFollows'
        BY <1>0, <2>1, <2>3 DEF CompactionCoversBranch, ViewFollows, WorkingLeaf
    <3> QED BY <3>1, <3>2, <3>3, OwnerCovers DEF SummaryPcs
  <2> QED BY <1>8, <2>2, <2>3, Zenon DEF Retry
<1>9. ASSUME NEW f \in Activations, RetryPersistence(f) PROVE CoverOK'
  <2>1. Moves(f, "retryWrites") /\ UNCHANGED convVars BY <1>9, GotoMoves DEF RetryPersistence
  <2> QED BY <2>1, StayCovers DEF Moves, SummaryPcs
<1>10. ASSUME NEW f \in Activations, NEW skip \in BOOLEAN, ResolveCompaction(f, skip) PROVE CoverOK'
  <2>1. Alone(f) /\ UNCHANGED convVars BY <1>10, ParkedLoop DEF ResolveCompaction, Asked, Alone
  <2>2. CASE skip /\ pendingCompaction = "cancelable"
    <3>1. Moves(f, "run") BY <1>10, <2>2, GotoMoves DEF ResolveCompaction
    <3> QED BY <2>1, <3>1, StayCovers DEF Moves, SummaryPcs
  <2>3. CASE ~(skip /\ pendingCompaction = "cancelable")
    <3>1. Moves(f, "resolvedCompact") /\ act'[f].leaf = WorkingLeaf
        BY <1>10, <2>3 DEF ResolveCompaction, Moves, ActivationsOK, Activation, Fresh
    <3> QED BY <1>0, <2>1, <3>1, SameCovers, OwnerCovers
  <2> QED BY <2>2, <2>3
<1>11. ASSUME NEW f \in Activations, NEW cap \in Caps \cup {NoCap}, SetSpendCap(f, cap) PROVE CoverOK'
  <2>1. CASE capReached /\ spendUsd < cap
    <3>1. Moves(f, "run") /\ UNCHANGED convVars BY <1>11, <2>1, GotoMoves DEF SetSpendCap
    <3> QED BY <3>1, StayCovers DEF Moves, SummaryPcs
  <2>2. CASE ~(capReached /\ spendUsd < cap) BY <1>11, <2>2, StayCovers DEF SetSpendCap
  <2> QED BY <2>1, <2>2
<1>12. ASSUME NEW leaf \in 1 .. Len(entries), SetActiveLeaf(leaf) PROVE CoverOK'
  <2>1. PinOK /\ "rewind" \in Ops BY <1>12 DEF SetActiveLeaf, Asked, BranchStays
  <2>2. UNCHANGED <<entries, turnLeaf, act>> BY <1>12 DEF SetActiveLeaf
  <2>3. CompactionCoversBranch' /\ ViewFollows' BY <1>0, <2>1, <2>2 DEF CompactionCoversBranch, ViewFollows
  <2>4. ASSUME NEW g \in Activations, act[g].pc \in SummaryPcs PROVE UNCHANGED WorkingLeaf
    <3>1. turnLeaf # Unpinned BY <2>1, <2>4 DEF PinOK, Pinned, InLoop, SummaryPcs, LoopAwaits
    <3> QED BY <2>2, <3>1 DEF WorkingLeaf
  <2> QED BY <2>2, <2>3, <2>4, AsideCovers DEF CoverOK
<1>13. ASSUME NEW k \in 0 .. MaxQueue, SetQueue(k) PROVE CoverOK'
  BY <1>13, StayCovers DEF SetQueue
<1>14. ASSUME NEW scope \in {"soft", "hard"}, NEW pp, StopEffects(scope, pp) PROVE CoverOK'
  <2>1. \A g \in Activations : act'[g].pc = act[g].pc /\ act'[g].leaf = act[g].leaf
    <3>1. CASE scope = "hard" BY <1>14, <3>1 DEF StopEffects, ActivationsOK, Activation
    <3>2. CASE scope # "hard" BY <1>14, <3>2 DEF StopEffects
    <3> QED BY <3>1, <3>2
  <2> QED BY <1>14, <2>1, StayCovers DEF StopEffects
<1>15. CASE ParkNotice BY <1>15, StayCovers DEF ParkNotice
<1>16. CASE RaisePersistenceFault
  <2>1. CASE pendingPersistence \/ status # "running"
    BY <1>16, <2>1, StayCovers DEF RaisePersistenceFault
  <2>2. CASE ~(pendingPersistence \/ status # "running")
    BY <1>14, <1>16, <2>2 DEF RaisePersistenceFault
  <2> QED BY <2>1, <2>2
<1>17. CASE DiscardPersistence BY <1>17, StayCovers DEF DiscardPersistence
<1>18. ASSUME NEW m \in TriggerModes, SetTriggerMode(m) PROVE CoverOK'
  BY <1>18, StayCovers DEF SetTriggerMode
<1>19. ASSUME NEW scope \in {"soft", "hard"}, Stop(scope) PROVE CoverOK' BY <1>14, <1>19 DEF Stop
<1> QED BY <1>1, <1>2, <1>3, <1>4, <1>5, <1>6, <1>7, <1>8, <1>9, <1>10, <1>11, <1>12, <1>13, <1>15,
           <1>16, <1>17, <1>18, <1>19 DEF Person

LEMMA CoverInit == ASSUME Init PROVE CoverOK
<1>1. \A f \in Activations : act[f].pc = "free" BY DEF Init, Fresh
<1> QED BY <1>1 DEF Init, CoverOK, CompactionCoversBranch, ViewFollows, WorkingLeaf, SummaryPcs

(* Untitled turns keep the pin; nothing is assumed of the others.          *)
LEMMA PinWhereUntitled ==
    ASSUME StopsFindTheLoop
    PROVE  Spec => [](~AutoTitle => PinOK)
<1>1. CASE AutoTitle
  <2>1. ~AutoTitle => PinOK BY <1>1
  <2> QED BY <2>1, PTL
<1>2. CASE ~AutoTitle
  <2>1. PinOK => (~AutoTitle => PinOK) OBVIOUS
  <2> QED BY <1>2, <2>1, PinInvariance, PTL
<1> QED BY <1>1, <1>2

(* A summary under way is of the branch the session works on.              *)
THEOREM CoverInvariance ==
    ASSUME StopsFindTheLoop, BranchStays
    PROVE  Spec => []CoverOK
<1>1. Init => CoverOK BY CoverInit
<1>2. TypeOK /\ LoopOK /\ (~AutoTitle => PinOK) /\ CoverOK /\ [Next]_vars => CoverOK'
  <2>1. CASE UNCHANGED vars BY <2>1, StayCovers DEF vars
  <2> QED BY <2>1, PersonCover, ProgressCover DEF Next
<1> QED BY <1>1, <1>2, PinWhereUntitled, TypeCorrect, LoopInvariance, PTL DEF Spec

(* A compaction overlay stands for exactly the branch above it, where      *)
(* nobody compacts beside the loop.                                        *)
THEOREM SummariesCoverTheirBranch ==
    ASSUME StopsFindTheLoop, BranchStays
    PROVE  Spec => []CompactionCoversBranch
<1>1. CoverOK => CompactionCoversBranch BY DEF CoverOK
<1> QED BY <1>1, CoverInvariance, PTL

-----------------------------------------------------------------------------
(* What a turn takes                                                       *)

(* Spending beside the loop cannot reach a cap between the check and the   *)
(* call: no compaction runs there, or no cap can be set.                   *)
CheckedSpend == "auto" \notin TriggerModes \/ Caps = {}

(* What an activation that stands at p has been granted.                   *)
GrantedAt(p) ==
    /\ p \in {"title", "autoCompact"} => toolRounds < iterationBudget
    /\ p = "autoCompact" => "auto" \in TriggerModes
    /\ p = "title" => ~CapBlocked
    /\ p = "run" => consecutiveFailures < MaxFailures

HealthOK ==
    /\ status # "halted" => consecutiveFailures < MaxFailures
    /\ capReached => status # "halted"

GrantsOK == HealthOK /\ \A f \in Activations : GrantedAt(act[f].pc)

GrantPcs == {"run", "title", "autoCompact"}

LEMMA OwnerGrants ==
    ASSUME NEW f \in Activations, Alone(f), NEW p, Moves(f, p), HealthOK', GrantedAt(p)'
    PROVE  GrantsOK'
<1>1. ASSUME NEW g \in Activations PROVE GrantedAt(act[g].pc)'
  <2>1. CASE g = f BY <2>1 DEF Moves, GrantedAt, CapBlocked
  <2>2. CASE g # f
    <3>1. act'[g].pc \notin GrantPcs BY <2>2 DEF Moves, Alone, InLoop, GrantPcs, LoopAwaits, LoopStretches
    <3> QED BY <3>1 DEF GrantedAt, GrantPcs
  <2> QED BY <2>1, <2>2
<1> QED BY <1>1 DEF GrantsOK

LEMMA AsideGrants ==
    ASSUME LoopOK, GrantsOK, NEW f \in Activations, NEW p, Moves(f, p), Quiet \/ act[f].pc \in StretchPcs,
           p \notin GrantPcs, UNCHANGED <<status, capReached, budgetVars, healthVars>>
    PROVE  GrantsOK'
<1>1. ASSUME NEW g \in Activations PROVE GrantedAt(act[g].pc)'
  <2>1. CASE g = f BY <2>1 DEF Moves, GrantedAt, GrantPcs
  <2>2. CASE g # f
    <3>1. act'[g].pc = act[g].pc /\ act[g].pc # "title"
        BY <2>2 DEF Moves, LoopOK, OneStretch, Quiet, StretchPcs, LoopStretches
    <3> QED BY <3>1 DEF GrantsOK, GrantedAt
  <2> QED BY <2>1, <2>2
<1> QED BY <1>1 DEF GrantsOK, HealthOK

LEMMA NobodyGrants ==
    ASSUME GrantsOK, Quiet, \A g \in Activations : act'[g].pc = act[g].pc,
           UNCHANGED <<status, capReached, budgetVars, healthVars>>
    PROVE  GrantsOK'
BY DEF GrantsOK, HealthOK, GrantedAt, Quiet, StretchPcs, LoopStretches

LEMMA NoResultGrants ==
    ASSUME Unstopped, TypeOK, LoopOK, NEW f \in Activations, Alone(f), NEW st, NoResult(f, st), ~capReached',
           st # "halted" => consecutiveFailures' < MaxFailures
    PROVE  GrantsOK'
<1>1. \E p \in {"request", "exit"} : Moves(f, p) BY GotoMoves DEF NoResult, TypeOK
<1>2. stopScope = "none" BY DEF LoopOK, SessionOK
<1>3. status' = st BY <1>2 DEF NoResult
<1>4. HealthOK' BY <1>3 DEF HealthOK
<1> QED BY <1>1, <1>4, OwnerGrants DEF GrantedAt

LEMMA OpenGrants ==
    ASSUME TypeOK, LoopOK, GrantsOK, NEW f \in Activations, Alone(f), NEW base, OpenTurn(f, base),
           status # "halted"
    PROVE  GrantsOK'
<1>1. Moves(f, "run") BY GotoMoves DEF OpenTurn, TypeOK
<1>2. UNCHANGED <<status, capReached, consecutiveFailures>> BY DEF OpenTurn
<1> QED BY <1>1, <1>2, OwnerGrants DEF GrantsOK, HealthOK, GrantedAt

LEMMA StretchGrants ==
    ASSUME Unstopped, TypeOK, LoopOK, GrantsOK, NEW f \in Activations, Stretch(f)
    PROVE  GrantsOK'
<1> USE DEF TypeOK
<1>0. PointOK(act[f].pc) /\ HealthOK /\ GrantedAt(act[f].pc) /\ stopScope = "none"
  BY DEF LoopOK, GrantsOK, SessionOK
<1>1. CASE StartLoop(f)
  <2>1. Alone(f) /\ Moves(f, "top") BY <1>1, LoopIsAlone, GotoMoves DEF StartLoop, InLoop, LoopStretches
  <2>2. HealthOK' BY <1>0, <1>1 DEF StartLoop, HealthOK, GrantedAt
  <2> QED BY <2>1, <2>2, OwnerGrants DEF GrantedAt
<1>2. CASE ObserveStop(f) BY <1>0, <1>2 DEF ObserveStop
<1>3. CASE BatchDrained(f) \/ RefuseCall(f) \/ StartTool(f)
  <2>1. Alone(f) BY <1>3, LoopIsAlone DEF BatchDrained, RefuseCall, StartTool, HeadIs, Draining, InLoop, LoopStretches
  <2>2. \E p \in {"boundary", "drain", "tool"} : Moves(f, p)
    BY <1>3, GotoMoves, ZenonT(60) DEF BatchDrained, RefuseCall, StartTool, Moves, ActivationsOK, Activation, Fresh
  <2>3. HealthOK' BY <1>0, <1>3 DEF BatchDrained, RefuseCall, StartTool, HealthOK
  <2> QED BY <2>1, <2>2, <2>3, OwnerGrants DEF GrantedAt
<1>4. CASE PauseForApproval(f) \/ PauseForInput(f) \/ DeclineAtCap(f) \/ RaiseStallPause(f)
             \/ RaiseCompactionPause(f) \/ Settle(f)
  <2>1. InLoop(f) /\ act[f].pc \in {"top", "drain", "boundary", "settled"}
    BY <1>4 DEF PauseForApproval, PauseForInput, DeclineAtCap, RaiseStallPause, RaiseCompactionPause, Settle,
       HeadIs, Draining, ToSend, AtBoundary, InLoop, LoopStretches
  <2>2. status = "running"
    BY <1>0, <2>1 DEF PointOK, RunningPcs, LoopPcs, LoopAwaits, LoopStretches
  <2>3. \E p \in {"exit", "settleTitle", "drainQueue"} : Moves(f, p)
    BY <1>4, GotoMoves DEF PauseForApproval, PauseForInput, DeclineAtCap, RaiseStallPause,
       RaiseCompactionPause, Settle
  <2>4. status' # "halted" /\ UNCHANGED consecutiveFailures
    BY <1>4 DEF PauseForApproval, PauseForInput, DeclineAtCap, RaiseStallPause, RaiseCompactionPause, Settle,
       SettleNormally
  <2>5. HealthOK' BY <1>0, <2>2, <2>4 DEF HealthOK
  <2> QED BY <2>1, <2>3, <2>5, LoopIsAlone, OwnerGrants DEF GrantedAt
<1>5. CASE StartAutoCompact(f) \/ ProceedToSend(f)
  <2>1. Alone(f) BY <1>5, LoopIsAlone DEF StartAutoCompact, ProceedToSend, ToSend, AtBoundary, InLoop, LoopStretches
  <2>2. HealthOK' BY <1>0, <1>5 DEF StartAutoCompact, ProceedToSend, HealthOK
  <2>3. CASE StartAutoCompact(f)
    <3>1. Moves(f, "autoCompact") BY <2>3 DEF StartAutoCompact, Moves, ActivationsOK, Activation, Fresh
    <3>2. GrantedAt("autoCompact")' BY <2>3 DEF StartAutoCompact, ToSend, GrantedAt, ScalarsOK
    <3> QED BY <2>1, <2>2, <3>1, <3>2, OwnerGrants
  <2>4. CASE ProceedToSend(f)
    <3>1. Moves(f, "title") BY <2>4, GotoMoves DEF ProceedToSend
    <3>2. GrantedAt("title")' BY <2>4 DEF ProceedToSend, ToSend, GrantedAt, CapBlocked
    <3> QED BY <2>1, <2>2, <3>1, <3>2, OwnerGrants
  <2> QED BY <1>5, <2>3, <2>4
<1>6. CASE AskLoopTitle(f) \/ SendRequest(f)
  <2>1. Alone(f) BY <1>6, LoopIsAlone DEF AskLoopTitle, SendRequest, InLoop, LoopStretches
  <2>2. \E p \in {"loopTitle", "llm"} : Moves(f, p)
    BY <1>6, GotoMoves, ZenonT(60) DEF AskLoopTitle, SendRequest, Moves, ActivationsOK, Activation, Fresh
  <2>3. HealthOK' BY <1>0, <1>6 DEF AskLoopTitle, SendRequest, HealthOK
  <2> QED BY <2>1, <2>2, <2>3, OwnerGrants DEF GrantedAt
<1>7. CASE DrainQueue(f)
  <2>1. CASE MayDrain /\ queue > 0
    <3>1. Alone(f)
        BY <1>7, <2>1, IdleIsAlone DEF DrainQueue, MayDrain, StretchPcs, InLoop, LoopAwaits, LoopStretches
    <3> QED BY <1>7, <2>1, <3>1, OpenGrants DEF DrainQueue, MayDrain
  <2>2. CASE ~(MayDrain /\ queue > 0)
    <3>1. Moves(f, "exit") BY <1>7, <2>2, GotoMoves DEF DrainQueue
    <3> QED BY <1>7, <2>2, <3>1, AsideGrants DEF DrainQueue, StretchPcs, GrantPcs
  <2> QED BY <2>1, <2>2
<1>8. CASE Exit(f)
  <2>1. Moves(f, "free") BY <1>8, GotoMoves DEF Exit
  <2> QED BY <1>8, <2>1, AsideGrants DEF Exit, StretchPcs, GrantPcs
<1> QED BY <1>1, <1>2, <1>3, <1>4, <1>5, <1>6, <1>7, <1>8 DEF Stretch

LEMMA CompletionGrants ==
    ASSUME Unstopped, CheckedSpend, MaxFailures > 0, TypeOK, LoopOK, GrantsOK, Quiet,
           NEW f \in Activations, Completion(f)
    PROVE  GrantsOK'
<1> USE DEF TypeOK
<1>0. /\ PointOK(act[f].pc) /\ HealthOK /\ GrantedAt(act[f].pc) /\ stopScope = "none"
      /\ act[f].pc \in LoopPcs => Alone(f)
      /\ act[f].pc \in DrainedPcs => (capReached => act[f].pc = "boundary")
  BY LoopIsAlone DEF LoopOK, GrantsOK, SessionOK, InLoop, LoopPcs, PointOK, DrainedPcs, LoopAwaits, LoopStretches
<1> USE DEF LoopPcs, LoopAwaits
<1>1. CASE ToolReturns(f)
  <2>1. Moves(f, "drain") BY <1>0, <1>1, GotoMoves DEF ToolReturns
  <2>2. HealthOK' /\ Alone(f) BY <1>0, <1>1 DEF ToolReturns, HealthOK
  <2> QED BY <2>1, <2>2, OwnerGrants DEF GrantedAt
<1>2. CASE ToolThrows(f)
  <2>1. Moves(f, "exit") BY <1>2, GotoMoves DEF ToolThrows
  <2> QED BY <1>2, <2>1, AsideGrants DEF ToolThrows, GrantPcs
<1>3. ASSUME NEW ok \in BOOLEAN, AutoCompactEnds(f, ok) PROVE GrantsOK'
  <2>1. Moves(f, "title") BY <1>0, <1>3, GotoMoves DEF AutoCompactEnds
  <2>2. HealthOK' /\ Alone(f) BY <1>0, <1>3 DEF AutoCompactEnds, HealthOK
  <2>3. ~CapBlocked'
    <3>1. Caps = {} BY <1>0, <1>3 DEF AutoCompactEnds, GrantedAt, CheckedSpend
    <3>2. spendCapUsd' = MaxSpend + 1 /\ spendUsd' \in 0 .. MaxSpend
        BY <1>3, <3>1, BoundsAssumption DEF AutoCompactEnds, CompactionOutcome, Spend, ScalarsOK
    <3> QED BY <3>2, BoundsAssumption DEF CapBlocked
  <2>4. GrantedAt("title")' BY <1>0, <1>3, <2>3 DEF AutoCompactEnds, GrantedAt
  <2> QED BY <2>1, <2>2, <2>4, OwnerGrants
<1>4. ASSUME NEW ok \in BOOLEAN, LoopTitleEnds(f, ok) PROVE GrantsOK'
  <2>1. Moves(f, "request") BY <1>4, GotoMoves DEF LoopTitleEnds
  <2> QED BY <1>4, <2>1, AsideGrants DEF LoopTitleEnds, GrantPcs
<1>5. CASE ApprovedToolReturns(f)
  <2>1. Moves(f, "run") BY <1>5, GotoMoves DEF ApprovedToolReturns
  <2>2. status = "awaiting-approval" /\ Alone(f) BY <1>0, <1>5 DEF ApprovedToolReturns, PointOK
  <2>3. HealthOK' /\ GrantedAt("run")' BY <1>0, <1>5, <2>2 DEF ApprovedToolReturns, HealthOK, GrantedAt
  <2> QED BY <2>1, <2>2, <2>3, OwnerGrants
<1>6. CASE ApprovedToolThrows(f)
  <2>1. Moves(f, "free") BY <1>6, GotoMoves DEF ApprovedToolThrows
  <2> QED BY <1>6, <2>1, AsideGrants DEF ApprovedToolThrows, GrantPcs
<1>7. ASSUME NEW ok \in BOOLEAN, ResolvedCompactEnds(f, ok) PROVE GrantsOK'
  <2>1. Moves(f, "run") BY <1>0, <1>7, GotoMoves DEF ResolvedCompactEnds
  <2>2. status = "awaiting-compaction" /\ Alone(f) BY <1>0, <1>7 DEF ResolvedCompactEnds, PointOK
  <2>3. HealthOK' /\ GrantedAt("run")' BY <1>0, <1>7, <2>2 DEF ResolvedCompactEnds, HealthOK, GrantedAt
  <2> QED BY <2>1, <2>2, <2>3, OwnerGrants
<1>8. ASSUME NEW kinds \in Batches, NEW cut \in BOOLEAN, AnswerLands(f, kinds, cut) PROVE GrantsOK'
  <2>1. \E p \in {"settled", "top"} : Moves(f, p) BY <1>8, GotoMoves DEF AnswerLands
  <2>2. Alone(f) /\ ~capReached BY <1>0, <1>8 DEF AnswerLands, DrainedPcs
  <2>3. HealthOK' BY <1>8, <2>2, BoundsAssumption DEF AnswerLands, HealthOK
  <2> QED BY <2>1, <2>2, <2>3, OwnerGrants DEF GrantedAt
<1>9. CASE RequestUnwinds(f)
  <2>1. NoResult(f, status) /\ ~capReached /\ Alone(f) /\ status = "running"
    BY <1>0, <1>9 DEF RequestUnwinds, DrainedPcs, PointOK, RunningPcs
  <2> QED BY <1>0, <1>9, <2>1, NoResultGrants DEF RequestUnwinds, HealthOK
<1>10. CASE RequestOverWindow(f)
  <2>1. ~capReached /\ Alone(f) /\ status = "running" /\ UNCHANGED <<capReached, consecutiveFailures>>
    BY <1>0, <1>10 DEF RequestOverWindow, DrainedPcs, PointOK, RunningPcs
  <2>2. CASE act[f].again
    <3>1. NoResult(f, "idle") BY <1>10, <2>2 DEF RequestOverWindow
    <3> QED BY <1>0, <2>1, <3>1, NoResultGrants DEF HealthOK
  <2>3. CASE ~act[f].again
    <3>1. Moves(f, "forcedCompact")
        BY <1>0, <1>10, <2>3 DEF RequestOverWindow, Moves, ActivationsOK, Activation, Fresh
    <3>2. HealthOK' BY <1>0, <1>10, <2>1, <2>3 DEF RequestOverWindow, HealthOK
    <3> QED BY <2>1, <3>1, <3>2, OwnerGrants DEF GrantedAt
  <2> QED BY <2>2, <2>3
<1>11. ASSUME NEW ok \in BOOLEAN, ForcedCompactEnds(f, ok) PROVE GrantsOK'
  <2>1. ~capReached /\ Alone(f) /\ status = "running" /\ UNCHANGED <<capReached, consecutiveFailures>>
    BY <1>0, <1>11 DEF ForcedCompactEnds, DrainedPcs, PointOK, RunningPcs
  <2>2. CASE ~ok
    <3>1. NoResult(f, "idle") BY <1>0, <1>11, <2>2 DEF ForcedCompactEnds
    <3> QED BY <1>0, <2>1, <3>1, NoResultGrants DEF HealthOK
  <2>3. CASE ok
    <3>1. Moves(f, "llm")
        BY <1>0, <1>11, <2>3 DEF ForcedCompactEnds, Moves, ActivationsOK, Activation, Fresh
    <3>2. HealthOK' BY <1>0, <1>11, <2>1, <2>3 DEF ForcedCompactEnds, HealthOK
    <3> QED BY <2>1, <3>1, <3>2, OwnerGrants DEF GrantedAt
  <2> QED BY <2>2, <2>3
<1>12. CASE RequestFails(f)
  <2>1. /\ NoResult(f, (IF BreakerTrips THEN "halted" ELSE "idle"))
        /\ ~capReached /\ Alone(f) /\ capReached' = capReached
        /\ consecutiveFailures' = consecutiveFailures + 1
    BY <1>0, <1>12 DEF RequestFails, DrainedPcs
  <2>2. ~BreakerTrips => consecutiveFailures' < MaxFailures
    BY <2>1, BoundsAssumption DEF BreakerTrips, ScalarsOK
  <2> QED BY <2>1, <2>2, NoResultGrants
<1>13. CASE RequestTransient(f)
  <2>1. Moves(f, "backoff") BY <1>13 DEF RequestTransient, Moves, ActivationsOK, Activation, Fresh
  <2> QED BY <1>13, <2>1, AsideGrants DEF RequestTransient, GrantPcs
<1>14. CASE BackOffEnds(f)
  <2>1. ~capReached /\ Alone(f) /\ status = "running" /\ UNCHANGED <<capReached, consecutiveFailures>>
    BY <1>0, <1>14 DEF BackOffEnds, DrainedPcs, PointOK, RunningPcs
  <2>2. CASE Interrupted
    <3>1. NoResult(f, status) BY <1>14, <2>2 DEF BackOffEnds
    <3> QED BY <1>0, <2>1, <3>1, NoResultGrants DEF HealthOK
  <2>3. CASE ~Interrupted
    <3>1. Moves(f, "llm") BY <1>14, <2>3 DEF BackOffEnds, Moves, ActivationsOK, Activation, Fresh
    <3> QED BY <1>14, <2>3, <3>1, AsideGrants DEF BackOffEnds, GrantPcs
  <2> QED BY <2>2, <2>3
<1>15. ASSUME NEW ok \in BOOLEAN, SettleTitleEnds(f, ok) PROVE GrantsOK'
  <2>1. Moves(f, "drainQueue") BY <1>15, GotoMoves DEF SettleTitleEnds
  <2> QED BY <1>15, <2>1, AsideGrants DEF SettleTitleEnds, GrantPcs
<1>16. ASSUME NEW ok \in BOOLEAN, CompactNowEnds(f, ok) PROVE GrantsOK'
  <2>1. Moves(f, "free") BY <1>16, GotoMoves DEF CompactNowEnds
  <2> QED BY <1>16, <2>1, AsideGrants DEF CompactNowEnds, GrantPcs
<1>17. ASSUME NEW ok \in BOOLEAN, RetryWritesEnds(f, ok) PROVE GrantsOK'
  BY <1>0, <1>17 DEF RetryWritesEnds, PointOK
<1> QED BY <1>1, <1>2, <1>3, <1>4, <1>5, <1>6, <1>7, <1>8, <1>9, <1>10, <1>11, <1>12, <1>13, <1>14,
           <1>15, <1>16, <1>17 DEF Completion

LEMMA PersonGrants ==
    ASSUME Unstopped, MaxFailures > 0, TypeOK, LoopOK, GrantsOK, Person
    PROVE  GrantsOK'
<1> USE DEF TypeOK
<1>0. HealthOK BY DEF GrantsOK
<1>1. ASSUME NEW f \in Activations, NEW c \in Configs, Send(f, c) PROVE GrantsOK'
  <2>1. Alone(f) BY <1>1, IdleIsAlone DEF Send, Asked, Free, CanSend, InLoop, LoopAwaits, LoopStretches
  <2> QED BY <1>1, <2>1, OpenGrants DEF Send, CanSend
<1>2. ASSUME NEW f \in Activations, NEW c \in Configs, Enqueue(f, c) PROVE GrantsOK'
  <2>1. CASE MayDrain
    <3>1. Alone(f) BY <1>2, <2>1, IdleIsAlone DEF Enqueue, Asked, Free, MayDrain, InLoop, LoopAwaits, LoopStretches
    <3> QED BY <1>2, <2>1, <3>1, OpenGrants DEF Enqueue, MayDrain
  <2>2. CASE ~MayDrain
    <3>1. Quiet /\ UNCHANGED <<act, status, capReached, toolRounds, healthVars>> BY <1>2, <2>2 DEF Enqueue, Asked
    <3>2. CASE iterationBudget' = iterationBudget BY <3>1, <3>2, NobodyGrants
    <3>3. CASE iterationBudget' # iterationBudget
      <4>1. status = "idle" BY <1>2, <2>2, <3>3 DEF Enqueue, AdoptConfig
      <4>2. ASSUME NEW g \in Activations PROVE act[g].pc \notin {"title", "autoCompact"}
        BY <4>1 DEF LoopOK, PointOK, RunningPcs, LoopPcs, LoopAwaits, LoopStretches
      <4> QED BY <3>1, <4>2 DEF GrantsOK, HealthOK, GrantedAt
    <3> QED BY <3>2, <3>3
  <2> QED BY <2>1, <2>2
<1>3. ASSUME NEW f \in Activations, NEW e \in 1 .. Len(entries), EditFork(f, e) PROVE GrantsOK'
  <2>1. Alone(f) BY <1>3, IdleIsAlone DEF EditFork, Asked, Free, CanSend, InLoop, LoopAwaits, LoopStretches
  <2> QED BY <1>3, <2>1, OpenGrants DEF EditFork, CanSend
<1>4. ASSUME NEW f \in Activations, NEW runs \in BOOLEAN, NEW note \in BOOLEAN, Approve(f, runs, note)
      PROVE  GrantsOK'
  <2>1. Alone(f) BY <1>4, ParkedLoop DEF Approve, Asked, Alone
  <2>2. \E p \in {"approvedTool", "run"} : Moves(f, p)
    BY <1>4, GotoMoves DEF Approve, Moves, ActivationsOK, Activation, Fresh
  <2>3. status = "awaiting-approval" /\ UNCHANGED <<status, capReached, healthVars>> BY <1>4 DEF Approve
  <2> QED BY <1>0, <2>1, <2>2, <2>3, OwnerGrants DEF HealthOK, GrantedAt
<1>5. ASSUME NEW f \in Activations, Answer(f) PROVE GrantsOK'
  <2>1. Alone(f) BY <1>5, IdleIsAlone DEF Answer, Asked, Free, InLoop, LoopAwaits, LoopStretches
  <2>2. Moves(f, "run") BY <1>5, GotoMoves DEF Answer
  <2>3. status = "awaiting-input" /\ UNCHANGED <<status, capReached, healthVars>> BY <1>5 DEF Answer
  <2> QED BY <1>0, <2>1, <2>2, <2>3, OwnerGrants DEF HealthOK, GrantedAt
<1>6. ASSUME NEW f \in Activations, CompactNow(f) PROVE GrantsOK'
  <2>1. Moves(f, "compactNow") BY <1>6 DEF CompactNow, Moves, ActivationsOK, Activation, Fresh
  <2> QED BY <1>6, <2>1, AsideGrants DEF CompactNow, Asked, GrantPcs
<1>7. ASSUME NEW f \in Activations, ContinueRun(f) PROVE GrantsOK'
  <2>1. Alone(f) BY <1>7, IdleIsAlone DEF ContinueRun, Asked, Free, InLoop, LoopAwaits, LoopStretches
  <2>2. Moves(f, "run") BY <1>7, GotoMoves DEF ContinueRun
  <2>3. status = "awaiting-continue" /\ UNCHANGED <<status, capReached, healthVars>> BY <1>7 DEF ContinueRun
  <2> QED BY <1>0, <2>1, <2>2, <2>3, OwnerGrants DEF HealthOK, GrantedAt
<1>8. ASSUME NEW f \in Activations, Retry(f) PROVE GrantsOK'
  <2>1. Quiet /\ UNCHANGED <<status, capReached, budgetVars>> BY <1>8 DEF Retry, Asked
  <2>2. CASE status = "running" /\ streaming /\ restartRequested' = TRUE
               /\ act' = [g \in Activations |-> [act[g] EXCEPT
                       !.aborted = @ \/ (g = abortController /\ act[g].pc = "llm")]]
               /\ UNCHANGED <<stopScope, turnLeaf, healthVars>>
    <3>1. \A g \in Activations : act'[g].pc = act[g].pc BY <2>2 DEF ActivationsOK, Activation
    <3> QED BY <2>1, <2>2, <3>1, NobodyGrants
  <2>3. CASE Free(f) /\ status \in {"idle", "halted"} /\ consecutiveFailures' = 0 /\ Goto(f, "run")
    <3>1. Alone(f) BY <2>1, <2>3, IdleIsAlone DEF Free, InLoop, LoopAwaits, LoopStretches
    <3>2. Moves(f, "run") BY <2>3, GotoMoves
    <3> QED BY <1>0, <2>1, <2>3, <3>1, <3>2, OwnerGrants DEF HealthOK, GrantedAt
  <2> QED BY <1>8, <2>2, <2>3, Zenon DEF Retry
<1>9. ASSUME NEW f \in Activations, RetryPersistence(f) PROVE GrantsOK'
  BY <1>9 DEF RetryPersistence, LoopOK, SessionOK
<1>10. ASSUME NEW f \in Activations, NEW skip \in BOOLEAN, ResolveCompaction(f, skip) PROVE GrantsOK'
  <2>1. Alone(f) BY <1>10, ParkedLoop DEF ResolveCompaction, Asked, Alone
  <2>2. \E p \in {"resolvedCompact", "run"} : Moves(f, p)
    <3>1. CASE skip /\ pendingCompaction = "cancelable" BY <1>10, <3>1, GotoMoves DEF ResolveCompaction
    <3>2. CASE ~(skip /\ pendingCompaction = "cancelable")
        BY <1>10, <3>2 DEF ResolveCompaction, Moves, ActivationsOK, Activation, Fresh
    <3> QED BY <3>1, <3>2
  <2>3. status = "awaiting-compaction" /\ UNCHANGED <<status, capReached, healthVars>>
    BY <1>10 DEF ResolveCompaction
  <2> QED BY <1>0, <2>1, <2>2, <2>3, OwnerGrants DEF HealthOK, GrantedAt
<1>11. ASSUME NEW f \in Activations, NEW cap \in Caps \cup {NoCap}, SetSpendCap(f, cap) PROVE GrantsOK'
  <2>1. Quiet /\ UNCHANGED <<status, budgetVars, healthVars>> BY <1>11 DEF SetSpendCap, Asked
  <2>2. CASE capReached /\ spendUsd < cap
    <3>1. Alone(f) BY <2>1, <2>2, CapLeavesNobody DEF Alone
    <3>2. Moves(f, "run") /\ capReached' = FALSE BY <1>11, <2>2, GotoMoves DEF SetSpendCap
    <3> QED BY <1>0, <2>1, <2>2, <3>1, <3>2, OwnerGrants DEF HealthOK, GrantedAt
  <2>3. CASE ~(capReached /\ spendUsd < cap) BY <1>11, <2>1, <2>3, NobodyGrants DEF SetSpendCap
  <2> QED BY <2>2, <2>3
<1>12. ASSUME NEW leaf \in 1 .. Len(entries), SetActiveLeaf(leaf) PROVE GrantsOK'
  BY <1>12, NobodyGrants DEF SetActiveLeaf, Asked
<1>13. ASSUME NEW k \in 0 .. MaxQueue, SetQueue(k) PROVE GrantsOK' BY <1>13, NobodyGrants DEF SetQueue, Asked
<1>14. ASSUME NEW scope \in {"soft", "hard"}, Stop(scope) PROVE GrantsOK'
  BY <1>14 DEF Stop, Asked, Unstopped
<1>15. CASE ParkNotice BY <1>15, NobodyGrants DEF ParkNotice, Asked
<1>16. CASE RaisePersistenceFault BY <1>16 DEF RaisePersistenceFault, Asked, Unstopped
<1>17. CASE DiscardPersistence BY <1>17 DEF DiscardPersistence, LoopOK, SessionOK
<1>18. ASSUME NEW m \in TriggerModes, SetTriggerMode(m) PROVE GrantsOK'
  BY <1>18, NobodyGrants DEF SetTriggerMode, Asked
<1> QED BY <1>1, <1>2, <1>3, <1>4, <1>5, <1>6, <1>7, <1>8, <1>9, <1>10, <1>11, <1>12, <1>13, <1>14,
           <1>15, <1>16, <1>17, <1>18 DEF Person

LEMMA GrantsInit == ASSUME Init, MaxFailures > 0 PROVE GrantsOK
<1>1. \A f \in Activations : act[f].pc = "free" BY DEF Init, Fresh
<1> QED BY <1>1 DEF Init, GrantsOK, HealthOK, GrantedAt

(* What a turn takes has been granted when it is asked for (D-33, SPEC 24):*)
(* where nobody presses Stop and no compaction spends under a cap.         *)
THEOREM TurnsAreGranted ==
    ASSUME Unstopped, CheckedSpend, MaxFailures > 0
    PROVE  Spec => CallsAreGranted
<1>1. Init => GrantsOK BY GrantsInit
<1>2. TypeOK /\ LoopOK /\ GrantsOK /\ [Next]_vars => GrantsOK'
  <2>1. CASE UNCHANGED vars BY <2>1 DEF vars, GrantsOK, HealthOK, GrantedAt, CapBlocked
  <2> QED BY <2>1, PersonGrants, StretchGrants, CompletionGrants DEF Next, Progress
<1>3. TypeOK /\ LoopOK /\ GrantsOK =>
        [AsksForTurn => /\ spendUsd < spendCapUsd
                        /\ toolRounds < iterationBudget
                        /\ consecutiveFailures < MaxFailures]_vars
  <2>1. SUFFICES ASSUME TypeOK, LoopOK, GrantsOK, NEW f \in Activations, act[f].pc = "title"
                 PROVE  spendUsd < spendCapUsd /\ toolRounds < iterationBudget
                          /\ consecutiveFailures < MaxFailures
    BY DEF AsksForTurn
  <2>2. GrantedAt("title") /\ HealthOK BY <2>1 DEF GrantsOK
  <2>3. status = "running" BY <2>1 DEF LoopOK, PointOK, RunningPcs, LoopPcs, LoopStretches
  <2>4. spendUsd \in Int /\ spendCapUsd \in Int
    <3>1. spendUsd \in 0 .. MaxSpend /\ spendCapUsd \in Caps \cup {MaxSpend + 1} BY <2>1 DEF TypeOK, ScalarsOK
    <3>2. MaxSpend \in Nat /\ Caps \subseteq Int BY BoundsAssumption
    <3> QED BY <3>1, <3>2
  <2> QED BY <2>2, <2>3, <2>4 DEF GrantedAt, HealthOK, CapBlocked
<1>4. StopsFindTheLoop BY DEF StopsFindTheLoop
<1> QED BY <1>1, <1>2, <1>3, <1>4, TypeCorrect, LoopInvariance, PTL DEF Spec, CallsAreGranted

-----------------------------------------------------------------------------
(* After a stop                                                            *)

(* No operation or await outlasts a stop: no consented tool, summary or    *)
(* write is under way beside the loop, no title call, and nothing is       *)
(* queued.                                                                 *)
StopSticks ==
    /\ \A op \in {"approve", "compact", "retryWrites", "enqueue", "notice", "setQueue"} : op \notin Ops
    /\ ~AutoTitle

(* While a stop stands whoever is still in the loop finds it.              *)
StoppedAt(p) == p \notin {"title", "request"} /\ (p \in LoopPcs => stopScope # "none")

StopOK ==
    /\ queue = 0
    /\ stopped => ~Unstopped /\ ~restartRequested /\ \A f \in Activations : StoppedAt(act[f].pc)

LEMMA OwnerStops ==
    ASSUME StopOK, NEW f \in Activations, Alone(f), NEW p, Moves(f, p), queue' = 0,
           UNCHANGED <<stopped, restartRequested>>, stopped => StoppedAt(p)'
    PROVE  StopOK'
<1>1. ASSUME stopped', NEW g \in Activations PROVE StoppedAt(act[g].pc)'
  <2>1. CASE g = f BY <1>1, <2>1 DEF Moves, StoppedAt
  <2>2. CASE g # f
    <3>1. act'[g].pc \notin LoopPcs BY <2>2 DEF Moves, Alone, InLoop, LoopPcs
    <3> QED BY <3>1 DEF StoppedAt, LoopPcs, LoopStretches
  <2> QED BY <2>1, <2>2
<1> QED BY <1>1 DEF StopOK

LEMMA AsideStops ==
    ASSUME StopOK, UNCHANGED <<stopped, stopScope, restartRequested, queue>>,
           \A g \in Activations : act'[g].pc = act[g].pc \/ act'[g].pc \notin LoopPcs
    PROVE  StopOK'
<1>1. ASSUME stopped, NEW g \in Activations PROVE StoppedAt(act[g].pc)'
  BY <1>1 DEF StopOK, StoppedAt, LoopPcs, LoopStretches
<1> QED BY <1>1 DEF StopOK

(* A person resumes.                                                       *)
LEMMA ResumeStops ==
    ASSUME ~stopped', queue' = 0 PROVE StopOK'
BY DEF StopOK

LEMMA NoResultStops ==
    ASSUME TypeOK, StopOK, stopped, NEW f \in Activations, Alone(f), NEW st, NoResult(f, st),
           UNCHANGED <<stopped, queue>>
    PROVE  StopOK'
<1>1. ~restartRequested BY DEF StopOK
<1>2. Moves(f, "exit") /\ restartRequested' = restartRequested BY <1>1, GotoMoves DEF NoResult, TypeOK
<1> QED BY <1>2, OwnerStops DEF StopOK, StoppedAt, LoopPcs, LoopAwaits, LoopStretches

LEMMA StretchStops ==
    ASSUME StopSticks, TypeOK, LoopOK, PinOK, StopOK, NEW f \in Activations, Stretch(f)
    PROVE  StopOK'
<1> USE DEF TypeOK
<1>0. /\ queue = 0
      /\ stopped => StoppedAt(act[f].pc) /\ ~restartRequested
      /\ act[f].pc \notin {"loopTitle", "settleTitle"}
  BY DEF StopOK, PinOK
<1>1. queue' = 0 /\ stopped' = stopped /\ restartRequested' = restartRequested
  <2>1. CASE StartLoop(f) \/ BatchDrained(f)
    BY <1>0, <2>1 DEF StartLoop, BatchDrained, FlushIfDrained, FlushPendingUser
  <2>2. CASE \/ ObserveStop(f) \/ RefuseCall(f) \/ PauseForApproval(f) \/ PauseForInput(f) \/ StartTool(f)
             \/ DeclineAtCap(f) \/ RaiseStallPause(f) \/ RaiseCompactionPause(f) \/ StartAutoCompact(f)
             \/ ProceedToSend(f) \/ AskLoopTitle(f) \/ SendRequest(f) \/ Settle(f) \/ Exit(f)
    BY <1>0, <2>2 DEF ObserveStop, RefuseCall, PauseForApproval, PauseForInput, StartTool, DeclineAtCap,
       RaiseStallPause, RaiseCompactionPause, StartAutoCompact, ProceedToSend, AskLoopTitle, SendRequest,
       Settle, Exit
  <2>3. CASE DrainQueue(f) BY <1>0, <2>3 DEF DrainQueue
  <2> QED BY <2>1, <2>2, <2>3 DEF Stretch
<1>2. CASE ~stopped BY <1>1, <1>2, ResumeStops
<1>3. CASE stopped
  <2> USE DEF LoopPcs, LoopAwaits, LoopStretches
  <2>1. CASE StartLoop(f)
    <3>1. Moves(f, "top") /\ Alone(f) /\ stopScope # "none" /\ stopScope' = stopScope
        BY <1>0, <1>3, <2>1, LoopIsAlone, GotoMoves DEF StartLoop, InLoop, StoppedAt
    <3> QED BY <1>1, <3>1, OwnerStops DEF StoppedAt
  <2>2. CASE BatchDrained(f) \/ RefuseCall(f) \/ StartTool(f)
    <3>1. act[f].pc \in {"top", "drain"} /\ stopScope' = stopScope
        BY <2>2 DEF BatchDrained, RefuseCall, StartTool, HeadIs, Draining
    <3>2. \E p \in {"boundary", "drain", "tool"} : Moves(f, p)
        BY <2>2, GotoMoves, ZenonT(60) DEF BatchDrained, RefuseCall, StartTool, Moves, ActivationsOK, Activation, Fresh
    <3>3. Alone(f) /\ stopScope # "none" BY <1>0, <1>3, <3>1, LoopIsAlone DEF InLoop, StoppedAt
    <3> QED BY <1>1, <3>1, <3>2, <3>3, OwnerStops DEF StoppedAt
  <2>3. CASE ObserveStop(f) \/ PauseForApproval(f) \/ PauseForInput(f) \/ Settle(f)
    <3>1. Alone(f)
        BY <2>3, LoopIsAlone DEF ObserveStop, PauseForApproval, PauseForInput, Settle, HeadIs, Draining, InLoop
    <3>2. \E p \in {"exit", "drainQueue"} : Moves(f, p)
        BY <2>3, GotoMoves DEF ObserveStop, PauseForApproval, PauseForInput, Settle, TitleMayBeAsked, StopSticks
    <3> QED BY <1>1, <3>1, <3>2, OwnerStops DEF StoppedAt
  <2>4. CASE DrainQueue(f) \/ Exit(f)
    <3>1. \E p \in {"exit", "free"} : Moves(f, p) BY <1>0, <2>4, GotoMoves DEF DrainQueue, Exit
    <3>2. stopScope' = stopScope BY <1>0, <2>4 DEF DrainQueue, Exit
    <3> QED BY <1>0, <1>1, <3>1, <3>2, AsideStops DEF Moves
  <2>5. CASE \/ DeclineAtCap(f) \/ RaiseStallPause(f) \/ RaiseCompactionPause(f) \/ StartAutoCompact(f)
             \/ ProceedToSend(f) \/ AskLoopTitle(f) \/ SendRequest(f)
    BY <1>0, <1>3, <2>5 DEF DeclineAtCap, RaiseStallPause, RaiseCompactionPause, StartAutoCompact,
       ProceedToSend, AskLoopTitle, SendRequest, ToSend, AtBoundary, StoppedAt
  <2> QED BY <2>1, <2>2, <2>3, <2>4, <2>5 DEF Stretch
<1> QED BY <1>2, <1>3

LEMMA CompletionStops ==
    ASSUME StopSticks, TypeOK, LoopOK, PinOK, StopOK, NEW f \in Activations, Completion(f)
    PROVE  StopOK'
<1> USE DEF TypeOK
<1>1. UNCHANGED <<queue, stopped>>
  <2>1. CASE \/ ToolReturns(f) \/ ToolThrows(f) \/ ApprovedToolReturns(f) \/ ApprovedToolThrows(f)
             \/ RequestUnwinds(f) \/ RequestOverWindow(f) \/ RequestTransient(f) \/ BackOffEnds(f)
             \/ RequestFails(f)
    BY <2>1 DEF ToolReturns, ToolThrows, ApprovedToolReturns, ApprovedToolThrows, RequestUnwinds,
       RequestOverWindow, RequestTransient, BackOffEnds, RequestFails
  <2>2. ASSUME NEW ok \in BOOLEAN,
               \/ AutoCompactEnds(f, ok) \/ LoopTitleEnds(f, ok)
               \/ SettleTitleEnds(f, ok) \/ ForcedCompactEnds(f, ok) \/ ResolvedCompactEnds(f, ok)
               \/ CompactNowEnds(f, ok) \/ RetryWritesEnds(f, ok)
        PROVE  UNCHANGED <<queue, stopped>>
    BY <2>2 DEF AutoCompactEnds, LoopTitleEnds, SettleTitleEnds, ForcedCompactEnds,
       ResolvedCompactEnds, CompactNowEnds, RetryWritesEnds
  <2>3. ASSUME NEW kinds \in Batches, NEW cut \in BOOLEAN, AnswerLands(f, kinds, cut)
        PROVE  UNCHANGED <<queue, stopped>>
    BY <2>3 DEF AnswerLands
  <2> QED BY <2>1, <2>2, <2>3 DEF Completion
<1>2. CASE ~stopped BY <1>1, <1>2, ResumeStops DEF StopOK
<1>3. CASE stopped
  <2>0. /\ queue = 0 /\ StoppedAt(act[f].pc) /\ ~restartRequested
        /\ act[f].pc \notin {"loopTitle", "settleTitle", "approvedTool", "resolvedCompact", "retryWrites"}
        /\ act[f].pc \in LoopPcs => Alone(f) /\ stopScope # "none"
    BY <1>3, LoopIsAlone DEF StopOK, PinOK, LoopOK, PointOK, StoppedAt, InLoop, LoopPcs
  <2> USE DEF LoopPcs, LoopAwaits, LoopStretches
  <2>1. CASE ToolReturns(f)
    <3>1. CASE stopScope = "hard"
      <4>1. Moves(f, "exit") /\ Alone(f) BY <2>0, <2>1, <3>1, GotoMoves DEF ToolReturns
      <4> QED BY <1>1, <2>0, <2>1, <4>1, OwnerStops DEF ToolReturns, StoppedAt
    <3>2. CASE stopScope # "hard"
      <4>1. Moves(f, "drain") /\ Alone(f) BY <2>0, <2>1, <3>2, GotoMoves DEF ToolReturns
      <4>2. stopScope' # "none" BY <2>0, <2>1, <3>2 DEF ToolReturns
      <4> QED BY <1>1, <2>0, <2>1, <4>1, <4>2, OwnerStops DEF ToolReturns, StoppedAt
    <3> QED BY <3>1, <3>2
  <2>2. CASE ToolThrows(f)
    <3>1. Moves(f, "exit") /\ Alone(f) BY <2>0, <2>2, GotoMoves DEF ToolThrows
    <3> QED BY <1>1, <2>0, <2>2, <3>1, OwnerStops DEF ToolThrows, StoppedAt
  <2>3. ASSUME NEW ok \in BOOLEAN, AutoCompactEnds(f, ok) PROVE StopOK'
    <3>1. Moves(f, "exit") /\ Alone(f) BY <2>0, <2>3, GotoMoves DEF AutoCompactEnds
    <3> QED BY <1>1, <2>0, <2>3, <3>1, OwnerStops DEF AutoCompactEnds, StoppedAt
  <2>4. ASSUME NEW kinds \in Batches, NEW cut \in BOOLEAN, AnswerLands(f, kinds, cut) PROVE StopOK'
    <3>1. \E p \in {"settled", "top"} : Moves(f, p) BY <2>4, GotoMoves DEF AnswerLands
    <3>2. Alone(f) /\ stopScope' # "none" /\ restartRequested' = restartRequested
        BY <2>0, <2>4 DEF AnswerLands, ScalarsOK
    <3> QED BY <1>1, <2>0, <3>1, <3>2, OwnerStops DEF StoppedAt
  <2>5. CASE RequestUnwinds(f) \/ RequestFails(f)
    <3>1. Alone(f) /\ \E st \in {status, "halted", "idle"} : NoResult(f, st)
        BY <2>0, <2>5 DEF RequestUnwinds, RequestFails
    <3> QED BY <1>1, <1>3, <3>1, NoResultStops
  <2>6. CASE RequestOverWindow(f)
    <3>1. Alone(f) /\ \E st \in {status, "idle"} : NoResult(f, st) BY <2>0, <2>6 DEF RequestOverWindow
    <3> QED BY <1>1, <1>3, <3>1, NoResultStops
  <2>7. ASSUME NEW ok \in BOOLEAN, ForcedCompactEnds(f, ok) PROVE StopOK'
    <3>1. Alone(f) /\ \E st \in {status, "idle"} : NoResult(f, st) BY <2>0, <2>7 DEF ForcedCompactEnds
    <3> QED BY <1>1, <1>3, <3>1, NoResultStops
  <2>8. CASE BackOffEnds(f)
    <3>1. Alone(f) /\ NoResult(f, status) BY <2>0, <2>8 DEF BackOffEnds, Interrupted
    <3> QED BY <1>1, <1>3, <3>1, NoResultStops
  <2>9. CASE RequestTransient(f)
    <3>1. Moves(f, "backoff") /\ Alone(f)
        BY <2>0, <2>9 DEF RequestTransient, Moves, ActivationsOK, Activation, Fresh
    <3> QED BY <1>1, <2>0, <2>9, <3>1, OwnerStops DEF RequestTransient, StoppedAt
  <2>10. ASSUME NEW ok \in BOOLEAN, CompactNowEnds(f, ok) PROVE StopOK'
    <3>1. Moves(f, "free") BY <2>10, GotoMoves DEF CompactNowEnds
    <3> QED BY <1>1, <2>10, <3>1, AsideStops DEF CompactNowEnds, Moves
  <2>11. ASSUME NEW ok \in BOOLEAN,
                \/ ApprovedToolReturns(f) \/ ApprovedToolThrows(f) \/ LoopTitleEnds(f, ok)
                \/ SettleTitleEnds(f, ok) \/ ResolvedCompactEnds(f, ok) \/ RetryWritesEnds(f, ok)
         PROVE  StopOK'
    BY <2>0, <2>11 DEF ApprovedToolReturns, ApprovedToolThrows, LoopTitleEnds, SettleTitleEnds,
       ResolvedCompactEnds, RetryWritesEnds
  <2> QED BY <2>1, <2>2, <2>3, <2>4, <2>5, <2>6, <2>7, <2>8, <2>9, <2>10, <2>11 DEF Completion
<1> QED BY <1>2, <1>3

LEMMA StopEffectsStops ==
    ASSUME ~Unstopped, TypeOK, LoopOK, StopOK, Quiet, NEW scope \in {"soft", "hard"}, NEW pp,
           StopEffects(scope, pp)
    PROVE  StopOK'
<1>1. \A g \in Activations : act'[g].pc = act[g].pc
  <2>1. CASE scope = "hard" BY <2>1 DEF StopEffects, TypeOK, ActivationsOK, Activation
  <2>2. CASE scope # "hard" BY <2>2 DEF StopEffects
  <2> QED BY <2>1, <2>2
<1>2. queue' = 0 /\ ~restartRequested' BY DEF StopEffects, StopOK
<1>3. ASSUME NEW g \in Activations PROVE StoppedAt(act[g].pc)'
  <2>1. act[g].pc \notin {"title", "request"} BY DEF Quiet, StretchPcs, LoopStretches
  <2>2. CASE status = "running" BY <1>1, <2>1, <2>2 DEF StopEffects, StoppedAt
  <2>3. CASE status # "running"
    <3>1. act[g].pc \notin {"approvedTool", "resolvedCompact"} BY DEF LoopOK, PointOK
    <3>2. ~InLoop(g) BY <2>3, <3>1, ParkedLoop
    <3> QED BY <1>1, <2>1, <3>2 DEF StoppedAt, InLoop, LoopPcs
  <2> QED BY <2>2, <2>3
<1> QED BY <1>2, <1>3 DEF StopOK

LEMMA PersonStops ==
    ASSUME StopSticks, TypeOK, LoopOK, StopOK, Person
    PROVE  StopOK'
<1>0. queue = 0 BY DEF StopOK
<1>1. ASSUME NEW f \in Activations, NEW c \in Configs, Send(f, c) PROVE StopOK'
  BY <1>0, <1>1, ResumeStops DEF Send
<1>2. ASSUME NEW f \in Activations, NEW c \in Configs, Enqueue(f, c) PROVE StopOK'
  BY <1>2 DEF Enqueue, Asked, StopSticks
<1>3. ASSUME NEW f \in Activations, NEW e \in 1 .. Len(entries), EditFork(f, e) PROVE StopOK'
  BY <1>0, <1>3, ResumeStops DEF EditFork
<1>4. ASSUME NEW f \in Activations, NEW runs \in BOOLEAN, NEW note \in BOOLEAN, NEW skip \in BOOLEAN,
             \/ Approve(f, runs, note) \/ RetryPersistence(f) \/ ResolveCompaction(f, skip)
      PROVE  StopOK'
  BY <1>4 DEF Approve, RetryPersistence, ResolveCompaction, Asked, StopSticks
<1>5. ASSUME NEW f \in Activations, Answer(f) PROVE StopOK' BY <1>0, <1>5, ResumeStops DEF Answer
<1>6. ASSUME NEW f \in Activations, CompactNow(f) PROVE StopOK'
  <2>1. Moves(f, "compactNow") BY <1>6 DEF CompactNow, Moves, TypeOK, ActivationsOK, Activation, Fresh
  <2> QED BY <1>6, <2>1, AsideStops DEF CompactNow, Moves, LoopPcs, LoopAwaits, LoopStretches
<1>7. ASSUME NEW f \in Activations, ContinueRun(f) PROVE StopOK' BY <1>0, <1>7, ResumeStops DEF ContinueRun
<1>8. ASSUME NEW f \in Activations, Retry(f) PROVE StopOK'
  <2>1. stopped' = FALSE /\ queue' = queue BY <1>8, Zenon DEF Retry
  <2> QED BY <1>0, <2>1, ResumeStops
<1>9. ASSUME NEW f \in Activations, NEW cap \in Caps \cup {NoCap}, SetSpendCap(f, cap) PROVE StopOK'
  <2>1. CASE capReached /\ spendUsd < cap BY <1>0, <1>9, <2>1, ResumeStops DEF SetSpendCap
  <2>2. CASE ~(capReached /\ spendUsd < cap) BY <1>9, <2>2, AsideStops DEF SetSpendCap
  <2> QED BY <2>1, <2>2
<1>10. ASSUME NEW leaf \in 1 .. Len(entries), SetActiveLeaf(leaf) PROVE StopOK'
  BY <1>10, AsideStops DEF SetActiveLeaf
<1>11. ASSUME NEW k \in 0 .. MaxQueue, SetQueue(k) \/ ParkNotice PROVE StopOK'
  BY <1>11 DEF SetQueue, ParkNotice, Asked, StopSticks
<1>12. ASSUME NEW scope \in {"soft", "hard"}, Stop(scope) PROVE StopOK'
  <2>1. ~Unstopped /\ Quiet BY <1>12 DEF Stop, Asked, Unstopped
  <2> QED BY <1>12, <2>1, StopEffectsStops DEF Stop
<1>13. CASE RaisePersistenceFault
  <2>1. ~Unstopped /\ Quiet BY <1>13 DEF RaisePersistenceFault, Asked, Unstopped
  <2>2. CASE pendingPersistence \/ status # "running" BY <1>13, <2>2, AsideStops DEF RaisePersistenceFault
  <2>3. CASE ~(pendingPersistence \/ status # "running")
    BY <1>13, <2>1, <2>3, StopEffectsStops DEF RaisePersistenceFault
  <2> QED BY <2>2, <2>3
<1>14. CASE DiscardPersistence BY <1>14, AsideStops DEF DiscardPersistence
<1>15. ASSUME NEW m \in TriggerModes, SetTriggerMode(m) PROVE StopOK'
  BY <1>15, AsideStops DEF SetTriggerMode
<1>16. \A k \in 0 .. MaxQueue : SetQueue(k) => StopOK' BY <1>11
<1>17. ParkNotice => StopOK' BY DEF ParkNotice, Asked, StopSticks
<1> QED BY <1>1, <1>2, <1>3, <1>4, <1>5, <1>6, <1>7, <1>8, <1>9, <1>10, <1>12, <1>13, <1>14,
           <1>15, <1>16, <1>17 DEF Person

(* Who sends a request: a stretch of the loop that asks for a turn, or an  *)
(* attempt that is repeated where no stop has been found.                  *)
MaySend(g) ==
    \/ act[g].pc \in {"title", "request", "llm"}
    \/ act[g].pc \in {"backoff", "forcedCompact"} /\ stopScope = "none"

LEMMA LoopSends ==
    ASSUME TypeOK, NEW f \in Activations, Progress(f), NEW g \in Activations, act'[g].pc = "llm"
    PROVE  MaySend(g)
<1> USE DEF TypeOK
<1>1. ASSUME NEW p, Goto(f, p), p # "llm" PROVE MaySend(g)
  <2>1. Moves(f, p) BY <1>1, GotoMoves
  <2> QED BY <1>1, <2>1 DEF Moves, MaySend
<1>2. ASSUME NEW r, act' = [act EXCEPT ![f] = r], r.pc # "llm" \/ MaySend(f) PROVE MaySend(g)
  <2>1. Moves(f, r.pc) BY <1>2, ArmMoves
  <2> QED BY <1>2, <2>1 DEF Moves, MaySend
<1>3. ASSUME NEW st, NoResult(f, st) PROVE MaySend(g) BY <1>1, <1>3 DEF NoResult
<1>4. CASE Stretch(f)
  <2>1. CASE StartTool(f)
    <3> DEFINE r == [Fresh EXCEPT !.pc = "tool", !.call = Head(pendingToolCalls)]
    <3>1. r.pc = "tool" /\ act' = [act EXCEPT ![f] = r] BY <2>1 DEF StartTool, Fresh
    <3> QED BY <1>2, <3>1
  <2>2. CASE StartAutoCompact(f)
    <3> DEFINE r == [Fresh EXCEPT !.pc = "autoCompact", !.leaf = WorkingLeaf]
    <3>1. r.pc = "autoCompact" /\ act' = [act EXCEPT ![f] = r] BY <2>2 DEF StartAutoCompact, Fresh
    <3> QED BY <1>2, <3>1
  <2>3. CASE SendRequest(f)
    <3>1. MaySend(f) BY <2>3 DEF SendRequest, MaySend
    <3> QED BY <1>2, <2>3, <3>1 DEF SendRequest
  <2>4. CASE Settle(f) BY <1>1, <2>4 DEF Settle
  <2>5. CASE DrainQueue(f) BY <1>1, <2>5 DEF DrainQueue, OpenTurn
  <2> QED BY <1>1, <1>4, <2>1, <2>2, <2>3, <2>4, <2>5 DEF Stretch, StartLoop, ObserveStop, BatchDrained,
           RefuseCall, PauseForApproval, PauseForInput, DeclineAtCap, RaiseStallPause, RaiseCompactionPause,
           ProceedToSend, AskLoopTitle, Exit
<1>5. CASE Completion(f)
  <2>1. CASE ToolReturns(f) \/ ToolThrows(f) \/ ApprovedToolReturns(f) \/ ApprovedToolThrows(f)
    BY <1>1, <2>1 DEF ToolReturns, ToolThrows, ApprovedToolReturns, ApprovedToolThrows
  <2>2. ASSUME NEW kinds \in Batches, NEW cut \in BOOLEAN, AnswerLands(f, kinds, cut) PROVE MaySend(g)
    BY <1>1, <2>2 DEF AnswerLands
  <2>3. CASE RequestUnwinds(f) BY <1>3, <2>3 DEF RequestUnwinds
  <2>4. CASE RequestOverWindow(f)
    <3> DEFINE r == [Fresh EXCEPT !.pc = "forcedCompact", !.leaf = WorkingLeaf]
    <3>1. r.pc = "forcedCompact" BY DEF Fresh
    <3> QED BY <1>2, <1>3, <2>4, <3>1 DEF RequestOverWindow
  <2>5. CASE RequestTransient(f)
    <3> DEFINE r == [act[f] EXCEPT !.pc = "backoff"]
    <3>1. r.pc = "backoff" /\ act' = [act EXCEPT ![f] = r]
        BY <2>5 DEF RequestTransient, ActivationsOK, Activation
    <3> QED BY <1>2, <3>1
  <2>6. CASE BackOffEnds(f)
    <3>1. CASE Interrupted BY <1>3, <2>6, <3>1 DEF BackOffEnds
    <3>2. CASE ~Interrupted
      <4>1. MaySend(f) BY <2>6, <3>2 DEF BackOffEnds, Interrupted, MaySend
      <4> QED BY <1>2, <2>6, <3>2, <4>1 DEF BackOffEnds
    <3> QED BY <3>1, <3>2
  <2>7. CASE RequestFails(f) BY <1>3, <2>7 DEF RequestFails
  <2>8. ASSUME NEW ok \in BOOLEAN, ForcedCompactEnds(f, ok) PROVE MaySend(g)
    <3>1. CASE stopScope # "none" \/ ~ok BY <1>3, <2>8, <3>1 DEF ForcedCompactEnds
    <3>2. CASE ~(stopScope # "none" \/ ~ok)
      <4>1. MaySend(f) BY <2>8, <3>2 DEF ForcedCompactEnds, MaySend
      <4> QED BY <1>2, <2>8, <3>2, <4>1 DEF ForcedCompactEnds
    <3> QED BY <3>1, <3>2
  <2>9. ASSUME NEW ok \in BOOLEAN,
               \/ AutoCompactEnds(f, ok) \/ LoopTitleEnds(f, ok) \/ SettleTitleEnds(f, ok)
               \/ ResolvedCompactEnds(f, ok) \/ CompactNowEnds(f, ok) \/ RetryWritesEnds(f, ok)
        PROVE  MaySend(g)
    BY <1>1, <2>9 DEF AutoCompactEnds, LoopTitleEnds, SettleTitleEnds, ResolvedCompactEnds, CompactNowEnds,
       RetryWritesEnds
  <2> QED BY <1>5, <2>1, <2>2, <2>3, <2>4, <2>5, <2>6, <2>7, <2>8, <2>9 DEF Completion
<1> QED BY <1>4, <1>5 DEF Progress

LEMMA PersonSends ==
    ASSUME TypeOK, Person, NEW g \in Activations, act'[g].pc = "llm"
    PROVE  act[g].pc = "llm"
<1> USE DEF TypeOK
<1>1. ASSUME NEW f \in Activations, NEW p, Goto(f, p), p # "llm" PROVE act[g].pc = "llm"
  <2>1. Moves(f, p) BY <1>1, GotoMoves
  <2> QED BY <1>1, <2>1 DEF Moves
<1>2. ASSUME NEW f \in Activations, NEW r, act' = [act EXCEPT ![f] = r], r.pc # "llm" PROVE act[g].pc = "llm"
  <2>1. Moves(f, r.pc) BY <1>2, ArmMoves
  <2> QED BY <1>2, <2>1 DEF Moves
<1>3. ASSUME act' = [h \in Activations |-> [act[h] EXCEPT
                         !.aborted = @ \/ (h = abortController /\ act[h].pc = "llm")]]
      PROVE  act[g].pc = "llm"
  BY <1>3 DEF ActivationsOK, Activation
<1>4. ASSUME NEW f \in Activations, NEW base, OpenTurn(f, base) PROVE act[g].pc = "llm"
  BY <1>1, <1>4 DEF OpenTurn
<1>5. ASSUME NEW f \in Activations, NEW c \in Configs, Send(f, c) \/ Enqueue(f, c) PROVE act[g].pc = "llm"
  BY <1>4, <1>5 DEF Send, Enqueue
<1>6. ASSUME NEW f \in Activations, NEW e \in 1 .. Len(entries), EditFork(f, e) PROVE act[g].pc = "llm"
  BY <1>4, <1>6 DEF EditFork
<1>7. ASSUME NEW f \in Activations, NEW runs \in BOOLEAN, NEW note \in BOOLEAN, Approve(f, runs, note)
      PROVE  act[g].pc = "llm"
  <2> DEFINE r == [Fresh EXCEPT !.pc = "approvedTool", !.call = pendingApproval]
  <2>1. r.pc = "approvedTool" BY DEF Fresh
  <2> QED BY <1>1, <1>2, <1>7, <2>1 DEF Approve
<1>8. ASSUME NEW f \in Activations, Answer(f) \/ ContinueRun(f) \/ RetryPersistence(f) PROVE act[g].pc = "llm"
  BY <1>1, <1>8 DEF Answer, ContinueRun, RetryPersistence
<1>9. ASSUME NEW f \in Activations, CompactNow(f) PROVE act[g].pc = "llm"
  <2> DEFINE r == [Fresh EXCEPT !.pc = "compactNow", !.leaf = WorkingLeaf]
  <2>1. r.pc = "compactNow" /\ act' = [act EXCEPT ![f] = r] BY <1>9 DEF CompactNow, Fresh
  <2> QED BY <1>2, <2>1
<1>10. ASSUME NEW f \in Activations, Retry(f) PROVE act[g].pc = "llm"
  <2>1. \/ act' = [h \in Activations |-> [act[h] EXCEPT
                      !.aborted = @ \/ (h = abortController /\ act[h].pc = "llm")]]
        \/ Goto(f, "run")
    BY <1>10, Zenon DEF Retry
  <2> QED BY <1>1, <1>3, <2>1
<1>11. ASSUME NEW f \in Activations, NEW skip \in BOOLEAN, ResolveCompaction(f, skip) PROVE act[g].pc = "llm"
  <2> DEFINE r == [Fresh EXCEPT !.pc = "resolvedCompact", !.leaf = WorkingLeaf]
  <2>1. r.pc = "resolvedCompact" BY DEF Fresh
  <2>2. CASE skip /\ pendingCompaction = "cancelable" BY <1>1, <1>11, <2>2 DEF ResolveCompaction
  <2>3. CASE ~(skip /\ pendingCompaction = "cancelable") BY <1>2, <1>11, <2>1, <2>3 DEF ResolveCompaction
  <2> QED BY <2>2, <2>3
<1>12. ASSUME NEW f \in Activations, NEW cap \in Caps \cup {NoCap}, SetSpendCap(f, cap) PROVE act[g].pc = "llm"
  <2>1. CASE capReached /\ spendUsd < cap BY <1>1, <1>12, <2>1 DEF SetSpendCap
  <2>2. CASE ~(capReached /\ spendUsd < cap) BY <1>12, <2>2 DEF SetSpendCap
  <2> QED BY <2>1, <2>2
<1>13. ASSUME NEW scope \in {"soft", "hard"}, NEW pp, StopEffects(scope, pp) PROVE act[g].pc = "llm"
  <2>1. CASE scope = "hard" BY <1>3, <1>13, <2>1 DEF StopEffects
  <2>2. CASE scope # "hard" BY <1>13, <2>2 DEF StopEffects
  <2> QED BY <2>1, <2>2
<1>14. CASE RaisePersistenceFault
  <2>1. CASE pendingPersistence \/ status # "running" BY <1>14, <2>1 DEF RaisePersistenceFault
  <2>2. CASE ~(pendingPersistence \/ status # "running")
    BY <1>13, <1>14, <2>2 DEF RaisePersistenceFault
  <2> QED BY <2>1, <2>2
<1>15. ASSUME NEW scope \in {"soft", "hard"}, Stop(scope) PROVE act[g].pc = "llm" BY <1>13, <1>15 DEF Stop
<1>16. ASSUME NEW leaf \in 1 .. Len(entries), SetActiveLeaf(leaf) PROVE act[g].pc = "llm"
  BY <1>16 DEF SetActiveLeaf
<1>17. ASSUME NEW k \in 0 .. MaxQueue, SetQueue(k) PROVE act[g].pc = "llm" BY <1>17 DEF SetQueue
<1>18. ASSUME NEW m \in TriggerModes, SetTriggerMode(m) PROVE act[g].pc = "llm" BY <1>18 DEF SetTriggerMode
<1>19. CASE ParkNotice \/ DiscardPersistence BY <1>19 DEF ParkNotice, DiscardPersistence
<1> QED BY <1>5, <1>6, <1>7, <1>8, <1>9, <1>10, <1>11, <1>12, <1>14, <1>15, <1>16, <1>17, <1>18, <1>19 DEF Person

LEMMA StopInit == ASSUME Init PROVE StopOK
BY DEF Init, StopOK

(* After a stop the session takes no further model turn until a person     *)
(* resumes it: where nothing a person started outlasts the stop.           *)
THEOREM StopEndsTheTurn ==
    ASSUME StopSticks
    PROVE  Spec => NoTurnAfterStop
<1>1. Init => StopOK BY StopInit
<1>2. TypeOK /\ LoopOK /\ PinOK /\ StopOK /\ [Next]_vars => StopOK'
  <2>1. CASE UNCHANGED vars BY <2>1, AsideStops DEF vars
  <2> QED BY <2>1, PersonStops, StretchStops, CompletionStops DEF Next, Progress
<1>3. TypeOK /\ LoopOK /\ StopOK /\ [Next]_vars => [SendsToModel => ~stopped]_vars
  <2>1. SUFFICES ASSUME TypeOK, LoopOK, StopOK, [Next]_vars, stopped, NEW f \in Activations,
                        act[f].pc \in StretchPcs \cup {"backoff", "forcedCompact"}, act'[f].pc = "llm"
                 PROVE  FALSE
    BY DEF SendsToModel
  <2>2. StoppedAt(act[f].pc) /\ (act[f].pc \in {"backoff", "forcedCompact"} => stopScope # "none")
    BY <2>1 DEF StopOK, StoppedAt, LoopPcs, LoopAwaits
  <2>3. ~MaySend(f) BY <2>1, <2>2 DEF MaySend, StoppedAt, StretchPcs, LoopStretches
  <2>4. act[f].pc # "llm" BY <2>1 DEF StretchPcs, LoopStretches
  <2> QED BY <2>1, <2>3, <2>4, LoopSends, PersonSends DEF Next, vars
<1>4. StopsFindTheLoop BY DEF StopsFindTheLoop, StopSticks
<1>5. ~AutoTitle BY DEF StopSticks
<1> QED BY <1>1, <1>2, <1>3, <1>4, <1>5, TypeCorrect, LoopInvariance, PinInvariance, PTL DEF Spec, NoTurnAfterStop

-----------------------------------------------------------------------------
(* Cards                                                                   *)

(* A consented tool answers, and a message buys at least one round.        *)
ConsentAnswers == "approval-throws" \notin CallKinds /\ MaxToolIterations > 0

NoCards == pendingApproval = NoCall /\ pendingQuestion = NoCall /\ pendingStall = 0 /\ pendingCompaction = "none"

BatchOK ==
    /\ \A i \in 1 .. Len(pendingToolCalls) : pendingToolCalls[i].kind \in CallKinds
    /\ iterationBudget > 0

(* A card is shown only in its status, an approval for the head call.      *)
ShownOK ==
    /\ pendingApproval # NoCall =>
         /\ status = "awaiting-approval" /\ pendingApproval.kind = "approval"
         /\ pendingToolCalls # <<>> /\ Head(pendingToolCalls) = pendingApproval
    /\ pendingQuestion # NoCall => status = "awaiting-input"
    /\ pendingStall > 0 => status = "awaiting-continue"
    /\ pendingCompaction # "none" => status = "awaiting-compaction"

At(p) == \E f \in Activations : act[f].pc = p

(* A status that waits has its card, or the answer is being carried out.   *)
HeldOK ==
    /\ status = "awaiting-approval" => pendingApproval # NoCall \/ At("approvedTool") \/ At("run")
    /\ status = "awaiting-compaction" => pendingCompaction # "none" \/ At("resolvedCompact") \/ At("run")
    /\ status = "awaiting-input" => pendingQuestion # NoCall \/ At("run")
    /\ status = "awaiting-continue" => pendingStall > 0 \/ At("run")

CardsOK ==
    /\ BatchOK /\ ShownOK /\ HeldOK
    /\ \A f \in Activations : /\ act[f].pc = "run" => NoCards
                              /\ act[f].pc = "approvedTool" => act[f].call.kind = "approval"

LEMMA FewerCalls ==
    ASSUME CallsOK, BatchOK, UNCHANGED iterationBudget,
           Shift \/ UNCHANGED pendingToolCalls \/ pendingToolCalls' = <<>>
    PROVE  BatchOK'
<1>1. CASE UNCHANGED pendingToolCalls BY <1>1 DEF BatchOK
<1>2. CASE pendingToolCalls' = <<>> BY <1>2 DEF BatchOK
<1>3. CASE Shift /\ pendingToolCalls # <<>>
  <2>1. pendingToolCalls \in Seq(Call) BY DEF CallsOK
  <2>2. /\ pendingToolCalls' = Tail(pendingToolCalls)
        /\ Len(pendingToolCalls') = Len(pendingToolCalls) - 1 /\ Len(pendingToolCalls) \in Nat
        /\ \A i \in 1 .. Len(pendingToolCalls') : pendingToolCalls'[i] = pendingToolCalls[i + 1]
    BY <1>3, <2>1, HeadTailProperties DEF Shift
  <2> QED BY <2>2 DEF BatchOK
<1> QED BY <1>1, <1>2, <1>3 DEF Shift

LEMMA HeadKind ==
    ASSUME CallsOK, BatchOK, pendingToolCalls # <<>>
    PROVE  Head(pendingToolCalls).kind \in CallKinds
<1>1. pendingToolCalls \in Seq(Call) BY DEF CallsOK
<1>2. Head(pendingToolCalls) = pendingToolCalls[1] /\ 1 \in 1 .. Len(pendingToolCalls)
  BY <1>1, HeadTailProperties, EmptySeq
<1> QED BY <1>2 DEF BatchOK

(* The loop goes on or settles: no card is shown.                          *)
LEMMA LoopCards ==
    ASSUME NEW f \in Activations, Alone(f), NEW p, Moves(f, p), p \notin {"run", "approvedTool"},
           NoCards, UNCHANGED cardVars, status' \notin Waiting, BatchOK'
    PROVE  CardsOK'
<1>1. NoCards' BY DEF NoCards
<1>2. ShownOK' BY <1>1 DEF NoCards, ShownOK
<1>3. HeldOK' BY DEF HeldOK, Waiting
<1>4. \A g \in Activations : act'[g].pc \notin {"run", "approvedTool"}
  BY DEF Moves, Alone, InLoop, LoopStretches
<1> QED BY <1>2, <1>3, <1>4 DEF CardsOK

(* The loop pauses on a card.                                              *)
LEMMA PauseCards ==
    ASSUME NEW f \in Activations, Alone(f), Moves(f, "exit"), BatchOK', ShownOK', HeldOK'
    PROVE  CardsOK'
<1>1. \A g \in Activations : act'[g].pc \notin {"run", "approvedTool"}
  BY DEF Moves, Alone, InLoop, LoopStretches
<1> QED BY <1>1 DEF CardsOK

(* A person opens or resumes the loop, and the card is gone.               *)
LEMMA EnterCards ==
    ASSUME NEW f \in Activations, Alone(f), Moves(f, "run"), NoCards', BatchOK'
    PROVE  CardsOK'
<1>1. At("run")' BY DEF Moves, At
<1>2. ShownOK' /\ HeldOK' BY <1>1 DEF NoCards, ShownOK, HeldOK
<1>3. \A g \in Activations : act'[g].pc # "approvedTool"
  BY DEF Moves, Alone, InLoop
<1> QED BY <1>2, <1>3 DEF CardsOK

CardPcs == {"run", "approvedTool", "resolvedCompact"}

(* Nobody in the loop moves.                                               *)
LEMMA AsideCards ==
    ASSUME CardsOK, BatchOK', UNCHANGED <<status, cardVars, pendingToolCalls>>,
           \A g \in Activations : \/ act'[g].pc = act[g].pc /\ act'[g].call = act[g].call
                                  \/ act[g].pc \notin CardPcs /\ act'[g].pc \notin CardPcs
    PROVE  CardsOK'
<1>1. \A p \in CardPcs : At(p)' <=> At(p) BY DEF At
<1>2. HeldOK' BY <1>1 DEF CardsOK, HeldOK, CardPcs
<1>3. ShownOK' BY DEF CardsOK, ShownOK
<1>4. ASSUME NEW g \in Activations
      PROVE  /\ act'[g].pc = "run" => NoCards'
             /\ act'[g].pc = "approvedTool" => act'[g].call.kind = "approval"
  BY DEF CardsOK, NoCards, CardPcs
<1> QED BY <1>2, <1>3, <1>4 DEF CardsOK

LEMMA RunningIsCardless ==
    ASSUME TypeOK, CardsOK, status \notin Waiting
    PROVE  NoCards
BY DEF TypeOK, ScalarsOK, CardsOK, ShownOK, NoCards, Waiting

LEMMA StretchCards ==
    ASSUME Unstopped, ConsentAnswers, TypeOK, LoopOK, CardsOK, NEW f \in Activations, Stretch(f)
    PROVE  CardsOK'
<1> USE DEF TypeOK
<1>0. /\ PointOK(act[f].pc) /\ stopScope = "none" /\ BatchOK
      /\ act[f].pc \in RunningPcs => status = "running" /\ NoCards /\ Alone(f)
  BY LoopIsAlone, RunningIsCardless
     DEF LoopOK, SessionOK, PointOK, CardsOK, RunningPcs, LoopPcs, InLoop, Waiting
<1> USE DEF RunningPcs, LoopPcs, LoopAwaits, LoopStretches
<1>1. CASE StartLoop(f)
  <2>1. Moves(f, "top") /\ Alone(f) BY <1>1, LoopIsAlone, GotoMoves DEF StartLoop, InLoop
  <2>2. NoCards BY <1>1 DEF StartLoop, CardsOK
  <2>3. BatchOK' BY <1>0, <1>1 DEF StartLoop, BatchOK
  <2> QED BY <1>1, <2>1, <2>2, <2>3, LoopCards DEF StartLoop, Waiting
<1>2. CASE BatchDrained(f) \/ RefuseCall(f) \/ StartTool(f)
  <2>1. act[f].pc \in {"top", "drain"} BY <1>2 DEF BatchDrained, RefuseCall, StartTool, HeadIs, Draining
  <2>2. \E p \in {"boundary", "drain", "tool"} : Moves(f, p)
    BY <1>2, GotoMoves, ZenonT(60) DEF BatchDrained, RefuseCall, StartTool, Moves, ActivationsOK, Activation, Fresh
  <2>3. BatchOK' BY <1>0, <1>2, FewerCalls DEF BatchDrained, RefuseCall, StartTool
  <2>4. UNCHANGED <<status, cardVars>> BY <1>2 DEF BatchDrained, RefuseCall, StartTool
  <2> QED BY <1>0, <2>1, <2>2, <2>3, <2>4, LoopCards DEF Waiting
<1>3. CASE ObserveStop(f) BY <1>0, <1>3 DEF ObserveStop
<1>4. CASE PauseForApproval(f)
  <2>1. NoCards /\ Alone(f) /\ pendingToolCalls # <<>> BY <1>0, <1>4 DEF PauseForApproval, HeadIs, Draining
  <2>2. Head(pendingToolCalls).kind = "approval"
    BY <1>0, <1>4, <2>1, HeadKind DEF PauseForApproval, HeadIs, ConsentAnswers
  <2>3. pendingApproval' # NoCall BY <1>4, <2>2 DEF PauseForApproval, NoCall
  <2>4. ShownOK' /\ HeldOK' BY <1>4, <2>1, <2>2, <2>3 DEF PauseForApproval, NoCards, ShownOK, HeldOK
  <2> QED BY <1>0, <1>4, <2>1, <2>4, GotoMoves, FewerCalls, PauseCards DEF PauseForApproval
<1>5. CASE PauseForInput(f)
  <2>1. NoCards /\ Alone(f) BY <1>0, <1>5 DEF PauseForInput, HeadIs, Draining
  <2>2. pendingQuestion' # NoCall BY <1>5 DEF PauseForInput, HeadIs, NoCall
  <2>3. ShownOK' /\ HeldOK' BY <1>5, <2>1, <2>2 DEF PauseForInput, NoCards, ShownOK, HeldOK
  <2> QED BY <1>0, <1>5, <2>1, <2>3, GotoMoves, FewerCalls, PauseCards DEF PauseForInput
<1>6. CASE RaiseStallPause(f)
  <2>1. NoCards /\ Alone(f) BY <1>0, <1>6 DEF RaiseStallPause, AtBoundary
  <2>2. pendingStall' > 0 BY <1>0, <1>6 DEF RaiseStallPause, BatchOK, ScalarsOK
  <2>3. ShownOK' /\ HeldOK' BY <1>6, <2>1, <2>2 DEF RaiseStallPause, NoCards, ShownOK, HeldOK
  <2> QED BY <1>0, <1>6, <2>1, <2>3, GotoMoves, FewerCalls, PauseCards DEF RaiseStallPause
<1>7. CASE RaiseCompactionPause(f)
  <2>1. NoCards /\ Alone(f) BY <1>0, <1>7 DEF RaiseCompactionPause, ToSend, AtBoundary
  <2>2. pendingCompaction' # "none" BY <1>7 DEF RaiseCompactionPause
  <2>3. ShownOK' /\ HeldOK' BY <1>7, <2>1, <2>2 DEF RaiseCompactionPause, NoCards, ShownOK, HeldOK
  <2> QED BY <1>0, <1>7, <2>1, <2>3, GotoMoves, FewerCalls, PauseCards DEF RaiseCompactionPause
<1>8. CASE \/ DeclineAtCap(f) \/ StartAutoCompact(f) \/ ProceedToSend(f) \/ AskLoopTitle(f)
           \/ SendRequest(f) \/ Settle(f)
  <2>1. act[f].pc \in {"boundary", "title", "request", "settled"}
    BY <1>8 DEF DeclineAtCap, StartAutoCompact, ProceedToSend, AskLoopTitle, SendRequest, Settle, ToSend, AtBoundary
  <2>2. \E p \in {"exit", "autoCompact", "title", "loopTitle", "llm", "settleTitle", "drainQueue"} : Moves(f, p)
    BY <1>8, GotoMoves, ZenonT(60) DEF DeclineAtCap, StartAutoCompact, ProceedToSend, AskLoopTitle, SendRequest, Settle,
       Moves, ActivationsOK, Activation, Fresh
  <2>3. UNCHANGED <<cardVars, pendingToolCalls, iterationBudget>> /\ status' \in {status, "idle"}
    BY <1>8 DEF DeclineAtCap, StartAutoCompact, ProceedToSend, AskLoopTitle, SendRequest, Settle, SettleNormally
  <2>4. BatchOK' BY <1>0, <2>3, FewerCalls
  <2> QED BY <1>0, <2>1, <2>2, <2>3, <2>4, LoopCards DEF Waiting
<1>9. CASE DrainQueue(f)
  <2>1. CASE MayDrain /\ queue > 0
    <3>1. Alone(f) BY <1>9, <2>1, IdleIsAlone DEF DrainQueue, MayDrain, StretchPcs, InLoop
    <3>2. Moves(f, "run") BY <1>9, <2>1, GotoMoves DEF DrainQueue, OpenTurn
    <3>3. NoCards BY <2>1, RunningIsCardless DEF MayDrain, Waiting
    <3>4. NoCards' BY <1>9, <2>1, <3>3 DEF DrainQueue, OpenTurn, FreshBudget, NoCards
    <3>5. BatchOK' BY <1>9, <2>1 DEF DrainQueue, OpenTurn, FreshBudget, BatchOK, ConsentAnswers
    <3> QED BY <3>1, <3>2, <3>4, <3>5, EnterCards
  <2>2. CASE ~(MayDrain /\ queue > 0)
    <3>1. Moves(f, "exit") BY <1>9, <2>2, GotoMoves DEF DrainQueue
    <3>2. UNCHANGED <<status, cardVars, pendingToolCalls, iterationBudget>> BY <1>9, <2>2 DEF DrainQueue
    <3> QED BY <1>0, <1>9, <3>1, <3>2, FewerCalls, AsideCards DEF DrainQueue, Moves, CardPcs
  <2> QED BY <2>1, <2>2
<1>10. CASE Exit(f)
  <2>1. Moves(f, "free") BY <1>10, GotoMoves DEF Exit
  <2>2. UNCHANGED <<status, cardVars, pendingToolCalls, iterationBudget>> BY <1>10 DEF Exit
  <2> QED BY <1>0, <1>10, <2>1, <2>2, FewerCalls, AsideCards DEF Exit, Moves, CardPcs
<1> QED BY <1>1, <1>2, <1>3, <1>4, <1>5, <1>6, <1>7, <1>8, <1>9, <1>10 DEF Stretch

LEMMA NoResultCards ==
    ASSUME Unstopped, TypeOK, LoopOK, CardsOK, NEW f \in Activations, Alone(f), NEW st, NoResult(f, st),
           status = "running", st \notin Waiting, UNCHANGED <<cardVars, pendingToolCalls, iterationBudget>>
    PROVE  CardsOK'
<1>1. \E p \in {"request", "exit"} : Moves(f, p) BY GotoMoves DEF NoResult, TypeOK
<1>2. status' = st BY DEF NoResult, LoopOK, SessionOK
<1>3. BatchOK' BY FewerCalls DEF CardsOK, TypeOK
<1>4. NoCards BY RunningIsCardless DEF Waiting
<1> QED BY <1>1, <1>2, <1>3, <1>4, LoopCards

LEMMA CompletionCards ==
    ASSUME Unstopped, ConsentAnswers, TypeOK, LoopOK, CardsOK, NEW f \in Activations, Completion(f)
    PROVE  CardsOK'
<1> USE DEF TypeOK
<1>0. /\ PointOK(act[f].pc) /\ stopScope = "none" /\ BatchOK /\ "running" \notin Waiting /\ "idle" \notin Waiting
      /\ act[f].pc \in RunningPcs => status = "running" /\ NoCards /\ Alone(f)
      /\ act[f].pc \in LoopPcs => Alone(f)
  BY LoopIsAlone, RunningIsCardless
     DEF LoopOK, SessionOK, PointOK, CardsOK, RunningPcs, LoopPcs, InLoop, Waiting
<1> USE DEF RunningPcs, LoopPcs, LoopAwaits, LoopStretches
<1>1. CASE ToolReturns(f)
  <2>1. Moves(f, "drain") BY <1>0, <1>1, GotoMoves DEF ToolReturns
  <2>2. BatchOK' /\ UNCHANGED <<status, cardVars>> BY <1>0, <1>1, FewerCalls DEF ToolReturns
  <2> QED BY <1>0, <1>1, <2>1, <2>2, LoopCards DEF ToolReturns
<1>2. CASE ToolThrows(f)
  <2>1. Moves(f, "exit") BY <1>2, GotoMoves DEF ToolThrows
  <2>2. BatchOK' /\ UNCHANGED <<status, cardVars>> BY <1>0, <1>2, FewerCalls DEF ToolThrows
  <2> QED BY <1>0, <1>2, <2>1, <2>2, LoopCards DEF ToolThrows
<1>3. ASSUME NEW ok \in BOOLEAN, AutoCompactEnds(f, ok) PROVE CardsOK'
  <2>1. Moves(f, "title") BY <1>0, <1>3, GotoMoves DEF AutoCompactEnds
  <2>2. BatchOK' /\ UNCHANGED <<status, cardVars>> BY <1>0, <1>3, FewerCalls DEF AutoCompactEnds
  <2> QED BY <1>0, <1>3, <2>1, <2>2, LoopCards DEF AutoCompactEnds
<1>4. ASSUME NEW ok \in BOOLEAN, LoopTitleEnds(f, ok) PROVE CardsOK'
  <2>1. Moves(f, "request") BY <1>4, GotoMoves DEF LoopTitleEnds
  <2>2. BatchOK' /\ UNCHANGED <<status, cardVars>> BY <1>0, <1>4, FewerCalls DEF LoopTitleEnds
  <2> QED BY <1>0, <1>4, <2>1, <2>2, LoopCards DEF LoopTitleEnds
<1>5. CASE ApprovedToolReturns(f)
  <2>1. Moves(f, "run") /\ Alone(f) BY <1>0, <1>5, GotoMoves DEF ApprovedToolReturns
  <2>2. NoCards BY <1>0, <1>5 DEF ApprovedToolReturns, PointOK, CardsOK, ShownOK, NoCards, ScalarsOK
  <2>3. NoCards' /\ BatchOK' BY <1>0, <1>5, <2>2, FewerCalls DEF ApprovedToolReturns, NoCards
  <2> QED BY <2>1, <2>3, EnterCards
<1>6. CASE ApprovedToolThrows(f) BY <1>6 DEF ApprovedToolThrows, CardsOK, Throwing
<1>7. ASSUME NEW ok \in BOOLEAN, ResolvedCompactEnds(f, ok) PROVE CardsOK'
  <2>1. Moves(f, "run") /\ Alone(f) BY <1>0, <1>7, GotoMoves DEF ResolvedCompactEnds
  <2>2. NoCards BY <1>0, <1>7 DEF ResolvedCompactEnds, PointOK, CardsOK, ShownOK, NoCards, ScalarsOK
  <2>3. NoCards' /\ BatchOK' BY <1>0, <1>7, <2>2, FewerCalls DEF ResolvedCompactEnds, NoCards
  <2> QED BY <2>1, <2>3, EnterCards
<1>8. ASSUME NEW kinds \in Batches, NEW cut \in BOOLEAN, AnswerLands(f, kinds, cut) PROVE CardsOK'
  <2>1. \E p \in {"settled", "top"} : Moves(f, p) BY <1>8, GotoMoves DEF AnswerLands
  <2>2. UNCHANGED <<status, cardVars, iterationBudget>> BY <1>8 DEF AnswerLands
  <2>3. BatchOK'
    <3>1. CASE cut \/ kinds = <<>> BY <1>0, <1>8, <2>2, <3>1, FewerCalls DEF AnswerLands
    <3>2. CASE ~(cut \/ kinds = <<>>)
      <4> DEFINE batch == [i \in 1 .. Len(kinds) |-> [asst |-> Len(entries) + 1, idx |-> i, kind |-> kinds[i]]]
      <4>1. pendingToolCalls' = batch BY <1>8, <3>2 DEF AnswerLands
      <4>2. PICK k \in 0 .. MaxCalls : kinds \in [1 .. k -> CallKinds] BY DEF Batches
      <4>3. k \in Nat BY <4>2, BoundsAssumption
      <4>4. Len(kinds) = k BY <4>2, <4>3
      <4>5. \A i \in 1 .. k : batch[i].kind \in CallKinds BY <4>2, <4>4
      <4>6. Len(batch) = k BY <4>3, <4>4
      <4> HIDE DEF batch
      <4> QED BY <1>0, <2>2, <4>1, <4>5, <4>6 DEF BatchOK
    <3> QED BY <3>1, <3>2
  <2> QED BY <1>0, <1>8, <2>1, <2>2, <2>3, LoopCards DEF AnswerLands
<1>9. CASE RequestUnwinds(f)
  <2>1. NoResult(f, status) /\ Alone(f) /\ status = "running" BY <1>0, <1>9 DEF RequestUnwinds
  <2> QED BY <1>0, <1>9, <2>1, NoResultCards DEF RequestUnwinds
<1>10. CASE RequestOverWindow(f)
  <2>1. Alone(f) /\ status = "running" /\ NoCards /\ UNCHANGED <<cardVars, pendingToolCalls, iterationBudget>>
    BY <1>0, <1>10 DEF RequestOverWindow
  <2>2. CASE act[f].again
    <3>1. NoResult(f, "idle") BY <1>10, <2>2 DEF RequestOverWindow
    <3> QED BY <1>0, <2>1, <3>1, NoResultCards
  <2>3. CASE ~act[f].again
    <3>1. Moves(f, "forcedCompact") /\ status' = status
        BY <1>0, <1>10, <2>3 DEF RequestOverWindow, Moves, ActivationsOK, Activation, Fresh
    <3> QED BY <1>0, <2>1, <3>1, FewerCalls, LoopCards
  <2> QED BY <2>2, <2>3
<1>11. ASSUME NEW ok \in BOOLEAN, ForcedCompactEnds(f, ok) PROVE CardsOK'
  <2>1. Alone(f) /\ status = "running" /\ NoCards /\ UNCHANGED <<cardVars, pendingToolCalls, iterationBudget>>
    BY <1>0, <1>11 DEF ForcedCompactEnds
  <2>2. CASE ~ok
    <3>1. NoResult(f, "idle") BY <1>0, <1>11, <2>2 DEF ForcedCompactEnds
    <3> QED BY <1>0, <2>1, <3>1, NoResultCards
  <2>3. CASE ok
    <3>1. Moves(f, "llm") /\ status' = status
        BY <1>0, <1>11, <2>3 DEF ForcedCompactEnds, Moves, ActivationsOK, Activation, Fresh
    <3> QED BY <1>0, <2>1, <3>1, FewerCalls, LoopCards
  <2> QED BY <2>2, <2>3
<1>12. CASE RequestFails(f)
  <2>1. NoResult(f, (IF BreakerTrips THEN "halted" ELSE "idle")) /\ Alone(f) /\ status = "running"
    BY <1>0, <1>12 DEF RequestFails
  <2>2. (IF BreakerTrips THEN "halted" ELSE "idle") \notin Waiting BY DEF Waiting
  <2> QED BY <1>12, <2>1, <2>2, NoResultCards DEF RequestFails
<1>13. CASE RequestTransient(f)
  <2>1. Moves(f, "backoff") BY <1>13 DEF RequestTransient, Moves, ActivationsOK, Activation, Fresh
  <2>2. BatchOK' /\ UNCHANGED <<status, cardVars>> BY <1>0, <1>13, FewerCalls DEF RequestTransient
  <2> QED BY <1>0, <1>13, <2>1, <2>2, LoopCards DEF RequestTransient
<1>14. CASE BackOffEnds(f)
  <2>1. Alone(f) /\ status = "running" /\ NoCards /\ UNCHANGED <<cardVars, pendingToolCalls, iterationBudget>>
    BY <1>0, <1>14 DEF BackOffEnds
  <2>2. CASE Interrupted
    <3>1. NoResult(f, status) BY <1>14, <2>2 DEF BackOffEnds
    <3> QED BY <1>0, <2>1, <3>1, NoResultCards
  <2>3. CASE ~Interrupted
    <3>1. Moves(f, "llm") /\ status' = status
        BY <1>14, <2>3 DEF BackOffEnds, Moves, ActivationsOK, Activation, Fresh
    <3> QED BY <1>0, <2>1, <3>1, FewerCalls, LoopCards
  <2> QED BY <2>2, <2>3
<1>15. ASSUME NEW ok \in BOOLEAN, SettleTitleEnds(f, ok) PROVE CardsOK'
  <2>1. Moves(f, "drainQueue") BY <1>15, GotoMoves DEF SettleTitleEnds
  <2>2. BatchOK' BY <1>0, <1>15, FewerCalls DEF SettleTitleEnds
  <2> QED BY <1>15, <2>1, <2>2, AsideCards DEF SettleTitleEnds, Moves, CardPcs
<1>16. ASSUME NEW ok \in BOOLEAN, CompactNowEnds(f, ok) PROVE CardsOK'
  <2>1. Moves(f, "free") BY <1>16, GotoMoves DEF CompactNowEnds
  <2>2. BatchOK' BY <1>0, <1>16, FewerCalls DEF CompactNowEnds
  <2> QED BY <1>16, <2>1, <2>2, AsideCards DEF CompactNowEnds, Moves, CardPcs
<1>17. ASSUME NEW ok \in BOOLEAN, RetryWritesEnds(f, ok) PROVE CardsOK'
  BY <1>0, <1>17 DEF RetryWritesEnds, PointOK
<1> QED BY <1>1, <1>2, <1>3, <1>4, <1>5, <1>6, <1>7, <1>8, <1>9, <1>10, <1>11, <1>12, <1>13, <1>14,
           <1>15, <1>16, <1>17 DEF Completion

LEMMA OpenCards ==
    ASSUME ConsentAnswers, TypeOK, CardsOK, NEW f \in Activations, Alone(f), NEW base, OpenTurn(f, base),
           status \in {"idle", "awaiting-continue"}
    PROVE  CardsOK'
<1>1. Moves(f, "run") BY GotoMoves DEF OpenTurn, TypeOK
<1>2. NoCards' BY DEF OpenTurn, FreshBudget, NoCards, CardsOK, ShownOK, TypeOK, ScalarsOK
<1>3. BatchOK' BY DEF OpenTurn, FreshBudget, BatchOK, ConsentAnswers
<1> QED BY <1>1, <1>2, <1>3, EnterCards

(* Nobody moves, and no card or batch changes.                             *)
LEMMA StayCards ==
    ASSUME ConsentAnswers, CallsOK, CardsOK, UNCHANGED <<status, cardVars, pendingToolCalls>>,
           iterationBudget' \in {iterationBudget, MaxToolIterations},
           \A g \in Activations : act'[g].pc = act[g].pc /\ act'[g].call = act[g].call
    PROVE  CardsOK'
<1>1. BatchOK' BY DEF CardsOK, BatchOK, ConsentAnswers
<1> QED BY <1>1, AsideCards

LEMMA PersonCards ==
    ASSUME Unstopped, ConsentAnswers, TypeOK, LoopOK, CardsOK, Person
    PROVE  CardsOK'
<1> USE DEF TypeOK
<1>0. BatchOK /\ ShownOK BY DEF CardsOK
<1>1. ASSUME NEW f \in Activations, NEW c \in Configs, Send(f, c) PROVE CardsOK'
  <2>1. Alone(f) BY <1>1, IdleIsAlone DEF Send, Asked, Free, CanSend, InLoop, LoopAwaits, LoopStretches
  <2> QED BY <1>1, <2>1, OpenCards DEF Send, CanSend
<1>2. ASSUME NEW f \in Activations, NEW c \in Configs, Enqueue(f, c) PROVE CardsOK'
  <2>1. CASE MayDrain
    <3>1. Alone(f) BY <1>2, <2>1, IdleIsAlone DEF Enqueue, Asked, Free, MayDrain, InLoop, LoopAwaits, LoopStretches
    <3> QED BY <1>2, <2>1, <3>1, OpenCards DEF Enqueue, MayDrain
  <2>2. CASE ~MayDrain BY <1>2, <2>2, StayCards DEF Enqueue
  <2> QED BY <2>1, <2>2
<1>3. ASSUME NEW f \in Activations, NEW e \in 1 .. Len(entries), EditFork(f, e) PROVE CardsOK'
  <2>1. Alone(f) BY <1>3, IdleIsAlone DEF EditFork, Asked, Free, CanSend, InLoop, LoopAwaits, LoopStretches
  <2> QED BY <1>3, <2>1, OpenCards DEF EditFork, CanSend
<1>4. ASSUME NEW f \in Activations, NEW runs \in BOOLEAN, NEW note \in BOOLEAN, Approve(f, runs, note)
      PROVE  CardsOK'
  <2>1. Alone(f) BY <1>4, ParkedLoop DEF Approve, Asked, Alone
  <2>2. NoCards' /\ UNCHANGED status BY <1>0, <1>4 DEF Approve, ShownOK, NoCards, ScalarsOK
  <2>3. CASE runs
    <3>1. Moves(f, "approvedTool") /\ act'[f].call = pendingApproval
        BY <1>4, <2>3 DEF Approve, Moves, ActivationsOK, Activation, Fresh
    <3>2. BatchOK' BY <1>0, <1>4, <2>3, FewerCalls DEF Approve
    <3>3. pendingApproval.kind = "approval" BY <1>0, <1>4 DEF Approve, ShownOK
    <3>4. ShownOK' BY <2>2 DEF NoCards, ShownOK
    <3>5. HeldOK'
      <4>1. At("approvedTool")' /\ status' = "awaiting-approval" BY <1>4, <3>1 DEF At, Moves, Approve
      <4> QED BY <4>1 DEF HeldOK
    <3>6. \A g \in Activations : g # f => act'[g].pc \notin {"run", "approvedTool"}
        BY <2>1, <3>1 DEF Moves, Alone, InLoop, LoopStretches
    <3> QED BY <3>1, <3>2, <3>3, <3>4, <3>5, <3>6 DEF CardsOK, Moves
  <2>4. CASE ~runs
    <3>1. Moves(f, "run") BY <1>4, <2>4, GotoMoves DEF Approve
    <3>2. BatchOK' BY <1>0, <1>4, <2>4, FewerCalls DEF Approve
    <3> QED BY <2>1, <2>2, <3>1, <3>2, EnterCards
  <2> QED BY <2>3, <2>4
<1>5. ASSUME NEW f \in Activations, Answer(f) PROVE CardsOK'
  <2>1. Alone(f) BY <1>5, IdleIsAlone DEF Answer, Asked, Free, InLoop, LoopAwaits, LoopStretches
  <2>2. Moves(f, "run") BY <1>5, GotoMoves DEF Answer
  <2>3. NoCards' BY <1>0, <1>5 DEF Answer, ShownOK, NoCards, ScalarsOK
  <2>4. BatchOK' BY <1>0, <1>5, FewerCalls DEF Answer
  <2> QED BY <2>1, <2>2, <2>3, <2>4, EnterCards
<1>6. ASSUME NEW f \in Activations, CompactNow(f) PROVE CardsOK'
  <2>1. Moves(f, "compactNow") BY <1>6 DEF CompactNow, Moves, ActivationsOK, Activation, Fresh
  <2>2. BatchOK' BY <1>0, <1>6, FewerCalls DEF CompactNow
  <2> QED BY <1>6, <2>1, <2>2, AsideCards DEF CompactNow, Free, Moves, CardPcs
<1>7. ASSUME NEW f \in Activations, ContinueRun(f) PROVE CardsOK'
  <2>1. Alone(f) BY <1>7, IdleIsAlone DEF ContinueRun, Asked, Free, InLoop, LoopAwaits, LoopStretches
  <2>2. Moves(f, "run") BY <1>7, GotoMoves DEF ContinueRun
  <2>3. NoCards' BY <1>0, <1>7 DEF ContinueRun, ShownOK, NoCards, ScalarsOK
  <2>4. BatchOK' BY <1>0, <1>7 DEF ContinueRun, BatchOK
  <2> QED BY <2>1, <2>2, <2>3, <2>4, EnterCards
<1>8. ASSUME NEW f \in Activations, Retry(f) PROVE CardsOK'
  <2>1. Quiet /\ UNCHANGED <<status, cardVars, pendingToolCalls, budgetVars>> BY <1>8 DEF Retry, Asked
  <2>2. CASE status = "running" /\ streaming /\ restartRequested' = TRUE
               /\ act' = [g \in Activations |-> [act[g] EXCEPT
                       !.aborted = @ \/ (g = abortController /\ act[g].pc = "llm")]]
               /\ UNCHANGED <<stopScope, turnLeaf, healthVars>>
    <3>1. \A g \in Activations : act'[g].pc = act[g].pc /\ act'[g].call = act[g].call
        BY <2>2 DEF ActivationsOK, Activation
    <3> QED BY <2>1, <3>1, StayCards
  <2>3. CASE Free(f) /\ status \in {"idle", "halted"} /\ Goto(f, "run")
    <3>1. Alone(f) BY <2>1, <2>3, IdleIsAlone DEF Free, InLoop, LoopAwaits, LoopStretches
    <3>2. Moves(f, "run") BY <2>3, GotoMoves
    <3>3. NoCards BY <2>3, RunningIsCardless DEF Waiting
    <3>4. NoCards' /\ BatchOK' BY <1>0, <2>1, <3>3, FewerCalls DEF NoCards
    <3> QED BY <3>1, <3>2, <3>4, EnterCards
  <2> QED BY <1>8, <2>2, <2>3, Zenon DEF Retry
<1>9. ASSUME NEW f \in Activations, RetryPersistence(f) PROVE CardsOK'
  BY <1>9 DEF RetryPersistence, LoopOK, SessionOK
<1>10. ASSUME NEW f \in Activations, NEW skip \in BOOLEAN, ResolveCompaction(f, skip) PROVE CardsOK'
  <2>1. Alone(f) BY <1>10, ParkedLoop DEF ResolveCompaction, Asked, Alone
  <2>2. NoCards' /\ BatchOK' BY <1>0, <1>10, FewerCalls DEF ResolveCompaction, ShownOK, NoCards, ScalarsOK
  <2>3. CASE skip /\ pendingCompaction = "cancelable"
    <3>1. Moves(f, "run") BY <1>10, <2>3, GotoMoves DEF ResolveCompaction
    <3> QED BY <2>1, <2>2, <3>1, EnterCards
  <2>4. CASE ~(skip /\ pendingCompaction = "cancelable")
    <3>1. Moves(f, "resolvedCompact")
        BY <1>10, <2>4 DEF ResolveCompaction, Moves, ActivationsOK, Activation, Fresh
    <3>2. ShownOK' BY <2>2 DEF NoCards, ShownOK
    <3>3. HeldOK'
      <4>1. At("resolvedCompact")' /\ status' = "awaiting-compaction" BY <1>10, <3>1 DEF At, Moves, ResolveCompaction
      <4> QED BY <4>1 DEF HeldOK
    <3>4. \A g \in Activations : act'[g].pc \notin {"run", "approvedTool"}
        BY <2>1, <3>1 DEF Moves, Alone, InLoop, LoopStretches
    <3> QED BY <2>2, <3>2, <3>3, <3>4 DEF CardsOK
  <2> QED BY <2>3, <2>4
<1>11. ASSUME NEW f \in Activations, NEW cap \in Caps \cup {NoCap}, SetSpendCap(f, cap) PROVE CardsOK'
  <2>1. Quiet /\ UNCHANGED <<status, cardVars, pendingToolCalls, budgetVars>> BY <1>11 DEF SetSpendCap, Asked
  <2>2. CASE capReached /\ spendUsd < cap
    <3>1. Alone(f) BY <2>1, <2>2, CapLeavesNobody DEF Alone
    <3>2. Moves(f, "run") BY <1>11, <2>2, GotoMoves DEF SetSpendCap
    <3>3. NoCards BY <2>2, RunningIsCardless DEF LoopOK, SessionOK
    <3>4. NoCards' /\ BatchOK' BY <1>0, <2>1, <3>3, FewerCalls DEF NoCards
    <3> QED BY <3>1, <3>2, <3>4, EnterCards
  <2>3. CASE ~(capReached /\ spendUsd < cap) BY <1>11, <2>1, <2>3, StayCards DEF SetSpendCap
  <2> QED BY <2>2, <2>3
<1>12. ASSUME NEW leaf \in 1 .. Len(entries), SetActiveLeaf(leaf) PROVE CardsOK'
  BY <1>12, StayCards DEF SetActiveLeaf
<1>13. ASSUME NEW k \in 0 .. MaxQueue, SetQueue(k) PROVE CardsOK' BY <1>13, StayCards DEF SetQueue
<1>14. ASSUME NEW scope \in {"soft", "hard"}, Stop(scope) PROVE CardsOK'
  BY <1>14 DEF Stop, Asked, Unstopped
<1>15. CASE ParkNotice BY <1>15, StayCards DEF ParkNotice
<1>16. CASE RaisePersistenceFault BY <1>16 DEF RaisePersistenceFault, Asked, Unstopped
<1>17. CASE DiscardPersistence BY <1>17 DEF DiscardPersistence, LoopOK, SessionOK
<1>18. ASSUME NEW m \in TriggerModes, SetTriggerMode(m) PROVE CardsOK' BY <1>18, StayCards DEF SetTriggerMode
<1> QED BY <1>1, <1>2, <1>3, <1>4, <1>5, <1>6, <1>7, <1>8, <1>9, <1>10, <1>11, <1>12, <1>13, <1>14,
           <1>15, <1>16, <1>17, <1>18 DEF Person

LEMMA CardsInit == ASSUME Init, ConsentAnswers PROVE CardsOK
<1>1. \A f \in Activations : act[f].pc = "free" BY DEF Init, Fresh
<1> QED BY <1>1 DEF Init, CardsOK, BatchOK, ShownOK, HeldOK, ConsentAnswers

(* The batch that waits, the card that shows and the status of the session *)
(* name the same call.                                                     *)
THEOREM CardsInvariance ==
    ASSUME Unstopped, ConsentAnswers
    PROVE  Spec => []CardsOK
<1>1. Init => CardsOK BY CardsInit
<1>2. TypeOK /\ LoopOK /\ CardsOK /\ [Next]_vars => CardsOK'
  <2>1. CASE UNCHANGED vars BY <2>1, StayCards DEF vars, TypeOK
  <2> QED BY <2>1, PersonCards, StretchCards, CompletionCards DEF Next, Progress
<1>3. StopsFindTheLoop BY DEF StopsFindTheLoop
<1> QED BY <1>1, <1>2, <1>3, TypeCorrect, LoopInvariance, PTL DEF Spec

(* Whoever waits on a person shows the card the person answers, or is at   *)
(* work on the answer, and no card outlives its pause: where nobody presses*)
(* Stop and no consented tool throws.                                      *)
THEOREM CardsFollowTheStatus ==
    ASSUME Unstopped, ConsentAnswers
    PROVE  Spec => []CardMatchesStatus
<1>1. TypeOK /\ CardsOK => CardMatchesStatus
  <2>1. SUFFICES ASSUME TypeOK, CardsOK, Quiet PROVE CardMatchesStatus BY DEF CardMatchesStatus
  <2>2. ~At("run") BY <2>1 DEF At, Quiet, StretchPcs, LoopStretches
  <2>3. pendingStall \in Nat BY <2>1 DEF TypeOK, ScalarsOK
  <2> QED BY <2>1, <2>2, <2>3 DEF CardsOK, ShownOK, HeldOK, At, CardMatchesStatus
<1> QED BY <1>1, TypeCorrect, CardsInvariance, PTL

-----------------------------------------------------------------------------
(* Tool results                                                            *)

Nothing == <<0, 0>>

(* Owed, of a tree es.                                                     *)
OwedIn(es, p) ==
    IF p = 0 THEN Nothing
    ELSE IF es[p].kind = "assistant" /\ es[p].n > 0 THEN <<p, 1>>
    ELSE IF es[p].kind = "tool" /\ es[p].of \in 1 .. p /\ es[p].n < es[es[p].of].n
           THEN <<es[p].of, es[p].n + 1>>
    ELSE Nothing

NextOf(calls) == IF calls = <<>> THEN Nothing ELSE <<calls[1].asst, calls[1].idx>>
AnswerOf(e) == IF e.kind = "tool" THEN <<e.of, e.n>> ELSE Nothing

(* What is left of a batch: the last calls of one assistant message.       *)
BatchOf(es, calls) ==
    calls # <<>> =>
      /\ calls[1].asst \in 1 .. Len(es)
      /\ es[calls[1].asst].n = calls[1].idx + Len(calls) - 1
      /\ \A i \in 1 .. Len(calls) : calls[i].asst = calls[1].asst /\ calls[i].idx = calls[1].idx + i - 1

(* A result is owed at the working leaf only, and it is the next call's.   *)
Tree(es, leaf, view, calls) ==
    /\ \A i \in 1 .. Len(es) : OwedIn(es, es[i].parent) = AnswerOf(es[i])
    /\ OwedIn(es, leaf) = NextOf(calls)
    /\ BatchOf(es, calls)
    /\ \A p \in 1 .. Len(es) : OwedIn(es, p) # Nothing /\ (\A i \in 1 .. Len(es) : es[i].parent # p) => p = leaf
    /\ OwedIn(es, view) # Nothing => view = leaf

(* Entries that are there owe what they owed.                              *)
LEMMA GrowthOwes ==
    ASSUME NEW es \in Seq(Entry), NEW ds \in Seq(Entry), Len(es) <= Len(ds),
           \A i \in 1 .. Len(es) : ds[i] = es[i],
           NEW p \in 0 .. Len(es)
    PROVE  OwedIn(ds, p) = OwedIn(es, p)
<1>1. CASE p = 0 BY <1>1 DEF OwedIn
<1>2. CASE p # 0
  <2>1. p \in 1 .. Len(es) /\ ds[p] = es[p] BY <1>2
  <2>2. es[p].of \in 1 .. p => ds[es[p].of] = es[es[p].of] BY <2>1
  <2> QED BY <1>2, <2>1, <2>2 DEF OwedIn
<1> QED BY <1>1, <1>2

LEMMA TreeGrows ==
    ASSUME NEW es \in Seq(Entry), \A i \in 1 .. Len(es) : es[i].parent < i,
           NEW leaf \in 0 .. Len(es), NEW view \in 0 .. Len(es), NEW calls, Tree(es, leaf, view, calls),
           NEW e \in Entry, e.parent = leaf, AnswerOf(e) = NextOf(calls),
           NEW more, NextOf(more) = OwedIn(Append(es, e), Len(es) + 1), BatchOf(Append(es, e), more)
    PROVE  Tree(Append(es, e), Len(es) + 1, IF leaf = view THEN Len(es) + 1 ELSE view, more)
<1> DEFINE ds == Append(es, e)
<1>1. /\ ds \in Seq(Entry) /\ Len(ds) = Len(es) + 1 /\ Len(es) \in Nat /\ ds[Len(es) + 1] = e
      /\ \A i \in 1 .. Len(es) : ds[i] = es[i]
  BY AppendProperties
<1> HIDE DEF ds
<1>2. \A p \in 0 .. Len(es) : OwedIn(ds, p) = OwedIn(es, p) BY <1>1, GrowthOwes
<1>3. \A i \in 1 .. Len(ds) : OwedIn(ds, ds[i].parent) = AnswerOf(ds[i])
  <2>1. TAKE i \in 1 .. Len(ds)
  <2>2. CASE i = Len(es) + 1 BY <1>1, <1>2, <2>2 DEF Tree
  <2>3. CASE i # Len(es) + 1
    <3>1. i \in 1 .. Len(es) /\ ds[i] = es[i] BY <1>1, <2>3
    <3>2. es[i].parent \in 0 .. Len(es)
      <4>1. es[i] \in Entry BY <3>1, ElementOfSeq
      <4>2. es[i].parent \in Nat /\ es[i].parent < i BY <3>1, <4>1 DEF Entry
      <4> QED BY <1>1, <3>1, <4>2
    <3> QED BY <1>2, <3>1, <3>2 DEF Tree
  <2> QED BY <2>2, <2>3
<1>4. \A p \in 1 .. Len(ds) : OwedIn(ds, p) # Nothing /\ (\A i \in 1 .. Len(ds) : ds[i].parent # p)
                                => p = Len(es) + 1
  <2>1. TAKE p \in 1 .. Len(ds)
  <2>2. SUFFICES ASSUME OwedIn(ds, p) # Nothing, \A i \in 1 .. Len(ds) : ds[i].parent # p, p # Len(es) + 1
                 PROVE  FALSE
    OBVIOUS
  <2>3. p \in 1 .. Len(es) BY <1>1, <2>2
  <2>4. OwedIn(es, p) # Nothing BY <1>2, <2>2, <2>3
  <2>5. \A i \in 1 .. Len(es) : es[i].parent # p BY <1>1, <2>2
  <2>6. p = leaf BY <2>3, <2>4, <2>5 DEF Tree
  <2> QED BY <1>1, <2>2, <2>6
<1>5. view # leaf => OwedIn(ds, view) = Nothing BY <1>2 DEF Tree
<1>6. Tree(ds, Len(es) + 1, IF leaf = view THEN Len(es) + 1 ELSE view, more) BY <1>3, <1>4, <1>5 DEF Tree, ds
<1> QED BY <1>6 DEF ds

(* A chain of messages below a leaf that owes nothing.                     *)
LEMMA TreeTakesMessages ==
    ASSUME NEW es \in Seq(Entry), \A i \in 1 .. Len(es) : es[i].parent < i,
           NEW leaf \in 0 .. Len(es), NEW view \in 0 .. Len(es), Tree(es, leaf, view, <<>>),
           NEW chain \in Seq(Entry), Len(chain) > 0,
           \A i \in 1 .. Len(chain) : /\ chain[i].kind = "user"
                                      /\ chain[i].parent = IF i = 1 THEN leaf ELSE Len(es) + i - 1
    PROVE  Tree(es \o chain, Len(es) + Len(chain), IF leaf = view THEN Len(es) + Len(chain) ELSE view, <<>>)
<1> DEFINE ds == es \o chain
           last == Len(es) + Len(chain)
<1>1. /\ ds \in Seq(Entry) /\ Len(ds) = last /\ Len(es) \in Nat /\ Len(chain) \in Nat /\ last \in Nat
      /\ \A i \in 1 .. Len(es) : ds[i] = es[i]
      /\ \A i \in 1 .. last : i > Len(es) => i - Len(es) \in 1 .. Len(chain) /\ ds[i] = chain[i - Len(es)]
  BY ConcatProperties
<1>2. \A i \in 1 .. last : i > Len(es) => ds[i].kind = "user" /\ ds[i].parent = IF i = Len(es) + 1 THEN leaf ELSE i - 1
  <2>1. SUFFICES ASSUME NEW i \in 1 .. last, i > Len(es)
                 PROVE  ds[i].kind = "user" /\ ds[i].parent = IF i = Len(es) + 1 THEN leaf ELSE i - 1
    OBVIOUS
  <2>2. i - Len(es) \in 1 .. Len(chain) /\ ds[i] = chain[i - Len(es)] BY <1>1, <2>1
  <2> QED BY <1>1, <2>1, <2>2
<1> HIDE DEF ds, last
<1>3. Len(es) <= last /\ \A p \in 0 .. Len(es) : OwedIn(ds, p) = OwedIn(es, p)
  <2>1. Len(es) <= Len(ds) BY <1>1 DEF last
  <2> QED BY <1>1, <2>1, GrowthOwes
<1>4. \A p \in 1 .. last : p > Len(es) => OwedIn(ds, p) = Nothing BY <1>2 DEF OwedIn
<1>5. OwedIn(es, leaf) = Nothing BY DEF Tree, NextOf
<1>6. \A i \in 1 .. Len(ds) : OwedIn(ds, ds[i].parent) = AnswerOf(ds[i])
  <2>1. TAKE i \in 1 .. Len(ds)
  <2>2. CASE i > Len(es)
    <3>1. AnswerOf(ds[i]) = Nothing BY <1>1, <1>2, <2>2 DEF AnswerOf
    <3>2. CASE i = Len(es) + 1 BY <1>1, <1>2, <1>3, <1>5, <2>2, <3>1, <3>2
    <3>3. CASE i # Len(es) + 1
      <4>1. i \in 1 .. last /\ last \in Nat /\ Len(es) \in Nat BY <1>1
      <4>2. i - 1 \in 1 .. last /\ i - 1 > Len(es) BY <2>2, <3>3, <4>1
      <4>3. ds[i].parent = i - 1 BY <1>2, <2>2, <3>3, <4>1
      <4> QED BY <1>4, <3>1, <4>2, <4>3
    <3> QED BY <3>2, <3>3
  <2>3. CASE ~(i > Len(es))
    <3>1. i \in 1 .. Len(es) /\ ds[i] = es[i] BY <1>1, <2>3
    <3>2. es[i].parent \in 0 .. Len(es)
      <4>1. es[i] \in Entry BY <3>1, ElementOfSeq
      <4>2. es[i].parent \in Nat /\ es[i].parent < i BY <3>1, <4>1 DEF Entry
      <4> QED BY <1>1, <3>1, <4>2
    <3> QED BY <1>3, <3>1, <3>2 DEF Tree
  <2> QED BY <2>2, <2>3
<1>7. \A p \in 1 .. Len(ds) : OwedIn(ds, p) # Nothing /\ (\A i \in 1 .. Len(ds) : ds[i].parent # p)
                                => p = last
  <2>1. TAKE p \in 1 .. Len(ds)
  <2>2. SUFFICES ASSUME OwedIn(ds, p) # Nothing, \A i \in 1 .. Len(ds) : ds[i].parent # p PROVE FALSE
    OBVIOUS
  <2>3. p \in 1 .. Len(es) BY <1>1, <1>4, <2>2
  <2>4. OwedIn(es, p) # Nothing BY <1>3, <2>2, <2>3
  <2>5. \A i \in 1 .. Len(es) : es[i].parent # p BY <1>1, <1>3, <2>2
  <2>6. p = leaf BY <2>3, <2>4, <2>5 DEF Tree
  <2> QED BY <1>5, <2>4, <2>6
<1>8. view # leaf => OwedIn(ds, view) = Nothing BY <1>3 DEF Tree
<1>9. last \in 1 .. last /\ last > Len(es) BY <1>1 DEF last
<1>10. OwedIn(ds, last) = Nothing BY <1>4, <1>9
<1>11. Tree(ds, last, IF leaf = view THEN last ELSE view, <<>>)
  BY <1>6, <1>7, <1>8, <1>10 DEF Tree, NextOf, BatchOf
<1> QED BY <1>11 DEF ds, last

(* A message below any entry that owes nothing opens a branch.             *)
LEMMA TreeForks ==
    ASSUME NEW es \in Seq(Entry), \A i \in 1 .. Len(es) : es[i].parent < i,
           NEW leaf \in 0 .. Len(es), NEW view \in 0 .. Len(es), Tree(es, leaf, view, <<>>),
           NEW e \in Entry, e.kind = "user", e.parent \in 0 .. Len(es), OwedIn(es, e.parent) = Nothing
    PROVE  Tree(Append(es, e), Len(es) + 1, Len(es) + 1, <<>>)
<1> DEFINE ds == Append(es, e)
<1>1. /\ ds \in Seq(Entry) /\ Len(ds) = Len(es) + 1 /\ Len(es) \in Nat /\ ds[Len(es) + 1] = e
      /\ \A i \in 1 .. Len(es) : ds[i] = es[i]
  BY AppendProperties
<1> HIDE DEF ds
<1>2. \A p \in 0 .. Len(es) : OwedIn(ds, p) = OwedIn(es, p) BY <1>1, GrowthOwes
<1>3. OwedIn(ds, Len(es) + 1) = Nothing BY <1>1 DEF OwedIn
<1>4. \A i \in 1 .. Len(ds) : OwedIn(ds, ds[i].parent) = AnswerOf(ds[i])
  <2>1. TAKE i \in 1 .. Len(ds)
  <2>2. CASE i = Len(es) + 1 BY <1>1, <1>2, <2>2 DEF AnswerOf
  <2>3. CASE i # Len(es) + 1
    <3>1. i \in 1 .. Len(es) /\ ds[i] = es[i] BY <1>1, <2>3
    <3>2. es[i].parent \in 0 .. Len(es)
      <4>1. es[i] \in Entry BY <3>1, ElementOfSeq
      <4>2. es[i].parent \in Nat /\ es[i].parent < i BY <3>1, <4>1 DEF Entry
      <4> QED BY <1>1, <3>1, <4>2
    <3> QED BY <1>2, <3>1, <3>2 DEF Tree
  <2> QED BY <2>2, <2>3
<1>5. \A p \in 1 .. Len(ds) : OwedIn(ds, p) # Nothing /\ (\A i \in 1 .. Len(ds) : ds[i].parent # p)
                                => p = Len(es) + 1
  <2>1. TAKE p \in 1 .. Len(ds)
  <2>2. SUFFICES ASSUME OwedIn(ds, p) # Nothing, \A i \in 1 .. Len(ds) : ds[i].parent # p, p # Len(es) + 1
                 PROVE  FALSE
    OBVIOUS
  <2>3. p \in 1 .. Len(es) BY <1>1, <2>2
  <2>4. OwedIn(es, p) # Nothing BY <1>2, <2>2, <2>3
  <2>5. \A i \in 1 .. Len(es) : es[i].parent # p BY <1>1, <2>2
  <2>6. p = leaf BY <2>3, <2>4, <2>5 DEF Tree
  <2> QED BY <2>4, <2>6 DEF Tree, NextOf
<1>6. Tree(ds, Len(es) + 1, Len(es) + 1, <<>>) BY <1>3, <1>4, <1>5 DEF Tree, NextOf, BatchOf
<1> QED BY <1>6 DEF ds

(* The view is where the work goes on, nothing being owed.                 *)
LEMMA TreeUnpins ==
    ASSUME NEW es, NEW leaf, NEW view, Tree(es, leaf, view, <<>>)
    PROVE  Tree(es, view, view, <<>>) /\ OwedIn(es, view) = Nothing
BY DEF Tree, NextOf

(* A result answers the next call of the batch.                            *)
LEMMA ResultAnswers ==
    ASSUME NEW es \in Seq(Entry), NEW calls \in Seq(Call), calls # <<>>, BatchOf(es, calls), NEW e \in Entry,
           e.kind = "tool", e.of = calls[1].asst, e.n = calls[1].idx
    PROVE  /\ AnswerOf(e) = NextOf(calls)
           /\ NextOf(Tail(calls)) = OwedIn(Append(es, e), Len(es) + 1)
           /\ BatchOf(Append(es, e), Tail(calls))
<1> DEFINE ds == Append(es, e)
           rest == Tail(calls)
<1>1. /\ ds \in Seq(Entry) /\ Len(ds) = Len(es) + 1 /\ Len(es) \in Nat /\ ds[Len(es) + 1] = e
      /\ \A i \in 1 .. Len(es) : ds[i] = es[i]
  BY AppendProperties
<1>2. /\ rest \in Seq(Call) /\ Len(calls) \in Nat /\ Len(calls) > 0 /\ Len(rest) = Len(calls) - 1
      /\ \A i \in 1 .. Len(rest) : rest[i] = calls[i + 1]
  BY HeadTailProperties, EmptySeq
<1>3. calls[1] \in Call BY <1>2, ElementOfSeq
<1>4. calls[1].asst \in Nat /\ calls[1].idx \in Nat BY <1>3 DEF Call
<1> HIDE DEF ds, rest
<1>5. calls[1].asst \in 1 .. Len(es) /\ ds[calls[1].asst].n = calls[1].idx + Len(calls) - 1
  BY <1>1 DEF BatchOf
<1>6. rest = <<>> <=> Len(calls) = 1 BY <1>2, EmptySeq
<1>7. rest # <<>> => rest[1].asst = calls[1].asst /\ rest[1].idx = calls[1].idx + 1
  <2>1. SUFFICES ASSUME rest # <<>> PROVE rest[1].asst = calls[1].asst /\ rest[1].idx = calls[1].idx + 1 OBVIOUS
  <2>2. 1 \in 1 .. Len(rest) /\ 2 \in 1 .. Len(calls) BY <1>2, <1>6, <2>1
  <2>3. rest[1] = calls[2] BY <1>2, <2>2
  <2>4. calls[2].asst = calls[1].asst /\ calls[2].idx = calls[1].idx + 2 - 1 BY <2>2 DEF BatchOf
  <2> QED BY <1>4, <2>3, <2>4
<1>8. OwedIn(ds, Len(es) + 1) = IF Len(calls) > 1 THEN <<calls[1].asst, calls[1].idx + 1>> ELSE Nothing
  <2>1. Len(es) + 1 # 0 /\ calls[1].asst \in 1 .. Len(es) + 1 BY <1>1, <1>5
  <2>2. calls[1].idx < ds[calls[1].asst].n <=> Len(calls) > 1 BY <1>2, <1>4, <1>5
  <2> QED BY <1>1, <2>1, <2>2 DEF OwedIn
<1>9. NextOf(rest) = OwedIn(ds, Len(es) + 1) BY <1>2, <1>6, <1>7, <1>8 DEF NextOf
<1>10. BatchOf(ds, rest)
  <2>1. SUFFICES ASSUME rest # <<>>
                 PROVE  /\ rest[1].asst \in 1 .. Len(ds)
                        /\ ds[rest[1].asst].n = rest[1].idx + Len(rest) - 1
                        /\ \A i \in 1 .. Len(rest) : rest[i].asst = rest[1].asst /\ rest[i].idx = rest[1].idx + i - 1
    BY DEF BatchOf
  <2>2. rest[1].asst \in 1 .. Len(ds) BY <1>1, <1>5, <1>7, <2>1
  <2>3. ds[rest[1].asst].n = rest[1].idx + Len(rest) - 1
    <3>1. ds[rest[1].asst].n = calls[1].idx + Len(calls) - 1 BY <1>5, <1>7, <2>1
    <3>2. rest[1].idx = calls[1].idx + 1 BY <1>7, <2>1
    <3>3. Len(calls) \in Nat /\ Len(rest) = Len(calls) - 1 BY <1>2
    <3>4. \A a, b \in Nat : a + b - 1 = (a + 1) + (b - 1) - 1 OBVIOUS
    <3> QED BY <1>4, <3>1, <3>2, <3>3, <3>4, Zenon
  <2>4. ASSUME NEW i \in 1 .. Len(rest)
        PROVE  rest[i].asst = rest[1].asst /\ rest[i].idx = rest[1].idx + i - 1
    <3>1. i + 1 \in 1 .. Len(calls) /\ rest[i] = calls[i + 1] BY <1>2
    <3>2. calls[i + 1].asst = calls[1].asst /\ calls[i + 1].idx = calls[1].idx + (i + 1) - 1 BY <3>1 DEF BatchOf
    <3> QED BY <1>4, <1>7, <2>1, <3>1, <3>2
  <2> QED BY <2>2, <2>3, <2>4
<1>11. AnswerOf(e) = NextOf(calls) BY DEF AnswerOf, NextOf
<1> QED BY <1>9, <1>10, <1>11 DEF ds, rest

(* The person uses the browser's edits and rewinds, no consent or tool     *)
(* fails, no answer is cut off, and the branch of a turn stays its branch. *)
WireKept ==
    /\ Unstopped /\ BranchStays /\ ConsentAnswers
    /\ "length" \notin ModelErrors /\ CallKinds \cap Throwing = {} /\ "anyEntry" \notin Ops

WireTree == Tree(entries, WorkingLeaf, activeLeaf, pendingToolCalls)

(* What is left of a batch waits on a person, or the loop is at it.        *)
BatchHeld ==
    pendingToolCalls # <<>> =>
      \/ status \in {"awaiting-approval", "awaiting-input"}
      \/ status = "running" /\ \E f \in Activations : InLoop(f)

(* The question asked, or the call executed, is the next one.              *)
QuestionNext == pendingQuestion # NoCall => pendingToolCalls # <<>> /\ pendingQuestion = Head(pendingToolCalls)
ToolNext ==
    \A f \in Activations :
        act[f].pc \in {"tool", "approvedTool"} => pendingToolCalls # <<>> /\ act[f].call = Head(pendingToolCalls)

WireOK == WireTree /\ BatchHeld /\ QuestionNext /\ ToolNext

LEMMA SameWire ==
    ASSUME WireTree, UNCHANGED <<convVars, pendingToolCalls>>
    PROVE  WireTree'
BY DEF WireTree, WorkingLeaf

LEMMA AppendWire ==
    ASSUME ConversationOK, WireTree, NEW e \in Entry, e.parent = WorkingLeaf, Append1(e),
           AnswerOf(e) = NextOf(pendingToolCalls),
           NextOf(pendingToolCalls') = OwedIn(Append(entries, e), Len(entries) + 1),
           BatchOf(Append(entries, e), pendingToolCalls')
    PROVE  WireTree'
<1> DEFINE new == Len(entries) + 1
<1>1. /\ entries \in Seq(Entry) /\ \A i \in 1 .. Len(entries) : entries[i].parent < i
      /\ activeLeaf \in 0 .. Len(entries) /\ WorkingLeaf \in 0 .. Len(entries)
  BY LeafType DEF ConversationOK, Leaves
<1>2. Tree(Append(entries, e), new, IF WorkingLeaf = activeLeaf THEN new ELSE activeLeaf, pendingToolCalls')
  BY <1>1, TreeGrows DEF WireTree
<1>3. entries' = Append(entries, e) /\ activeLeaf' = IF WorkingLeaf = activeLeaf THEN new ELSE activeLeaf
  BY DEF Append1
<1>4. WorkingLeaf' = new
  <2>1. new # Unpinned BY <1>1
  <2> QED BY <2>1 DEF Append1, WorkingLeaf
<1> QED BY <1>2, <1>3, <1>4 DEF WireTree

LEMMA ResultWire ==
    ASSUME ConversationOK, CallsOK, WireTree, pendingToolCalls # <<>>, PushResult(Head(pendingToolCalls)), Shift
    PROVE  WireTree'
<1> DEFINE c == Head(pendingToolCalls)
           e == [kind |-> "tool", parent |-> WorkingLeaf, of |-> c.asst, n |-> c.idx]
<1>1. entries \in Seq(Entry) /\ pendingToolCalls \in Seq(Call) BY DEF ConversationOK, CallsOK
<1>2. c = pendingToolCalls[1] /\ c \in Call BY <1>1, HeadCall, HeadTailProperties
<1>3. /\ e \in Entry /\ e.kind = "tool" /\ e.parent = WorkingLeaf
      /\ e.of = pendingToolCalls[1].asst /\ e.n = pendingToolCalls[1].idx
  BY <1>2, LeafType DEF Entry, Call
<1>4. Append1(e) BY DEF PushResult
<1>5. pendingToolCalls' = Tail(pendingToolCalls) BY DEF Shift
<1>6. BatchOf(entries, pendingToolCalls) BY DEF WireTree, Tree
<1> HIDE DEF c, e
<1>7. /\ AnswerOf(e) = NextOf(pendingToolCalls)
      /\ NextOf(Tail(pendingToolCalls)) = OwedIn(Append(entries, e), Len(entries) + 1)
      /\ BatchOf(Append(entries, e), Tail(pendingToolCalls))
  BY <1>1, <1>3, <1>6, ResultAnswers
<1> QED BY <1>3, <1>4, <1>5, <1>7, AppendWire

(* A summary, or an answer without calls, owes nothing.                    *)
LEMMA PlainWire ==
    ASSUME ConversationOK, WireTree, pendingToolCalls = <<>>, UNCHANGED pendingToolCalls, NEW e \in Entry,
           e.kind \in {"assistant", "compaction"}, e.n = 0, e.parent = WorkingLeaf, Append1(e)
    PROVE  WireTree'
<1>1. entries \in Seq(Entry) /\ Len(entries) \in Nat BY DEF ConversationOK
<1>2. Append(entries, e)[Len(entries) + 1] = e BY <1>1, AppendProperties
<1>3. OwedIn(Append(entries, e), Len(entries) + 1) = Nothing BY <1>1, <1>2 DEF OwedIn
<1>4. AnswerOf(e) = Nothing BY DEF AnswerOf
<1> QED BY <1>3, <1>4, AppendWire DEF NextOf, BatchOf

LEMMA OutcomeWire ==
    ASSUME ConversationOK, ActivationsOK, WireTree, pendingToolCalls = <<>>, UNCHANGED pendingToolCalls,
           NEW f \in Activations, NEW ok \in BOOLEAN, CompactionOutcome(f, ok)
    PROVE  WireTree'
<1> DEFINE e == [kind |-> "compaction", parent |-> WorkingLeaf, of |-> act[f].leaf, n |-> 0]
<1>1. act[f].leaf \in Nat BY DEF ActivationsOK, Activation
<1>2. e \in Entry /\ e.kind = "compaction" /\ e.n = 0 /\ e.parent = WorkingLeaf BY <1>1, LeafType DEF Entry
<1>3. CASE ok
  <2>1. Append1(e) BY <1>3 DEF CompactionOutcome, PushCompaction
  <2> HIDE DEF e
  <2> QED BY <1>2, <2>1, PlainWire
<1>4. CASE ~ok BY <1>4, SameWire DEF CompactionOutcome
<1> QED BY <1>3, <1>4

(* An answer with calls owes the first of them.                            *)
LEMMA AnswerWire ==
    ASSUME ConversationOK, WireTree, pendingToolCalls = <<>>, NEW kinds \in Batches, kinds # <<>>,
           PushAssistant(Len(kinds)),
           pendingToolCalls' = [i \in 1 .. Len(kinds) |-> [asst |-> Len(entries) + 1, idx |-> i, kind |-> kinds[i]]]
    PROVE  WireTree'
<1> DEFINE e == [kind |-> "assistant", parent |-> WorkingLeaf, of |-> 0, n |-> Len(kinds)]
           batch == [i \in 1 .. Len(kinds) |-> [asst |-> Len(entries) + 1, idx |-> i, kind |-> kinds[i]]]
           ds == Append(entries, e)
           new == Len(entries) + 1
<1>1. entries \in Seq(Entry) /\ Len(entries) \in Nat /\ new \in 1 .. new BY DEF ConversationOK
<1>2. Len(kinds) \in Nat /\ Len(kinds) > 0
  <2>1. PICK k \in 0 .. MaxCalls : kinds \in [1 .. k -> CallKinds] BY DEF Batches
  <2>2. k \in Nat BY <2>1, BoundsAssumption
  <2>3. kinds \in Seq(CallKinds) /\ Len(kinds) = k BY <2>1, <2>2
  <2> QED BY <2>2, <2>3, EmptySeq
<1>3. e \in Entry /\ e.kind = "assistant" /\ e.n = Len(kinds) /\ e.parent = WorkingLeaf
  BY <1>2, LeafType DEF Entry
<1>4. ds \in Seq(Entry) /\ ds[new] = e /\ Len(ds) = new BY <1>1, <1>3, AppendProperties
<1>5. Len(batch) = Len(kinds) /\ \A i \in 1 .. Len(kinds) : batch[i].asst = new /\ batch[i].idx = i
  BY <1>2
<1>6. batch # <<>> BY <1>2, <1>5
<1>7. batch[1].asst = new /\ batch[1].idx = 1 BY <1>2, <1>5
<1>8. Append1(e) BY DEF PushAssistant
<1>9. pendingToolCalls' = batch OBVIOUS
<1> HIDE DEF e, batch, ds
<1>10. NextOf(batch) = OwedIn(ds, new) BY <1>1, <1>2, <1>3, <1>4, <1>6, <1>7 DEF NextOf, OwedIn
<1>11. BatchOf(ds, batch) BY <1>1, <1>2, <1>3, <1>4, <1>5, <1>6, <1>7 DEF BatchOf
<1>12. AnswerOf(e) = NextOf(pendingToolCalls) BY <1>3 DEF AnswerOf, NextOf
<1> QED BY <1>3, <1>8, <1>9, <1>10, <1>11, <1>12, AppendWire DEF ds

LEMMA FlushWire ==
    ASSUME ConversationOK, ScalarsOK, WireTree, pendingToolCalls = <<>>, UNCHANGED pendingToolCalls, FlushPendingUser
    PROVE  WireTree'
<1> DEFINE k == (IF pendingNote THEN 1 ELSE 0) + (IF stopScope = "none" THEN queue ELSE 0)
           chain == [i \in 1 .. k |-> [kind |-> "user", of |-> 0, n |-> 0,
                      parent |-> IF i = 1 THEN WorkingLeaf ELSE Len(entries) + i - 1]]
           last == Len(entries) + k
<1>1. k \in Nat /\ PushUsers(k) BY DEF ScalarsOK, FlushPendingUser
<1> HIDE DEF k
<1>2. /\ entries' = entries \o chain /\ entries \in Seq(Entry) /\ Len(entries) \in Nat
      /\ activeLeaf' = IF k > 0 /\ WorkingLeaf = activeLeaf THEN last ELSE activeLeaf
      /\ turnLeaf' = IF k > 0 /\ turnLeaf # Unpinned THEN last ELSE turnLeaf
  BY <1>1 DEF PushUsers, PushUsersAt, ConversationOK
<1>3. /\ WorkingLeaf \in 0 .. Len(entries) /\ activeLeaf \in 0 .. Len(entries)
      /\ \A i \in 1 .. Len(entries) : entries[i].parent < i
  BY LeafType DEF ConversationOK, Leaves
<1>4. \A i \in 1 .. k : chain[i] \in Entry /\ chain[i].kind = "user"
                         /\ chain[i].parent = IF i = 1 THEN WorkingLeaf ELSE Len(entries) + i - 1
  BY <1>1, <1>2, <1>3 DEF Entry
<1>5. chain \in Seq(Entry) /\ Len(chain) = k
  <2> HIDE DEF chain
  <2>1. chain \in [1 .. k -> Entry] BY <1>4 DEF chain
  <2> QED BY <1>1, <2>1
<1> HIDE DEF chain
<1>6. CASE k = 0
  <2>1. chain = <<>> BY <1>5, <1>6, EmptySeq
  <2>2. entries \o <<>> = entries BY <1>2, EmptySeq
  <2>3. entries' = entries BY <1>2, <2>1, <2>2
  <2> QED BY <1>2, <1>6, <2>3, SameWire
<1>7. CASE k > 0
  <2>1. Tree(entries \o chain, last, IF WorkingLeaf = activeLeaf THEN last ELSE activeLeaf, <<>>)
    BY <1>2, <1>3, <1>4, <1>5, <1>7, TreeTakesMessages, ZenonT(60) DEF WireTree
  <2>2. last # Unpinned BY <1>1, <1>2
  <2>3. WorkingLeaf' = last BY <1>2, <1>7, <2>2 DEF WorkingLeaf
  <2> QED BY <1>2, <1>7, <2>1, <2>3 DEF WireTree
<1> QED BY <1>1, <1>6, <1>7

LEMMA OpenWire ==
    ASSUME ConversationOK, WireTree, pendingToolCalls = <<>>, NEW f \in Activations, NEW base \in Leaves,
           OwedIn(entries, base) = Nothing, OpenTurn(f, base)
    PROVE  WireTree'
<1> DEFINE e == [kind |-> "user", parent |-> base, of |-> 0, n |-> 0]
           new == Len(entries) + 1
<1>1. /\ entries \in Seq(Entry) /\ Len(entries) \in Nat /\ \A i \in 1 .. Len(entries) : entries[i].parent < i
      /\ activeLeaf \in 0 .. Len(entries) /\ WorkingLeaf \in 0 .. Len(entries) /\ base \in 0 .. Len(entries)
  BY LeafType DEF ConversationOK, Leaves
<1>2. e \in Entry /\ e.kind = "user" /\ e.parent = base BY <1>1 DEF Entry
<1>3. entries' = Append(entries, e) /\ activeLeaf' = new /\ turnLeaf' = new /\ pendingToolCalls' = <<>>
  BY DEF OpenTurn
<1> HIDE DEF e
<1>4. Tree(Append(entries, e), new, new, <<>>) BY <1>1, <1>2, TreeForks DEF WireTree
<1>5. WorkingLeaf' = new BY <1>1, <1>3 DEF WorkingLeaf
<1> QED BY <1>3, <1>4, <1>5 DEF WireTree

(* Nothing being owed, the work may go on where the reader is.             *)
LEMMA UnpinWire ==
    ASSUME WireTree, pendingToolCalls = <<>>, UNCHANGED <<entries, activeLeaf, pendingToolCalls>>,
           WorkingLeaf' \in {WorkingLeaf, activeLeaf}
    PROVE  WireTree'
<1>1. Tree(entries, activeLeaf, activeLeaf, <<>>) BY TreeUnpins DEF WireTree
<1> QED BY <1>1 DEF WireTree

(* The reader moves to the tip of a branch; with a batch outstanding the   *)
(* turn is pinned.                                                         *)
LEMMA RewindWire ==
    ASSUME WireTree, NEW leaf \in 1 .. Len(entries), IsTip(leaf), activeLeaf' = leaf,
           UNCHANGED <<entries, turnLeaf, pendingToolCalls>>, Pinned \/ pendingToolCalls = <<>>
    PROVE  WireTree'
<1>1. OwedIn(entries, leaf) # Nothing => leaf = WorkingLeaf BY DEF WireTree, Tree, IsTip
<1>2. CASE Pinned
  <2>1. WorkingLeaf' = WorkingLeaf BY <1>2 DEF Pinned, WorkingLeaf
  <2> QED BY <1>1, <2>1 DEF WireTree, Tree
<1>3. CASE ~Pinned
  <2>1. pendingToolCalls = <<>> /\ WorkingLeaf' = leaf BY <1>3 DEF Pinned, WorkingLeaf
  <2>2. OwedIn(entries, WorkingLeaf) = Nothing BY <2>1 DEF WireTree, Tree, NextOf
  <2>3. OwedIn(entries, leaf) = Nothing BY <1>1, <2>2
  <2>4. Tree(entries, leaf, leaf, <<>>)
    <3>1. ASSUME NEW p \in 1 .. Len(entries), OwedIn(entries, p) # Nothing,
                 \A i \in 1 .. Len(entries) : entries[i].parent # p
          PROVE  FALSE
      <4>1. p = WorkingLeaf BY <3>1 DEF WireTree, Tree
      <4> QED BY <2>2, <3>1, <4>1
    <3> QED BY <2>1, <2>3, <3>1 DEF WireTree, Tree, NextOf, BatchOf
  <2> QED BY <2>1, <2>4 DEF WireTree
<1> QED BY <1>2, <1>3

(* The owner of the loop moves.                                            *)
LEMMA OwnerWire ==
    ASSUME NEW f \in Activations, Alone(f), NEW p, Moves(f, p),
           p \in {"tool", "approvedTool"} => pendingToolCalls' # <<>> /\ act'[f].call = Head(pendingToolCalls'),
           WireTree', BatchHeld', QuestionNext'
    PROVE  WireOK'
<1>1. ToolNext'
  <2>1. SUFFICES ASSUME NEW g \in Activations, act'[g].pc \in {"tool", "approvedTool"}
                 PROVE  pendingToolCalls' # <<>> /\ act'[g].call = Head(pendingToolCalls')
    BY DEF ToolNext
  <2>2. g = f BY <2>1 DEF Moves, Alone, InLoop, LoopAwaits
  <2> QED BY <2>1, <2>2 DEF Moves
<1> QED BY <1>1 DEF WireOK

(* It goes on in the loop, or with no batch outstanding.                   *)
LEMMA LoopWire ==
    ASSUME NEW f \in Activations, Alone(f), NEW p, Moves(f, p), p \notin {"tool", "approvedTool"},
           WireTree', pendingQuestion' = NoCall,
           \/ p \in LoopPcs /\ status' \in {"running", "awaiting-approval", "awaiting-input"}
           \/ pendingToolCalls' = <<>>
    PROVE  WireOK'
<1>1. p \in LoopPcs => InLoop(f)' BY DEF Moves, InLoop, LoopPcs
<1>2. BatchHeld' BY <1>1 DEF BatchHeld
<1>3. QuestionNext' BY DEF QuestionNext
<1> QED BY <1>2, <1>3, OwnerWire

(* Nobody in the loop moves.                                               *)
LEMMA AsideWire ==
    ASSUME WireOK, WireTree', UNCHANGED <<status, pendingQuestion, pendingToolCalls>>,
           \A g \in Activations : \/ act'[g].pc = act[g].pc /\ act'[g].call = act[g].call
                                  \/ act[g].pc \notin LoopPcs /\ act'[g].pc \notin LoopPcs
    PROVE  WireOK'
<1>1. \A g \in Activations : InLoop(g)' <=> InLoop(g) BY DEF InLoop, LoopPcs
<1>2. BatchHeld' BY <1>1 DEF WireOK, BatchHeld
<1>3. QuestionNext' BY DEF WireOK, QuestionNext
<1>4. ToolNext' BY DEF WireOK, ToolNext, LoopPcs, LoopAwaits
<1> QED BY <1>2, <1>3, <1>4 DEF WireOK

LEMMA StayWire ==
    ASSUME WireOK, UNCHANGED <<convVars, status, pendingQuestion, pendingToolCalls>>,
           \A g \in Activations : act'[g].pc = act[g].pc /\ act'[g].call = act[g].call
    PROVE  WireOK'
BY SameWire, AsideWire DEF WireOK

LEMMA OpenKeepsWire ==
    ASSUME TypeOK, CardsOK, WireOK, NEW f \in Activations, Alone(f), NEW base \in Leaves,
           base = activeLeaf \/ OwedIn(entries, base) = Nothing,
           status \in {"idle", "awaiting-continue"}, OpenTurn(f, base)
    PROVE  WireOK'
<1>1. pendingToolCalls = <<>> BY DEF WireOK, BatchHeld
<1>2. OwedIn(entries, base) = Nothing BY <1>1, TreeUnpins DEF WireOK, WireTree
<1>3. WireTree' BY <1>1, <1>2, OpenWire DEF TypeOK, WireOK
<1>4. Moves(f, "run") BY GotoMoves DEF OpenTurn, TypeOK
<1>5. pendingQuestion' = NoCall /\ pendingToolCalls' = <<>> BY DEF OpenTurn, CardsOK, ShownOK
<1> QED BY <1>3, <1>4, <1>5, LoopWire

LEMMA StretchWire ==
    ASSUME WireKept, TypeOK, LoopOK, ~AutoTitle => PinOK, CoverOK, CardsOK, WireOK,
           NEW f \in Activations, Stretch(f)
    PROVE  WireOK'
<1> USE DEF TypeOK
<1>0. /\ PointOK(act[f].pc) /\ stopScope = "none" /\ Unstopped /\ WireTree
      /\ act[f].pc \in RunningPcs => status = "running" /\ NoCards /\ Alone(f)
      /\ act[f].pc \in DrainedPcs => pendingToolCalls = <<>>
  BY LoopIsAlone, RunningIsCardless
     DEF LoopOK, SessionOK, PointOK, RunningPcs, LoopPcs, InLoop, Waiting, WireKept, WireOK
<1> USE DEF RunningPcs, LoopPcs, LoopAwaits, LoopStretches, DrainedPcs, NoCards
<1>1. CASE StartLoop(f)
  <2>1. Moves(f, "top") /\ Alone(f) BY <1>1, LoopIsAlone, GotoMoves DEF StartLoop, InLoop
  <2>2. NoCards BY <1>1 DEF StartLoop, CardsOK
  <2>3. WireTree' BY <1>0, <1>1, FlushWire, SameWire DEF StartLoop, FlushIfDrained
  <2> QED BY <1>1, <2>1, <2>2, <2>3, LoopWire DEF StartLoop
<1>2. CASE BatchDrained(f)
  <2>1. act[f].pc \in {"top", "drain"} /\ Moves(f, "boundary") BY <1>2, GotoMoves DEF BatchDrained, Draining
  <2>2. WireTree' BY <1>0, <1>2, FlushWire DEF BatchDrained
  <2> QED BY <1>0, <1>2, <2>1, <2>2, LoopWire DEF BatchDrained
<1>3. CASE RefuseCall(f)
  <2>1. act[f].pc \in {"top", "drain"} /\ Moves(f, "drain") BY <1>3, GotoMoves DEF RefuseCall, HeadIs, Draining
  <2>2. WireTree' BY <1>0, <1>3, ResultWire DEF RefuseCall, HeadIs
  <2> QED BY <1>0, <1>3, <2>1, <2>2, LoopWire DEF RefuseCall
<1>4. CASE StartTool(f)
  <2>1. act[f].pc \in {"top", "drain"} /\ pendingToolCalls # <<>> BY <1>4 DEF StartTool, HeadIs, Draining
  <2>2. Moves(f, "tool") /\ act'[f].call = Head(pendingToolCalls)
    BY <1>4 DEF StartTool, Moves, ActivationsOK, Activation, Fresh
  <2>3. WireTree' BY <1>0, <1>4, SameWire DEF StartTool
  <2>4. BatchHeld' BY <1>0, <1>4, <2>1, <2>2 DEF StartTool, BatchHeld, InLoop, Moves
  <2>5. QuestionNext' BY <1>0, <1>4, <2>1 DEF StartTool, QuestionNext
  <2>6. pendingToolCalls' = pendingToolCalls BY <1>4 DEF StartTool
  <2> QED BY <1>0, <2>1, <2>2, <2>3, <2>4, <2>5, <2>6, OwnerWire
<1>5. CASE PauseForApproval(f) \/ PauseForInput(f)
  <2>1. act[f].pc \in {"top", "drain"} /\ pendingToolCalls # <<>> /\ Moves(f, "exit")
    BY <1>5, GotoMoves DEF PauseForApproval, PauseForInput, HeadIs, Draining
  <2>2. WireTree' BY <1>0, <1>5, SameWire DEF PauseForApproval, PauseForInput
  <2>3. BatchHeld' BY <1>5 DEF PauseForApproval, PauseForInput, BatchHeld
  <2>4. QuestionNext' BY <1>0, <1>5, <2>1 DEF PauseForApproval, PauseForInput, QuestionNext
  <2> QED BY <1>0, <2>1, <2>2, <2>3, <2>4, OwnerWire
<1>6. CASE ObserveStop(f) BY <1>0, <1>6 DEF ObserveStop
<1>7. CASE \/ DeclineAtCap(f) \/ RaiseStallPause(f) \/ RaiseCompactionPause(f) \/ StartAutoCompact(f)
           \/ ProceedToSend(f) \/ AskLoopTitle(f) \/ SendRequest(f) \/ Settle(f)
  <2>1. act[f].pc \in {"boundary", "title", "request", "settled"}
    BY <1>7 DEF DeclineAtCap, RaiseStallPause, RaiseCompactionPause, StartAutoCompact, ProceedToSend,
       AskLoopTitle, SendRequest, Settle, ToSend, AtBoundary
  <2>2. \E p \in {"exit", "autoCompact", "title", "loopTitle", "llm", "settleTitle", "drainQueue"} : Moves(f, p)
    BY <1>7, GotoMoves, ZenonT(60) DEF DeclineAtCap, RaiseStallPause, RaiseCompactionPause, StartAutoCompact, ProceedToSend,
       AskLoopTitle, SendRequest, Settle, Moves, ActivationsOK, Activation, Fresh
  <2>3. UNCHANGED <<convVars, pendingQuestion, pendingToolCalls>>
    BY <1>7 DEF DeclineAtCap, RaiseStallPause, RaiseCompactionPause, StartAutoCompact, ProceedToSend,
       AskLoopTitle, SendRequest, Settle
  <2>4. WireTree' BY <1>0, <2>3, SameWire
  <2> QED BY <1>0, <2>1, <2>2, <2>3, <2>4, LoopWire
<1>8. CASE DrainQueue(f)
  <2>1. CASE MayDrain /\ queue > 0
    <3>1. Alone(f) BY <1>8, <2>1, IdleIsAlone DEF DrainQueue, MayDrain, StretchPcs, InLoop
    <3> QED BY <1>8, <2>1, <3>1, LeafType, OpenKeepsWire DEF DrainQueue, MayDrain
  <2>2. CASE ~(MayDrain /\ queue > 0)
    <3>1. Moves(f, "exit") BY <1>8, <2>2, GotoMoves DEF DrainQueue
    <3>2. UNCHANGED <<convVars, status, pendingQuestion, pendingToolCalls>> BY <1>8, <2>2 DEF DrainQueue
    <3> QED BY <1>0, <1>8, <3>1, <3>2, SameWire, AsideWire DEF DrainQueue, Moves
  <2> QED BY <2>1, <2>2
<1>9. CASE Exit(f)
  <2>1. Moves(f, "free") /\ UNCHANGED <<entries, activeLeaf, status, pendingQuestion, pendingToolCalls>>
    BY <1>9, GotoMoves DEF Exit
  <2>2. turnLeaf' = IF Suspended THEN turnLeaf ELSE Unpinned BY <1>9 DEF Exit
  <2>3. WireTree'
    <3>1. CASE pendingToolCalls = <<>>
      <4>1. WorkingLeaf' \in {WorkingLeaf, activeLeaf} BY <2>1, <2>2 DEF WorkingLeaf
      <4> QED BY <1>0, <2>1, <3>1, <4>1, UnpinWire
    <3>2. CASE pendingToolCalls # <<>> /\ status \in {"awaiting-approval", "awaiting-input"}
      <4>1. turnLeaf' = turnLeaf BY <2>2, <3>2 DEF Suspended, Waiting
      <4> QED BY <1>0, <2>1, <4>1, SameWire
    <3>3. CASE pendingToolCalls # <<>> /\ \E g \in Activations : InLoop(g)
      <4>1. AutoTitle BY <1>9, <3>3, LeaversAreAlone DEF Exit
      <4>2. WorkingLeaf' = WorkingLeaf
        BY <2>1, <2>2, <4>1 DEF WireKept, BranchStays, CoverOK, ViewFollows, WorkingLeaf
      <4> QED BY <1>0, <2>1, <4>2 DEF WireTree
    <3> QED BY <3>1, <3>2, <3>3 DEF WireOK, BatchHeld
  <2> QED BY <1>9, <2>1, <2>3, AsideWire DEF Exit, Moves
<1> QED BY <1>1, <1>2, <1>3, <1>4, <1>5, <1>6, <1>7, <1>8, <1>9 DEF Stretch

(* A request that produced no answer leaves the conversation as it was.    *)
LEMMA NoResultWire ==
    ASSUME TypeOK, NEW f \in Activations, Alone(f), NEW st, NoResult(f, st), WireTree',
           pendingToolCalls' = <<>>, pendingQuestion' = NoCall
    PROVE  WireOK'
<1>1. \E p \in {"request", "exit"} : Moves(f, p) BY GotoMoves DEF NoResult, TypeOK
<1> QED BY <1>1, LoopWire

LEMMA CompletionWire ==
    ASSUME WireKept, TypeOK, LoopOK, CoverOK, CardsOK, WireOK, NEW f \in Activations, Completion(f)
    PROVE  WireOK'
<1> USE DEF TypeOK
<1>0. /\ PointOK(act[f].pc) /\ stopScope = "none" /\ Unstopped /\ WireTree
      /\ act[f].pc \in RunningPcs => status = "running" /\ NoCards
      /\ act[f].pc \in LoopPcs => Alone(f)
      /\ act[f].pc \in DrainedPcs => pendingToolCalls = <<>>
      /\ act[f].pc \in {"tool", "approvedTool"} => /\ pendingToolCalls # <<>> /\ act[f].call = Head(pendingToolCalls)
                                                   /\ act[f].call.kind \notin Throwing
  BY LoopIsAlone, RunningIsCardless, HeadKind
     DEF LoopOK, SessionOK, PointOK, RunningPcs, LoopPcs, InLoop, Waiting, WireKept, WireOK, ToolNext, CardsOK
<1> USE DEF RunningPcs, LoopPcs, LoopAwaits, LoopStretches, DrainedPcs, NoCards
<1>1. CASE ToolReturns(f)
  <2>1. Moves(f, "drain") /\ WireTree' BY <1>0, <1>1, GotoMoves, ResultWire DEF ToolReturns
  <2> QED BY <1>0, <1>1, <2>1, LoopWire DEF ToolReturns
<1>2. CASE ToolThrows(f) \/ ApprovedToolThrows(f) BY <1>0, <1>2 DEF ToolThrows, ApprovedToolThrows
<1>3. CASE ApprovedToolReturns(f)
  <2>1. Moves(f, "run") /\ WireTree' BY <1>0, <1>3, GotoMoves, ResultWire DEF ApprovedToolReturns
  <2>2. status = "awaiting-approval" BY <1>0, <1>3 DEF ApprovedToolReturns, PointOK
  <2>3. pendingQuestion = NoCall BY <2>2 DEF CardsOK, ShownOK
  <2> QED BY <1>0, <1>3, <2>1, <2>2, <2>3, LoopWire DEF ApprovedToolReturns
<1>4. ASSUME NEW ok \in BOOLEAN, AutoCompactEnds(f, ok) PROVE WireOK'
  <2>1. Moves(f, "title") BY <1>0, <1>4, GotoMoves DEF AutoCompactEnds
  <2>2. WireTree' BY <1>0, <1>4, OutcomeWire DEF AutoCompactEnds
  <2> QED BY <1>0, <1>4, <2>1, <2>2, LoopWire DEF AutoCompactEnds
<1>5. ASSUME NEW ok \in BOOLEAN, ResolvedCompactEnds(f, ok) PROVE WireOK'
  <2>1. Moves(f, "run") BY <1>0, <1>5, GotoMoves DEF ResolvedCompactEnds
  <2>2. status = "awaiting-compaction" BY <1>0, <1>5 DEF ResolvedCompactEnds, PointOK
  <2>3. pendingToolCalls = <<>> /\ pendingQuestion = NoCall BY <2>2 DEF WireOK, BatchHeld, CardsOK, ShownOK
  <2>4. WireTree' BY <1>0, <1>5, <2>3, OutcomeWire DEF ResolvedCompactEnds
  <2> QED BY <1>0, <1>5, <2>1, <2>3, <2>4, LoopWire DEF ResolvedCompactEnds
<1>6. ASSUME NEW kinds \in Batches, AnswerLands(f, kinds, FALSE) PROVE WireOK'
  <2>1. CASE kinds = <<>>
    <3> DEFINE e == [kind |-> "assistant", parent |-> WorkingLeaf, of |-> 0, n |-> Len(kinds)]
    <3>1. e \in Entry /\ e.kind = "assistant" /\ e.n = 0 /\ e.parent = WorkingLeaf
        BY <2>1, LeafType, EmptySeq DEF Entry
    <3>2. Append1(e) BY <1>6 DEF AnswerLands, PushAssistant
    <3>3. UNCHANGED pendingToolCalls /\ pendingToolCalls = <<>> BY <1>0, <1>6, <2>1 DEF AnswerLands
    <3> HIDE DEF e
    <3>4. WireTree' BY <1>0, <3>1, <3>2, <3>3, PlainWire
    <3>5. Moves(f, "settled") BY <1>6, <2>1, GotoMoves DEF AnswerLands
    <3> QED BY <1>0, <1>6, <3>3, <3>4, <3>5, LoopWire DEF AnswerLands
  <2>2. CASE kinds # <<>>
    <3>1. WireTree' BY <1>0, <1>6, <2>2, AnswerWire DEF AnswerLands
    <3>2. Moves(f, "top") BY <1>6, <2>2, GotoMoves DEF AnswerLands
    <3>3. status' = "running" /\ pendingQuestion' = NoCall BY <1>0, <1>6 DEF AnswerLands
    <3> QED BY <1>0, <1>6, <3>1, <3>2, <3>3, LoopWire DEF AnswerLands
  <2> QED BY <2>1, <2>2
<1>7. ASSUME NEW ok \in BOOLEAN, ForcedCompactEnds(f, ok) PROVE WireOK'
  <2>1. WireTree' BY <1>0, <1>7, OutcomeWire DEF ForcedCompactEnds
  <2>2. Alone(f) /\ pendingToolCalls' = <<>> /\ pendingQuestion' = NoCall BY <1>0, <1>7 DEF ForcedCompactEnds
  <2>3. CASE ~ok BY <1>0, <1>7, <2>1, <2>2, <2>3, NoResultWire DEF ForcedCompactEnds
  <2>4. CASE ok
    <3>1. Moves(f, "llm") BY <1>0, <1>7, <2>4 DEF ForcedCompactEnds, Moves, ActivationsOK, Activation, Fresh
    <3> QED BY <2>1, <2>2, <3>1, LoopWire
  <2> QED BY <2>3, <2>4
<1>8. ASSUME NEW ok \in BOOLEAN,
             \/ RequestUnwinds(f) \/ RequestOverWindow(f) \/ RequestFails(f) \/ RequestTransient(f)
             \/ BackOffEnds(f) \/ LoopTitleEnds(f, ok)
      PROVE  WireOK'
  <2>1. act[f].pc \in {"llm", "backoff", "loopTitle"}
    BY <1>8 DEF RequestUnwinds, RequestOverWindow, RequestFails, RequestTransient, BackOffEnds, LoopTitleEnds
  <2>2. UNCHANGED <<convVars, pendingToolCalls, pendingQuestion>>
    BY <1>8 DEF RequestUnwinds, RequestOverWindow, RequestFails, RequestTransient, BackOffEnds, LoopTitleEnds
  <2>3. \/ \E st : NoResult(f, st)
        \/ \E p \in {"forcedCompact", "backoff", "llm", "request"} : Moves(f, p)
    BY <1>8, GotoMoves, ZenonT(60) DEF RequestUnwinds, RequestOverWindow, RequestFails, RequestTransient, BackOffEnds,
       LoopTitleEnds, Moves, ActivationsOK, Activation, Fresh
  <2>4. WireTree' /\ Alone(f) /\ pendingToolCalls' = <<>> /\ pendingQuestion' = NoCall
    BY <1>0, <2>1, <2>2, SameWire
  <2> QED BY <2>3, <2>4, NoResultWire, LoopWire
<1>9. ASSUME NEW ok \in BOOLEAN, SettleTitleEnds(f, ok) PROVE WireOK'
  <2>1. Moves(f, "drainQueue") /\ WireTree' BY <1>0, <1>9, GotoMoves, SameWire DEF SettleTitleEnds
  <2> QED BY <1>9, <2>1, AsideWire DEF SettleTitleEnds, Moves
<1>10. ASSUME NEW ok \in BOOLEAN, CompactNowEnds(f, ok) PROVE WireOK'
  BY <1>10 DEF CompactNowEnds, CoverOK
<1>11. ASSUME NEW ok \in BOOLEAN, RetryWritesEnds(f, ok) PROVE WireOK'
  BY <1>0, <1>11 DEF RetryWritesEnds, PointOK
<1>12. "length" \notin ModelErrors BY DEF WireKept
<1> QED BY <1>1, <1>2, <1>3, <1>4, <1>5, <1>6, <1>7, <1>8, <1>9, <1>10, <1>11, <1>12 DEF Completion

LEMMA PersonWire ==
    ASSUME WireKept, TypeOK, LoopOK, ~AutoTitle => PinOK, CoverOK, CardsOK, WireOK, Person
    PROVE  WireOK'
<1> USE DEF TypeOK
<1>0. Unstopped /\ WireTree /\ ConversationOK /\ CallsOK BY DEF WireKept, WireOK
<1>1. ASSUME NEW f \in Activations, NEW c \in Configs, Send(f, c) PROVE WireOK'
  <2>1. Alone(f) BY <1>1, IdleIsAlone DEF Send, Asked, Free, CanSend, InLoop, LoopAwaits, LoopStretches
  <2> QED BY <1>1, <2>1, LeafType, OpenKeepsWire DEF Send, CanSend
<1>2. ASSUME NEW f \in Activations, NEW c \in Configs, Enqueue(f, c) PROVE WireOK'
  <2>1. CASE MayDrain
    <3>1. Alone(f) BY <1>2, <2>1, IdleIsAlone DEF Enqueue, Asked, Free, MayDrain, InLoop, LoopAwaits, LoopStretches
    <3> QED BY <1>2, <2>1, <3>1, LeafType, OpenKeepsWire DEF Enqueue, MayDrain
  <2>2. CASE ~MayDrain BY <1>2, <2>2, StayWire DEF Enqueue
  <2> QED BY <2>1, <2>2
<1>3. ASSUME NEW f \in Activations, NEW e \in 1 .. Len(entries), EditFork(f, e) PROVE WireOK'
  <2>1. Alone(f) BY <1>3, IdleIsAlone DEF EditFork, Asked, Free, CanSend, InLoop, LoopAwaits, LoopStretches
  <2>2. entries[e].parent \in Leaves BY ParentType
  <2>3. entries[e].kind = "user" BY <1>3 DEF EditFork, WireKept
  <2>4. OwedIn(entries, entries[e].parent) = Nothing BY <1>0, <2>3 DEF WireTree, Tree, AnswerOf
  <2> QED BY <1>3, <2>1, <2>2, <2>4, OpenKeepsWire DEF EditFork, CanSend
<1>4. ASSUME NEW f \in Activations, NEW runs \in BOOLEAN, NEW note \in BOOLEAN, Approve(f, runs, note)
      PROVE  WireOK'
  <2>1. Alone(f) /\ status' = "awaiting-approval" BY <1>4, ParkedLoop DEF Approve, Asked, Alone
  <2>2. pendingToolCalls # <<>> /\ Head(pendingToolCalls) = pendingApproval /\ pendingQuestion' = NoCall
    BY <1>4 DEF Approve, CardsOK, ShownOK
  <2>3. CASE runs
    <3>1. Moves(f, "approvedTool") /\ act'[f].call = pendingApproval
        BY <1>4, <2>3 DEF Approve, Moves, ActivationsOK, Activation, Fresh
    <3>2. WireTree' /\ UNCHANGED pendingToolCalls BY <1>0, <1>4, <2>3, SameWire DEF Approve
    <3>3. BatchHeld' /\ QuestionNext' BY <2>1, <2>2 DEF BatchHeld, QuestionNext
    <3> QED BY <2>1, <2>2, <3>1, <3>2, <3>3, OwnerWire
  <2>4. CASE ~runs
    <3>1. Moves(f, "run") BY <1>4, <2>4, GotoMoves DEF Approve
    <3>2. WireTree' BY <1>0, <1>4, <2>2, <2>4, ResultWire DEF Approve
    <3> QED BY <2>1, <2>2, <3>1, <3>2, LoopWire DEF LoopPcs, LoopStretches
  <2> QED BY <2>3, <2>4
<1>5. ASSUME NEW f \in Activations, Answer(f) PROVE WireOK'
  <2>1. Alone(f) BY <1>5, IdleIsAlone DEF Answer, Asked, Free, InLoop, LoopAwaits, LoopStretches
  <2>2. Moves(f, "run") BY <1>5, GotoMoves DEF Answer
  <2>3. pendingToolCalls # <<>> /\ pendingQuestion = Head(pendingToolCalls)
    BY <1>5 DEF Answer, WireOK, QuestionNext
  <2>4. WireTree' BY <1>0, <1>5, <2>3, ResultWire DEF Answer
  <2>5. status' = "awaiting-input" /\ pendingQuestion' = NoCall BY <1>5 DEF Answer
  <2> QED BY <2>1, <2>2, <2>4, <2>5, LoopWire DEF LoopPcs, LoopStretches
<1>6. ASSUME NEW f \in Activations, CompactNow(f) PROVE WireOK'
  BY <1>6 DEF CompactNow, Asked, WireKept, BranchStays
<1>7. ASSUME NEW f \in Activations, ContinueRun(f) PROVE WireOK'
  <2>1. Alone(f) BY <1>7, IdleIsAlone DEF ContinueRun, Asked, Free, InLoop, LoopAwaits, LoopStretches
  <2>2. Moves(f, "run") BY <1>7, GotoMoves DEF ContinueRun
  <2>3. pendingToolCalls = <<>> /\ pendingQuestion = NoCall
    BY <1>7 DEF ContinueRun, WireOK, BatchHeld, CardsOK, ShownOK
  <2>4. WireTree' /\ UNCHANGED <<pendingToolCalls, pendingQuestion>> BY <1>0, <1>7, SameWire DEF ContinueRun
  <2> QED BY <2>1, <2>2, <2>3, <2>4, LoopWire
<1>8. ASSUME NEW f \in Activations, Retry(f) PROVE WireOK'
  <2>1. Quiet /\ UNCHANGED <<status, entries, activeLeaf, pendingQuestion, pendingToolCalls>>
    BY <1>8 DEF Retry, Asked
  <2>2. CASE status = "running" /\ streaming /\ restartRequested' = TRUE
               /\ act' = [g \in Activations |-> [act[g] EXCEPT
                       !.aborted = @ \/ (g = abortController /\ act[g].pc = "llm")]]
               /\ UNCHANGED <<stopScope, turnLeaf, healthVars>>
    <3>1. \A g \in Activations : act'[g].pc = act[g].pc /\ act'[g].call = act[g].call
        BY <2>2 DEF ActivationsOK, Activation
    <3> QED BY <2>1, <2>2, <3>1, StayWire
  <2>3. CASE Free(f) /\ status \in {"idle", "halted"} /\ turnLeaf' = activeLeaf /\ Goto(f, "run")
    <3>1. Alone(f) BY <2>1, <2>3, IdleIsAlone DEF Free, InLoop, LoopAwaits, LoopStretches
    <3>2. Moves(f, "run") BY <2>3, GotoMoves
    <3>3. pendingToolCalls = <<>> /\ pendingQuestion = NoCall BY <2>3 DEF WireOK, BatchHeld, CardsOK, ShownOK
    <3>4. WorkingLeaf' = activeLeaf BY <2>1, <2>3 DEF WorkingLeaf
    <3>5. WireTree' BY <1>0, <2>1, <3>3, <3>4, UnpinWire
    <3> QED BY <2>1, <3>1, <3>2, <3>3, <3>5, LoopWire
  <2> QED BY <1>8, <2>2, <2>3, Zenon DEF Retry
<1>9. ASSUME NEW f \in Activations, RetryPersistence(f) PROVE WireOK'
  BY <1>0, <1>9 DEF RetryPersistence, LoopOK, SessionOK
<1>10. ASSUME NEW f \in Activations, NEW skip \in BOOLEAN, ResolveCompaction(f, skip) PROVE WireOK'
  <2>1. Alone(f) BY <1>10, ParkedLoop DEF ResolveCompaction, Asked, Alone
  <2>2. pendingToolCalls = <<>> /\ pendingQuestion = NoCall
    BY <1>10 DEF ResolveCompaction, WireOK, BatchHeld, CardsOK, ShownOK
  <2>3. WireTree' /\ UNCHANGED <<pendingToolCalls, pendingQuestion>> BY <1>0, <1>10, SameWire DEF ResolveCompaction
  <2>4. \E p \in {"run", "resolvedCompact"} : Moves(f, p)
    BY <1>10, GotoMoves DEF ResolveCompaction, Moves, ActivationsOK, Activation, Fresh
  <2> QED BY <2>1, <2>2, <2>3, <2>4, LoopWire
<1>11. ASSUME NEW f \in Activations, NEW cap \in Caps \cup {NoCap}, SetSpendCap(f, cap) PROVE WireOK'
  <2>1. Quiet /\ UNCHANGED <<convVars, status, pendingToolCalls, pendingQuestion>> BY <1>11 DEF SetSpendCap, Asked
  <2>2. CASE capReached /\ spendUsd < cap
    <3>1. Alone(f) BY <2>1, <2>2, CapLeavesNobody DEF Alone
    <3>2. Moves(f, "run") BY <1>11, <2>2, GotoMoves DEF SetSpendCap
    <3>3. pendingToolCalls = <<>> BY <2>2 DEF LoopOK, SessionOK
    <3>4. pendingQuestion = NoCall BY <2>2 DEF LoopOK, SessionOK, CardsOK, ShownOK, Waiting
    <3>5. WireTree' BY <1>0, <2>1, SameWire
    <3> QED BY <2>1, <3>1, <3>2, <3>3, <3>4, <3>5, LoopWire
  <2>3. CASE ~(capReached /\ spendUsd < cap) BY <1>11, <2>1, <2>3, StayWire DEF SetSpendCap
  <2> QED BY <2>2, <2>3
<1>12. ASSUME NEW leaf \in 1 .. Len(entries), SetActiveLeaf(leaf) PROVE WireOK'
  <2>1. /\ IsTip(leaf) /\ activeLeaf' = leaf
        /\ UNCHANGED <<entries, turnLeaf, status, pendingToolCalls, pendingQuestion, act>>
    BY <1>12 DEF SetActiveLeaf, WireKept
  <2>2. PinOK BY <1>12 DEF SetActiveLeaf, Asked, WireKept, BranchStays
  <2>3. Pinned \/ pendingToolCalls = <<>> BY <2>2 DEF PinOK, WireOK, BatchHeld, Waiting
  <2>4. WireTree' BY <1>0, <2>1, <2>3, RewindWire
  <2> QED BY <2>1, <2>4, AsideWire
<1>13. ASSUME NEW k \in 0 .. MaxQueue, SetQueue(k) PROVE WireOK' BY <1>13, StayWire DEF SetQueue
<1>14. ASSUME NEW scope \in {"soft", "hard"}, Stop(scope) PROVE WireOK'
  BY <1>0, <1>14 DEF Stop, Asked, Unstopped
<1>15. CASE ParkNotice BY <1>15, StayWire DEF ParkNotice
<1>16. CASE RaisePersistenceFault BY <1>0, <1>16 DEF RaisePersistenceFault, Asked, Unstopped
<1>17. CASE DiscardPersistence BY <1>0, <1>17 DEF DiscardPersistence, LoopOK, SessionOK
<1>18. ASSUME NEW m \in TriggerModes, SetTriggerMode(m) PROVE WireOK' BY <1>18, StayWire DEF SetTriggerMode
<1> QED BY <1>1, <1>2, <1>3, <1>4, <1>5, <1>6, <1>7, <1>8, <1>9, <1>10, <1>11, <1>12, <1>13, <1>14,
           <1>15, <1>16, <1>17, <1>18 DEF Person

LEMMA WireInit == ASSUME Init PROVE WireOK
<1>1. /\ entries = <<>> /\ WorkingLeaf = 0 /\ activeLeaf = 0 /\ pendingToolCalls = <<>>
      /\ pendingQuestion = NoCall /\ \A f \in Activations : act[f].pc = "free"
  BY DEF Init, Fresh, WorkingLeaf
<1>2. WireTree BY <1>1, EmptySeq DEF WireTree, Tree, OwedIn, NextOf, BatchOf
<1> QED BY <1>1, <1>2 DEF WireOK, BatchHeld, QuestionNext, ToolNext

(* Tool results follow the message that called them unbroken and in order, *)
(* and nothing else stands where one is owed, on every branch: where no    *)
(* Stop, no cut-off answer and no throwing tool abandons a batch, and the  *)
(* branch of a turn stays its branch.                                      *)
THEOREM ResultsFollowTheirCalls ==
    ASSUME WireKept
    PROVE  Spec => []ToolResultsUnbroken
<1>1. Init => WireOK BY WireInit
<1>2. TypeOK /\ LoopOK /\ (~AutoTitle => PinOK) /\ CoverOK /\ CardsOK /\ WireOK /\ [Next]_vars => WireOK'
  <2>1. CASE UNCHANGED vars BY <2>1, StayWire DEF vars
  <2> QED BY <2>1, PersonWire, StretchWire, CompletionWire DEF Next, Progress
<1>3. WireOK => ToolResultsUnbroken BY DEF WireOK, WireTree, Tree, OwedIn, AnswerOf, Nothing, Owed, ToolResultsUnbroken
<1>4. StopsFindTheLoop /\ BranchStays /\ Unstopped /\ ConsentAnswers BY DEF WireKept, StopsFindTheLoop
<1>5. Spec => [](~AutoTitle => PinOK) BY <1>4, PinWhereUntitled
<1>6. Spec => []CoverOK BY <1>4, CoverInvariance
<1> QED BY <1>1, <1>2, <1>3, <1>4, <1>5, <1>6, TypeCorrect, LoopInvariance, CardsInvariance, PTL DEF Spec
=============================================================================
