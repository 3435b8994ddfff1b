------------------------------- MODULE Edits -------------------------------
(* The tools that change files (edit-tools.ts; write_file and delete_file  *)
(* of file-tools.ts): a call is planned for the card the person approves,  *)
(* and planned again when it is approved, for somebody else may have       *)
(* written to the files in between.  A file is a sequence of tokens.       *)
(***************************************************************************)
EXTENDS Naturals, Sequences, FiniteSets, SequencesExt

CONSTANTS
    Tokens,
    FileNamed,      \* FileNamed[p]: the file the spelling p resolves to
    NoFile,         \* what is there when there is no file
    FirstFiles,     \* what the files hold at first
    FileCalls,      \* calls of apply_edits, write_file and delete_file
    ForeignBodies,  \* what somebody else may write
    MaxForeign      \* bound: how often that happens

Contents == Seq(Tokens) \cup {NoFile}

ASSUME ContentsAssumption ==
    /\ NoFile \notin Seq(Tokens)
    /\ FirstFiles \in [DOMAIN FirstFiles -> Contents] /\ ForeignBodies \subseteq Contents
ASSUME FileCallsAssumption ==
    \A call \in FileCalls :
        /\ call.op \in {"edit", "write", "delete"} /\ call.files \in Seq(Range(call.files))
        /\ \A i \in DOMAIN call.files :
              /\ FileNamed[call.files[i].path] \in DOMAIN FirstFiles
              /\ call.op = "edit" =>
                    call.files[i].edits \in Seq([old : Seq(Tokens), new : Seq(Tokens), expected : Nat])
              /\ call.op = "write" => call.files[i].content \in Seq(Tokens)

VARIABLES
    files,          \* the contents of each file
    proposal,       \* the call that waits for approval and the plan it shows, or none
    accepted,       \* the call that is executed
    toWrite,        \* its planned files not written yet
    base,           \* history: the files as they were at the approval
    outcome,        \* of the last call: "none", "refused", "applied", "partial"
    foreign         \* how often somebody else wrote

editVars == <<files, proposal, accepted, toWrite, base, outcome, foreign>>

-----------------------------------------------------------------------------
(* planFileEdits                                                           *)

At(buf, i, anchor) == SubSeq(buf, i, i + Len(anchor) - 1) = anchor

(* The places of an anchor from the left, none overlapping the one before. *)
Occurrences(buf, anchor) ==
    LET from[i \in 1..(Len(buf) + 1)] ==
            IF i + Len(anchor) > Len(buf) + 1 THEN <<>>
            ELSE IF At(buf, i, anchor) THEN <<i>> \o from[i + Len(anchor)] ELSE from[i + 1]
    IN  from[1]

(* split(anchor).join(text)                                                *)
SplitJoin(buf, anchor, text) ==
    LET from[i \in 1..(Len(buf) + 1)] ==
            IF i > Len(buf) THEN <<>>
            ELSE IF i + Len(anchor) <= Len(buf) + 1 /\ At(buf, i, anchor)
                 THEN text \o from[i + Len(anchor)] ELSE <<buf[i]>> \o from[i + 1]
    IN  from[1]

Refusal == [ok |-> FALSE, output |-> <<>>]
Planned(output) == [ok |-> TRUE, output |-> output]

(* Each edit works on what the one before left, and finds its anchor as    *)
(* often as it says.                                                       *)
Fits(buf, e) ==
    /\ e.old # <<>> /\ e.old # e.new
    /\ Len(Occurrences(buf, e.old)) = e.expected
PlanEdit(plan, e) ==
    IF plan.ok /\ Fits(plan.output, e) THEN Planned(SplitJoin(plan.output, e.old, e.new)) ELSE Refusal
PlanFileEdits(source, edits) ==
    IF edits = <<>> THEN Refusal ELSE FoldLeft(PlanEdit, Planned(source), edits)

-----------------------------------------------------------------------------
(* One call: what each file it names would hold                            *)

PlanWrite(c) == Planned(c.content)
PlanDelete(before) == IF before = NoFile THEN Refusal ELSE Planned(NoFile)

PlanOne(on, op, c) ==
    LET before == on[FileNamed[c.path]]
    IN  [file |-> FileNamed[c.path],
         plan |-> CASE op = "edit"   -> IF before = NoFile THEN Refusal ELSE PlanFileEdits(before, c.edits)
                    [] op = "write"  -> PlanWrite(c)
                    [] op = "delete" -> PlanDelete(before)]

PlanAll(on, call) == [i \in DOMAIN call.files |-> PlanOne(on, call.op, call.files[i])]

(* readFilesArg: the same spelling twice is refused; it does not know that *)
(* two spellings may be one file.                                          *)
ReadFilesArg(call) ==
    call.files # <<>> /\ \A i, j \in DOMAIN call.files : call.files[i].path = call.files[j].path => i = j

RefusesIfAllFail(plan) == \A i \in DOMAIN plan : ~plan[i].plan.ok    \* mutant: applies those that can be
Refuses(plan) == \E i \in DOMAIN plan : ~plan[i].plan.ok

NoProposal == [call |-> [op |-> "none", files |-> <<>>], shown |-> <<>>, on |-> FirstFiles]

EditInit ==
    /\ files = FirstFiles /\ proposal = NoProposal /\ accepted = NoProposal
    /\ toWrite = <<>> /\ base = FirstFiles /\ outcome = "none" /\ foreign = 0

Working == toWrite # <<>>

(* preview: the card shows the plan, refusals included.                    *)
Preview(call) ==
    /\ ~Working /\ proposal = NoProposal
    /\ proposal' = [call |-> call, shown |-> PlanAll(files, call), on |-> files]
    /\ outcome' = "none"
    /\ UNCHANGED <<files, accepted, toWrite, base, foreign>>

DeclineEdit == proposal # NoProposal /\ proposal' = NoProposal /\ UNCHANGED <<files, accepted, toWrite, base, outcome, foreign>>

(* execute, up to the first write.                                         *)
PlanNow == PlanAll(files, proposal.call)

Execute ==
    /\ proposal # NoProposal /\ proposal' = NoProposal /\ accepted' = proposal /\ base' = files
    /\ IF ~ReadFilesArg(proposal.call) \/ Refuses(PlanNow)
       THEN outcome' = "refused" /\ UNCHANGED toWrite
       ELSE toWrite' = PlanNow /\ outcome' = "none"
    /\ UNCHANGED <<files, foreign>>

(* Temp and rename: a file is replaced, or stays as it was.                *)
WriteOne ==
    /\ Working
    /\ files' = [files EXCEPT ![Head(toWrite).file] = Head(toWrite).plan.output]
    /\ toWrite' = Tail(toWrite)
    /\ outcome' = IF Len(toWrite) = 1 THEN "applied" ELSE outcome
    /\ UNCHANGED <<proposal, accepted, base, foreign>>

(* The file system refuses: the rest is not tried.                         *)
WriteFails ==
    /\ Working
    /\ toWrite' = <<>>
    /\ outcome' = IF files = base THEN "refused" ELSE "partial"
    /\ UNCHANGED <<files, proposal, accepted, base, foreign>>

(* execute does not await, so nobody of this process comes in between.     *)
SomebodyWrites(f, body) ==
    /\ ~Working /\ foreign < MaxForeign /\ foreign' = foreign + 1
    /\ files' = [files EXCEPT ![f] = body] /\ base' = files' /\ outcome' = "none"
    /\ UNCHANGED <<proposal, accepted, toWrite>>

EditNext ==
    \/ \E call \in FileCalls : Preview(call)
    \/ DeclineEdit \/ Execute \/ WriteOne \/ WriteFails
    \/ \E f \in DOMAIN files, body \in ForeignBodies : SomebodyWrites(f, body)

EditSpec == EditInit /\ [][EditNext]_editVars

-----------------------------------------------------------------------------
(* Properties                                                              *)

Named(call) == {FileNamed[call.files[i].path] : i \in DOMAIN call.files}
OneSpellingEach(call) == Cardinality(Named(call)) = Len(call.files)

(* What the edits announced take out of a file, and what they put in.      *)
TakeOut(n, e) == n + Len(e.old) * e.expected
PutIn(n, e)   == n + Len(e.new) * e.expected

(* A call is applied to every file it names or to none of them; a file that*)
(* was written in between is edited as it is now, and not put back to what *)
(* the card was made from; where nobody wrote, what happens is what the    *)
(* card showed, its refusals included; and the sites that are changed are  *)
(* as many as were announced.  (Two spellings of one file in one call are  *)
(* left out: there the second plan undoes the first.)                      *)
BatchIsWhole ==
    LET call == accepted.call
        c(f) == call.files[CHOOSE i \in DOMAIN call.files : FileNamed[call.files[i].path] = f]
    IN  OneSpellingEach(call) =>
        /\ outcome = "refused" => files = base
        /\ \A f \in DOMAIN files : f \notin Named(call) => files[f] = base[f]
        /\ outcome = "applied" /\ call.op = "edit" => \A f \in Named(call) :
              /\ NoFile \notin {base[f], files[f]}
              /\ Planned(files[f]) = PlanFileEdits(base[f], c(f).edits)
              /\ Len(files[f]) + FoldLeft(TakeOut, 0, c(f).edits)
                 = Len(base[f]) + FoldLeft(PutIn, 0, c(f).edits)
        /\ accepted.on = base /\ outcome = "applied" =>
              \A i \in DOMAIN accepted.shown :
                  accepted.shown[i].plan.ok /\ files[accepted.shown[i].file] = accepted.shown[i].plan.output
=============================================================================
