---------------------------- MODULE MCDocuments ----------------------------
(* Instances for TLC of the components that keep a document: the todo list *)
(* (TodoList), the configuration file (Config), the conversation as it goes*)
(* on the wire (Transcript) and the files of the workspace (Edits, Reading)*)
(* They share nothing; each is explored on its own, the part that moves    *)
(* being chosen at the start.                                              *)
EXTENDS TodoList, Config, Transcript, Edits, Reading

VARIABLE part

todoVars == vars
documents == <<todoVars, configVars, transcriptVars, editVars, readingVars, part>>

DocumentsInit ==
    /\ Init /\ ConfigInit /\ TranscriptInit /\ EditInit /\ ReadingInit
    /\ part \in {"todo", "config", "transcript", "edits", "reading"}

DocumentsNext ==
    /\ part' = part
    /\ \/ /\ part = "todo" /\ Next
          /\ UNCHANGED <<configVars, transcriptVars, editVars, readingVars>>
       \/ /\ part = "config" /\ ConfigNext
          /\ UNCHANGED <<todoVars, transcriptVars, editVars, readingVars>>
       \/ /\ part = "transcript" /\ TranscriptNext
          /\ UNCHANGED <<todoVars, configVars, editVars, readingVars>>
       \/ /\ part = "edits" /\ EditNext
          /\ UNCHANGED <<todoVars, configVars, transcriptVars, readingVars>>
       \/ /\ part = "reading" /\ ReadingNext
          /\ UNCHANGED <<todoVars, configVars, transcriptVars, editVars>>

DocumentsSpec == DocumentsInit /\ [][DocumentsNext]_documents

(* A conversation at its bound is checked, and not continued; a third row  *)
(* is looked at while one folder has been used.                            *)
MayGoOn ==
    /\ MayAppend
    /\ Cardinality(DOMAIN file.rows) < 3 \/ Cardinality(DOMAIN file.recents) < 2

MCIdNames == <<"i1", "i2", "i3", "i4">>

Asks(add, edit, strike, unstrike) ==
    [add |-> add, edit |-> edit, strike |-> strike, unstrike |-> unstrike]
Edit(item, text, note) == [item |-> item, text |-> text, note |-> note]

(* Each field alone, with targets by text and by id, misses, repetitions,  *)
(* rewords onto a text that is there; and the fields in combination.       *)
MCRequests ==
    {Asks(<<>>, <<>>, <<>>, <<>>),
     Asks(<<"a">>, <<>>, <<>>, <<>>), Asks(<<"a", "b">>, <<>>, <<>>, <<>>), Asks(<<"b", "b">>, <<>>, <<>>, <<>>),
     Asks(<<>>, <<Edit("a", "b", Absent)>>, <<>>, <<>>),
     Asks(<<>>, <<Edit("a", Blank, Absent)>>, <<>>, <<>>),
     Asks(<<>>, <<Edit("b", Absent, Absent)>>, <<>>, <<>>),
     Asks(<<>>, <<Edit("i1", "c", Absent), Edit("c", Absent, "n")>>, <<>>, <<>>),
     Asks(<<>>, <<>>, <<"a">>, <<>>), Asks(<<>>, <<>>, <<>>, <<"i1">>),
     Asks(<<"a">>, <<Edit("b", "c", "n")>>, <<"a", "c">>, <<"a">>)}

(* A folder and a folder in it.                                            *)
MCUp == [d1 |-> <<"d1">>, d2 |-> <<"d2", "d1">>]

(* Two spellings of f. Anchors that are found once, twice, not at all, only*)
(* after an earlier edit, or overlapping; files in both orders.            *)
MCFileNamed == [p \in {"f", "./f", "g"} |-> IF p = "g" THEN "g" ELSE "f"]
MCFirstFiles == [f |-> <<"a", "b">>, g |-> <<"b", "a", "a">>]
Swap(old, new, expected) == [old |-> old, new |-> new, expected |-> expected]
In(p, edits) == [path |-> p, edits |-> edits]
MCFileCalls ==
    {[op |-> "edit", files |-> fs] : fs \in {
        <<In("f", <<Swap(<<"a">>, <<"b", "b">>, 1)>>)>>,
        <<In("f", <<Swap(<<"a">>, <<"b">>, 2), Swap(<<"b", "b">>, <<>>, 1)>>)>>,
        <<In("f", <<Swap(<<"a">>, <<"b">>, 1)>>), In("g", <<Swap(<<"a", "a">>, <<"c">>, 1)>>)>>,
        <<In("g", <<Swap(<<"b">>, <<"a">>, 1)>>),
          In("f", <<Swap(<<"b">>, <<"a", "a">>, 1), Swap(<<"a", "a">>, <<"b">>, 1)>>)>>,
        <<In("f", <<Swap(<<"a">>, <<"b">>, 1)>>), In("./f", <<Swap(<<"b">>, <<"a">>, 1)>>)>>,
        <<In("f", <<Swap(<<"a">>, <<"b">>, 1)>>), In("f", <<Swap(<<"b">>, <<"a">>, 1)>>)>>}}
    \cup {[op |-> "write", files |-> <<[path |-> "g", content |-> <<"a", "a">>]>>],
          [op |-> "delete", files |-> <<[path |-> "g"]>>]}
MCForeignBodies == {<<"a">>, <<"a", "a", "a">>, <<"b", "a">>, NoFile}

MCBodies == UNION {[1..n -> {0, 1, 3, 4}] : n \in 1..4}

Found ==
    {Corpus(where, state, hits) : where \in {"here", "noise", "git", "link"},
        state \in {"fine", "large", "unreadable"}, hits \in {<<>>, <<1>>, <<1, 1>>, <<3>>}}
Fine == {f \in Found : f.state = "fine"}
Here == {f \in Fine : f.where = "here"}
MCCorpora ==
    {<<a>> : a \in Found} \cup {<<a, b>> : a, b \in Found}
    \cup {<<a, b, c>> : a \in Here, b \in Fine, c \in Here}
=============================================================================
