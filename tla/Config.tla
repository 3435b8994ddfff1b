------------------------------- MODULE Config -------------------------------
(* config.json (operations.ts, store.ts) and the commands that change it    *)
(* (commands.ts, model-command.ts), each a process that reads the file,     *)
(* asks the person or the network, and writes the whole file back.          *)
(***************************************************************************)
EXTENDS Naturals, Sequences, FiniteSets, SequencesExt

CONSTANTS
    Rows,           \* ids a model config may get
    ApiKeys,           \* OpenRouter keys
    Models,         \* model ids
    Dirs,           \* folders
    Up,             \* Up[d]: d and the folders above it, nearest first
    Terminals,      \* commands that may be under way at once
    RecentLimit     \* RECENT_CONFIG_LIMIT

ASSUME RecentAssumption == RecentLimit \in Nat \ {0}

VARIABLES
    file,           \* config.json: rows, bound, recents
    held            \* the commands under way, with the file each has read

configVars == <<file, held>>

NoConfigs == [rows |-> <<>>, bound |-> <<>>, recents |-> <<>>]

(* A row: its key, its model, and the models of which something was said   *)
(* in its fields that are true of one model only (MODEL_SPECIFIC_FIELDS:   *)
(* price, images, endpoints, window and threshold). "by" remembers whether *)
(* config model derived it and nobody has edited it since.                 *)
Row(key, model, said, by) == [key |-> key, model |-> model, said |-> said, by |-> by]

-----------------------------------------------------------------------------
(* operations.ts: every operator returns a new file                        *)

(* A function with one more entry, or the entry replaced.                  *)
Put(f, x, y) == [z \in DOMAIN f \cup {x} |-> IF z = x THEN y ELSE f[z]]
Keep(f, S) == [z \in DOMAIN f \cap S |-> f[z]]

(* The ids of a list that are in S, in the order of the list.              *)
Among(ids, S) ==
    LET upTo[n \in 0..Len(ids)] ==
            IF n = 0 THEN <<>>
            ELSE IF ids[n] \in S THEN Append(upTo[n - 1], ids[n]) ELSE upTo[n - 1]
    IN  upTo[Len(ids)]

AddModelConfig(c, id, row) == [c EXCEPT !.rows = Put(@, id, row)]

ForgetsRecents(c, id) ==              \* mutant: the recents of the folders are forgotten
    [c EXCEPT !.rows = Keep(@, DOMAIN @ \ {id}),
              !.bound = Keep(@, {d \in DOMAIN @ : @[d] # id})]
RemoveModelConfig(c, id) ==
    LET left == [d \in DOMAIN c.recents |-> Among(c.recents[d], Rows \ {id})]
    IN  [rows    |-> Keep(c.rows, DOMAIN c.rows \ {id}),
         bound   |-> Keep(c.bound, {d \in DOMAIN c.bound : c.bound[d] # id}),
         recents |-> Keep(left, {d \in DOMAIN left : left[d] # <<>>})]

SetBinding(c, d, id) == [c EXCEPT !.bound = Put(@, d, id)]

(* Most recent first, each once, the dead pruned, no more than the limit.  *)
NoteRecentConfig(c, d, id) ==
    LET previous == IF d \in DOMAIN c.recents THEN c.recents[d] ELSE <<>>
        next     == <<id>> \o Among(previous, DOMAIN c.rows \ {id})
    IN  [c EXCEPT !.recents = Put(@, d, SubSeq(next, 1, IF Len(next) < RecentLimit THEN Len(next) ELSE RecentLimit))]

BindAndRemember(c, d, id) == NoteRecentConfig(SetBinding(c, d, id), d, id)

(* The nearest folder above with a binding that is not dangling.           *)
BoundAbove(c, d) ==
    {i \in 1..Len(Up[d]) : Up[d][i] \in DOMAIN c.bound /\ c.bound[Up[d][i]] \in DOMAIN c.rows}
NearestBinding(c, d) ==
    Up[d][CHOOSE i \in BoundAbove(c, d) : \A j \in BoundAbove(c, d) : i <= j]

RecentSiblings(c, key, model) ==      \* mutant: only what some folder has used of late
    {i \in DOMAIN c.rows : /\ c.rows[i].key = key /\ c.rows[i].model = model
                           /\ \E d \in DOMAIN c.bound : c.bound[d] = i}
ConfigsWithKeyAndModel(c, key, model) ==
    {i \in DOMAIN c.rows : c.rows[i].key = key /\ c.rows[i].model = model}

(* Everything else is kept; what was said of the old model is not.         *)
DeriveModelConfig(row, model, price) == Row(row.key, model, price, "model")

(* What the picker lists: the other rows of this key, those the folder has *)
(* used first, most recent first, the others in any order.                 *)
Rank(c, d, i) ==
    LET of == IF d \in DOMAIN c.recents THEN c.recents[d] ELSE <<>>
    IN  IF \E n \in 1..Len(of) : of[n] = i
        THEN CHOOSE n \in 1..Len(of) : of[n] = i ELSE RecentLimit + 1
ModelsUnderKey(c, d, key, exclude) == {i \in DOMAIN c.rows \ {exclude} : c.rows[i].key = key}
FirstChoices(c, d, key, exclude) ==
    LET all == ModelsUnderKey(c, d, key, exclude)
    IN  {i \in all : \A j \in all : Rank(c, d, i) <= Rank(c, d, j)}

-----------------------------------------------------------------------------
(* A command: loadConfig, then its answers, then saveConfig                *)

LoadConfig(t) ==
    /\ t \notin DOMAIN held
    /\ held' = Put(held, t, file) /\ UNCHANGED file

Holding(t) == t \in DOMAIN held
Done(t) == held' = Keep(held, DOMAIN held \ {t})
SaveConfig(t, c) == file' = c /\ Done(t)

(* What it read is not of use: no such row, cancelled, refused, or the     *)
(* folder is on that model already.                                        *)
QuitsConfig(t) == Holding(t) /\ Done(t) /\ UNCHANGED file

UseConfig(t) == Holding(t) /\
    \E d \in Dirs, id \in DOMAIN held[t].rows :
        SaveConfig(t, BindAndRemember(held[t], d, id))

(* Ids nobody has heard of, and the one newId makes: any is as good.       *)
Unheard == {id \in Rows : \A c \in {file} \cup Range(held) : id \notin DOMAIN c.rows}
NewId == CHOOSE id \in Rows : id \in Unheard

(* config add, with or without --use and --provider; config model in a     *)
(* folder that has nothing above it, where the key is typed.               *)
AddConfig(t) == Holding(t) /\
    \E d \in Dirs, key \in ApiKeys, model \in Models, bind \in BOOLEAN :
    \E pin \in SUBSET {model} :
        LET c == AddModelConfig(held[t], NewId, Row(key, model, pin, "hand"))
        IN  Unheard # {} /\ SaveConfig(t, IF bind THEN BindAndRemember(c, d, NewId) ELSE c)

SetUpUnboundFolder(t) == Holding(t) /\
    \E d \in Dirs, key \in ApiKeys, model \in Models : \E price \in SUBSET {model} :
        /\ BoundAbove(held[t], d) = {}
        /\ Unheard # {}
        /\ SaveConfig(t, BindAndRemember(
               AddModelConfig(held[t], NewId, Row(key, model, price, "hand")), d, NewId))

CloneModelConfig(t) == Holding(t) /\
    \E source \in DOMAIN held[t].rows :
        /\ Unheard # {}
        /\ SaveConfig(t, AddModelConfig(held[t], NewId, [held[t].rows[source] EXCEPT !.by = "hand"]))

(* config set: another model, endpoints or limits for it, or none; what is *)
(* not named stays as it is. A live switch of mode or approval is saved by *)
(* the server in the same way, and changes nothing that is looked at.      *)
UpdateModelConfig(t) == Holding(t) /\
    \E id \in DOMAIN held[t].rows, model \in Models :
        LET old == held[t].rows[id]
        IN  \E kept \in {{}, old.said}, new \in SUBSET {model} :
                SaveConfig(t, AddModelConfig(held[t], id,
                    Row(old.key, model, kept \cup new, IF model = old.model THEN old.by ELSE "hand")))

RemoveConfig(t) == Holding(t) /\
    \E id \in DOMAIN held[t].rows :
        SaveConfig(t, RemoveModelConfig(held[t], id))

(* config model, with something bound above: the key of that row and the   *)
(* model asked for. Already there: nothing is written (QuitsConfig). No such row:*)
(* it is derived. One or several: the one that is, or that is picked.      *)
ConfigModel(t) == Holding(t) /\
    \E d \in {x \in Dirs : BoundAbove(held[t], x) # {}}, model \in Models :
        LET c        == held[t]
            at       == NearestBinding(c, d)
            source   == c.rows[c.bound[at]]
            siblings == ConfigsWithKeyAndModel(c, source.key, model)
        IN  /\ c.bound[at] \notin siblings
            /\ \/ /\ siblings = {}
                  /\ Unheard # {}
                  /\ \E price \in SUBSET {model} :
                        SaveConfig(t, BindAndRemember(
                            AddModelConfig(c, NewId, DeriveModelConfig(source, model, price)), at, NewId))
               \/ \E id \in siblings : SaveConfig(t, BindAndRemember(c, at, id))

ConfigInit == file = NoConfigs /\ held = <<>>

ConfigNext == \E t \in Terminals :
    \/ LoadConfig(t) \/ QuitsConfig(t) \/ UseConfig(t) \/ AddConfig(t) \/ SetUpUnboundFolder(t) \/ CloneModelConfig(t)
    \/ UpdateModelConfig(t) \/ RemoveConfig(t) \/ ConfigModel(t)

ConfigSpec == ConfigInit /\ [][ConfigNext]_configVars

-----------------------------------------------------------------------------
(* Properties                                                              *)

(* Answering a bare config model with 1 goes back to where the folder was: *)
(* the most recent of the list is the row before the present one.          *)
FirstIsTheLast ==
    \A d \in DOMAIN file.bound :
        LET at == file.rows[file.bound[d]]
            of == file.recents[d]
        IN  Len(of) > 1 /\ file.rows[of[2]].key = at.key =>
                FirstChoices(file, d, at.key, file.bound[d]) = {of[2]}

(* However commands overtake each other, every file that is saved is of one*)
(* piece: a folder's recents are alive, each once and within the limit (a  *)
(* picker is answered by number), and its binding, if it has one, is alive *)
(* and the most recent of them.                                            *)
FileIsClosed ==
    /\ \A d \in DOMAIN file.recents :
          /\ ToSet(file.recents[d]) \subseteq DOMAIN file.rows
          /\ IsInjective(file.recents[d]) /\ Len(file.recents[d]) \in 1..RecentLimit
    /\ \A d \in DOMAIN file.bound :
          d \in DOMAIN file.recents /\ file.bound[d] = Head(file.recents[d])
    /\ FirstIsTheLast

(* No two derived rows on one key and model; none says anything that was   *)
(* said of another model.                                                  *)
Derived(c) == {i \in DOMAIN c.rows : c.rows[i].by = "model"}
DerivedOnce(c) ==
    \A i, j \in Derived(c) :
        c.rows[i].key = c.rows[j].key /\ c.rows[i].model = c.rows[j].model => i = j
NothingForeign(c) == \A i \in Derived(c) : c.rows[i].said \subseteq {c.rows[i].model}

(* Switching converges: config model never leaves two rows of its own on   *)
(* one key and model, whichever folders and terminals it is run from, and  *)
(* none of them carries the price, the endpoints or the window of the model*)
(* it was derived from.                                                    *)
SwitchConverges == DerivedOnce(file) /\ NothingForeign(file)
=============================================================================
