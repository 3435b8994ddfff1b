------------------------------ MODULE Windows ------------------------------
(* How full a conversation may get: the catalog of models and its cache on *)
(* disk (llm/models.ts), the window a session is given (session-factory.ts)*)
(* and the budget it folds by (compaction.ts, session.ts).                 *)
(***************************************************************************)
EXTENDS Integers

CONSTANTS
    BaseModelId,    \* from an id to the id without its variant suffix
    Offers,         \* what the provider may list: functions from ids to windows
    Configurations, \* what a thread may run on, see Settings
    FallbackWindow, \* FALLBACK_CONTEXT_WINDOW
    DefaultBuffer,  \* DEFAULT_BUFFER_TOKENS
    Measures,       \* sizes of a prefix
    MaxChanges      \* bound: how often the world outside changes

ASSUME TokensAssumption ==
    /\ FallbackWindow \in Nat \ {0} /\ DefaultBuffer \in Nat \ {0} /\ Measures \subseteq Nat
    /\ \A o \in Offers : \A m \in DOMAIN o : o[m] \in Int
(* A buffer is written by hand only; one of 0 would leave a threshold that *)
(* is the window itself, which nothing can pass.                           *)
ASSUME ConfigurationsAssumption ==
    \A s \in Configurations : s.model # "none" /\ s.length \in Int /\ s.buffer \in Nat /\ s.threshold \in Int

VARIABLES
    offered,        \* what the provider lists now
    disk,           \* the cache of the catalog
    held,           \* the catalog in the process that serves, or NotRunning
    thread,         \* the open session: its settings and its windows, or NoThread
    prefix,         \* tokens of its next prefix, as last measured
    measured,       \* that was under the settings it has now
    folds,          \* needsCompaction
    learned,        \* history: the model this process was started for, if the provider listed it then
    changes

windowVars == <<offered, disk, held, thread, prefix, measured, folds, learned, changes>>

Unset == 0      \* of a number in a configuration, or a window that is not known
Settings(model, length, buffer, threshold, compactor) ==
    [model |-> model, length |-> length, buffer |-> buffer, threshold |-> threshold, compactor |-> compactor]

Catalog(windows, stale) == [windows |-> windows, stale |-> stale]
NoList == [m \in {} |-> Unset]
NoCache == Catalog(NoList, TRUE)        \* no file, or one that does not parse
NotRunning == Catalog(NoList, TRUE)     \* what a process holds is never stale
NoThread == [settings |-> Settings("none", Unset, Unset, Unset, "none"), window |-> Unset, source |-> "none", compactorWindow |-> Unset]

-----------------------------------------------------------------------------
(* ModelCatalog                                                            *)

(* lookupWindow: the exact id first, for some variants have a window of    *)
(* their own.                                                              *)
LookupWindow(windows, id) ==
    CASE id \in DOMAIN windows -> windows[id]
      [] id \notin DOMAIN windows /\ BaseModelId[id] \in DOMAIN windows -> windows[BaseModelId[id]]
      [] OTHER -> Unset

(* parseModels keeps the entries with a usable number; a list without any  *)
(* does not replace what is known.                                         *)
ParseModels(list) == [m \in {m \in DOMAIN list : list[m] > 0} |-> list[m]]

Refreshed(c, reached) ==
    IF reached /\ DOMAIN ParseModels(offered) # {} THEN Catalog(ParseModels(offered), FALSE) ELSE c

EnsureKnown(c, id, reached) ==
    IF ~c.stale /\ LookupWindow(c.windows, id) # Unset THEN c ELSE Refreshed(c, reached)

Resolved(window, source) == [window |-> window, source |-> source]
ResolveWindow(id, length) ==
    LET known == LookupWindow(held.windows, id)
    IN  CASE length > 0 -> Resolved(length, "config")
          [] length <= 0 /\ known # Unset -> Resolved(known, "catalog")
          [] OTHER -> Resolved(FallbackWindow, "fallback")

-----------------------------------------------------------------------------
(* computeBudget, applyCompactorFit                                        *)

ThresholdReachesWindow(threshold, window) == threshold > 0 /\ threshold <= window    \* mutant: at the window it never fires
ThresholdFitsWindow(threshold, window) == threshold > 0 /\ threshold < window

Positive(n) == IF n > 0 THEN n ELSE 0
Buffer(s) == IF s.buffer = Unset THEN DefaultBuffer ELSE s.buffer

ComputeBudget(window, s) ==
    LET derived == [threshold |-> Positive(window - Buffer(s)), source |-> "buffer", refused |-> Unset]
    IN  CASE s.threshold = Unset -> derived
          [] s.threshold # Unset /\ ~ThresholdFitsWindow(s.threshold, window) -> [derived EXCEPT !.refused = s.threshold]
          [] OTHER -> [threshold |-> s.threshold, source |-> "absolute", refused |-> Unset]

ApplyCompactorFit(budget, compactorWindow, s) ==
    LET fits == Positive(compactorWindow - Buffer(s))
    IN  IF compactorWindow = Unset \/ fits >= budget.threshold THEN budget
        ELSE [budget EXCEPT !.threshold = fits, !.source = "compactor-fit"]

CompactionBudget(t) == ApplyCompactorFit(ComputeBudget(t.window, t.settings), t.compactorWindow, t.settings)

-----------------------------------------------------------------------------
WindowsInit ==
    /\ offered \in Offers /\ disk \in {NoCache} \cup {Catalog(ParseModels(o), TRUE) : o \in Offers}
    /\ held = NotRunning /\ thread = NoThread
    /\ prefix = 0 /\ measured = FALSE /\ folds = FALSE /\ learned = "none" /\ changes = 0

(* serve: the cache is read, and the model of this folder is asked for if  *)
(* it is not known.  A cache that cannot be written is none the worse.     *)
Launch(s) == \E reached, written \in BOOLEAN :
    /\ held = NotRunning
    /\ LET c == EnsureKnown(disk, s.model, reached)
       IN  /\ held' = Catalog(c.windows, FALSE)
           /\ disk' = IF written THEN c ELSE disk
    /\ learned' = IF reached /\ LookupWindow(ParseModels(offered), s.model) # Unset THEN s.model ELSE "none"
    /\ UNCHANGED <<offered, thread, prefix, measured, folds, changes>>

Exit ==
    /\ held # NotRunning /\ held' = NotRunning /\ thread' = NoThread
    /\ prefix' = 0 /\ measured' = FALSE /\ folds' = FALSE /\ learned' = "none"
    /\ UNCHANGED <<offered, disk, changes>>

(* deriveFromConfig: for a new session and for one that takes over another *)
(* configuration, from the same catalog, which is not asked for again.     *)
Derive(s) ==
    LET w == ResolveWindow(s.model, s.length)
    IN  [settings |-> s, window |-> w.window, source |-> w.source,
         compactorWindow |-> IF s.compactor \in {"none", s.model} THEN Unset
                             ELSE LookupWindow(held.windows, s.compactor)]

Open(s) ==
    /\ held # NotRunning /\ thread' = Derive(s)
    /\ prefix' = 0 /\ measured' = FALSE /\ folds' = FALSE
    /\ UNCHANGED <<offered, disk, held, learned, changes>>

AdoptSettings(s) ==
    /\ thread # NoThread /\ s # thread.settings /\ thread' = Derive(s)
    /\ measured' = FALSE /\ folds' = FALSE
    /\ UNCHANGED <<offered, disk, held, prefix, learned, changes>>

(* evaluateCompaction, with what the provider says it was sent and sent.   *)
Measure(tokens) ==
    /\ thread # NoThread /\ prefix' = tokens /\ measured' = TRUE
    /\ folds' = (folds \/ tokens > CompactionBudget(thread).threshold)
    /\ UNCHANGED <<offered, disk, held, thread, learned, changes>>

Folds ==
    /\ folds /\ folds' = FALSE /\ prefix' = 0 /\ measured' = FALSE
    /\ UNCHANGED <<offered, disk, held, thread, learned, changes>>

(* The provider lists something else; a day passes; `config model` or      *)
(* another server writes the cache.                                        *)
Outside(o, d) ==
    /\ changes < MaxChanges /\ changes' = changes + 1
    /\ offered' = o /\ disk' = d
    /\ UNCHANGED <<held, thread, prefix, measured, folds, learned>>
Releases(o) == Outside(o, disk)
ADayPasses == ~disk.stale /\ Outside(offered, [disk EXCEPT !.stale = TRUE])
Elsewhere == DOMAIN ParseModels(offered) # {} /\ Outside(offered, Refreshed(disk, TRUE))

WindowsNext ==
    \/ \E s \in Configurations : Launch(s) \/ Open(s) \/ AdoptSettings(s)
    \/ \E o \in Offers : Releases(o)
    \/ \E tokens \in Measures : Measure(tokens)
    \/ Exit \/ Folds \/ ADayPasses \/ Elsewhere

WindowsSpec == WindowsInit /\ [][WindowsNext]_windowVars

-----------------------------------------------------------------------------
(* Properties                                                              *)

(* A thread always has a budget (H-06), and one that can fire: its         *)
(* threshold lies below the window, where a prefix the provider still takes*)
(* can pass it, and below the window of the model that is to summarise; so *)
(* a measured prefix that fills the window is going to be folded.  A       *)
(* threshold that was refused is said to be.  And where the provider lists *)
(* the model this process was started for, the window is not a guess.      *)
BudgetIsReal ==
    thread # NoThread =>
        LET s == thread.settings
            b == CompactionBudget(thread)
        IN  /\ thread.window > 0 /\ b.threshold < thread.window
            /\ thread.compactorWindow # Unset =>
                  b.threshold + (IF thread.compactorWindow > Buffer(s) THEN Buffer(s) ELSE 0) <= thread.compactorWindow
            /\ measured /\ prefix >= thread.window => folds
            /\ b.source = "buffer" => b.refused = s.threshold
            /\ s.model = learned /\ s.length = Unset => thread.source = "catalog"
=============================================================================
