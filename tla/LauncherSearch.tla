--------------------------- MODULE LauncherSearch ---------------------------
(***************************************************************************)
(* The launcher's file search (modules/launcher.cpp and LauncherModule in  *)
(* app/module_registry.cpp).  Two fd commands, one for directories and one *)
(* for files, run on two AsyncProcess handles; typing restarts them behind *)
(* a 120 ms debounce, a restart waits until the killed commands are gone   *)
(* or 50 ms have passed, and closing the launcher cancels everything.      *)
(*                                                                         *)
(* A text is what detect_mode_and_query makes of the search field: a query *)
(* for files, or Nothing when the field is empty or names another mode.    *)
(***************************************************************************)
EXTENDS Naturals, FiniteSets

CONSTANTS
    Queries,          \* the texts that search for files
    Nothing,          \* no query, and no results
    MaxInputs         \* bound: keys typed, toggles, outputs unplugged

ASSUME LauncherAssumption == Nothing \notin Queries /\ MaxInputs \in Nat

VARIABLES
    handle,           \* [Parts -> JobHandle]: search_dirs_proc, search_files_proc
    text,             \* search.text
    effective,        \* effective_query
    dirty,            \* search_dirty
    running,          \* search_running
    query,            \* search_query
    awaiting,         \* awaiting_restart
    pending,          \* pending_restart_query
    killed,           \* pending_kill_dirs, pending_kill_files
    grace,            \* kLauncherKillGraceMs have passed since pending_kill_since
    results,          \* results, with the output each part of them came from
    open,             \* open
    fading,           \* the closing fade is under way
    surface,          \* layer_surface and egl_surface exist
    destroying,       \* a DeferredCall that destroys the surface is queued
    spawned,          \* history: the parts whose last start succeeded
    dropped,          \* history: the text's search was cancelled by a close, or
                      \* overwritten by the restart of an older one
    inputs            \* what is left of MaxInputs

ui == <<open, fading, surface, destroying>>
restart == <<awaiting, pending, killed, grace>>
history == <<spawned, dropped>>
vars == <<handle, text, effective, dirty, running, query, restart, results, ui,
          history, inputs>>

Parts == {"dirs", "files"}
Texts == Queries \union {Nothing}
MaxGeneration == 2 * MaxInputs

Job == INSTANCE JobHandle WITH Handles <- Parts, Jobs <- Queries

Results == [query : Queries, out : [Parts -> Texts], from : SUBSET Parts]

\* An empty list is not what a search found.
ASSUME NothingAssumption == Nothing \notin Results

TypeOK ==
    /\ Job!TypeOK
    /\ {text, effective, query, pending} \subseteq Texts
    /\ {dirty, running, awaiting, grace, open, fading, surface, destroying,
        dropped} \subseteq BOOLEAN
    /\ killed \in [Parts -> 0..MaxGeneration]
    /\ results \in Results \union {Nothing}
    /\ spawned \subseteq Parts
    /\ inputs \in 0..MaxInputs

NoKill == [p \in Parts |-> 0]

Init ==
    /\ Job!Init
    /\ text = Nothing /\ effective = Nothing /\ query = Nothing
    /\ dirty = FALSE /\ running = FALSE
    /\ awaiting = FALSE /\ pending = Nothing /\ killed = NoKill /\ grace = FALSE
    /\ results = Nothing
    /\ open = FALSE /\ fading = FALSE /\ surface = TRUE /\ destroying = FALSE
    /\ spawned = {} /\ dropped = FALSE
    /\ inputs = MaxInputs

Input == inputs > 0 /\ inputs' = inputs - 1
-----------------------------------------------------------------------------
\* launcher_query_changed: typing, erasing, or an input method's commit.  Keys
\* reach the launcher while it is open, the closing fade included.
Type(t) ==
    /\ Input
    /\ open
    /\ t # text
    /\ text' = t
    /\ effective' = t
    /\ dirty' = TRUE
    /\ dropped' = FALSE
    /\ UNCHANGED <<handle, running, query, restart, results, ui, spawned>>

\* launcher_search_start_now: each start may fail and leave its handle as it
\* was; the search counts as running all the same.
StartNow(q) ==
    /\ query' = q
    /\ running' = TRUE
    /\ \E S \in SUBSET Parts :
          /\ spawned' = S
          /\ handle' = [p \in Parts |-> IF p \in S THEN Job!Started(handle[p], q)
                                        ELSE handle[p]]

CancelAll == handle' = [p \in Parts |-> Job!Cancelled(handle[p])]

\* Mutant of SearchStart: a restart that waits is not told the newer query.
SearchStartKeepsPending ==
    \/ awaiting /\ UNCHANGED <<handle, running, query, restart, spawned>>
    \/ /\ ~awaiting /\ running
       /\ CancelAll
       /\ killed' = [p \in Parts |-> Job!KilledBy(handle[p])]
       /\ grace' = FALSE
       /\ pending' = effective
       /\ running' = FALSE
       /\ awaiting' = TRUE
       /\ UNCHANGED <<query, spawned>>
    \/ /\ ~awaiting /\ ~running
       /\ StartNow(effective)
       /\ UNCHANGED restart

\* launcher_search_start.
SearchStart ==
    \/ /\ awaiting
       /\ pending' = effective
       /\ UNCHANGED <<handle, running, query, awaiting, killed, grace, spawned>>
    \/ /\ ~awaiting /\ running
       /\ CancelAll
       /\ killed' = [p \in Parts |-> Job!KilledBy(handle[p])]
       /\ grace' = FALSE
       /\ pending' = effective
       /\ running' = FALSE
       /\ awaiting' = TRUE
       /\ UNCHANGED <<query, spawned>>
    \/ /\ ~awaiting /\ ~running
       /\ StartNow(effective)
       /\ UNCHANGED restart

\* Mutant of Tick: search_dirty is not reset.
TickKeepsDirty ==
    /\ dirty
    /\ dirty' = TRUE
    /\ IF effective # Nothing
       THEN SearchStart /\ UNCHANGED results
       ELSE /\ results' = Nothing
            /\ UNCHANGED <<handle, running, query, restart, spawned>>
    /\ UNCHANGED <<text, effective, ui, dropped, inputs>>

\* launcher_tick, once the debounce of the last key has passed.
Tick ==
    /\ dirty
    /\ dirty' = FALSE
    /\ IF effective # Nothing
       THEN SearchStart /\ UNCHANGED results
       ELSE /\ results' = Nothing
            /\ UNCHANGED <<handle, running, query, restart, spawned>>
    /\ UNCHANGED <<text, effective, ui, dropped, inputs>>

Alive(p) == killed[p] \in handle[p].unreaped

GraceElapses ==
    /\ awaiting
    /\ grace' = TRUE
    /\ UNCHANGED <<handle, text, effective, dirty, running, query, awaiting,
                   pending, killed, results, ui, history, inputs>>

\* Mutant of SearchStartPending: no grace period.
SearchStartPendingNoGrace ==
    /\ awaiting
    /\ ~\E p \in Parts : Alive(p)
    /\ awaiting' = FALSE
    /\ killed' = NoKill
    /\ effective' = pending
    /\ dropped' = (dropped \/ (dirty /\ effective # pending))
    /\ StartNow(pending)
    /\ UNCHANGED <<text, dirty, pending, grace, results, ui, inputs>>

\* launcher_search_start_pending, run by every iteration of the main loop.
SearchStartPending ==
    /\ awaiting
    /\ (\E p \in Parts : Alive(p)) => grace
    /\ awaiting' = FALSE
    /\ killed' = NoKill
    /\ effective' = pending
    /\ dropped' = (dropped \/ (dirty /\ effective # pending))
    /\ StartNow(pending)
    /\ UNCHANGED <<text, dirty, pending, grace, results, ui, inputs>>
-----------------------------------------------------------------------------
Output(p) == IF handle[p].status = "done" THEN handle[p].job ELSE Nothing

\* Mutant of Collect: done when either part is.
CollectEither ==
    IF \E p \in Parts : handle[p].status = "done"
    THEN /\ running' = FALSE
         /\ results' = [query |-> query, out |-> [p \in Parts |-> Output(p)],
                        from |-> spawned]
    ELSE UNCHANGED <<running, results>>

\* The part of launcher_search_poll after both handles have been polled.
Collect ==
    IF \A p \in Parts : handle[p].status = "done"
    THEN /\ running' = FALSE
         /\ results' = [query |-> query, out |-> [p \in Parts |-> Output(p)],
                        from |-> spawned]
    ELSE UNCHANGED <<running, results>>

\* The poll loop finds a wake_fd readable and calls launcher_search_poll.
SearchPoll ==
    /\ \E p \in Parts : handle[p].wake
    /\ running
    /\ handle' = [p \in Parts |-> Job!Polled(handle[p])]
    /\ Collect
    /\ UNCHANGED <<text, effective, dirty, query, restart, ui, history, inputs>>

\* The workers of core/async_process.
Worker ==
    /\ \E p \in Parts : Job!Finish(p) \/ Job!Reap(p)
    /\ UNCHANGED <<text, effective, dirty, running, query, restart, results, ui,
                   history, inputs>>
-----------------------------------------------------------------------------
\* Mutant of CloseSearch: the files command is left running.
CloseSearchDirsOnly ==
    /\ dirty' = FALSE
    /\ handle' = [handle EXCEPT !["dirs"] = Job!Cancelled(@)]
    /\ running' = FALSE
    /\ awaiting' = FALSE
    /\ killed' = NoKill

CloseSearch ==
    /\ dirty' = FALSE
    /\ CancelAll
    /\ running' = FALSE
    /\ awaiting' = FALSE
    /\ killed' = NoKill

\* launcher_toggle while open: also Escape, a click outside, and a launch.
Close ==
    /\ Input
    /\ open /\ surface
    /\ CloseSearch
    /\ fading' = TRUE
    /\ dropped' = TRUE
    /\ UNCHANGED <<text, effective, query, pending, grace, results, open,
                   surface, destroying, spawned>>

\* The closing fade's on_complete.
FadeDone ==
    /\ fading
    /\ fading' = FALSE
    /\ open' = FALSE
    /\ text' = Nothing
    /\ effective' = Nothing
    /\ results' = Nothing
    /\ destroying' = TRUE
    /\ dropped' = FALSE
    /\ UNCHANGED <<handle, dirty, running, query, restart, surface, spawned,
                   inputs>>

\* The deferred call that FadeDone queued.
DestroySurface ==
    /\ destroying
    /\ destroying' = FALSE
    /\ surface' = (surface /\ open)
    /\ UNCHANGED <<handle, text, effective, dirty, running, query, restart,
                   results, open, fading, history, inputs>>

\* The launcher verb while closed: launcher_retarget makes a surface where the
\* pointer is, launcher_toggle opens it.  The text and results are kept.
Open ==
    /\ Input
    /\ ~open
    /\ surface' = TRUE
    /\ open' = TRUE
    /\ UNCHANGED <<handle, text, effective, dirty, running, query, restart,
                   results, fading, destroying, history>>

\* LauncherModule::on_output_removed, for the output the launcher is on.
OutputRemoved ==
    /\ Input
    /\ surface
    /\ surface' = FALSE
    /\ open' = FALSE
    /\ fading' = FALSE
    /\ UNCHANGED <<handle, text, effective, dirty, running, query, restart,
                   results, destroying, history>>
-----------------------------------------------------------------------------
User == (\E t \in Texts : Type(t)) \/ Close \/ Open \/ OutputRemoved

Loop == Tick \/ SearchStartPending \/ SearchPoll \/ FadeDone \/ DestroySurface

Next == User \/ Loop \/ GraceElapses \/ Worker

\* The main loop runs its ticks and serves readable descriptors, time passes,
\* a waiting worker reports; nothing makes a command end or a user act.
Fairness ==
    /\ WF_vars(Tick) /\ WF_vars(SearchStartPending) /\ WF_vars(SearchPoll)
    /\ WF_vars(GraceElapses)
    /\ \A p \in Parts :
          WF_vars(Job!Finish(p) /\ UNCHANGED <<text, effective, dirty, running,
                        query, restart, results, ui, history, inputs>>)

Spec == Init /\ [][Next]_vars /\ Fairness
-----------------------------------------------------------------------------
\* "Never score an async operation's result against a live mutable field":
\* the directories and the files on screen answer the query they are scored
\* against, whatever was typed, cancelled or restarted in between, except for
\* a part whose command could not be started.
ResultsOneQuery ==
    results # Nothing =>
        \A p \in results.from : results.out[p] = results.query

\* A search that nobody waits for is not left behind: its commands are killed,
\* and no descriptor is readable that launcher_search_poll would not drain.
NoOrphanSearch ==
    \A p \in Parts :
        handle[p].status = "running" \/ handle[p].wake => running

\* Once typing has settled the results shown are those of the text typed,
\* unless its search was cancelled by a close that an unplugged output cut
\* short, or a restart overwrote the newer query with the one it had kept.
SettledShowsText ==
    /\ open /\ ~fading /\ ~dirty /\ ~running /\ ~awaiting
    /\ text \in Queries /\ ~dropped
    => results # Nothing /\ results.query = text

\* Typing settles: neither the debounce nor a restart is pending for ever, and
\* a search whose commands have both ended is collected or cancelled.
TypingSettles ==
    /\ (dirty \/ awaiting) ~> (~dirty /\ ~awaiting)
    /\ (running /\ spawned = Parts
          /\ \A p \in Parts : handle[p].gen \notin handle[p].unreaped)
         ~> ~running

\* "Confirm actual death before forking a replacement, or the two processes
\* compete": a search starts when the commands killed before it are gone, or
\* after the grace period.
ReplacesOnlyTheDead ==
    [][\A p \in Parts :
          handle'[p].status = "running" /\ handle'[p].gen # handle[p].gen
            => handle[p].unreaped = {} \/ grace]_vars
=============================================================================
