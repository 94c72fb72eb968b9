----------------------------- MODULE ConfigWatch -----------------------------
(***************************************************************************)
(* The configuration file and the shell's copy of it (app/config.cpp,      *)
(* app/monitor_output.cpp, the inotify source of kokusei.cpp).  The        *)
(* settings panel saves by writing a new file and renaming it over the old *)
(* one; other programs edit the file in place, replace it by a rename, or  *)
(* delete it.  The watch is on the inode the path named when it was added, *)
(* with the mask IN_MODIFY | IN_CLOSE_WRITE: a rename over that inode      *)
(* tells the shell nothing until the inode is freed, and then IN_IGNORED.  *)
(***************************************************************************)
EXTENDS Naturals

CONSTANTS
    Values,           \* the configurations
    Default,          \* Config{}
    Torn,             \* a file that was truncated and is not yet written
    Missing,          \* no file
    MaxEdits          \* bound: saves by the panel and edits by others

ASSUME ConfigAssumption ==
    /\ Default \notin Values
    /\ {Torn, Missing} \intersect (Values \union {Default}) = {}
    /\ Torn # Missing
    /\ MaxEdits \in Nat

VARIABLES
    file,             \* what the path names
    cfg,              \* app.cfg
    watch,            \* the inode watched: the path's, one that is no longer
                      \* the path's but still open in an editor, a freed one;
                      \* none is config_watch_fd = -1
    events,           \* the kinds of event waiting in config_watch_fd
    ownWrite,         \* config_own_write_pending
    editor,           \* another program has the path's inode open for
                      \* writing, or one the path no longer names
    writer,           \* history: what the file holds is the shell's (saved or
                      \* loaded), another program's, or not what the shell
                      \* tried to save
    edits             \* what is left of MaxEdits

vars == <<file, cfg, watch, events, ownWrite, editor, writer, edits>>

TypeOK ==
    /\ file \in Values \union {Torn, Missing}
    /\ cfg \in Values \union {Default}
    /\ watch \in {"path", "open", "freed", "none"}
    /\ events \subseteq {"changed", "removed"}
    /\ ownWrite \in BOOLEAN
    /\ editor \in {"none", "path", "orphan"}
    /\ writer \in {"shell", "other", "unsaved"}
    /\ edits \in 0..MaxEdits

\* Mutant of Load: what is not a configuration is taken as it is.
LoadUnparsed(f) == IF f = Missing THEN Default ELSE f

\* load_config: what cannot be read or parsed leaves the defaults.
Load(f) == IF f \in Values THEN f ELSE Default

\* config_watch_init: no watch on a path that names nothing.
WatchInit(f) == IF f = Missing THEN "none" ELSE "path"

Init ==
    /\ file \in Values \union {Missing}
    /\ cfg = Load(file)
    /\ watch = WatchInit(file)
    /\ events = {}
    /\ ownWrite = FALSE
    /\ editor = "none"
    /\ writer = "shell"
    /\ edits = MaxEdits

Edit == edits > 0 /\ edits' = edits - 1
-----------------------------------------------------------------------------
\* The path's inode loses its name: it is freed at once unless an editor still
\* has it open.
InodeUnlinked ==
    /\ editor' = IF editor = "path" THEN "orphan" ELSE editor
    /\ IF watch = "path"
       THEN IF editor = "path"
            THEN watch' = "open" /\ UNCHANGED events
            ELSE watch' = "freed" /\ events' = events \union {"removed"}
       ELSE UNCHANGED <<watch, events>>

\* write_file_atomic, its two outcomes.
WriteFileAtomic(v) ==
    \/ file' = v /\ InodeUnlinked /\ writer' = "shell"
    \/ UNCHANGED <<file, editor, watch, events>> /\ writer' = "unsaved"

\* Mutant of SaveAndApply: the new configuration is left to the hot reload.
SaveAndApplyByReload(v) ==
    /\ Edit
    /\ UNCHANGED cfg
    /\ WriteFileAtomic(v)
    /\ ownWrite' = FALSE

\* save_and_apply_config_update, from the settings panel.
SaveAndApply(v) ==
    /\ Edit
    /\ cfg' = v
    /\ WriteFileAtomic(v)
    /\ ownWrite' = TRUE

\* A file read while an editor has it open may still change.
Reader == IF editor = "path" THEN "other" ELSE "shell"

\* Mutants of ConfigEvents: an own write is recognised before the watch is
\* renewed; a renewed watch ends the handler.
ConfigEventsOwnFirst ==
    /\ watch # "none" /\ events # {}
    /\ events' = {}
    /\ IF ownWrite
       THEN ownWrite' = FALSE /\ UNCHANGED <<cfg, watch, writer>>
       ELSE /\ watch' = IF "removed" \in events THEN WatchInit(file) ELSE watch
            /\ IF "changed" \in events
               THEN cfg' = Load(file) /\ writer' = Reader
               ELSE UNCHANGED <<cfg, writer>>
            /\ UNCHANGED ownWrite
    /\ UNCHANGED <<file, editor, edits>>

ConfigEventsRewatchOnly ==
    /\ watch # "none" /\ events # {}
    /\ events' = {}
    /\ IF "removed" \in events
       THEN watch' = WatchInit(file) /\ UNCHANGED <<cfg, ownWrite, writer>>
       ELSE /\ UNCHANGED watch
            /\ ownWrite' = FALSE
            /\ IF ownWrite
               THEN UNCHANGED <<cfg, writer>>
               ELSE cfg' = Load(file) /\ writer' = Reader
    /\ UNCHANGED <<file, editor, edits>>

\* The poll source on config_watch_fd.
ConfigEvents ==
    /\ watch # "none" /\ events # {}
    /\ events' = {}
    /\ watch' = IF "removed" \in events THEN WatchInit(file) ELSE watch
    /\ IF "changed" \in events
       THEN /\ ownWrite' = FALSE
            /\ IF ownWrite
               THEN UNCHANGED <<cfg, writer>>
               ELSE cfg' = Load(file) /\ writer' = Reader
       ELSE UNCHANGED <<cfg, ownWrite, writer>>
    /\ UNCHANGED <<file, editor, edits>>
-----------------------------------------------------------------------------
Noticed(w) == IF watch = w THEN events \union {"changed"} ELSE events

\* Another program opens the file for writing and truncates it.
EditorOpens ==
    /\ Edit
    /\ editor = "none"
    /\ file # Missing
    /\ editor' = "path"
    /\ file' = Torn
    /\ events' = Noticed("path")
    /\ writer' = "other"
    /\ UNCHANGED <<cfg, watch, ownWrite>>

\* It writes the new contents and closes the file.
EditorCloses(v) ==
    /\ editor = "path"
    /\ editor' = "none"
    /\ file' = v
    /\ events' = Noticed("path")
    /\ writer' = "other"
    /\ UNCHANGED <<cfg, watch, ownWrite, edits>>

\* The same, for a file that was replaced or deleted meanwhile: what it wrote
\* is lost, and the closed inode is freed.
EditorClosesOrphan ==
    /\ editor = "orphan"
    /\ editor' = "none"
    /\ IF watch = "open"
       THEN watch' = "freed" /\ events' = {"changed", "removed"}
       ELSE UNCHANGED <<watch, events>>
    /\ UNCHANGED <<file, cfg, ownWrite, writer, edits>>

\* Another program renames a complete file over the path.
Replace(v) ==
    /\ Edit
    /\ file' = v
    /\ InodeUnlinked
    /\ writer' = "other"
    /\ UNCHANGED <<cfg, ownWrite>>

Delete ==
    /\ Edit
    /\ file # Missing
    /\ file' = Missing
    /\ InodeUnlinked
    /\ writer' = "other"
    /\ UNCHANGED <<cfg, ownWrite>>
-----------------------------------------------------------------------------
Others ==
    \/ EditorOpens
    \/ EditorClosesOrphan
    \/ Delete
    \/ \E v \in Values : EditorCloses(v) \/ Replace(v)

Next == (\E v \in Values : SaveAndApply(v)) \/ ConfigEvents \/ Others

\* The main loop serves a readable descriptor; an editor closes its file.
Fairness ==
    /\ WF_vars(ConfigEvents)
    /\ WF_vars(EditorClosesOrphan)
    /\ WF_vars(\E v \in Values : EditorCloses(v))

Spec == Init /\ [][Next]_vars /\ Fairness
-----------------------------------------------------------------------------
\* Saving makes no echo: until somebody else writes the file, the shell runs
\* what the file says, whatever events of older inodes still arrive.
SavedIsApplied == writer = "shell" => cfg = Load(file)

\* The watch follows the path: a freed inode is still watched only while the
\* event that renews the watch is waiting, and every other watch is the path's
\* or will end in that event.
WatchFollowsPath ==
    /\ watch = "freed" => "removed" \in events
    /\ watch = "open" => editor = "orphan"
    /\ watch = "none" => events = {}

\* A change the watch reports outside an own write reaches the shell, the one
\* reported together with the end of the watch included.
ReportedIsLoaded ==
    ("changed" \in events /\ ~ownWrite) ~> (cfg = Load(file) \/ ownWrite)

\* "inotify hot-reload": a configuration that another program has finished
\* writing is loaded, unless the panel saves over it or it is written again.
HotReload ==
    (writer = "other" /\ file \in Values) ~> (cfg = Load(file) \/ writer # "other")
=============================================================================
