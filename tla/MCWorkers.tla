----------------------------- MODULE MCWorkers ------------------------------
(* The deferred calls, and one at a time the components that live on every   *)
(* monitor or whose work other threads do: `part' says which of them runs.   *)
(* They share the main loop but no state, so that each is checked against    *)
(* every order of its own events; the variables of the others are `Off'.     *)
(* While another part runs no thread posts and the pipe is not there, so     *)
(* that none of the fair actions of the deferred calls is enabled.           *)
EXTENDS DeferredCall, FiniteSets

CONSTANTS
    Wallpapers, MaxFrames,                              \* of Wallpaper
    Dirs, Broken, MaxScans, MaxInFlight,                \* of WallpaperPicker
    Monitors, Texts, Timeouts, MaxId, MaxMessages,      \* of Notifications
    MaxChanges,                                         \* of Notifications and Wallpaper
    Connectors, Panels, MaxPlugs, MaxDones,             \* of MonitorLifecycle
    Settings, Far, MaxIdleEvents,                       \* of Idle
    Looks, Sizes, MaxWindowEvents                       \* of Windows

VARIABLES
    part,
    wp, wpWork,
    dir, picker, scans, decodes, posted, missed,
    service, cards, views, enabled, messages, changes,
    wire, world, mons, mon, waits, boot, refs, moWork,
    seatIdle, focused, since, timeouts, screens, closures, stray, used, idleWork,
    at, current, outputs, cfg, rain, viz, thread, windowWork

Columns == INSTANCE Wallpaper
Grid == INSTANCE WallpaperPicker
Cards == INSTANCE Notifications
Outputs == INSTANCE MonitorLifecycle WITH Outputs <- Connectors, Hasty <- FALSE
Screens == INSTANCE Idle WITH posted <- closures
Toplevels == INSTANCE Windows

ASSUME WorkersAssumption ==
    /\ MaxId \in Nat \ {0} /\ MaxMessages \in Nat /\ MaxChanges \in Nat
    /\ Timeouts \subseteq Nat /\ Timeouts # {}
    /\ \E t \in Timeouts : \A u \in Timeouts : u <= t
    /\ IsFiniteSet(Connectors) /\ Connectors # {} /\ Outputs!NoOutput \notin Connectors
    /\ Far \in Nat /\ Settings \subseteq [ambient : Nat, saver : Nat]
    /\ Wallpapers \subseteq [animated : BOOLEAN, paths : Seq(STRING)] /\ MaxFrames \in Nat
    /\ MaxScans \in Nat /\ MaxInFlight \in Nat \ {0} /\ \A d \in Dirs : IsFiniteSet(d)
    /\ 0 \notin Looks /\ Sizes \subseteq Nat \X Nat /\ MaxWindowEvents \in Nat

\* A still, two stills with an empty column between configurations, a video.
ThreeWallpapers ==
    {[animated |-> FALSE, paths |-> <<"a">>], [animated |-> FALSE, paths |-> <<"b", "">>],
     [animated |-> TRUE, paths |-> <<"a">>]}
TwoDirs == {{"a", "b"}, {"b", "x"}}
\* The ambient wallpaper before the screensaver, and off.
TwoTimeouts == {[ambient |-> 1, saver |-> 2], [ambient |-> 9, saver |-> 1]}
TwoSizes == {<<1, 1>>, <<2, 2>>}

wpVars == <<wp, wpWork>>
pickerVars == <<dir, picker, scans, decodes, posted, missed>>
cardVars == <<service, cards, views, enabled, messages, changes>>
outputVars == <<wire, world, mons, mon, waits, boot, refs, moWork>>
screenVars ==
    <<seatIdle, focused, since, timeouts, screens, closures, stray, used, idleWork>>
windowVars == <<at, current, outputs, cfg, rain, viz, thread, windowWork>>
guests == <<wpVars, pickerVars, cardVars, outputVars, screenVars, windowVars>>

Off == "off"

MCInit ==
    /\ part \in {"calls", "wallpaper", "picker", "notifications", "monitors", "idle",
                "windows"}
    /\ Init /\ (part = "calls" \/ ~fd_ok)
    /\ IF part = "wallpaper" THEN Columns!Init ELSE wp = Off /\ wpWork = Off
    /\ IF part = "picker" THEN Grid!Init
       ELSE /\ dir = Off /\ picker = Off /\ scans = Off
            /\ decodes = Off /\ posted = Off /\ missed = Off
    /\ IF part = "notifications" THEN Cards!Init
       ELSE /\ service = Off /\ cards = Off /\ views = Off
            /\ enabled = Off /\ messages = Off /\ changes = Off
    /\ IF part = "monitors" THEN Outputs!Init
       ELSE /\ wire = Off /\ world = Off /\ mons = Off /\ mon = Off
            /\ waits = Off /\ boot = Off /\ refs = Off /\ moWork = Off
    /\ IF part = "idle" THEN Screens!Init
       ELSE /\ seatIdle = Off /\ focused = Off /\ since = Off
            /\ timeouts = Off /\ screens = Off /\ closures = Off
            /\ stray = Off /\ used = Off /\ idleWork = Off
    /\ IF part = "windows" THEN Toplevels!Init
       ELSE /\ at = Off /\ current = Off /\ outputs = Off /\ cfg = Off
            /\ rain = Off /\ viz = Off /\ thread = Off /\ windowWork = Off

Calls == part = "calls" /\ Next /\ UNCHANGED guests

Guest ==
    /\ part # "calls" /\ UNCHANGED vars
    /\ IF part = "wallpaper" THEN Columns!Next ELSE UNCHANGED wpVars
    /\ IF part = "picker" THEN Grid!Next ELSE UNCHANGED pickerVars
    /\ IF part = "notifications" THEN Cards!Next ELSE UNCHANGED cardVars
    /\ IF part = "monitors" THEN Outputs!Next ELSE UNCHANGED outputVars
    /\ IF part = "idle" THEN Screens!Next ELSE UNCHANGED screenVars
    /\ IF part = "windows" THEN Toplevels!Next ELSE UNCHANGED windowVars

MCNext == (Calls \/ Guest) /\ UNCHANGED part

MCSpec == MCInit /\ [][MCNext]_<<part, vars, guests>> /\ Fairness

(* Every part keeps the types of its variables. *)
TypesOK ==
    /\ TypeOK
    /\ part = "wallpaper" => Columns!TypeOK
    /\ part = "picker" => Grid!TypeOK
    /\ part = "notifications" => Cards!TypeOK
    /\ part = "monitors" => Outputs!TypeOK
    /\ part = "idle" => Screens!TypeOK
    /\ part = "windows" => Toplevels!TypeOK

(* What the configuration names is what is shown, or a decode or a frame     *)
(* that will show it is under way, whatever threads finish late and however  *)
(* often wallpaper, lock and screensaver change (Columns!ShowsConfigured,    *)
(* Columns!PaintedOrComing; Grid!GridSettles for the thumbnails of a         *)
(* directory that is chosen and scanned again; Screens!ScreenSettles for the *)
(* screensaver; Toplevels!WindowsDriven for the rain and the visualizer).    *)
PicturesShown ==
    /\ part = "wallpaper" => Columns!ShowsConfigured /\ Columns!PaintedOrComing
    /\ part = "picker" => Grid!GridSettles
    /\ part = "idle" => Screens!ScreenSettles
    /\ part = "windows" => Toplevels!WindowsDriven

(* What a thread works on is there, and nobody else works on it: no decoded  *)
(* frame is lost or given back twice (Columns!FramesHeldOnce), a thumbnail   *)
(* is decoded by one thread at a time, within the limit (Grid!OneDecodeEach),*)
(* and the render thread has its window, context and parameters as long as   *)
(* it runs (Toplevels!ThreadHasWindow).                                      *)
ThreadsOwnTheirWork ==
    /\ part = "wallpaper" => Columns!FramesHeldOnce
    /\ part = "picker" => Grid!OneDecodeEach
    /\ part = "windows" => Toplevels!ThreadHasWindow

(* A notification never takes the id of another, until the counter           *)
(* overflows (notification_service_push).                                    *)
FreshIdIsFree == part = "notifications" => Cards!FreshIdIsFree

(* A card shows its record or leaves, and no card or view is stuck: what     *)
(* leaves has a tween, and a view that shows a running tween is behind a     *)
(* committed frame callback (Cards!CardsFollowRecords,                       *)
(* Cards!CardsAreDriven).                                                    *)
CardsFollowRecords ==
    part = "notifications" => Cards!CardsFollowRecords /\ Cards!CardsAreDriven

(* Through the nested dispatch of an activation, further done events and     *)
(* unplugging: the modules of a monitor are created once and for a monitor   *)
(* that is still there (Outputs!CreatedOnce), nothing keeps a pointer to a   *)
(* monitor that is gone (Outputs!NoneDangling), and every monitor is ready   *)
(* in the end (Outputs!OutputsReady).                                        *)
MonitorsOnce ==
    part = "monitors" =>
        Outputs!CreatedOnce /\ Outputs!NoneDangling /\ Outputs!OutputsReady

(* A screensaver waits for its timeout: a monitor in use shows none          *)
(* (Screens!InUseIsAwake, for timeouts of at least a second), and a change   *)
(* of the settings starts the waiting anew (Screens!ChangeWaits).            *)
ScreensWait ==
    /\ [](part = "idle" => Screens!InUseIsAwake)
    /\ [][part = "idle" => Screens!ChangeWaits]_screenVars
=============================================================================
