-------------------------------- MODULE Idle --------------------------------
(* The idle clock (modules/idle.cpp, IdleService) and the overlay of every  *)
(* monitor that shows the ambient wallpaper or the screensaver              *)
(* (IdlePerMonitorModule).  A monitor is idle when nobody has used it for   *)
(* longer than a timeout; using one is activity on the seat while Hyprland  *)
(* has it focused, sampled once a second.  The logo of the screensaver is   *)
(* decoded once per overlay by a thread that posts a closure when it is     *)
(* ready; a monitor that is unplugged takes its overlay with it.            *)
EXTENDS Naturals, Sequences, FrameClock

CONSTANTS
    Monitors,
    Settings,       \* timeouts [ambient, saver] the configuration may hold
    Far,            \* bound: seconds are counted so far; a setting above is off
    MaxIdleEvents   \* bound: changes of the seat, the focus, the settings, the plugs

VARIABLES
    seatIdle,       \* recent_activity_idled
    focused,        \* hypr.focused_monitor, of which the shell may be told late
    since,          \* last_activity, as seconds ago, or Never
    timeouts,       \* the idle part of the configuration
    screens,        \* IdleOverlayState by monitor
    posted,         \* closures of the decode threads not run yet
    stray,          \* a closure ran after its overlay was gone
    used,           \* ticks in a row that found a monitor in use, up to 2
    idleWork

vars == <<seatIdle, focused, since, timeouts, screens, posted, stray, used, idleWork>>

Never == Far + 1
Kinds == {"ambient", "saver"}
Jobs == {"none", "decoding", "posted", "ready", "failed"}

Screen == [there : BOOLEAN, life : Nat, on : [Kinds -> BOOLEAN], opacity : [Kinds -> 0..2],
           moving : SUBSET Kinds, shown : BOOLEAN, job : Jobs, clock : Clock]

Fresh(life) ==
    [there |-> TRUE, life |-> life, on |-> [k \in Kinds |-> FALSE],
     opacity |-> [k \in Kinds |-> 0], moving |-> {}, shown |-> FALSE,
     job |-> "none", clock |-> IdleClock]

Init ==
    /\ seatIdle = FALSE /\ focused \in Monitors
    /\ since = [m \in Monitors |-> Never] /\ timeouts \in Settings
    /\ screens = [m \in Monitors |-> Fresh(0)]
    /\ posted = <<>> /\ stray = FALSE
    /\ used = [m \in Monitors |-> 0] /\ idleWork = MaxIdleEvents

-----------------------------------------------------------------------------
(* Painting an overlay.  An opacity is 2 when it is full and 1 in between.  *)
Goal(s, k) == IF s.on[k] THEN 2 ELSE 0

(* AnimationManager::tick, in which the tweens of `ends' come to their end. *)
Ticked(s, ends) ==
    [s EXCEPT !.moving = @ \ ends,
              !.opacity = [k \in Kinds |->
                  IF k \notin s.moving THEN @[k]
                  ELSE IF k \in ends \/ @[k] = Goal(s, k) THEN Goal(s, k) ELSE 1]]

\* Mutant of Painted: the logo is dropped by what the last frame showed.
PaintedLogoFirst(s, ends) ==
    LET t == Ticked([s EXCEPT !.shown = @ /\ (s.on["saver"] \/ s.opacity["saver"] > 0)], ends)
        c == Committed(t.clock)
    IN  [t EXCEPT !.clock = IF t.moving # {} \/ t.on["saver"] THEN Deferred(c) ELSE c]

\* Mutant of Painted: the still ambient picture is all that is waited for.
PaintedAmbientOnly(s, ends) ==
    LET t == Ticked(s, ends)
        u == [t EXCEPT !.shown = @ /\ (t.on["saver"] \/ t.opacity["saver"] > 0)]
        c == Committed(u.clock)
    IN  [u EXCEPT !.clock = IF "ambient" \in u.moving \/ u.on["saver"] THEN Deferred(c) ELSE c]

(* idle_overlay_paint: the logo goes once the screensaver has faded out; a  *)
(* frame callback is pending in every paint, so the request is remembered.  *)
Painted(s, ends) ==
    LET t == Ticked(s, ends)
        u == [t EXCEPT !.shown = @ /\ (t.on["saver"] \/ t.opacity["saver"] > 0)]
        c == Committed(u.clock)
    IN  [u EXCEPT !.clock = IF u.moving # {} \/ u.on["saver"] THEN Deferred(c) ELSE c]

(* idle_overlay_request_frame.  The first paint is synchronous: no time has *)
(* passed in which a tween could end.                                       *)
Requested(s) ==
    IF s.clock.callback # "none" THEN [s EXCEPT !.clock = Deferred(@)]
    ELSE IF ~s.clock.mapped THEN Painted([s EXCEPT !.clock = FirstDraw(@)], {})
    ELSE [s EXCEPT !.clock = Scheduled(@)]

(* animated_image_show: decoded at the first show, kept for the next ones.  *)
Lit(s) ==
    IF s.shown THEN s
    ELSE [s EXCEPT !.shown = TRUE, !.job = IF @ = "none" THEN "decoding" ELSE @]

(* idle_overlay_set_active                                                  *)
SetActive(s, ambient, saver) ==
    LET want == [k \in Kinds |-> IF k = "saver" THEN saver ELSE ambient /\ ~saver]
        turned == {k \in Kinds : want[k] # s.on[k]}
        lit == IF "saver" \in turned /\ saver THEN Lit(s) ELSE s
    IN  IF turned = {} THEN s
        ELSE Requested([lit EXCEPT !.on = want, !.moving = @ \union turned])

-----------------------------------------------------------------------------
(* The clock.                                                               *)
Older(t) == IF t = Never \/ t = Far THEN t ELSE t + 1

IsIdleAtTimeout(t, timeout) == t # Never /\ t >= timeout     \* mutant: off by one
IsIdle(t, timeout) == t # Never /\ t > timeout

There(m) == screens[m].there

(* idle_tick, of the service: being used is activity of the focused monitor. *)
IdleTick(now) == IF seatIdle THEN now ELSE [now EXCEPT ![focused] = 0]

(* A second passes: first the modules of every monitor look at the clock,   *)
(* then the service notes the monitor in use.                               *)
TimerTick ==
    LET now == [m \in Monitors |->
                   IF There(m) /\ since[m] = Never THEN 0 ELSE Older(since[m])]
    IN  /\ screens' = [m \in Monitors |->
               IF There(m) THEN SetActive(screens[m], IsIdle(now[m], timeouts.ambient),
                                          IsIdle(now[m], timeouts.saver))
               ELSE screens[m]]
        /\ since' = IdleTick(now)
        /\ used' = [m \in Monitors |->
               IF seatIdle \/ m # focused THEN 0 ELSE IF used[m] = 2 THEN 2 ELSE used[m] + 1]
        /\ UNCHANGED <<seatIdle, focused, timeouts, posted, stray, idleWork>>

ResetKeepsClock(after) == since          \* mutant: the clock runs on
IdleReset(after) == [m \in Monitors |-> IF There(m) THEN 0 ELSE since[m]]

Event == idleWork > 0 /\ idleWork' = idleWork - 1

(* apply_config_update, by hand or from the settings panel                  *)
ApplyConfigUpdate(c) ==
    /\ Event /\ c # timeouts
    /\ timeouts' = c /\ since' = IdleReset(c)
    /\ UNCHANGED <<seatIdle, focused, screens, posted, stray, used>>

SeatTurns ==
    /\ Event /\ seatIdle' = ~seatIdle
    /\ UNCHANGED <<focused, since, timeouts, screens, posted, stray, used>>

FocusMoves(m) ==
    /\ Event /\ m # focused /\ focused' = m
    /\ UNCHANGED <<seatIdle, since, timeouts, screens, posted, stray, used>>

-----------------------------------------------------------------------------
(* Frames, the decode threads and their closures.                           *)
Set(m, s) == screens' = [screens EXCEPT ![m] = s]
Rest == UNCHANGED <<seatIdle, focused, since, timeouts, used>>

FrameDone(m) ==
    /\ There(m) /\ screens[m].clock.callback = "committed"
    /\ IF screens[m].clock.redraw
       THEN \E ends \in SUBSET screens[m].moving :
               Set(m, Painted([screens[m] EXCEPT !.clock = DoneForDraw(@)], ends))
       ELSE Set(m, [screens[m] EXCEPT !.clock = DoneIdle(@)])
    /\ Rest /\ UNCHANGED <<posted, stray, idleWork>>

Closure(m) == [m |-> m, life |-> screens[m].life]

ThreadDecodes(m) ==
    /\ There(m) /\ screens[m].job = "decoding"
    /\ \/ /\ Set(m, [screens[m] EXCEPT !.job = "posted"])
          /\ posted' = Append(posted, Closure(m))
       \/ /\ Set(m, [screens[m] EXCEPT !.job = "failed"])
          /\ UNCHANGED posted
    /\ Rest /\ UNCHANGED <<stray, idleWork>>

(* The closure holds a reference to the job, and on_ready one to the        *)
(* overlay: nothing asks whether they are still there.                      *)
RunsPosted ==
    /\ posted # <<>> /\ posted' = Tail(posted)
    /\ LET c == Head(posted)
           s == screens[c.m]
       IN  IF s.there /\ s.life = c.life
           THEN Set(c.m, Requested([s EXCEPT !.job = "ready"])) /\ UNCHANGED stray
           ELSE stray' = TRUE /\ UNCHANGED screens
    /\ Rest /\ UNCHANGED idleWork

-----------------------------------------------------------------------------
(* Monitors come and go.  ~AnimateJob waits for a thread still decoding,    *)
(* which posts its closure before it ends; last_activity is kept.           *)
Unplug(m) ==
    /\ Event /\ There(m)
    /\ Set(m, [Fresh(screens[m].life) EXCEPT !.there = FALSE])
    /\ IF screens[m].job = "decoding"
       THEN posted' \in {posted, Append(posted, Closure(m))}
       ELSE UNCHANGED posted
    /\ Rest /\ UNCHANGED stray

Plug(m) ==
    /\ Event /\ ~There(m) /\ Set(m, Fresh(screens[m].life + 1))
    /\ Rest /\ UNCHANGED <<posted, stray>>

Next ==
    \/ TimerTick \/ SeatTurns \/ RunsPosted
    \/ \E c \in Settings : ApplyConfigUpdate(c)
    \/ \E m \in Monitors : FocusMoves(m) \/ FrameDone(m) \/ ThreadDecodes(m)
                           \/ Unplug(m) \/ Plug(m)

Spec == Init /\ [][Next]_vars

-----------------------------------------------------------------------------
TypeOK ==
    /\ seatIdle \in BOOLEAN /\ focused \in Monitors /\ timeouts \in Settings
    /\ since \in [Monitors -> 0..Never] /\ stray \in BOOLEAN
    /\ screens \in [Monitors -> Screen]
    /\ \A m \in Monitors : ClockOK(screens[m].clock)

(* A fade is driven to its end by frame callbacks, and what is at rest is   *)
(* what the clock last said; the logo is kept in memory only while it can   *)
(* be seen (idle_overlay_set_active, idle_overlay_paint).                   *)
ScreenSettles ==
    \A m \in {x \in Monitors : There(x)} :
        LET s == screens[m]
        IN  IF s.clock.redraw THEN s.clock.callback = "committed"
            ELSE /\ ~s.on["saver"] /\ ~s.shown
                 /\ \A k \in Kinds : s.opacity[k] = Goal(s, k)

(* The monitor that two ticks in a row found in use shows no screensaver    *)
(* and no ambient picture, whatever the focus, the settings and the other   *)
(* monitors do (TimerTick: the modules look before the service notes), if   *)
(* no timeout is zero: with one, which the configuration accepts, the tick  *)
(* that finds the monitor in use a second after its last use shows it.      *)
InUseIsAwake ==
    \A m \in Monitors :
        used[m] = 2 /\ There(m) => \A k \in Kinds : ~screens[m].on[k]

(* A step that changes the settings never makes a monitor idle: after       *)
(* it every monitor has its full timeout (critical-knowledge.md: "must      *)
(* reset the per-monitor activity clock"; apply_config_update).             *)
ChangeWaits ==
    timeouts' # timeouts =>
        \A m \in Monitors : There(m) => ~IsIdle(since'[m], timeouts'.saver)

(* What a thread posts for an overlay runs while the overlay is there.      *)
ClosureHasOwner == ~stray
=============================================================================
