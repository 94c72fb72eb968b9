----------------------------- MODULE SessionLock -----------------------------
(***************************************************************************)
(* modules/lock.cpp: the ext-session-lock client.  The main thread handles *)
(* the compositor's events, keys, clicks, IPC and timer; a password is     *)
(* checked by a detached PAM thread that answers through DeferredCall; an  *)
(* unlock is an animation on every surface whose completion on the primary *)
(* one queues finish_unlock, also through DeferredCall.  Outputs come and  *)
(* go at any time, including in the roundtrip finish_unlock makes between  *)
(* giving up the lock object and tearing the surfaces down.                *)
(***************************************************************************)
EXTENDS Naturals, Sequences, SequencesExt, FiniteSets

CONSTANTS
    Outputs,        \* the monitors that may be plugged in
    Gated,          \* outputs whose config disables the lock panel
    MaxSessions,    \* bound: calls of lock_request that create a lock
    MaxAttempts,    \* bound: password checks
    MaxPlugs        \* bound: outputs plugged in

ASSUME SessionLockAssumption ==
    /\ Gated \subseteq Outputs
    /\ MaxSessions \in Nat /\ MaxAttempts \in Nat /\ MaxPlugs \in Nat

VARIABLES
    outputs,        \* app.outputs, in order
    announced,      \* those whose wl_output.done has been handled
    plugs,          \* outputs plugged in so far
    lock,           \* st.lock: the session it belongs to, 0 for nullptr
    granted,        \* the compositor has sent locked for this lock
    session,        \* lock objects created so far
    active, locked, unlocking, authenticating, failed,
    has_text,       \* st.password.text is not empty
    session_locked, \* app.session_locked
    auth_generation,
    surfaces,       \* st.surfaces, in order
    pam,            \* the password checks in progress
    deferred,       \* calls posted through DeferredCall, oldest first
    stage,          \* "loop", "roundtrip" inside finish_unlock, "dead"
    stale,          \* a callback of one session has acted on a later one
    carried         \* the unlock was begun on a painted first surface, which
                    \* has not been unplugged since

flags == <<active, locked, unlocking, authenticating, failed, has_text,
           session_locked, auth_generation>>
monitors == <<outputs, announced, plugs>>
vars == <<monitors, lock, granted, session, flags, surfaces, pam, deferred,
          stage, stale, carried>>

\* LockOutputSurface.  sequence and rotation are the animations of the owners
\* kLockOwnerSequence and kLockOwnerPanelRotation; primary is what the unlock
\* animation captured when it started.
Surface ==
    [output : Outputs, configured : BOOLEAN, gated : BOOLEAN,
     anim_started : BOOLEAN, sequence : BOOLEAN,
     rotation : {"none", "entrance", "spin"}, primary : BOOLEAN]

\* A check started in session `from`, of auth_generation gen.
Check == [gen : 1..MaxAttempts, from : 1..MaxSessions]

\* The closures handed to call_later.
Call ==
    [kind : {"finish"}, from : 1..MaxSessions]
      \union [kind : {"auth"}, gen : 1..MaxAttempts, from : 1..MaxSessions,
              success : BOOLEAN]

TypeOK ==
    /\ outputs \in Seq(Outputs) /\ IsInjective(outputs)
    /\ announced \subseteq ToSet(outputs)
    /\ plugs \in 0..MaxPlugs
    /\ lock \in 0..MaxSessions /\ session \in 0..MaxSessions
    /\ {granted, active, locked, unlocking, authenticating, failed, has_text,
        session_locked, stale, carried} \subseteq BOOLEAN
    /\ auth_generation \in 0..MaxAttempts
    /\ surfaces \in Seq(Surface)
    /\ pam \subseteq Check
    /\ deferred \in Seq(Call)
    /\ stage \in {"loop", "roundtrip", "dead"}
-----------------------------------------------------------------------------
NewSurface(o) ==
    [output |-> o, configured |-> FALSE, gated |-> o \in Gated,
     anim_started |-> FALSE, sequence |-> FALSE, rotation |-> "none",
     primary |-> FALSE]

HasSurface(o) == \E i \in DOMAIN surfaces : surfaces[i].output = o

Init ==
    /\ outputs = <<>> /\ announced = {} /\ plugs = 0
    /\ lock = 0 /\ granted = FALSE /\ session = 0
    /\ active = FALSE /\ locked = FALSE /\ unlocking = FALSE
    /\ authenticating = FALSE /\ failed = FALSE /\ has_text = FALSE
    /\ session_locked = FALSE
    /\ auth_generation = 0
    /\ surfaces = <<>>
    /\ pam = {}
    /\ deferred = <<>>
    /\ stage = "loop"
    /\ stale = FALSE /\ carried = FALSE

\* Mutant of LockRequest: a check of the last session stays marked as running.
LockRequestStillBusy ==
    /\ stage = "loop"
    /\ ~active
    /\ session < MaxSessions
    /\ session' = session + 1
    /\ lock' = session + 1
    /\ granted' = FALSE
    /\ active' = TRUE
    /\ locked' = FALSE /\ unlocking' = FALSE
    /\ failed' = FALSE
    /\ has_text' = FALSE
    /\ surfaces' = [i \in DOMAIN outputs |-> NewSurface(outputs[i])]
    /\ UNCHANGED <<monitors, authenticating, session_locked, auth_generation,
                   pam, deferred, stage, stale, carried>>

\* lock_request: the "lock" verb or --lock at startup.  auth_generation is
\* left as the last session had it.
LockRequest ==
    /\ stage = "loop"
    /\ ~active
    /\ session < MaxSessions
    /\ session' = session + 1
    /\ lock' = session + 1
    /\ granted' = FALSE
    /\ active' = TRUE
    /\ locked' = FALSE /\ unlocking' = FALSE
    /\ failed' = FALSE /\ authenticating' = FALSE
    /\ has_text' = FALSE
    /\ surfaces' = [i \in DOMAIN outputs |-> NewSurface(outputs[i])]
    /\ UNCHANGED <<monitors, session_locked, auth_generation, pam, deferred,
                   stage, stale, carried>>

\* Mutant of Teardown: app.session_locked is forgotten.
TeardownKeepsFlag ==
    /\ surfaces' = <<>>
    /\ active' = FALSE /\ locked' = FALSE /\ unlocking' = FALSE
    /\ has_text' = FALSE
    /\ UNCHANGED <<authenticating, failed, session_locked, auth_generation>>

\* lock_teardown.
Teardown ==
    /\ surfaces' = <<>>
    /\ active' = FALSE /\ locked' = FALSE /\ unlocking' = FALSE
    /\ session_locked' = FALSE
    /\ has_text' = FALSE
    /\ UNCHANGED <<authenticating, failed, auth_generation>>

\* handle_locked.
HandleLocked ==
    /\ stage = "loop"
    /\ lock # 0 /\ ~granted
    /\ granted' = TRUE
    /\ IF active THEN locked' = TRUE /\ session_locked' = TRUE
                 ELSE UNCHANGED <<locked, session_locked>>
    /\ UNCHANGED <<monitors, lock, session, active, unlocking, authenticating,
                   failed, has_text, auth_generation, surfaces, pam, deferred,
                   stage, stale, carried>>

\* handle_finished: the compositor ends the lock, granted or not.
HandleFinished ==
    /\ stage = "loop"
    /\ lock # 0
    /\ lock' = 0
    /\ granted' = FALSE
    /\ Teardown
    /\ UNCHANGED <<monitors, session, pam, deferred, stage, stale, carried>>
-----------------------------------------------------------------------------
\* text_field_handle_key: Changed or Cancelled.
TypeKey ==
    /\ stage = "loop"
    /\ locked /\ ~unlocking
    /\ has_text' \in BOOLEAN
    /\ failed' = FALSE
    /\ UNCHANGED <<monitors, lock, granted, session, active, locked, unlocking,
                   authenticating, session_locked, auth_generation, surfaces,
                   pam, deferred, stage, stale, carried>>

\* Mutant of TryAuthenticate: gen = auth_generation++.
TryAuthenticatePostfix ==
    /\ stage = "loop"
    /\ active /\ ~unlocking
    /\ ~authenticating /\ has_text
    /\ auth_generation < MaxAttempts
    /\ authenticating' = TRUE
    /\ failed' = FALSE
    /\ auth_generation' = auth_generation + 1
    /\ pam' = pam \union {[gen |-> auth_generation, from |-> session]}
    /\ UNCHANGED <<monitors, lock, granted, session, active, locked, unlocking,
                   has_text, session_locked, surfaces, deferred, stage, stale,
                   carried>>

\* try_authenticate, from Enter or from a click on the pill.
TryAuthenticate ==
    /\ stage = "loop"
    /\ active /\ ~unlocking
    /\ ~authenticating /\ has_text
    /\ auth_generation < MaxAttempts
    /\ authenticating' = TRUE
    /\ failed' = FALSE
    /\ auth_generation' = auth_generation + 1
    /\ pam' = pam \union {[gen |-> auth_generation + 1, from |-> session]}
    /\ UNCHANGED <<monitors, lock, granted, session, active, locked, unlocking,
                   has_text, session_locked, surfaces, deferred, stage, stale, carried>>

\* The PAM thread has an answer and posts it.
PamAnswers ==
    /\ stage # "dead"
    /\ \E c \in pam, ok \in BOOLEAN :
          /\ pam' = pam \ {c}
          /\ deferred' = Append(deferred, [kind |-> "auth", gen |-> c.gen,
                                           from |-> c.from, success |-> ok])
    /\ UNCHANGED <<monitors, lock, granted, session, flags, surfaces, stage,
                   stale, carried>>

\* Mutant of StartUnlockAnim: no surface is told that it is the primary one.
StartUnlockAnimUnowned(i) == [surfaces[i] EXCEPT !.sequence = TRUE]

\* start_unlock_anim on the i-th surface: a shrink, and after it the spin.
StartUnlockAnim(i) ==
    [surfaces[i] EXCEPT !.sequence = TRUE, !.primary = (i = 1)]

\* lock_begin_unlock, where its guard lets it through.
BeginUnlock ==
    /\ unlocking' = TRUE
    /\ carried' = (/\ surfaces # <<>>
                   /\ surfaces[1].configured
                   /\ surfaces[1].gated \/ surfaces[1].anim_started)
    /\ surfaces' = [i \in DOMAIN surfaces |-> StartUnlockAnim(i)]

\* A click in the bottom left corner of a lock surface.
CornerClick ==
    /\ stage = "loop"
    /\ locked /\ ~unlocking
    /\ surfaces # <<>>
    /\ BeginUnlock
    /\ UNCHANGED <<monitors, lock, granted, session, active, locked,
                   authenticating, failed, has_text, session_locked,
                   auth_generation, pam, deferred, stage, stale>>
-----------------------------------------------------------------------------
\* Mutant of AuthFails: the attempt stays marked as being checked.
AuthFailsStillBusy ==
    /\ failed' = TRUE
    /\ has_text' = FALSE
    /\ UNCHANGED <<authenticating, unlocking, surfaces, carried>>

AuthFails ==
    /\ authenticating' = FALSE
    /\ failed' = TRUE
    /\ has_text' = FALSE
    /\ UNCHANGED <<unlocking, surfaces, carried>>

AuthSucceeds ==
    /\ authenticating' = FALSE
    /\ IF unlocking THEN UNCHANGED <<unlocking, surfaces, carried>>
                    ELSE BeginUnlock
    /\ UNCHANGED <<failed, has_text>>

\* deliver_auth: dropped unless it is of the current generation and the
\* session is locked.
DeliverAuth ==
    /\ stage = "loop"
    /\ deferred # <<>> /\ Head(deferred).kind = "auth"
    /\ deferred' = Tail(deferred)
    /\ LET c == Head(deferred) IN
       IF c.gen # auth_generation \/ ~locked
       THEN UNCHANGED <<authenticating, failed, has_text, unlocking, surfaces,
                        stale, carried>>
       ELSE /\ IF c.success THEN AuthSucceeds ELSE AuthFails
            /\ stale' = (stale \/ c.from # session)
    /\ UNCHANGED <<monitors, lock, granted, session, active, locked,
                   session_locked, auth_generation, pam, stage>>

\* finish_unlock up to its roundtrip.  unlock_and_destroy before the locked
\* event is a protocol error: the compositor disconnects the shell.
FinishUnlock ==
    /\ stage = "loop"
    /\ deferred # <<>> /\ Head(deferred).kind = "finish"
    /\ deferred' = Tail(deferred)
    /\ IF lock = 0
       THEN UNCHANGED <<lock, granted, stage, stale, carried>>
       ELSE /\ lock' = 0
            /\ granted' = FALSE
            /\ stage' = IF granted THEN "roundtrip" ELSE "dead"
            /\ stale' = (stale \/ Head(deferred).from # lock)
    /\ UNCHANGED <<monitors, session, flags, surfaces, pam, carried>>

\* wl_display_roundtrip returns: lock_teardown.
FinishUnlockEnd ==
    /\ stage = "roundtrip"
    /\ stage' = "loop"
    /\ Teardown
    /\ UNCHANGED <<monitors, lock, granted, session, pam, deferred, stale, carried>>
-----------------------------------------------------------------------------
Dispatching == stage \in {"loop", "roundtrip"}

\* surface_configure with a working eglCreateWindowSurface.  Where EGL fails
\* the handler returns and the surface stays as it is.
SurfaceConfigure(i) ==
    /\ Dispatching
    /\ ~surfaces[i].configured
    /\ surfaces' = [surfaces EXCEPT ![i].configured = TRUE]
    /\ UNCHANGED <<monitors, lock, granted, session, flags, pam, deferred,
                   stage, stale, carried>>

\* build_panel: the first time, start_init_anim; its rotation takes over
\* whatever kLockOwnerPanelRotation was running.
Entrance(s) ==
    IF s.gated \/ s.anim_started THEN s
    ELSE [s EXCEPT !.anim_started = TRUE, !.rotation = "entrance"]

\* lock_paint: tick the animations, of which one may have come to its end,
\* and build the panel.  The end of the shrink starts the spin; the end of the
\* spin on the primary surface queues finish_unlock.
Paint(i) ==
    /\ Dispatching
    /\ surfaces[i].configured
    /\ LET s == surfaces[i] IN
       \/ /\ ~s.gated /\ ~s.anim_started
          /\ surfaces' = [surfaces EXCEPT ![i] = Entrance(s)]
          /\ UNCHANGED deferred
       \/ /\ s.sequence
          /\ surfaces' = [surfaces EXCEPT ![i] =
                Entrance([s EXCEPT !.sequence = FALSE, !.rotation = "spin"])]
          /\ UNCHANGED deferred
       \/ /\ s.rotation # "none"
          /\ surfaces' = [surfaces EXCEPT ![i] =
                Entrance([s EXCEPT !.rotation = "none"])]
          /\ IF s.rotation = "spin" /\ s.primary
             THEN deferred' = Append(deferred,
                                     [kind |-> "finish", from |-> session])
             ELSE UNCHANGED deferred
    /\ UNCHANGED <<monitors, lock, granted, session, flags, pam, stage, stale, carried>>

\* lock_timer_tick: the failure message expires.
TimerTick ==
    /\ stage = "loop"
    /\ active /\ failed
    /\ failed' = FALSE
    /\ UNCHANGED <<monitors, lock, granted, session, active, locked, unlocking,
                   authenticating, has_text, session_locked, auth_generation,
                   surfaces, pam, deferred, stage, stale, carried>>
-----------------------------------------------------------------------------
\* registry_global: a wl_output appears.
OutputAdded(o) ==
    /\ Dispatching
    /\ plugs < MaxPlugs
    /\ o \notin ToSet(outputs)
    /\ plugs' = plugs + 1
    /\ outputs' = Append(outputs, o)
    /\ UNCHANGED <<announced, lock, granted, session, flags, surfaces, pam,
                   deferred, stage, stale, carried>>

\* Mutant of HotplugAdd: no look for a surface the output already has.
HotplugAddTwice(o) ==
    IF ~active
    THEN UNCHANGED <<surfaces, stage>>
    ELSE /\ surfaces' = Append(surfaces, NewSurface(o))
         /\ UNCHANGED stage

\* lock_hotplug_add.  Inside the roundtrip st.lock is already nullptr and
\* get_lock_surface is called on it: the shell crashes.
HotplugAdd(o) ==
    IF ~active \/ HasSurface(o)
    THEN UNCHANGED <<surfaces, stage>>
    ELSE IF lock = 0
    THEN stage' = "dead" /\ UNCHANGED surfaces
    ELSE surfaces' = Append(surfaces, NewSurface(o)) /\ UNCHANGED stage

\* The first wl_output.done: lock_notify_output_added.
OutputDone(o) ==
    /\ Dispatching
    /\ o \in ToSet(outputs) \ announced
    /\ announced' = announced \union {o}
    /\ HotplugAdd(o)
    /\ UNCHANGED <<outputs, plugs, lock, granted, session, flags, pam,
                   deferred, stale, carried>>

WithoutOutput(ss, o) == RemoveFirstMatch(ss, LAMBDA s : s.output = o)

\* lock_hotplug_remove.
HotplugRemove(o) ==
    surfaces' = IF active THEN WithoutOutput(surfaces, o) ELSE surfaces

\* registry_global_remove.
OutputRemoved(o) ==
    /\ Dispatching
    /\ o \in ToSet(outputs)
    /\ outputs' = RemoveFirst(outputs, o)
    /\ announced' = announced \ {o}
    /\ HotplugRemove(o)
    /\ carried' = (carried /\ \A i \in DOMAIN surfaces :
                       surfaces[i].output = o => ~surfaces[i].primary)
    /\ UNCHANGED <<plugs, lock, granted, session, flags, pam, deferred, stage,
                   stale>>
-----------------------------------------------------------------------------
Monitors == \E o \in Outputs : OutputAdded(o) \/ OutputDone(o) \/ OutputRemoved(o)

Compositor ==
    HandleLocked \/ HandleFinished \/ \E i \in DOMAIN surfaces : SurfaceConfigure(i)

User == LockRequest \/ TypeKey \/ TryAuthenticate \/ CornerClick

Progress ==
    \/ PamAnswers \/ DeliverAuth \/ FinishUnlock \/ FinishUnlockEnd \/ TimerTick
    \/ \E i \in DOMAIN surfaces : Paint(i)

Next == Monitors \/ Compositor \/ User \/ Progress

\* The main loop drains DeferredCall and serves its timer, the compositor sends
\* frame callbacks to a configured surface whose paint asked for one, and PAM
\* answers.  Nothing makes the compositor configure, lock or finish, or the
\* user act.
Fairness ==
    /\ WF_vars(PamAnswers)
    /\ WF_vars(DeliverAuth)
    /\ WF_vars(FinishUnlock)
    /\ WF_vars(FinishUnlockEnd)
    /\ \A i \in 1..Cardinality(Outputs) :
          WF_vars(i \in DOMAIN surfaces /\ Paint(i))

Spec == Init /\ [][Next]_vars /\ Fairness
-----------------------------------------------------------------------------
\* The flag other modules consult (the wallpaper stops painting, idle does not
\* start) agrees with the lock, and a locked session still has a lock object
\* or is just giving it up.
LockedIsHeld ==
    stage # "dead" =>
      /\ session_locked = locked
      /\ locked => active /\ (lock # 0 \/ stage = "roundtrip")
      /\ stage = "loop" => (active <=> lock # 0)

\* One lock surface for each output: no output has two, none outlives its
\* output, and while the lock object exists every announced output has one.
OneSurfacePerOutput ==
    /\ \A i, j \in DOMAIN surfaces :
          surfaces[i].output = surfaces[j].output => i = j
    /\ \A i \in DOMAIN surfaces : surfaces[i].output \in ToSet(outputs)
    /\ active /\ lock # 0 => \A o \in announced : HasSurface(o)

\* While a password is shown as being checked, a check of the current
\* generation is on its way, in the PAM thread or in the deferred queue:
\* otherwise the user could never try again.
CheckUnderWay ==
    locked /\ authenticating =>
        \/ \E c \in pam : c.gen = auth_generation
        \/ \E i \in DOMAIN deferred :
              deferred[i].kind = "auth" /\ deferred[i].gen = auth_generation

\* An unlock ends, unless the first surface was not painted when it began or
\* its output is unplugged before the animation is over; then finish_unlock is
\* never queued and the session stays locked.
UnlockCompletes ==
    (unlocking /\ carried) ~> (~unlocking \/ ~carried \/ stage = "dead")

\* A started check is answered: the field accepts another try, or the session
\* is no longer locked, or the shell is dead.
CheckAnswered ==
    (locked /\ authenticating) ~> (~authenticating \/ ~locked \/ stage = "dead")

\* "Reusing a handle across restarts needs a generation counter": a callback
\* queued in one lock session does not act on a later one.
StaleCallbackIgnored == ~stale
=============================================================================
