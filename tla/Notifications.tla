---------------------------- MODULE Notifications ----------------------------
(***************************************************************************)
(* Notifications: the D-Bus server and its records                         *)
(* (service/notification_service.cpp), the cards built from them           *)
(* (modules/notification.cpp) and one view of the cards per monitor        *)
(* (NotificationViewPerMonitorModule, app/module_registry.cpp).            *)
(*                                                                         *)
(* A record and its card have a clock each: the record expires at a time   *)
(* that a one second timer looks at, the card when its progress tween ends. *)
(* The tweens of the cards are shared by the views and advance only when   *)
(* one of them paints, in a frame callback of its own clock.               *)
(*                                                                         *)
(* Time is counted in ticks.  Left out: where a card is drawn and whether  *)
(* it still fits, hover, entrance tweens (they end before those modelled), *)
(* and EGL failures.  The configure that a new view waits for is one step   *)
(* with what asked for it.                                                  *)
(***************************************************************************)
EXTENDS Naturals, FrameClock

CONSTANTS
    Monitors,     \* names of the outputs that come and go
    Texts,        \* what a notification says: application, summary, body
    Timeouts,     \* timeout_ms, in ticks
    MaxId,        \* the largest id: UINT32_MAX in the code
    MaxMessages,  \* bound: notifications and requests to close one
    MaxChanges    \* bound: changes of the configuration and of the outputs

VARIABLES
    service,   \* NotificationService
    cards,     \* NotificationRenderModel
    views,     \* NotificationView of each monitor
    enabled,   \* app.cfg: the monitors that show notifications
    messages, changes

vars == <<service, cards, views, enabled, messages, changes>>

Ids == 0..MaxId
MaxTimeout == CHOOSE t \in Timeouts : \A u \in Timeouts : u <= t

Record == [text : Texts, timeout : Timeouts, left : 0..MaxTimeout]
Card == [text : Texts, exiting : BOOLEAN]

IsPartial(f, S, T) == DOMAIN f \subseteq S /\ \A i \in DOMAIN f : f[i] \in T

View ==
    [plugged   : BOOLEAN,
     egl       : BOOLEAN,       \* layer_surface, egl_surface
     drawn     : BOOLEAN,       \* a buffer was attached: the surface is mapped
     clock     : Clock,
     hitboxes  : SUBSET Ids,    \* close_hitboxes: where a click closes a card
     dismissed : SUBSET Ids,    \* local_exit
     fades     : SUBSET Ids,    \* local_animations, by the card's id
     faded     : SUBSET Ids]    \* those whose time is over

TypeOK ==
    /\ IsPartial(service.records, Ids, Record)
    /\ service.nextId \in Ids
    /\ service.wrapped \in BOOLEAN    \* history: next_id has overflowed
    /\ service.clash \in BOOLEAN      \* history: a new id was one in use
    /\ IsPartial(cards.entries, Ids, Card)
    /\ IsPartial(cards.progress, Ids, 0..MaxTimeout)
    /\ IsPartial(cards.exits, Ids, 0..1)
    /\ views \in [Monitors -> View]
    /\ \A m \in Monitors : LET v == views[m]
                           IN  ClockOK(v.clock) /\ (v.clock.callback # "none" => v.egl)
    /\ enabled \subseteq Monitors
    /\ messages \in 0..MaxMessages
    /\ changes \in 0..MaxChanges
-----------------------------------------------------------------------------
(* The service *)

\* Mutant of Push: an id that a client names does not move next_id.
PushIgnoresNamed(s, id, text, timeout) ==
    LET n == IF id = 0 THEN s.nextId ELSE id
        record == [text |-> text, timeout |-> timeout, left |-> timeout]
    IN  [records |-> [i \in DOMAIN s.records \union {n} |->
                        IF i = n THEN record ELSE s.records[i]],
         nextId |-> IF id = 0 THEN (s.nextId + 1) % (MaxId + 1) ELSE s.nextId,
         wrapped |-> s.wrapped \/ (id = 0 /\ s.nextId = MaxId),
         clash |-> s.clash \/ (id = 0 /\ n \in DOMAIN s.records)]

(* notification_service_push: 0 asks for a new id *)
Push(s, id, text, timeout) ==
    LET n == IF id = 0 THEN s.nextId ELSE id
        counted == id = 0 \/ id >= s.nextId
        record == [text |-> text, timeout |-> timeout, left |-> timeout]
    IN  [records |-> [i \in DOMAIN s.records \union {n} |->
                        IF i = n THEN record ELSE s.records[i]],
         nextId |-> IF counted THEN (n + 1) % (MaxId + 1) ELSE s.nextId,
         wrapped |-> s.wrapped \/ (counted /\ n = MaxId),
         clash |-> s.clash \/ (id = 0 /\ n \in DOMAIN s.records)]

Without(s, ids) ==
    [s EXCEPT !.records = [i \in DOMAIN @ \ ids |-> @[i]]]

(* notification_service_close *)
Close(s, id) == Without(s, {id})

(* notification_service_sweep_expired *)
Expired(s) == {i \in DOMAIN s.records : s.records[i].left = 0}
-----------------------------------------------------------------------------
(* The cards *)

\* notification_start_exit, of several cards; not for one that is exiting.
StartExit(c, ids) ==
    LET leaving == {i \in ids \intersect DOMAIN c.entries : ~c.entries[i].exiting}
    IN  [entries |-> [i \in DOMAIN c.entries |->
                        [c.entries[i] EXCEPT !.exiting = @ \/ i \in leaving]],
         progress |-> [i \in DOMAIN c.progress \ leaving |-> c.progress[i]],
         exits |-> [i \in leaving \union DOMAIN c.exits |->
                        IF i \in leaving THEN 1 ELSE c.exits[i]]]

\* Mutant of Sync: a card whose text has changed is loaded only while it stays.
SyncStaying(c, records) ==
    LET fresh == {i \in DOMAIN records : i \notin DOMAIN c.entries}
        loaded == {i \in DOMAIN records \ fresh :
                     c.entries[i].text # records[i].text /\ ~c.entries[i].exiting}
        shown == [i \in DOMAIN c.entries \union fresh |->
                    IF i \in fresh
                    THEN [text |-> records[i].text, exiting |-> FALSE]
                    ELSE IF i \in loaded
                    THEN [c.entries[i] EXCEPT !.text = records[i].text]
                    ELSE c.entries[i]]
    IN  StartExit([entries |-> shown,
                   progress |-> [i \in fresh \union loaded \union DOMAIN c.progress |->
                                    IF i \in fresh \union loaded THEN records[i].timeout
                                    ELSE c.progress[i]],
                   exits |-> c.exits],
                  DOMAIN shown \ DOMAIN records)

(* notification_sync *)
Sync(c, records) ==
    LET fresh == {i \in DOMAIN records : i \notin DOMAIN c.entries}
        loaded == {i \in DOMAIN records \ fresh :
                     c.entries[i].text # records[i].text}
        shown == [i \in DOMAIN c.entries \union fresh |->
                    IF i \in fresh
                    THEN [text |-> records[i].text, exiting |-> FALSE]
                    ELSE IF i \in loaded
                    THEN [c.entries[i] EXCEPT !.text = records[i].text]
                    ELSE c.entries[i]]
    IN  StartExit([entries |-> shown,
                   progress |-> [i \in fresh \union loaded \union DOMAIN c.progress |->
                                    IF i \in fresh \union loaded THEN records[i].timeout
                                    ELSE c.progress[i]],
                   exits |-> c.exits],
                  DOMAIN shown \ DOMAIN records)

(* AnimationManager::tick on the cards' tweens: those whose time is over end *)
Ticked(c) ==
    LET late == {i \in DOMAIN c.progress : c.progress[i] = 0}
        ended == {i \in DOMAIN c.exits : c.exits[i] = 0}
        run == [entries |-> [i \in DOMAIN c.entries \ ended |-> c.entries[i]],
                progress |-> [i \in DOMAIN c.progress \ late |-> c.progress[i]],
                exits |-> [i \in DOMAIN c.exits \ ended |-> c.exits[i]]]
    IN  StartExit(run, late)

Active(c) == DOMAIN c.progress # {} \/ DOMAIN c.exits # {}
-----------------------------------------------------------------------------
(* The views: c and v are the cards and the views in the middle of a handler *)

State(c, v) == [cards |-> c, views |-> v]

WithClock(s, m, clock) == [s EXCEPT !.views[m].clock = clock]

\* Mutant of Painted: another frame is asked for the view's own fades only.
PaintedLocally(s, m) ==
    LET c == Ticked(s.cards)
        v == s.views[m]
        fading == v.fades \ v.faded
        painted == [v EXCEPT !.drawn = TRUE, !.fades = fading, !.faded = {},
                             !.hitboxes = DOMAIN c.entries \ v.dismissed,
                             !.dismissed = @ \intersect DOMAIN c.entries,
                             !.clock = Committed(@)]
    IN  State(c, [s.views EXCEPT ![m] =
                    IF fading # {} THEN [painted EXCEPT !.clock = Deferred(@)]
                    ELSE painted])

(* notification_paint *)
Painted(s, m) ==
    LET c == Ticked(s.cards)
        v == s.views[m]
        fading == v.fades \ v.faded
        painted == [v EXCEPT !.drawn = TRUE, !.fades = fading, !.faded = {},
                             !.hitboxes = DOMAIN c.entries \ v.dismissed,
                             !.dismissed = @ \intersect DOMAIN c.entries,
                             !.clock = Committed(@)]
    IN  State(c, [s.views EXCEPT ![m] =
                    IF Active(c) \/ fading # {} THEN [painted EXCEPT !.clock = Deferred(@)]
                    ELSE painted])

(* notification_view_request_frame *)
Requested(s, m) ==
    LET v == s.views[m]
    IN  IF ~v.egl THEN s
        ELSE IF v.clock.callback # "none" THEN WithClock(s, m, Deferred(v.clock))
        ELSE IF v.clock.mapped THEN WithClock(s, m, Scheduled(v.clock))
        ELSE Painted(WithClock(s, m, FirstDraw(v.clock)), m)

(* All views, one after the other.  The first to paint advances the tweens, *)
(* which the others find where it left them.                                *)
AllRequested(s) ==
    LET paints == {m \in Monitors : LET v == s.views[m]
                                    IN  v.egl /\ v.clock.callback = "none" /\ ~v.clock.mapped}
    IN  State(IF paints = {} THEN s.cards ELSE Ticked(s.cards),
              [m \in Monitors |-> Requested(s, m).views[m]])

(* frame_done *)
FrameDone(s, m) ==
    LET clock == s.views[m].clock
    IN  IF clock.redraw THEN Painted(WithClock(s, m, DoneForDraw(clock)), m)
        ELSE WithClock(s, m, DoneIdle(clock))

Becomes(s) == cards' = s.cards /\ views' = s.views

(* notification_refresh, after the records have become r *)
Refresh(r) ==
    /\ service' = r
    /\ Becomes(AllRequested(State(Sync(cards, r.records), views)))
-----------------------------------------------------------------------------
NoView == [plugged |-> FALSE, egl |-> FALSE, drawn |-> FALSE, clock |-> IdleClock,
           hitboxes |-> {}, dismissed |-> {}, fades |-> {}, faded |-> {}]

\* A view that exists from the start has painted once and asked for nothing.
FirstView(on) ==
    IF on THEN [NoView EXCEPT !.plugged = TRUE, !.egl = TRUE, !.drawn = TRUE,
                              !.clock = Committed(FirstDraw(IdleClock))]
    ELSE [NoView EXCEPT !.plugged = TRUE]

Init ==
    /\ service = [records |-> <<>>, nextId |-> 1, wrapped |-> FALSE, clash |-> FALSE]
    /\ cards = [entries |-> <<>>, progress |-> <<>>, exits |-> <<>>]
    /\ enabled \in SUBSET Monitors
    /\ \E first \in Monitors :
          views = [m \in Monitors |->
                    IF m = first THEN FirstView(m \in enabled) ELSE NoView]
    /\ messages = MaxMessages
    /\ changes = MaxChanges

Message ==
    [kind : {"notify"}, id : Ids, text : Texts, timeout : Timeouts]
        \union [kind : {"close"}, id : Ids \ {0}]

Handled(s, msg) ==
    IF msg.kind = "notify" THEN Push(s, msg.id, msg.text, msg.timeout)
    ELSE Close(s, msg.id)

\* The bus is readable: the messages waiting are handled, then one refresh.
BusReady ==
    /\ messages > 0
    /\ \E first \in Message :
          \/ /\ messages' = messages - 1
             /\ Refresh(Handled(service, first))
          \/ /\ messages > 1
             /\ messages' = messages - 2
             /\ \E second \in Message :
                   Refresh(Handled(Handled(service, first), second))
    /\ UNCHANGED <<enabled, changes>>

\* network_notify, bluetooth_notify.
OwnNotification ==
    /\ messages > 0
    /\ messages' = messages - 1
    /\ \E text \in Texts : Refresh(Push(service, 0, text, MaxTimeout))
    /\ UNCHANGED <<enabled, changes>>

\* The one second timer.
Sweep ==
    /\ Expired(service) # {}
    /\ Refresh(Without(service, Expired(service)))
    /\ UNCHANGED <<enabled, messages, changes>>

Less(f) == [i \in DOMAIN f |-> IF f[i] = 0 THEN 0 ELSE f[i] - 1]

TimePasses ==
    /\ service' = [service EXCEPT !.records =
                     LET rs == service.records
                     IN  [i \in DOMAIN rs |->
                            [rs[i] EXCEPT !.left = IF @ = 0 THEN 0 ELSE @ - 1]]]
    /\ cards' = [cards EXCEPT !.progress = Less(@), !.exits = Less(@)]
    /\ views' = [m \in Monitors |-> [views[m] EXCEPT !.faded = views[m].fades]]
    /\ <<service, cards, views>>' # <<service, cards, views>>
    /\ UNCHANGED <<enabled, messages, changes>>

\* The compositor answers a frame callback of a surface that is mapped.
Frame(m) ==
    /\ views[m].drawn /\ views[m].clock.callback = "committed"
    /\ Becomes(FrameDone(State(cards, views), m))
    /\ UNCHANGED <<service, enabled, messages, changes>>

\* request_all_frames: pointer motion, an IPC command, a change elsewhere.
RedrawAll ==
    /\ Becomes(AllRequested(State(cards, views)))
    /\ UNCHANGED <<service, enabled, messages, changes>>

\* notification_view_handle_close_click: a card that another view has taken
\* away meanwhile can still be hit.
CloseClick(m) ==
    /\ views[m].drawn
    /\ \E id \in views[m].hitboxes \ views[m].dismissed :
          Becomes(Requested(
              State(cards, [views EXCEPT ![m].dismissed = @ \union {id},
                                         ![m].fades = @ \union {id},
                                         ![m].faded = @ \ {id}]), m))
    /\ UNCHANGED <<service, enabled, messages, changes>>

\* notification_view_create_surface and notification_view_init_egl: the clock
\* keeps what the last surface left in it.
Created(v) == [v EXCEPT !.egl = TRUE, !.drawn = FALSE]

\* destroy_layer_surface; `mapped' is left set.
Destroyed(v) ==
    [v EXCEPT !.egl = FALSE, !.drawn = FALSE,
              !.clock.callback = "none", !.clock.redraw = FALSE]

\* NotificationViewPerMonitorModule::resync, given app.cfg.
Resynced(v, want) ==
    IF ~v.plugged THEN v
    ELSE IF want /\ ~v.egl THEN Created(v)
    ELSE IF ~want /\ v.egl THEN Destroyed(v)
    ELSE v

\* apply_config_update: the views are resynced before app.cfg is assigned.
ApplyConfig ==
    /\ changes > 0
    /\ changes' = changes - 1
    /\ enabled' \in SUBSET Monitors
    /\ Becomes(AllRequested(
          State(cards, [m \in Monitors |-> Resynced(views[m], m \in enabled)])))
    /\ UNCHANGED <<service, messages>>

\* monitor_output_activate.
Plug(m) ==
    /\ changes > 0
    /\ changes' = changes - 1
    /\ ~views[m].plugged
    /\ views' = [views EXCEPT ![m] =
                    IF m \in enabled THEN Created([NoView EXCEPT !.plugged = TRUE])
                    ELSE [NoView EXCEPT !.plugged = TRUE]]
    /\ UNCHANGED <<service, cards, enabled, messages>>

\* monitor_output_destroy.
Unplug(m) ==
    /\ changes > 0
    /\ changes' = changes - 1
    /\ views[m].plugged
    /\ views' = [views EXCEPT ![m] = NoView]
    /\ UNCHANGED <<service, cards, enabled, messages>>

Next ==
    \/ BusReady \/ OwnNotification \/ Sweep \/ TimePasses \/ RedrawAll \/ ApplyConfig
    \/ \E m \in Monitors : Frame(m) \/ CloseClick(m) \/ Plug(m) \/ Unplug(m)

Spec == Init /\ [][Next]_vars
-----------------------------------------------------------------------------
\* A notification never takes the place of one it does not name: an id that is
\* given out is not in use, not even by a client that chose it for itself,
\* until the counter overflows.
FreshIdIsFree == service.clash => service.wrapped

\* The cards are kept in step with records that come, go and change while
\* tweens of both kinds run: a card shows the text of its record, or leaves.
CardsFollowRecords ==
    \A i \in DOMAIN cards.entries :
        IF i \in DOMAIN service.records
        THEN cards.entries[i].text = service.records[i].text
        ELSE cards.entries[i].exiting

\* No card is stuck: each has a tween that ends in its removal, and every view
\* that has painted is asked to paint again as long as a tween runs.
CardsAreDriven ==
    /\ \A i \in DOMAIN cards.entries :
          IF cards.entries[i].exiting THEN i \in DOMAIN cards.exits
          ELSE i \in DOMAIN cards.progress
    /\ \A m \in Monitors :
          LET v == views[m]
          IN  /\ v.clock.callback # "armed"
              /\ v.drawn /\ (Active(cards) \/ v.fades # {})
                   => v.clock.callback = "committed" /\ v.clock.redraw
=============================================================================
