------------------------------- MODULE Logout -------------------------------
(* The logout ring (modules/logout.cpp, LogoutModule): one overlay with a  *)
(* choreography made of tweens of one AnimationManager, each started by    *)
(* the end of the one before it.  Only when the ring has burst open does   *)
(* it take keys and hovers; Escape, a click beside the buttons or the      *)
(* command play the exit, a chosen button runs its command and hides the   *)
(* ring at once.  The compositor acts on what the shell commits later, so  *)
(* keys and clicks still reach a ring that has just closed.                *)
EXTENDS Integers, FrameClock

CONSTANT ButtonCount        \* kLogoutButtonCount

VARIABLES
    ring,       \* LogoutState and the overlay it is drawn on
    tween,      \* by owner: what the end of the running tween does
    glow,       \* by button: the target of its highlight and whether it runs
    seat,       \* what the compositor has seen: keyboard focus, input region
    ran,        \* commands run since the last opening
    torn        \* an open ring lost its output

vars == <<ring, tween, glow, seat, ran, torn>>

-----------------------------------------------------------------------------
Buttons == 0..(ButtonCount - 1)
NoButton == -1

Ring == [surface : BOOLEAN, open : BOOLEAN, byWidget : BOOLEAN, keyboard : BOOLEAN,
         ready : BOOLEAN, exiting : BOOLEAN, logo : {"hidden", "loading", "playing"},
         selected : Buttons, hovered : Buttons \cup {NoButton}, clock : Clock]

(* The tweens that carry the choreography on, and what ends them.          *)
Owners == {"logo", "hold", "burst"}
Ends == {"none", "pause", "slashes", "burst", "ready", "close"}
Cancelled == [o \in Owners |-> "none"]
Dark == [lit |-> FALSE, moving |-> FALSE]

Init ==
    /\ ring = [surface |-> TRUE, open |-> FALSE, byWidget |-> FALSE, keyboard |-> FALSE,
               ready |-> FALSE, exiting |-> FALSE, logo |-> "hidden",
               selected |-> 0, hovered |-> NoButton, clock |-> IdleClock]
    /\ tween = Cancelled
    /\ glow = [i \in Buttons |-> Dark]
    /\ seat = [focus |-> FALSE, region |-> FALSE]
    /\ ran = 0
    /\ torn = FALSE

-----------------------------------------------------------------------------
(* Highlights and the choreography, on s = [r |-> ring, t |-> tween,        *)
(* g |-> glow].                                                            *)
SetButtonHighlight(s, i, on) ==
    IF i = NoButton THEN s ELSE [s EXCEPT !.g[i] = [lit |-> on, moving |-> TRUE]]

IsHighlighted(r, i) == i \in {r.selected, r.hovered}
UpdateHighlight(s, i) == SetButtonHighlight(s, i, IsHighlighted(s.r, i))

CancelKeepsBurst(s) ==      \* mutant: the burst's owner is missing in the list
    [s EXCEPT !.t = [Cancelled EXCEPT !["burst"] = s.t["burst"]]]
CancelOpenCloseTweens(s) == [s EXCEPT !.t = Cancelled]

FinishClose(s) ==
    [s EXCEPT !.r.logo = "hidden", !.r.open = FALSE, !.r.keyboard = FALSE,
              !.r.clock = Committed(@)]

StartOpenSequence(s) ==
    LET c == CancelOpenCloseTweens(s)
    IN  [c EXCEPT !.r.logo = IF @ = "hidden" THEN "loading" ELSE @,
                  !.r.exiting = FALSE, !.r.ready = FALSE, !.t["logo"] = "pause"]

(* The slashes end the opening in a burst and the exit in the exit burst.  *)
StartSlashes(s) == [s EXCEPT !.t["hold"] = "burst"]

StartBurst(s) == [s EXCEPT !.t["burst"] = "ready"]
StartExitBurst(s) == [s EXCEPT !.t["burst"] = "close"]

CloseRelights(s) ==         \* mutant: highlights recomputed, not switched off
    LET r == s.r
        c == [CancelOpenCloseTweens(s) EXCEPT
                !.r.ready = FALSE, !.r.exiting = TRUE, !.r.hovered = NoButton]
    IN  StartSlashes(UpdateHighlight(UpdateHighlight(c, r.selected), r.hovered))
StartCloseSequence(s) ==
    LET r == s.r
        c == [CancelOpenCloseTweens(s) EXCEPT
                !.r.ready = FALSE, !.r.exiting = TRUE, !.r.hovered = NoButton]
        d == SetButtonHighlight(c, r.selected, FALSE)
    IN  StartSlashes(SetButtonHighlight(d, r.hovered, FALSE))

HideKeepsReady(s) ==        \* mutant: input_ready survives the command
    FinishClose([CancelOpenCloseTweens(s) EXCEPT
                   !.g = [i \in Buttons |-> Dark], !.r.hovered = NoButton,
                   !.r.exiting = FALSE])
FastHide(s) ==
    FinishClose([CancelOpenCloseTweens(s) EXCEPT
                   !.g = [i \in Buttons |-> Dark], !.r.hovered = NoButton,
                   !.r.exiting = FALSE, !.r.ready = FALSE])

(* What the end of the tween of owner o starts.                            *)
Ended(s, o) ==
    LET c == [s EXCEPT !.t[o] = "none"]
    IN  CASE s.t[o] = "pause" -> [c EXCEPT !.t["hold"] = "slashes"]
          [] s.t[o] = "slashes" -> StartSlashes(c)
          [] s.t[o] = "burst" -> IF s.r.exiting THEN StartExitBurst(c) ELSE StartBurst(c)
          [] s.t[o] = "ready" -> UpdateHighlight([c EXCEPT !.r.ready = TRUE], s.r.selected)
          [] s.t[o] = "close" -> FinishClose(c)

-----------------------------------------------------------------------------
(* Frames.                                                                 *)
Active(s) ==
    \/ s.t # Cancelled \/ \E i \in Buttons : s.g[i].moving
    \/ s.r.logo = "playing"

(* AnimationManager::tick: any highlight may be done and at most one link  *)
(* of the chain; the logo's frames, once decoded, play as long as it is    *)
(* shown.                                                                  *)
Settled(s, done) == [s EXCEPT !.g = [i \in Buttons |->
                        [s.g[i] EXCEPT !.moving = @ /\ i \notin done]]]
Ticked(s) ==
    LET rested == {Settled(s, done) : done \in SUBSET {i \in Buttons : s.g[i].moving}}
    IN  rested \cup {Ended(x, o) : x \in rested, o \in {p \in Owners : s.t[p] # "none"}}

(* logout_paint: the next frame is asked for while anything moves, and     *)
(* overlay_panel_request_frame ignores a ring that is closed.              *)
AskedAgain(s) ==
    IF s.r.open /\ Active(s) THEN [s EXCEPT !.r.clock = Deferred(Committed(@))]
    ELSE [s EXCEPT !.r.clock = Committed(@)]
PaintForgets(s) ==          \* mutant: the logo's frames only
    {[x EXCEPT !.r.clock = IF x.r.open /\ x.r.logo = "playing"
                           THEN Deferred(Committed(@)) ELSE Committed(@)] : x \in Ticked(s)}
Paint(s) == {AskedAgain(x) : x \in Ticked(s)}

RequestFrame(s) ==
    IF ~s.r.surface \/ ~s.r.open THEN {s}
    ELSE IF s.r.clock.callback # "none" THEN {[s EXCEPT !.r.clock = Deferred(@)]}
    ELSE IF s.r.clock.mapped THEN {[s EXCEPT !.r.clock = Scheduled(@)]}
    ELSE Paint([s EXCEPT !.r.clock = FirstDraw(@)])

FrameDone(s) ==
    IF s.r.clock.redraw THEN Paint([s EXCEPT !.r.clock = DoneForDraw(@)])
    ELSE {[s EXCEPT !.r.clock = DoneIdle(@)]}

-----------------------------------------------------------------------------
(* Handlers.                                                               *)
Toggle(s, byWidget) ==
    IF ~s.r.surface THEN {s}
    ELSE IF s.r.open THEN RequestFrame(StartCloseSequence(s))
    ELSE RequestFrame(StartOpenSequence(
            [s EXCEPT !.r.selected = 0, !.r.open = TRUE, !.r.keyboard = TRUE,
                      !.r.byWidget = byWidget, !.r.clock = Committed(@)]))

Execute(s) == FastHide([s EXCEPT !.r.selected = 0])

(* logout_handle_click: a button, or beside them                           *)
HandleClick(s, i) ==
    IF i = NoButton THEN Toggle(s, FALSE)
    ELSE IF s.r.ready THEN {Execute(s)} ELSE {s}

Select(s, i) ==
    LET old == s.r.selected
    IN  UpdateHighlight(UpdateHighlight([s EXCEPT !.r.selected = i], old), i)

HandleHover(s, i) ==
    IF ~s.r.ready \/ i = s.r.hovered THEN s
    ELSE LET old == s.r.hovered
         IN  UpdateHighlight(UpdateHighlight([s EXCEPT !.r.hovered = i], old), i)

ClearHover(s) ==
    IF s.r.hovered = NoButton THEN s
    ELSE UpdateHighlight([s EXCEPT !.r.hovered = NoButton], s.r.hovered)

-----------------------------------------------------------------------------
Here == [r |-> ring, t |-> tween, g |-> glow]
Becomes(s) == ring' = s.r /\ tween' = s.t /\ glow' = s.g
Handled(ss) == \E s \in ss : \E q \in RequestFrame(s) : Becomes(q)

Runs == ran' = IF ran = 2 THEN 2 ELSE ran + 1       \* a command was spawned
Opens == ran' = IF ~ring.open /\ ring'.open THEN 0 ELSE ran

(* The "logout" command and the bar's widget; without a surface, or when   *)
(* another output is active, the ring is first moved there.                *)
Command(byWidget) ==
    /\ \E moved \in IF ring.open THEN {FALSE} ELSE {~ring.surface, TRUE} :
          LET s == IF moved THEN [Here EXCEPT !.r.surface = TRUE, !.r.clock = IdleClock,
                                              !.r.keyboard = FALSE]
                   ELSE Here
          IN  \E q \in Toggle(s, byWidget) : Becomes(q)
    /\ Opens
    /\ UNCHANGED <<seat, torn>>

(* Keys go to the surface the compositor focused, open or not.             *)
Key ==
    /\ seat.focus /\ ring.surface
    /\ IF ~ring.ready THEN Handled({Here}) /\ UNCHANGED ran
       ELSE \/ \E i \in Buttons : Handled({Select(Here, i)}) /\ UNCHANGED ran
            \/ Handled({Execute(Here)}) /\ Runs
            \/ Handled(Toggle(Here, FALSE)) /\ Opens
    /\ UNCHANGED <<seat, torn>>

Click ==
    /\ seat.region /\ ring.surface
    /\ \E i \in Buttons \cup {NoButton} :
          /\ Handled(HandleClick(Here, i))
          /\ IF i # NoButton /\ ring.ready THEN Runs ELSE Opens
    /\ UNCHANGED <<seat, torn>>

PointerMove ==
    /\ ring.open
    /\ \/ \E i \in Buttons \cup {NoButton} : Handled({HandleHover(Here, i)})
       \/ Handled({ClearHover(Here)})
    /\ UNCHANGED <<seat, ran, torn>>

LogoReady ==                        \* the decode is done: animate_job's on_ready
    /\ ring.logo = "loading"
    /\ Handled({[Here EXCEPT !.r.logo = "playing"]})
    /\ UNCHANGED <<seat, ran, torn>>

Frame ==
    /\ ring.clock.callback = "committed"
    /\ \E q \in FrameDone(Here) : Becomes(q)
    /\ UNCHANGED <<seat, ran, torn>>

(* The compositor has taken in the latest commit.                          *)
SeatFollows ==
    /\ seat' = [focus |-> ring.keyboard, region |-> ring.open]
    /\ seat' # seat
    /\ UNCHANGED <<ring, tween, glow, ran, torn>>

(* overlay_panel_release_output; input_ready, the indices and the          *)
(* highlights are left as they were.                                       *)
OutputRemoved ==
    /\ ring.surface
    /\ ring' = [ring EXCEPT !.surface = FALSE, !.open = FALSE, !.byWidget = FALSE,
                            !.keyboard = FALSE, !.clock = IdleClock]
    /\ tween' = Cancelled
    /\ glow' = [i \in Buttons |-> [glow[i] EXCEPT !.moving = FALSE]]
    /\ seat' = [focus |-> FALSE, region |-> FALSE]
    /\ torn' = (torn \/ ring.open)
    /\ UNCHANGED ran

Next ==
    \/ \E byWidget \in BOOLEAN : Command(byWidget)
    \/ Key \/ Click \/ PointerMove \/ LogoReady \/ Frame \/ SeatFollows
    \/ OutputRemoved

Spec == Init /\ [][Next]_vars

-----------------------------------------------------------------------------
TypeOK ==
    /\ ring \in Ring /\ ClockOK(ring.clock)
    /\ tween \in [Owners -> Ends]
    /\ glow \in [Buttons -> [lit : BOOLEAN, moving : BOOLEAN]]
    /\ seat \in [focus : BOOLEAN, region : BOOLEAN]
    /\ ran \in 0..2 /\ torn \in BOOLEAN

(* An open ring never gets stuck: until it takes input exactly one link of *)
(* the chain is running, none runs later, and what runs has its next frame *)
(* on the way.  The keyboard is held exactly while the ring is open.       *)
ChainGoesOn ==
    /\ ring.keyboard = ring.open
    /\ ring.open =>
          /\ \A o, p \in Owners : tween[o] # "none" /\ tween[p] # "none" => o = p
          /\ ring.ready = (tween = Cancelled)
          /\ Active(Here) => ring.clock.callback = "committed" /\ ring.clock.redraw
    /\ ~ring.open => tween = Cancelled

(* A command is run at most once per opening, and the ring is closed by it.*)
OneCommand == ran < 2 /\ (ran = 1 => ~ring.open)

(* On a ring that takes input the lit buttons are the selected one and the *)
(* hovered one, and on its way out none; what an output removed under an   *)
(* open ring left lit is the exception.                                    *)
HighlightsTrue ==
    ring.open /\ ~torn =>
        {i \in Buttons : glow[i].lit} =
            IF ring.ready THEN {ring.selected, ring.hovered} \ {NoButton} ELSE {}
=============================================================================
