------------------------------ MODULE TextInput ------------------------------
(***************************************************************************)
(* The text input service (service/text_input_service.cpp): it lends the   *)
(* one zwp_text_input_v3 object of the shell to the text field that has    *)
(* the focus, and hands the edits of the input method to that field.       *)
(*                                                                         *)
(* Two focuses meet here: which field the shell considers active           *)
(* (set_focused_client, clear_focused_client) and which surface the        *)
(* compositor has entered.  Requests and events travel in two queues, so   *)
(* each side acts on what the other one was some time ago.                 *)
(*                                                                         *)
(* A client (launcher, settings, a password field of the bar) has one      *)
(* surface and is named by it.  The object exists; what an edit says and   *)
(* the content type are left out.  The compositor announces a move of the  *)
(* keyboard first and of the text input next, as Hyprland does: were the   *)
(* text input to leave first, a field focused between the two events would *)
(* be enabled on a surface already left, and stay without input method.    *)
(***************************************************************************)
EXTENDS Naturals, Sequences

CONSTANTS
    Surfaces,    \* surfaces with a text field
    NoSurface,   \* nullptr
    MaxFocusMoves, \* bound: focus changes, by the shell and by the compositor
    MaxEdits     \* bound: edits of the input method

VARIABLES
    ime,         \* TextInputService
    imeServer,   \* the compositor: the surface entered, the text input's state,
                 \* the commits counted
    imeEvents,   \* to the shell
    imeRequests, \* to the compositor
    imeWork      \* bounds left

vars == <<ime, imeServer, imeEvents, imeRequests, imeWork>>

Maybe == Surfaces \union {NoSurface}

EventKinds == {"keyboard_enter", "keyboard_leave", "enter", "leave", "edit", "done"}

TypeOK ==
    /\ ime \in
        [entered : Maybe, keyboard : Maybe,   \* entered_surface_, keyboard_focus_surface_
         active : Maybe,                      \* active_client_, active_surface_
         enabled : BOOLEAN,
         pending : BOOLEAN,                   \* pending_edit_ holds something
         serial : Nat]                        \* commit_serial_
    /\ imeServer \in [focus : Maybe, on : BOOLEAN,
                       staged : {"none", "enable", "disable"}, commits : Nat]
    /\ imeEvents \in Seq([kind : EventKinds, surface : Maybe, serial : Nat])
    /\ imeRequests \in Seq({"enable", "disable", "commit"})
    /\ imeWork \in [moves : 0..MaxFocusMoves, edits : 0..MaxEdits]
-----------------------------------------------------------------------------
(* The service: s is its state, s.sent the requests a handler has made *)

Accepts(s) == s.active # NoSurface /\ s.active \in {s.entered, s.keyboard}

Send(s, rs) == [s EXCEPT !.sent = @ \o rs]

CommitProtocolState(s) == [Send(s, <<"commit">>) EXCEPT !.serial = @ + 1]

CommitActiveState(s) ==
    IF s.enabled /\ Accepts(s) THEN CommitProtocolState(s) ELSE s

EnableActive(s) ==
    IF ~Accepts(s) THEN s
    ELSE IF s.enabled THEN CommitActiveState(s)
    ELSE CommitActiveState([Send(s, <<"enable">>) EXCEPT !.enabled = TRUE])

DisableActive(s) ==
    [IF s.enabled /\ Accepts(s) THEN CommitProtocolState(Send(s, <<"disable">>))
     ELSE s
     EXCEPT !.enabled = FALSE]

SetFocusedClient(s, f) ==
    IF s.active = f
    THEN IF s.enabled THEN CommitActiveState(s) ELSE EnableActive(s)
    ELSE EnableActive([DisableActive(s) EXCEPT !.active = f])

ClearFocusedClient(s, f) ==
    IF f # s.active THEN s
    ELSE [DisableActive(s) EXCEPT !.active = NoSurface, !.pending = FALSE]

\* keyboard.on_focus_surface
OnKeyboardFocus(s, f, entered) ==
    LET moved == [s EXCEPT !.keyboard = IF entered THEN f
                                        ELSE IF @ = f THEN NoSurface ELSE @]
    IN  IF entered THEN EnableActive(moved) ELSE moved

HandleEnter(s, f) ==
    LET entered == [s EXCEPT !.entered = f, !.pending = FALSE]
    IN  IF s.active = f THEN EnableActive(entered) ELSE entered

\* mutant: what was enabled on a surface is taken to be enabled still.
HandleLeaveKeepsEnabled(s, f) ==
    IF s.entered # f THEN s
    ELSE [s EXCEPT !.entered = NoSurface, !.pending = FALSE]

HandleLeave(s, f) ==
    IF s.entered # f THEN s
    ELSE [s EXCEPT !.entered = NoSurface, !.enabled = FALSE, !.pending = FALSE]

\* The edit goes to whichever client is active; only the answer with the new
\* state depends on the serial.
HandleDone(s, serial) ==
    LET applied == [s EXCEPT !.pending = FALSE]
    IN  IF s.active # NoSurface /\ serial = s.serial THEN CommitActiveState(applied)
        ELSE applied

HandleEvent(s, e) ==
    CASE e.kind = "keyboard_enter" -> OnKeyboardFocus(s, e.surface, TRUE)
      [] e.kind = "keyboard_leave" -> OnKeyboardFocus(s, e.surface, FALSE)
      [] e.kind = "enter" -> HandleEnter(s, e.surface)
      [] e.kind = "leave" -> HandleLeave(s, e.surface)
      [] e.kind = "edit" -> [s EXCEPT !.pending = TRUE]
      [] e.kind = "done" -> HandleDone(s, e.serial)
-----------------------------------------------------------------------------
Sending ==
    [entered |-> ime.entered, keyboard |-> ime.keyboard, active |-> ime.active,
     enabled |-> ime.enabled, pending |-> ime.pending, serial |-> ime.serial,
     sent |-> <<>>]

\* The service after a handler; its requests are on their way.
Becomes(s) ==
    /\ ime' = [entered |-> s.entered, keyboard |-> s.keyboard, active |-> s.active,
               enabled |-> s.enabled, pending |-> s.pending, serial |-> s.serial]
    /\ imeRequests' = imeRequests \o s.sent

Init ==
    /\ ime = [entered |-> NoSurface, keyboard |-> NoSurface, active |-> NoSurface,
              enabled |-> FALSE, pending |-> FALSE, serial |-> 0]
    /\ imeServer = [focus |-> NoSurface, on |-> FALSE, staged |-> "none", commits |-> 0]
    /\ imeEvents = <<>>
    /\ imeRequests = <<>>
    /\ imeWork = [moves |-> MaxFocusMoves, edits |-> MaxEdits]

Move == imeWork.moves > 0 /\ imeWork' = [imeWork EXCEPT !.moves = @ - 1]

\* A panel with a text field opens, or a field in it gets or loses the focus.
FieldFocused(f) ==
    /\ Move
    /\ Becomes(SetFocusedClient(Sending, f))
    /\ UNCHANGED <<imeServer, imeEvents>>

FieldBlurred(f) ==
    /\ Move
    /\ ime.active = f
    /\ Becomes(ClearFocusedClient(Sending, f))
    /\ UNCHANGED <<imeServer, imeEvents>>

Dispatch ==
    /\ imeEvents # <<>>
    /\ Becomes(HandleEvent(Sending, Head(imeEvents)))
    /\ imeEvents' = Tail(imeEvents)
    /\ UNCHANGED <<imeServer, imeWork>>

Event(kind, f) == [kind |-> kind, surface |-> f, serial |-> 0]

Told(kind, f) == IF f = NoSurface THEN <<>> ELSE <<Event(kind, f)>>

\* The compositor moves the keyboard, and the text input with it; a text input
\* that has left a surface has forgotten its state.
FocusMoves(f) ==
    /\ Move
    /\ f # imeServer.focus
    /\ imeServer' = [imeServer EXCEPT !.focus = f, !.on = FALSE, !.staged = "none"]
    /\ LET old == imeServer.focus
       IN  imeEvents' = imeEvents \o Told("keyboard_leave", old) \o Told("keyboard_enter", f)
                            \o Told("leave", old) \o Told("enter", f)
    /\ UNCHANGED <<ime, imeRequests>>

\* A request arrives; the state staged by the requests before a commit counts
\* only while a surface is entered.
RequestArrives ==
    /\ imeRequests # <<>>
    /\ imeRequests' = Tail(imeRequests)
    /\ imeServer' =
        LET r == Head(imeRequests)
        IN  IF r = "commit"
            THEN [imeServer EXCEPT
                    !.commits = @ + 1, !.staged = "none",
                    !.on = IF imeServer.focus = NoSurface \/ imeServer.staged = "none"
                           THEN @ ELSE imeServer.staged = "enable"]
            ELSE [imeServer EXCEPT !.staged = r]
    /\ UNCHANGED <<ime, imeEvents, imeWork>>

\* The input method edits the text of the surface entered.
Edit ==
    /\ imeWork.edits > 0
    /\ imeWork' = [imeWork EXCEPT !.edits = @ - 1]
    /\ imeServer.on
    /\ imeEvents' = imeEvents \o
         <<Event("edit", imeServer.focus),
           [Event("done", imeServer.focus) EXCEPT !.serial = imeServer.commits]>>
    /\ UNCHANGED <<ime, imeServer, imeRequests>>

Next ==
    \/ \E f \in Surfaces : FieldFocused(f) \/ FieldBlurred(f)
    \/ \E f \in Maybe : FocusMoves(f)
    \/ Dispatch \/ RequestArrives \/ Edit

Spec == Init /\ [][Next]_vars
-----------------------------------------------------------------------------
ImeQuiet == imeEvents = <<>> /\ imeRequests = <<>>

\* Once both queues are empty the input method works in the field that has the
\* focus on both sides, however the two focuses moved past each other, and the
\* serial the shell answers the input method with is the compositor's.
ImeFollowsFocus ==
    ImeQuiet =>
        /\ ime.serial = imeServer.commits
        /\ (ime.active = imeServer.focus /\ ime.active # NoSurface)
              => ime.enabled /\ imeServer.on
=============================================================================
