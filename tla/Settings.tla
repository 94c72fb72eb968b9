------------------------------ MODULE Settings ------------------------------
(* The settings panel (modules/settings.cpp and its tabs): a click first   *)
(* commits the field being edited, then changes the configuration it finds *)
(* afterwards; what can be clicked is what was last painted.  The idle tab *)
(* edits the defaults or, for a selected monitor, its override, and the    *)
(* selection of a monitor that is gone is dropped by the next paint.  Two  *)
(* tabs stand for the six: one whose fields are global and the idle tab.   *)
EXTENDS FrameClock

CONSTANTS
    NamedMonitors,  \* monitors that may be selected
    FieldTexts      \* what a field can hold that can be parsed

VARIABLES
    cf,         \* app.cfg
    st,         \* SettingsState and the overlay it is drawn on
    edit,       \* the focused field: what it holds, and for which scope it was opened
    plugged,    \* the monitors that are there
    asked,      \* the configuration the user asked for
    moved       \* the selection changed under an edited field

vars == <<cf, st, edit, plugged, asked, moved>>

-----------------------------------------------------------------------------
Default == "default"
Scopes == NamedMonitors \cup {Default}
Tabs == {"wallpaper", "idle"}
Fields == {"none", "dir", "timeout"}
Unparsed == "unparsed"
First == CHOOSE t \in FieldTexts : TRUE

Config == [dir : FieldTexts, animated : BOOLEAN, manage : BOOLEAN,
           timeout : [Scopes -> FieldTexts], override : [NamedMonitors -> BOOLEAN]]
Panel == [enabled : BOOLEAN, open : BOOLEAN, fade : {"none", "in", "out"},
          tab : Tabs, pending : Tabs, tabFade : {"none", "out", "in"},
          painted : Tabs \cup {"nothing"}, selected : Scopes,
          ime : {"off", "on", "stale"}, clock : Clock]
Edit == [field : Fields, text : FieldTexts \cup {Unparsed}, scope : Scopes]
NoEdit == [field |-> "none", text |-> First, scope |-> Default]

Init ==
    /\ cf = [dir |-> First, animated |-> FALSE, manage |-> TRUE,
             timeout |-> [s \in Scopes |-> First], override |-> [m \in NamedMonitors |-> FALSE]]
    /\ st = [enabled |-> TRUE, open |-> FALSE, fade |-> "none",
             tab |-> "wallpaper", pending |-> "wallpaper", tabFade |-> "none",
             painted |-> "nothing", selected |-> Default, ime |-> "off",
             clock |-> IdleClock]
    /\ edit = NoEdit
    /\ plugged = NamedMonitors
    /\ asked = cf
    /\ moved = FALSE

-----------------------------------------------------------------------------
(* Frames.                                                                 *)
Ticks(s) ==
    {s} \cup (IF s.fade = "none" THEN {}
              ELSE {[s EXCEPT !.open = s.fade = "in", !.fade = "none"]})
Turns(s) ==
    {s} \cup CASE s.tabFade = "out" -> {[s EXCEPT !.tab = s.pending, !.tabFade = "in"]}
               [] s.tabFade = "in" -> {[s EXCEPT !.tabFade = "none"]}
               [] OTHER -> {}

(* settings_paint: the selection is synchronised, the animations advance   *)
(* and decide about another frame, and the click regions are those drawn.  *)
Paint(s) ==
    {LET u == [t EXCEPT !.painted = t.tab,
                        !.selected = IF @ \in plugged THEN @ ELSE Default]
     IN  [u EXCEPT !.clock = IF (u.fade # "none" \/ u.tabFade # "none") /\ u.open
                             THEN Committed(Deferred(@)) ELSE Committed(@)]
        : t \in UNION {Turns(q) : q \in Ticks(s)}}

RequestFrame(s) ==
    IF ~s.enabled \/ ~s.open THEN {s}
    ELSE IF s.clock.callback # "none" THEN {[s EXCEPT !.clock = Deferred(@)]}
    ELSE IF s.clock.mapped THEN {[s EXCEPT !.clock = Scheduled(@)]}
    ELSE Paint([s EXCEPT !.clock = FirstDraw(@)])

-----------------------------------------------------------------------------
(* A handler works on h: the configuration, the panel, the edited field,   *)
(* and what the user has asked for.                                        *)
Here == [c |-> cf, s |-> st, e |-> edit, a |-> asked]

Apply(c, field, scope, text) ==     \* settings_service_apply_field_text
    IF text = Unparsed THEN c
    ELSE CASE field = "dir" -> [c EXCEPT !.dir = text]
           [] field = "timeout" -> [c EXCEPT !.timeout[scope] = text]
           [] OTHER -> c

CommitFocusedField(h) ==
    IF h.e.field = "none" THEN h
    ELSE [h EXCEPT !.c = Apply(@, h.e.field, h.s.selected, h.e.text),
                   !.a = Apply(@, h.e.field, h.e.scope, h.e.text),
                   !.e = NoEdit, !.s.ime = "off"]

(* A click that changes the configuration, on whatever tab: the change is  *)
(* made on what the commit left behind, for the scope that is selected     *)
(* now.  "override" and "reset" are the idle tab's, for one monitor.       *)
With(c, s, what) ==
    CASE what = "animated" -> [c EXCEPT !.animated = ~@]
      [] what = "manage" -> [c EXCEPT !.manage = ~@]
      [] what = "override" ->
            [c EXCEPT !.override[s] = ~@,
                      !.timeout[s] = IF c.override[s] THEN @ ELSE c.timeout[Default]]
      [] what = "reset" -> [c EXCEPT !.timeout[s] = c.timeout[Default]]

ChangeOverwrites(h, what) ==        \* mutant: the copy is taken before the commit
    [CommitFocusedField(h) EXCEPT !.c = With(h.c, h.s.selected, what),
                                  !.a = With(@, h.s.selected, what)]
Change(h, what) ==
    [CommitFocusedField(h) EXCEPT !.c = With(@, h.s.selected, what),
                                  !.a = With(@, h.s.selected, what)]

OverlayToggle(s) ==
    IF s.open THEN [s EXCEPT !.fade = "out"] ELSE [s EXCEPT !.open = TRUE, !.fade = "in"]

ToggleKeepsTab(h) ==                \* mutant: a tab fade of the last opening goes on
    IF ~h.s.enabled THEN h
    ELSE IF h.s.open THEN [CommitFocusedField(h) EXCEPT !.s = OverlayToggle(@)]
    ELSE [h EXCEPT !.s = OverlayToggle([@ EXCEPT !.tab = "wallpaper"])]
Toggle(h) ==                        \* settings_toggle
    IF ~h.s.enabled THEN h
    ELSE IF h.s.open THEN [CommitFocusedField(h) EXCEPT !.s = OverlayToggle(@)]
    ELSE [h EXCEPT !.s = OverlayToggle([@ EXCEPT !.tab = "wallpaper", !.pending = "wallpaper",
                                                !.tabFade = "none"])]

FocusField(h, id) ==
    IF h.e.field = id THEN h
    ELSE LET k == CommitFocusedField(h)
         IN  [k EXCEPT !.e = [field |-> id, scope |-> h.s.selected,
                              text |-> IF id = "dir" THEN k.c.dir
                                       ELSE k.c.timeout[h.s.selected]],
                       !.s.ime = "on"]

SelectTab(h, t) ==
    LET k == CommitFocusedField(h)
    IN  IF t = k.s.tab THEN k ELSE [k EXCEPT !.s.pending = t, !.s.tabFade = "out"]

-----------------------------------------------------------------------------
(* Every handler ends by asking for a frame.                               *)
Becomes(h) ==
    /\ cf' = h.c /\ edit' = h.e
    /\ asked' = IF moved' THEN h.c ELSE h.a
    /\ st' \in RequestFrame(h.s)
Handled(h) == UNCHANGED <<plugged, moved>> /\ Becomes(h)
Drawn(t) == st.enabled /\ st.open /\ st.painted = t

(* After a step that painted without a handler of the fields.              *)
Repaints ==
    /\ moved' = (moved \/ (edit.field = "timeout" /\ st'.selected # edit.scope))
    /\ asked' = IF moved' THEN cf ELSE asked
    /\ UNCHANGED <<cf, edit, plugged>>

(* A closed panel moves to the active output before it opens: its surface  *)
(* is another, and when none can be had it stays away.  A field that was   *)
(* focused while the panel faded out is focused still, and the input       *)
(* method knows of the old surface.  What is dispatched while the surface  *)
(* is awaited is OverlayPanel's.                                           *)
Retargeted(s, ready) ==
    [s EXCEPT !.enabled = ready, !.clock = IdleClock, !.ime = IF @ = "on" THEN "stale" ELSE @]
Retarget ==
    /\ st.enabled /\ ~st.open
    /\ \E ready \in BOOLEAN :
          st' \in RequestFrame(Toggle([Here EXCEPT !.s = Retargeted(@, ready)]).s)
    /\ Repaints

Command == Handled(Toggle(Here)) \/ Retarget    \* also the close button

ClickTab(t) == st.painted # "nothing" /\ st.open /\ Handled(SelectTab(Here, t))

ClickWallpaperTab ==
    /\ Drawn("wallpaper")
    /\ Handled(Change(Here, "animated")) \/ Handled(FocusField(Here, "dir"))

ClickIdleTab ==
    /\ Drawn("idle")
    /\ \/ Handled(Change(Here, "manage"))
       \/ /\ cf.manage /\ st.selected # Default
          /\ Handled(Change(Here, "override"))
       \/ /\ cf.manage /\ st.selected # Default /\ cf.override[st.selected]
          /\ Handled(Change(Here, "reset"))
       \/ /\ cf.manage /\ (st.selected # Default => cf.override[st.selected])
          /\ Handled(FocusField(Here, "timeout"))

(* The chips of the idle tab select a monitor without committing the field.*)
SelectMonitor(s) ==
    /\ Drawn("idle") /\ cf.manage /\ s \in plugged \cup {Default}
    /\ moved' = (moved \/ (edit.field = "timeout" /\ s # edit.scope))
    /\ Becomes([Here EXCEPT !.s.selected = s])
    /\ UNCHANGED plugged

(* With a field focused a key edits, commits or cancels it; the input      *)
(* method edits whatever field it was told of last.                        *)
Key ==
    /\ st.enabled /\ st.open
    /\ \/ /\ edit.field # "none"
          /\ \E t \in FieldTexts \cup {Unparsed} : Handled([Here EXCEPT !.e.text = t])
       \/ edit.field # "none" /\ Handled(CommitFocusedField(Here))
       \/ edit.field # "none" /\ Handled([Here EXCEPT !.e = NoEdit])
       \/ edit.field = "none" /\ Handled(Toggle(Here))

Frame ==
    /\ st.clock.callback = "committed"
    /\ st' \in IF st.clock.redraw THEN Paint([st EXCEPT !.clock = DoneForDraw(@)])
               ELSE {[st EXCEPT !.clock = DoneIdle(@)]}
    /\ Repaints

Unplug(m) ==                        \* another monitor than the panel's
    /\ m \in plugged /\ plugged' = plugged \ {m}
    /\ UNCHANGED <<cf, st, edit, asked, moved>>
Plug(m) ==
    /\ m \notin plugged /\ plugged' = plugged \cup {m}
    /\ UNCHANGED <<cf, st, edit, asked, moved>>

(* SettingsModule::on_output_removed, for the panel's own output: the text *)
(* of a focused field is dropped, and the panel stays disabled.            *)
OutputRemoved ==
    /\ st' = [st EXCEPT !.enabled = FALSE, !.open = FALSE, !.fade = "none",
                        !.tabFade = "none", !.ime = "off", !.clock = IdleClock]
    /\ edit' = NoEdit
    /\ plugged' \in {plugged} \cup {plugged \ {m} : m \in plugged}
    /\ UNCHANGED <<cf, asked, moved>>

Next ==
    \/ Command \/ ClickWallpaperTab \/ ClickIdleTab \/ Key \/ Frame \/ OutputRemoved
    \/ \E t \in Tabs : ClickTab(t)
    \/ \E s \in Scopes : SelectMonitor(s)
    \/ \E m \in NamedMonitors : Plug(m) \/ Unplug(m)

Spec == Init /\ [][Next]_vars

-----------------------------------------------------------------------------
TypeOK ==
    /\ cf \in Config /\ asked \in Config
    /\ st \in Panel /\ ClockOK(st.clock)
    /\ edit \in Edit
    /\ plugged \subseteq NamedMonitors /\ moved \in BOOLEAN

(* Whatever way a field is left, except by cancelling it or losing the     *)
(* output, its text reaches the configuration, at the scope it was opened  *)
(* for, and no other change made since is lost.  A selection that moves    *)
(* while the timeout is being edited is the exception: see the README.     *)
EditsLand == ~moved => cf = asked

(* A focused field has the input method, if only for the surface the panel *)
(* had before it moved, and a fade, of the panel or of a tab, has its next *)
(* frame on the way; once they are over an open panel shows the tab last   *)
(* chosen.                                                                 *)
TabSettles ==
    /\ edit.field # "none" => st.ime # "off"
    /\ st.open /\ (st.fade # "none" \/ st.tabFade # "none") =>
          st.clock.callback = "committed" /\ st.clock.redraw
    /\ st.open /\ st.tabFade # "out" => st.tab = st.pending
    /\ st.open /\ st.clock.callback = "none" /\ st.clock.mapped =>
          st.painted = st.pending
=============================================================================
