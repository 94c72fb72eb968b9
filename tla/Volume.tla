------------------------------- MODULE Volume -------------------------------
(* Audio levels: the PipeWire service keeps the nodes the server announces, *)
(* which one is the default sink and source, and their levels; the volume  *)
(* panel and the wheel change a level at once and tell the server after;   *)
(* the on-screen display shows what changed.  One socket carries the       *)
(* server's events in order, another the shell's requests.  A level stands *)
(* for a volume and its mute switch.                                       *)
EXTENDS Naturals, Sequences, FiniteSets

CONSTANTS
    Sinks, Sources, Streams,   \* names of nodes, no two alive share one
    MaxIds,                    \* ids of the server's registry, used again once free
    MaxTurns,                  \* changes on the server's side
    MaxInputs                  \* inputs of the user

VARIABLES
    pwServer,   \* nodes by id, the default of each kind
    pwInbox,    \* events on their way to the shell
    toPw,       \* requests on their way to the server
    pw,         \* PipewireState
    volPanel,   \* VolumePanelState: open, selected_slider_tag, what it painted
    volDirty,   \* a frame of the panel has been requested
    osd,        \* OsdState
    volWork     \* changes and inputs so far

vars == <<pwServer, pwInbox, toPw, pw, volPanel, volDirty, osd, volWork>>

Kinds == {"sink", "source"}
Named(kind) == IF kind = "sink" THEN Sinks ELSE IF kind = "source" THEN Sources ELSE Streams
Ids == 1..MaxIds
Levels == 0..1
NoNode == [kind |-> "none", name |-> "", level |-> 0]
Present(nodes) == {i \in Ids : nodes[i] # NoNode}
NodeNamed(nodes, kind, name) == {i \in Present(nodes) : nodes[i].kind = kind /\ nodes[i].name = name}
Unset == [k \in Kinds |-> ""]

(* A slider's tag: the default sink or source, or a stream by its id.      *)
NoTag == [kind |-> "none", id |-> 0]
Tags(p) == {[kind |-> k, id |-> 0] : k \in Kinds}
             \union {[kind |-> "stream", id |-> i] : i \in {j \in Ids : p.nodes[j].kind = "stream"}}

(* What pipewire_sink_level and pipewire_source_level return.              *)
LevelOf(p, kind) == IF p.id[kind] = 0 THEN 0 ELSE p.nodes[p.id[kind]].level
LevelsOf(p) == [k \in Kinds |-> LevelOf(p, k)]

Init ==
    /\ pwServer = [nodes |-> [i \in Ids |-> NoNode], bound |-> {}, default |-> Unset]
    /\ pwInbox = <<>> /\ toPw = <<>>
    /\ pw = [nodes |-> [i \in Ids |-> NoNode], name |-> Unset,
             id |-> [k \in Kinds |-> 0], changed |-> {}]
    /\ volPanel \in {[open |-> o, selected |-> IF o THEN [NoTag EXCEPT !.kind = "sink"] ELSE NoTag,
                      painted |-> [k \in Kinds |-> 0]] : o \in BOOLEAN}
    /\ volDirty = FALSE
    /\ osd = [visible |-> FALSE, kind |-> "sink", level |-> 0]
    /\ volWork = [turns |-> 0, inputs |-> 0]

-----------------------------------------------------------------------------
(* Events.  pw is the state before the event, the result the state after.  *)
IdOf(p, kind, name) ==
    IF NodeNamed(p.nodes, kind, name) = {} THEN 0
    ELSE CHOOSE i \in NodeNamed(p.nodes, kind, name) : TRUE

MetadataProperty(p, ev) ==
    [p EXCEPT !.name[ev.kind] = ev.name, !.id[ev.kind] = IdOf(p, ev.kind, ev.name),
              !.changed = @ \union {ev.kind}]

GlobalForgetsName(p, ev) ==         \* mutant: a node that comes after its election
    [p EXCEPT !.nodes[ev.id] = [kind |-> ev.kind, name |-> ev.name, level |-> 0]]
RegistryGlobal(p, ev) ==
    [p EXCEPT !.nodes[ev.id] = [kind |-> ev.kind, name |-> ev.name, level |-> 0],
              !.id = [k \in Kinds |-> IF k = ev.kind /\ p.name[k] = ev.name THEN ev.id ELSE @[k]]]

RemoveKeepsDefault(p, ev) == [p EXCEPT !.nodes[ev.id] = NoNode]   \* mutant
RegistryGlobalRemove(p, ev) ==
    [p EXCEPT !.nodes[ev.id] = NoNode,
              !.id = [k \in Kinds |-> IF @[k] = ev.id THEN 0 ELSE @[k]]]

Reports(p, id) == {k \in Kinds : p.id[k] = id}
NodeParamSilent(p, ev) == [p EXCEPT !.nodes[ev.id].level = ev.level]   \* mutant: no flag
NodeParam(p, ev) ==
    IF p.nodes[ev.id] = NoNode THEN p
    ELSE [p EXCEPT !.nodes[ev.id].level = ev.level,
                   !.changed = IF p.nodes[ev.id].level = ev.level THEN @
                               ELSE @ \union Reports(p, ev.id)]

Heard(p, ev) ==
    CASE ev.op = "global" -> RegistryGlobal(p, ev)
      [] ev.op = "remove" -> RegistryGlobalRemove(p, ev)
      [] ev.op = "param" -> NodeParam(p, ev)
      [] OTHER -> MetadataProperty(p, ev)

(* A node that comes is bound: only then does the server tell its level.   *)
Binds(requests, ev) ==
    IF ev.op = "global" THEN Append(requests, [op |-> "bind", id |-> ev.id]) ELSE requests

(* The shell after each of the events evs.                                 *)
Dispatched(evs) ==
    LET turn[n \in 0..Len(evs)] ==
          IF n = 0 THEN [pw |-> pw, toPw |-> toPw]
          ELSE [pw |-> Heard(turn[n - 1].pw, evs[n]),
                toPw |-> Binds(turn[n - 1].toPw, evs[n])]
    IN  turn

OsdShow(kind, level) == [visible |-> TRUE, kind |-> kind, level |-> level]
Reported(o, p) ==
    IF "source" \in p.changed THEN OsdShow("source", LevelOf(p, "source"))
    ELSE IF "sink" \in p.changed THEN OsdShow("sink", LevelOf(p, "sink")) ELSE o

(* pipewire_poll takes what has come; its caller shows and redraws.        *)
PipewirePoll ==
    /\ pwInbox # <<>>
    /\ \E n \in {1, Len(pwInbox)} :
         LET done == Dispatched(pwInbox)[n]
             after == done.pw
         IN  /\ pwInbox' = SubSeq(pwInbox, n + 1, Len(pwInbox))
             /\ toPw' = done.toPw
             /\ pw' = [after EXCEPT !.changed = {}]
             /\ osd' = Reported(osd, after)
             /\ volDirty' = (volDirty \/ after.changed # {})
    /\ UNCHANGED <<pwServer, volPanel, volWork>>

(* Two seconds after the last show the module's tick fades the display out; *)
(* every turn of the loop starts the fade again, so it ends when a frame   *)
(* comes later than its duration.                                          *)
OsdHide == osd.visible /\ osd' = [osd EXCEPT !.visible = FALSE]
           /\ UNCHANGED <<pwServer, pwInbox, toPw, pw, volPanel, volDirty, volWork>>

PaintPanel ==
    /\ volDirty /\ volDirty' = FALSE
    /\ volPanel' = IF volPanel.open THEN [volPanel EXCEPT !.painted = LevelsOf(pw)] ELSE volPanel
    /\ UNCHANGED <<pwServer, pwInbox, toPw, pw, osd, volWork>>

-----------------------------------------------------------------------------
(* The user.                                                               *)
Input == volWork.inputs < MaxInputs /\ volWork' = [volWork EXCEPT !.inputs = @ + 1]

(* The level changes at once; the request follows.                         *)
SetNode(id, level) ==
    IF id = 0 \/ pw.nodes[id] = NoNode THEN UNCHANGED <<pw, toPw>>
    ELSE /\ pw' = [pw EXCEPT !.nodes[id].level = level, !.changed = @ \union Reports(pw, id)]
         /\ toPw' = Append(toPw, [op |-> "level", id |-> id, level |-> level])

TagId(tag) == IF tag.kind = "stream" THEN tag.id ELSE pw.id[tag.kind]

Toggle ==
    /\ Input /\ volDirty' = TRUE
    /\ volPanel' = [volPanel EXCEPT !.open = ~@, !.selected = NoTag]
    /\ UNCHANGED <<pwServer, pwInbox, toPw, pw, osd>>

DragSlider(tag, level) ==
    /\ Input /\ volPanel.open /\ volDirty' = TRUE
    /\ volPanel' = [volPanel EXCEPT !.selected = tag]
    /\ SetNode(TagId(tag), level)
    /\ UNCHANGED <<pwServer, pwInbox, osd>>

MuteToggle(tag) ==
    LET id == TagId(tag)
    IN  /\ Input /\ volPanel.open /\ volDirty' = TRUE
        /\ SetNode(id, IF id = 0 THEN 0 ELSE 1 - pw.nodes[id].level)
        /\ UNCHANGED <<pwServer, pwInbox, volPanel, osd>>

ArrowKey(level) ==
    /\ Input /\ volPanel.open /\ volPanel.selected # NoTag /\ volDirty' = TRUE
    /\ SetNode(TagId(volPanel.selected), level)
    /\ UNCHANGED <<pwServer, pwInbox, volPanel, osd>>

(* The wheel over the bar's pill asks for no frame.                        *)
Wheel(level) ==
    /\ Input /\ SetNode(pw.id["sink"], level)
    /\ UNCHANGED <<pwServer, pwInbox, volPanel, volDirty, osd>>

DeviceSelect(id) ==
    /\ Input /\ volPanel.open /\ volDirty' = TRUE
    /\ toPw' = IF pw.nodes[id].kind \in Kinds
               THEN Append(toPw, [op |-> "default", kind |-> pw.nodes[id].kind,
                                  name |-> pw.nodes[id].name])
               ELSE toPw
    /\ UNCHANGED <<pwServer, pwInbox, pw, volPanel, osd>>

-----------------------------------------------------------------------------
(* The server.  An id is not given again while anything about it is under  *)
(* way, and a node comes with its volume up: the shell takes a new node to *)
(* be at zero until it hears.                                              *)
Turn == volWork.turns < MaxTurns /\ volWork' = [volWork EXCEPT !.turns = @ + 1]
        /\ UNCHANGED <<toPw, pw, volPanel, volDirty, osd>>
Says(s, ev) == pwServer' = s /\ pwInbox' = Append(pwInbox, ev)
About(id, q) == \E i \in DOMAIN q : "id" \in DOMAIN q[i] /\ q[i].id = id
Alive(kind) == {pwServer.nodes[i].name : i \in {j \in Ids : pwServer.nodes[j].kind = kind}}
Elected(k) == IF Alive(k) = {} THEN pwServer.default[k] = "" ELSE pwServer.default[k] \in Alive(k)

Appears(id, kind, name) ==
    /\ Turn
    /\ pwServer.nodes[id] = NoNode /\ name \in Named(kind) \ Alive(kind)
    /\ ~About(id, pwInbox) /\ ~About(id, toPw)
    /\ Says([pwServer EXCEPT !.nodes[id] = [kind |-> kind, name |-> name, level |-> 1]],
            [op |-> "global", id |-> id, kind |-> kind, name |-> name])

Vanishes(id) ==
    /\ Turn /\ pwServer.nodes[id] # NoNode
    /\ Says([pwServer EXCEPT !.nodes[id] = NoNode, !.bound = @ \ {id}],
            [op |-> "remove", id |-> id])

ElsewhereSet(id) ==
    /\ Turn /\ id \in pwServer.bound
    /\ LET level == 1 - pwServer.nodes[id].level
       IN  Says([pwServer EXCEPT !.nodes[id].level = level],
                [op |-> "param", id |-> id, level |-> level])

Elect(k) ==
    /\ ~Elected(k)
    /\ \E name \in IF Alive(k) = {} THEN {""} ELSE Alive(k) :
         Says([pwServer EXCEPT !.default[k] = name], [op |-> "meta", kind |-> k, name |-> name])
    /\ UNCHANGED <<toPw, pw, volPanel, volDirty, osd, volWork>>

(* A bind is answered with the parameters, a change with an event if it    *)
(* changes anything; requests about a node that is gone are dropped.       *)
Serve ==
    /\ toPw # <<>> /\ toPw' = Tail(toPw)
    /\ LET rq == Head(toPw)
       IN  IF rq.op = "default"
           THEN IF rq.name \in Alive(rq.kind) /\ rq.name # pwServer.default[rq.kind]
                THEN Says([pwServer EXCEPT !.default[rq.kind] = rq.name],
                          [op |-> "meta", kind |-> rq.kind, name |-> rq.name])
                ELSE UNCHANGED <<pwServer, pwInbox>>
           ELSE IF pwServer.nodes[rq.id] = NoNode THEN UNCHANGED <<pwServer, pwInbox>>
           ELSE IF rq.op = "bind"
           THEN Says([pwServer EXCEPT !.bound = @ \union {rq.id}],
                     [op |-> "param", id |-> rq.id, level |-> pwServer.nodes[rq.id].level])
           ELSE IF pwServer.nodes[rq.id].level = rq.level THEN UNCHANGED <<pwServer, pwInbox>>
           ELSE Says([pwServer EXCEPT !.nodes[rq.id].level = rq.level],
                     [op |-> "param", id |-> rq.id, level |-> rq.level])
    /\ UNCHANGED <<pw, volPanel, volDirty, osd, volWork>>

Next ==
    \/ PipewirePoll \/ OsdHide \/ PaintPanel
    \/ Toggle \/ Serve
    \/ \E tag \in Tags(pw) :
         MuteToggle(tag) \/ \E level \in Levels : DragSlider(tag, level)
    \/ \E level \in Levels : ArrowKey(level) \/ Wheel(level)
    \/ \E id \in Ids : DeviceSelect(id) \/ Vanishes(id) \/ ElsewhereSet(id)
    \/ \E id \in Ids, kind \in Kinds \union {"stream"} :
         \E name \in Named(kind) : Appears(id, kind, name)
    \/ \E k \in Kinds : Elect(k)

Spec == Init /\ [][Next]_vars

-----------------------------------------------------------------------------
TypeOK ==
    /\ \A i \in Ids : pw.nodes[i].level \in Levels
    /\ pw.id \in [Kinds -> 0..MaxIds] /\ pw.changed \subseteq Kinds
    /\ volPanel.open \in BOOLEAN /\ volPanel.painted \in [Kinds -> Levels]
    /\ volDirty \in BOOLEAN /\ pwServer.bound \subseteq Present(pwServer.nodes)
    /\ osd.visible \in BOOLEAN /\ osd.level \in Levels /\ osd.kind \in Kinds

(* The default of each kind is the node the shell knows by the default's   *)
(* name, whichever of the two came first, and no node once that one is     *)
(* gone, even when its id is given to another.                             *)
DefaultResolved == \A k \in Kinds : pw.id[k] = IF pw.name[k] = "" THEN 0 ELSE IdOf(pw, k, pw.name[k])

(* Once nothing is under way the shell agrees with the server on every     *)
(* level and default, an open panel shows them, and the display, if it is  *)
(* there, shows the last level of what it is about.                        *)
Settles ==
    (pwInbox = <<>> /\ toPw = <<>> /\ ~volDirty /\ (\A k \in Kinds : Elected(k)))
      => /\ pw.nodes = pwServer.nodes
         /\ pw.name = pwServer.default
         /\ volPanel.open => volPanel.painted = LevelsOf(pw)
         /\ osd.visible => osd.level = LevelOf(pw, osd.kind)
=============================================================================
