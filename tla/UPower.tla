------------------------------- MODULE UPower -------------------------------
(* The UPower service, the battery pill and the battery panel.  Every sign *)
(* of a change is answered by reading all properties of the object again,  *)
(* so several reads may be under way at once; devices come and go, and     *)
(* what the proxy of a device that went had asked for is answered to       *)
(* nobody.  UPower answers in order and signals every change.  No device   *)
(* comes or goes while upower_init runs: it subscribes to DeviceAdded only *)
(* after it has enumerated the devices, and would miss one that came in    *)
(* between.                                                                *)
EXTENDS Naturals, Sequences, FiniteSets

CONSTANTS
    SystemBatteries,   \* devices of the type "battery"
    Peripherals,       \* mice, keyboards and the like with a battery
    MaxPowerChanges    \* bound: changes of what UPower exports

VARIABLES
    upowerd,     \* what UPower exports
    upCalls,     \* GetAll calls on their way to UPower
    upInbox,     \* replies and signals on their way to the shell
    upower,      \* UpowerState
    battery,     \* the last frame of the pill and of the open panel
    upWork       \* changes left

vars == <<upowerd, upCalls, upInbox, upower, battery, upWork>>

Paths == SystemBatteries \union Peripherals
Levels == {"low", "full"}
Supplies == {"mains", "battery"}
Absent == "absent"          \* no such device
Blank == "blank"            \* a registered device nothing was read of yet
Objects == Paths \union {"display", "manager"}
Nobody == "nobody"          \* who awaits what a proxy that is gone has asked for

Init ==
    /\ upowerd \in [display : Levels, supply : Supplies, devices : [Paths -> {"low", Absent}]]
    /\ upower = [display |-> Absent, supply |-> "mains", dirty |-> FALSE,
                 devices |-> [p \in Paths |-> IF upowerd.devices[p] = Absent THEN Absent
                                              ELSE Blank]]
    /\ LET listed == {p \in Paths : upower.devices[p] = Blank}
       IN  \E order \in [1..Cardinality(listed) -> listed] :
              /\ \A p \in listed : \E i \in DOMAIN order : order[i] = p
              /\ upCalls = Append(Append(order, "display"), "manager")
    /\ upInbox = <<>>
    /\ battery = [pill |-> Absent, rows |-> <<>>, due |-> TRUE]
    /\ upWork = MaxPowerChanges
-----------------------------------------------------------------------------
Batteries(u) == {p \in Paths : u.devices[p] \in Levels}
AllFull(u) == u.supply = "mains" /\ \A p \in Batteries(u) : u.devices[p] = "full"

Rows(u) ==
    <<Batteries(u) \intersect SystemBatteries # {},
      IF AllFull(u) THEN {} ELSE {<<p, u.devices[p]>> : p \in Batteries(u)},
      AllFull(u)>>

RefreshDevice(u, p) ==
    upCalls' = IF u.devices[p] = Absent THEN upCalls ELSE Append(upCalls, p)

\* What the answer to a read changes; a device is looked up by its path.
Refreshed(u, reply) ==
    CASE reply.of = "display" ->
           [u EXCEPT !.display = reply.value, !.dirty = @ \/ reply.value # u.display]
      [] reply.of = "manager" -> [u EXCEPT !.supply = reply.value, !.dirty = TRUE]
      [] reply.of \in Paths ->
           IF u.devices[reply.of] = Absent THEN u
           ELSE [u EXCEPT !.devices[reply.of] = reply.value, !.dirty = TRUE]
      [] reply.of = Nobody -> u

Unreadable(reply) == reply.of \in Paths /\ reply.value = Absent

Reply ==
    /\ upInbox # <<>> /\ Head(upInbox).kind = "reply"
    /\ upower' = IF Unreadable(Head(upInbox)) THEN upower
                 ELSE Refreshed(upower, Head(upInbox))
    /\ upInbox' = Tail(upInbox)
    /\ UNCHANGED <<upCalls, upowerd, battery, upWork>>

PropertiesChanged ==
    /\ upInbox # <<>> /\ Head(upInbox).kind = "changed"
    /\ LET o == Head(upInbox).of
       IN  IF o \in Paths THEN RefreshDevice(upower, o) ELSE upCalls' = Append(upCalls, o)
    /\ upInbox' = Tail(upInbox)
    /\ UNCHANGED <<upower, upowerd, battery, upWork>>

DeviceAdded ==
    /\ upInbox # <<>> /\ Head(upInbox).kind = "added"
    /\ LET p == Head(upInbox).of
       IN  IF upower.devices[p] # Absent THEN UNCHANGED <<upower, upCalls>>
           ELSE /\ upower' = [upower EXCEPT !.devices[p] = Blank]
                /\ RefreshDevice(upower', p)
    /\ upInbox' = Tail(upInbox)
    /\ UNCHANGED <<upowerd, battery, upWork>>

RemovedQuietly(u, p) == [u EXCEPT !.devices[p] = Absent]   \* mutant: no redraw

\* The entry goes, and its proxy with it.
Removed(u, p) ==
    [u EXCEPT !.devices[p] = Absent, !.dirty = @ \/ u.devices[p] # Absent]

Message(kind, o) == [kind |-> kind, of |-> o, value |-> Absent]

DeviceRemoved ==
    /\ upInbox # <<>> /\ Head(upInbox).kind = "removed"
    /\ LET p == Head(upInbox).of
           rest == Tail(upInbox)
       IN  /\ upower' = Removed(upower, p)
           /\ upInbox' = [i \in DOMAIN rest |->
                             IF rest[i].kind = "reply" /\ rest[i].of = p
                             THEN Message("reply", Nobody) ELSE rest[i]]
           /\ upCalls' = [i \in DOMAIN upCalls |->
                             IF upCalls[i] = p THEN Nobody ELSE upCalls[i]]
    /\ UNCHANGED <<upowerd, battery, upWork>>

\* The poll source handles what has come, then has every monitor redrawn.
Redraw ==
    /\ upower.dirty
    /\ upower' = [upower EXCEPT !.dirty = FALSE]
    /\ battery' = [battery EXCEPT !.due = TRUE]
    /\ UNCHANGED <<upowerd, upCalls, upInbox, upWork>>

Paint ==
    /\ battery.due
    /\ battery' = [pill |-> upower.display, rows |-> Rows(upower), due |-> FALSE]
    /\ UNCHANGED <<upowerd, upCalls, upInbox, upower, upWork>>
-----------------------------------------------------------------------------
Answer ==
    /\ upCalls # <<>>
    /\ LET o == Head(upCalls)
           value == CASE o = "display" -> upowerd.display
                      [] o = "manager" -> upowerd.supply
                      [] o \in Paths -> upowerd.devices[o]
                      [] o = Nobody -> Absent
       IN  upInbox' = Append(upInbox, [kind |-> "reply", of |-> o, value |-> value])
    /\ upCalls' = Tail(upCalls)
    /\ UNCHANGED <<upowerd, upower, battery, upWork>>

Exports(change, signal) ==
    /\ upWork > 0 /\ upWork' = upWork - 1
    /\ upowerd' = change
    /\ upInbox' = Append(upInbox, signal)
    /\ UNCHANGED <<upCalls, upower, battery>>

Charges(p) ==
    /\ upowerd.devices[p] # Absent
    /\ Exports([upowerd EXCEPT !.devices[p] = IF @ = "low" THEN "full" ELSE "low"],
               Message("changed", p))

DisplayChanges ==
    Exports([upowerd EXCEPT !.display = IF @ = "low" THEN "full" ELSE "low"],
            Message("changed", "display"))

PluggedIn ==
    Exports([upowerd EXCEPT !.supply = IF @ = "mains" THEN "battery" ELSE "mains"],
            Message("changed", "manager"))

Appears(p) ==
    /\ upowerd.devices[p] = Absent
    /\ Exports([upowerd EXCEPT !.devices[p] = "low"], Message("added", p))

Disappears(p) ==
    /\ upowerd.devices[p] # Absent
    /\ Exports([upowerd EXCEPT !.devices[p] = Absent], Message("removed", p))

Next ==
    \/ Reply \/ PropertiesChanged \/ DeviceAdded \/ DeviceRemoved
    \/ Redraw \/ Paint \/ Answer \/ DisplayChanges \/ PluggedIn
    \/ \E p \in Paths : Charges(p) \/ Appears(p) \/ Disappears(p)

Spec == Init /\ [][Next]_vars
-----------------------------------------------------------------------------
TypeOK ==
    /\ upowerd \in [display : Levels, supply : Supplies, devices : [Paths -> Levels \union {Absent}]]
    /\ upCalls \in Seq(Objects \union {Nobody})
    /\ upInbox \in Seq([kind : {"reply", "changed", "added", "removed"},
                        of : Objects \union {Nobody},
                        value : Levels \union Supplies \union {Absent}])
    /\ upower \in [display : Levels \union {Absent}, supply : Supplies, dirty : BOOLEAN,
                   devices : [Paths -> Levels \union {Absent, Blank}]]
    /\ battery \in [pill : Levels \union {Absent}, due : BOOLEAN,
                   rows : {<<>>} \union (BOOLEAN \X (SUBSET (Paths \X Levels)) \X BOOLEAN)]
    /\ upWork \in 0..MaxPowerChanges

\* Once every message is read and every frame is drawn, the pill and the panel
\* show what UPower exports, however reads, changes and devices that come and
\* go crossed each other.
Settles ==
    upCalls = <<>> /\ upInbox = <<>> /\ ~upower.dirty /\ ~battery.due =>
        /\ battery.pill = upowerd.display
        /\ battery.rows = Rows(upowerd)
=============================================================================
