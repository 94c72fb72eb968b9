----------------------------- MODULE Bluetooth -----------------------------
(* The Bluetooth service and its panel.  The service keeps a copy of the   *)
(* objects BlueZ exports and refreshes it by polling; the panel draws rows *)
(* from the copy, and its buttons send requests nobody waits for.  BlueZ   *)
(* answers in the order it was asked, but what it exports may change       *)
(* between a snapshot and its arrival, and adapters come and go.           *)
EXTENDS Naturals, Sequences, FiniteSets

CONSTANTS
    Adapters,     \* adapters that may be plugged in, in object path order
    Devices,      \* remote devices
    MaxChanges,   \* changes of what BlueZ exports
    MaxClicks,    \* clicks of the user
    MaxTraffic    \* requests under way

VARIABLES
    bluez,     \* what BlueZ exports
    asked,     \* requests on their way to BlueZ, in order
    told,      \* the reply on its way to the shell, if any
    bt,        \* BluetoothState
    btPanel,   \* BluetoothPanelState, with what its last frame showed
    stale,     \* BlueZ changed after the snapshot it delivered last
    btWork     \* changes and clicks so far

vars == <<bluez, asked, told, bt, btPanel, stale, btWork>>

None == 0                                    \* no adapter path, no proxy
Error == [adapter |-> "error"]               \* a refresh that failed
Lowest(S) == CHOOSE a \in S : \A b \in S : a <= b

(* A managed-objects reply: the first adapter with its properties, and the *)
(* state of every device; a device BlueZ does not know is "gone".          *)
Objects ==
    LET first == IF bluez.adapters = {} THEN None ELSE Lowest(bluez.adapters)
    IN  [adapter |-> first, powered |-> first \in bluez.powered,
         scanning |-> first \in bluez.discovering, devices |-> bluez.devices]

Rows(b) ==
    [present |-> b.present, powered |-> b.powered, busy |-> b.connecting,
     devices |-> [d \in Devices |->
         IF b.present /\ b.powered /\ (b.devices[d] # "nearby" \/ b.scanning)
         THEN b.devices[d] ELSE "gone"]]

AppliedFollowsPath(b, o) ==      \* mutant: the proxy is replaced with the path
    [b EXCEPT !.present = o.adapter # None, !.path = o.adapter, !.proxy = o.adapter,
              !.powered = o.powered, !.scanning = o.scanning,
              !.devices = o.devices, !.connecting = {}]
Applied(b, o) ==
    LET there == o.adapter # None
    IN  [b EXCEPT !.present = there, !.path = o.adapter,
                  !.proxy = IF there THEN @ ELSE None,
                  !.powered = IF there THEN o.powered ELSE @,
                  !.scanning = IF there THEN o.scanning ELSE @,
                  !.devices = o.devices, !.connecting = {}]

Shown(b) == [b EXCEPT !.path = None, !.proxy = None, !.due = FALSE]
DirtyIgnoresBusy(b, o) ==        \* mutant: rows are compared without "connecting"
    Shown(Applied(b, o)) # [Shown(b) EXCEPT !.connecting = {}]
Dirty(b, o) == Shown(Applied(b, o)) # Shown(b)

NoDevice == [d \in Devices |-> "gone"]
Blank == [present |-> FALSE, powered |-> FALSE, scanning |-> FALSE,
          path |-> None, proxy |-> None, devices |-> NoDevice,
          connecting |-> {}, due |-> TRUE]

(* The panel starts closed, or opened a while ago: then the first adapter  *)
(* is already discovering.                                                 *)
InitBlueZ(open) ==
    bluez \in {[adapters |-> as, powered |-> Adapters,
                discovering |-> IF open /\ as # {} THEN {Lowest(as)} ELSE {},
                devices |-> [d \in Devices |-> "paired"]] : as \in SUBSET Adapters}
InitService(open) ==
    LET b == Applied(Blank, Objects)
    IN  bt = [b EXCEPT !.proxy = IF open THEN b.path ELSE None]
Init ==
    \E open \in BOOLEAN :
        /\ InitBlueZ(open)
        /\ asked = <<>> /\ told = <<>>
        /\ InitService(open)
        /\ btPanel = [open |-> open, sub |-> <<>>, redraw |-> FALSE, rows |-> Rows(bt)]
        /\ stale = FALSE
        /\ btWork = [changes |-> 0, clicks |-> 0]

-----------------------------------------------------------------------------
(* Every request needs the adapter's proxy, created once and kept until a  *)
(* refresh finds no adapter at all.                                         *)
ProxyOf(b) == IF ~b.present THEN None ELSE IF b.proxy # None THEN b.proxy ELSE b.path
WithProxy(b) == [b EXCEPT !.proxy = IF b.present THEN ProxyOf(b) ELSE @]
Ask(op, on) == asked' = Append(asked, [op |-> op, on |-> on])
AskAdapter(op) ==
    IF bt.present THEN Ask(op, ProxyOf(bt)) ELSE UNCHANGED asked

BluetoothTick ==
    /\ bt.due /\ Len(asked) < MaxTraffic
    /\ bt' = [bt EXCEPT !.due = FALSE]
    /\ Ask("get", None)
    /\ UNCHANGED <<bluez, told, btPanel, stale, btWork>>

(* One second after the last refresh, or when a signal says that objects   *)
(* were added or removed.                                                  *)
RefreshDue ==
    /\ ~bt.due
    /\ bt' = [bt EXCEPT !.due = TRUE]
    /\ UNCHANGED <<bluez, asked, told, btPanel, stale, btWork>>

ApplyManagedObjects(o) ==
    /\ bt' = Applied(bt, o)
    /\ btPanel' = [btPanel EXCEPT !.redraw = @ \/ Dirty(bt, o)]

(* An error leaves the copy alone.                                         *)
HearBlueZ ==
    /\ told # <<>>
    /\ told' = Tail(told)
    /\ \/ Head(told) # Error /\ ApplyManagedObjects(Head(told))
       \/ Head(told) = Error /\ UNCHANGED <<bt, btPanel>>
    /\ UNCHANGED <<bluez, asked, stale, btWork>>

-----------------------------------------------------------------------------
Clicked ==
    /\ btWork.clicks < MaxClicks
    /\ btWork' = [btWork EXCEPT !.clicks = @ + 1]
    /\ Len(asked) < MaxTraffic
    /\ UNCHANGED <<bluez, told, stale>>

Redrawn(p) == [p EXCEPT !.redraw = TRUE]

Toggle ==
    /\ Clicked
    /\ btPanel' = Redrawn([btPanel EXCEPT !.open = ~@, !.sub = <<>>])
    /\ AskAdapter(IF btPanel.open THEN "stop" ELSE "start")
    /\ bt' = WithProxy(bt)

(* Turning it on is given up when a switch blocks the radio.               *)
SetPowered ==
    /\ Clicked /\ btPanel.open /\ btPanel.rows.present
    /\ \/ /\ AskAdapter(IF bt.powered THEN "off" ELSE "on")
          /\ bt' = [WithProxy(bt) EXCEPT !.due = @ \/ bt.present]
       \/ ~bt.powered /\ bt' = WithProxy(bt) /\ UNCHANGED asked
    /\ btPanel' = Redrawn(btPanel)

(* The row was drawn from an older list: its device is looked up again.    *)
ClickRow(d) ==
    /\ Clicked /\ btPanel.open
    /\ btPanel.rows.devices[d] # "gone" /\ d \notin btPanel.rows.busy
    /\ CASE bt.devices[d] = "gone" -> UNCHANGED <<asked, bt>> /\ btPanel' = Redrawn(btPanel)
         [] bt.devices[d] = "connected" ->
              /\ btPanel' = Redrawn([btPanel EXCEPT !.sub = <<"disconnect", d>>])
              /\ UNCHANGED <<asked, bt>>
         [] bt.devices[d] \in {"paired", "nearby"} ->
              /\ Ask(IF bt.devices[d] = "paired" THEN "connect" ELSE "pair", d)
              /\ bt' = [bt EXCEPT !.connecting = @ \union {d}]
              /\ btPanel' = Redrawn(btPanel)

ClickForget(d) ==
    /\ Clicked /\ btPanel.open
    /\ btPanel.rows.devices[d] = "paired" /\ d \notin btPanel.rows.busy
    /\ btPanel' = Redrawn([btPanel EXCEPT !.sub = <<"forget", d>>])
    /\ UNCHANGED <<asked, bt>>

SubConfirm ==
    /\ Clicked /\ btPanel.open /\ btPanel.sub # <<>>
    /\ IF btPanel.sub[1] = "disconnect"
       THEN Ask("disconnect", btPanel.sub[2]) /\ UNCHANGED bt
       ELSE /\ IF bt.present THEN Ask("remove", btPanel.sub[2]) ELSE UNCHANGED asked
            /\ bt' = WithProxy(bt)
    /\ btPanel' = Redrawn([btPanel EXCEPT !.sub = <<>>])

SubCancel ==
    /\ Clicked /\ btPanel.open /\ btPanel.sub # <<>>
    /\ btPanel' = Redrawn([btPanel EXCEPT !.sub = <<>>])
    /\ UNCHANGED <<asked, bt>>

Paint ==
    /\ btPanel.redraw
    /\ btPanel' = [btPanel EXCEPT !.redraw = FALSE,
                                  !.rows = IF btPanel.open THEN Rows(bt) ELSE @]
    /\ UNCHANGED <<bluez, asked, told, bt, stale, btWork>>

-----------------------------------------------------------------------------
(* BlueZ: it serves requests in order, and its objects change by themselves. *)
After(r) ==
    CASE r.op = "on" /\ r.on \in bluez.adapters ->
           [bluez EXCEPT !.powered = @ \union {r.on}]
      [] r.op = "off" /\ r.on \in bluez.adapters ->
           [bluez EXCEPT !.powered = @ \ {r.on}, !.discovering = @ \ {r.on}]
      [] r.op = "start" /\ r.on \in bluez.adapters \intersect bluez.powered ->
           [bluez EXCEPT !.discovering = @ \union {r.on}]
      [] r.op = "stop" -> [bluez EXCEPT !.discovering = @ \ {r.on}]
      [] r.op \in {"connect", "pair"} /\ bluez.devices[r.on] # "gone" ->
           [bluez EXCEPT !.devices[r.on] = "connected"]
      [] r.op = "disconnect" /\ bluez.devices[r.on] = "connected" ->
           [bluez EXCEPT !.devices[r.on] = "paired"]
      [] r.op = "remove" -> [bluez EXCEPT !.devices[r.on] = "gone"]
      [] OTHER -> bluez

Fallible == {"on", "start", "connect", "pair"}   \* a radio, a peer or rfkill may refuse

Serve ==
    /\ asked # <<>> /\ told = <<>>
    /\ LET r == Head(asked)
       IN  \/ /\ r.op = "get"
              /\ told' = Append(told, Objects)
              /\ stale' = FALSE
              /\ UNCHANGED bluez
           \/ /\ r.op # "get"
              /\ \E b \in IF r.op \in Fallible THEN {After(r), bluez} ELSE {After(r)} :
                    /\ bluez' = b
                    /\ stale' = (stale \/ b # bluez)
              /\ UNCHANGED told
    /\ asked' = Tail(asked)
    /\ UNCHANGED <<bt, btPanel, btWork>>

ServeFails ==
    /\ asked # <<>> /\ Head(asked).op = "get" /\ told = <<>>
    /\ asked' = Tail(asked)
    /\ told' = Append(told, Error)
    /\ UNCHANGED <<bluez, bt, btPanel, stale, btWork>>

World(b) ==
    /\ btWork.changes < MaxChanges
    /\ btWork' = [btWork EXCEPT !.changes = @ + 1]
    /\ bluez' = b /\ b # bluez /\ stale' = TRUE
    /\ UNCHANGED <<asked, told, bt, btPanel>>

(* Plugging in takes longer than the messages under way.                   *)
AdapterChanges(a) ==
    /\ a \in bluez.adapters \/ (asked = <<>> /\ told = <<>>)
    /\ World(IF a \in bluez.adapters
             THEN [bluez EXCEPT !.adapters = @ \ {a}, !.discovering = @ \ {a},
                                !.devices = IF bluez.adapters = {a} THEN NoDevice ELSE @]
             ELSE [bluez EXCEPT !.adapters = @ \union {a}])

DeviceChanges(d) ==
    /\ bluez.adapters # {}
    /\ \E s \in {"gone", "nearby", "paired", "connected"} :
          World([bluez EXCEPT !.devices[d] = s])

Next ==
    \/ BluetoothTick \/ RefreshDue \/ HearBlueZ
    \/ Toggle \/ SetPowered \/ SubConfirm \/ SubCancel \/ Paint
    \/ \E d \in Devices : ClickRow(d) \/ ClickForget(d)
    \/ Serve \/ ServeFails
    \/ \E a \in Adapters : AdapterChanges(a)
    \/ \E d \in Devices : DeviceChanges(d)

Spec == Init /\ [][Next]_vars

-----------------------------------------------------------------------------
DeviceStates == [Devices -> {"gone", "nearby", "paired", "connected"}]
TypeOK ==
    /\ bluez \in [adapters : SUBSET Adapters, powered : SUBSET Adapters,
                  discovering : SUBSET Adapters, devices : DeviceStates]
    /\ Len(asked) <= MaxTraffic /\ Len(told) <= 1
    /\ bt \in [present : BOOLEAN, powered : BOOLEAN, scanning : BOOLEAN,
               path : Adapters \union {None}, proxy : Adapters \union {None},
               devices : DeviceStates, connecting : SUBSET Devices, due : BOOLEAN]
    /\ btPanel.open \in BOOLEAN /\ btPanel.redraw \in BOOLEAN /\ stale \in BOOLEAN

(* Once the last snapshot is in and nothing changed since, the panel shows *)
(* what BlueZ has: no reply overtook another, no optimistic "connecting"   *)
(* or removed device survives, and a change always asked for a frame.      *)
Quiet == asked = <<>> /\ told = <<>> /\ ~stale /\ ~btPanel.redraw
Settles ==
    Quiet =>
        /\ Shown(Applied(bt, Objects)) = [Shown(bt) EXCEPT !.connecting = {}]
        /\ btPanel.open => btPanel.rows = Rows(bt)

(* A closed panel leaves no adapter discovering: every start is followed   *)
(* by a stop to the same adapter, even if adapters changed in between.     *)
DiscoveryFollowsPanel ==
    asked = <<>> /\ bluez.discovering # {} => btPanel.open
=============================================================================
