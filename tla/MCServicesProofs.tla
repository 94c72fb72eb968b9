-------------------------- MODULE MCServicesProofs --------------------------
(***************************************************************************)
(* Proofs about the guests of MCServices that ServicesProofs leaves, and   *)
(* the theorems about MCSpec: since a step of one part leaves the          *)
(* variables of the others alone, the inductive invariant of each part     *)
(* holds while that part runs.                                             *)
(***************************************************************************)
EXTENDS ServicesProofs

-----------------------------------------------------------------------------
(* Bluetooth.  The shell's copy mirrors what BlueZ exports unless BlueZ    *)
(* changed since; discovery runs on the proxy's adapter only, and once the *)
(* panel is closed a stop to it is under way, after every start.           *)
BtAdapter == Adapters \union {BT!None}
Copies == [present : BOOLEAN, powered : BOOLEAN, scanning : BOOLEAN,
           path : BtAdapter, proxy : BtAdapter, devices : BT!DeviceStates,
           connecting : SUBSET Devices, due : BOOLEAN]
Snapshots == [adapter : BtAdapter, powered : BOOLEAN, scanning : BOOLEAN,
              devices : BT!DeviceStates]
Replies == Snapshots \union {BT!Error}
BtOps == {"get", "start", "stop", "on", "off", "connect", "disconnect", "pair", "remove"}
BtRequests == [op : BtOps, on : BtAdapter \union Devices]
BtPanels == [open : BOOLEAN, sub : {<<>>} \union ({"disconnect", "forget"} \X Devices),
             redraw : BOOLEAN,
             rows : [present : BOOLEAN, powered : BOOLEAN, busy : SUBSET Devices,
                     devices : BT!DeviceStates]]

Starts == {r \in BtRequests : r.op = "start"}
Strays(p) == {r \in Starts : r.on # p \/ p = BT!None}       \* starts to another than p
Stops(p) == {r \in BtRequests : r.op = "stop" /\ r.on = p}
NoAdapter == {o \in Snapshots : o.adapter = BT!None}
SomeAdapter == {o \in Snapshots : o.adapter # BT!None}

\* The last word of q about both sets is of A.
Halted(q, A, B) ==
    \E i \in 1..Len(q) : q[i] \in A /\ \A j \in 1..Len(q) : j > i => q[j] \notin B

BtTyped ==
    /\ asked \in Seq(BtRequests) /\ told \in Seq(Replies)
    /\ btPanel \in BtPanels /\ btWork \in [changes : Nat, clicks : Nat]

\* An open panel that owes no frame shows the copy.
BtPainted == btPanel.open /\ ~btPanel.redraw => btPanel.rows = BT!Rows(bt)

Mirrors(o) ==
    /\ bt.present <=> o.adapter # BT!None
    /\ bt.present => bt.powered = o.powered /\ bt.scanning = o.scanning
    /\ bt.devices = o.devices

\* Unless BlueZ changed since, its last snapshot is on its way or applied.
BtMirrors ==
    ~stale => IF told # <<>> /\ Head(told) # BT!Error THEN Head(told) = BT!Objects
              ELSE Mirrors(BT!Objects)

\* Discovery runs, and is being started, on the adapter of the proxy only;
\* BlueZ has no adapter when the shell is told, or was told, that there is none.
BtStarts ==
    /\ bluez.discovering \subseteq bluez.adapters
    /\ bt.present <=> bt.path # BT!None
    /\ ~Without(told, NoAdapter) => bluez.adapters = {}
    /\ ~bt.present => /\ bt.proxy = BT!None /\ bluez.discovering = {}
                      /\ \/ Without(asked, Starts)
                         \/ bluez.adapters = {} /\ Without(told, SomeAdapter)
    /\ bt.present => bluez.discovering \subseteq {bt.proxy} /\ Without(asked, Strays(bt.proxy))

\* A closed panel stopped what it started.
BtStops ==
    bt.present /\ ~btPanel.open => \/ bluez.discovering = {} /\ Without(asked, Starts)
                                   \/ Halted(asked, Stops(bt.proxy), Starts)

BtInv == BT!TypeOK /\ BtTyped /\ BtPainted /\ BtMirrors /\ BtStarts /\ BtStops

\* The numbers of the bluetooth guest, by themselves.
LEMMA BtNumbers == MaxTraffic \in Nat /\ Adapters \subseteq Nat \ {0} /\ BT!None \notin Adapters
  BY ServicesAssumption DEF BT!None

\* A failed refresh is no snapshot.
LEMMA BtErrors == \A o \in Snapshots : o # BT!Error
<1> SUFFICES ASSUME NEW o \in Snapshots, o = BT!Error PROVE FALSE
  OBVIOUS
<1>1. "powered" \in DOMAIN o
  BY DEF Snapshots
<1>2. "powered" \notin DOMAIN BT!Error
  BY DEF BT!Error
<1> QED
  BY <1>1, <1>2

\* The lowest adapter is one of them.
LEMMA LowestIsOne ==
    ASSUME NEW S, S \subseteq Adapters, S # {}
    PROVE  BT!Lowest(S) \in S
<1>1. S \subseteq Nat
  BY BtNumbers
<1>2. \E m \in S : \A k \in S : m <= k
  BY <1>1, Least
<1> QED
  BY <1>2 DEF BT!Lowest

\* What BlueZ answers: an adapter unless there is none.
LEMMA BtObjects ==
    ASSUME BT!TypeOK
    PROVE  /\ BT!Objects \in Snapshots /\ BT!Objects.devices = bluez.devices
           /\ BT!Objects.adapter = BT!None <=> bluez.adapters = {}
<1> DEFINE first == IF bluez.adapters = {} THEN BT!None ELSE BT!Lowest(bluez.adapters)
<1>1. /\ bluez.adapters \subseteq Adapters /\ bluez.devices \in BT!DeviceStates
  BY DEF BT!TypeOK
<1>2. first \in BtAdapter /\ (first = BT!None <=> bluez.adapters = {})
  BY <1>1, LowestIsOne, BtNumbers DEF BtAdapter
<1>3. PICK p \in BOOLEAN, s \in BOOLEAN :
         (p <=> first \in bluez.powered) /\ (s <=> first \in bluez.discovering)
  OBVIOUS
<1>4. BT!Objects = [adapter |-> first, powered |-> p, scanning |-> s, devices |-> bluez.devices]
  BY <1>3 DEF BT!Objects
<1> HIDE DEF first
<1> QED
  BY <1>1, <1>2, <1>4 DEF Snapshots

\* What a refresh leaves.
LEMMA BtApplied ==
    ASSUME NEW b \in Copies, NEW o \in Snapshots
    PROVE  LET n == BT!Applied(b, o)
           IN  /\ n \in Copies
               /\ n.present <=> o.adapter # BT!None
               /\ n.path = o.adapter /\ n.devices = o.devices /\ n.connecting = {}
               /\ n.proxy = IF o.adapter # BT!None THEN b.proxy ELSE BT!None
               /\ n.powered = IF o.adapter # BT!None THEN o.powered ELSE b.powered
               /\ n.scanning = IF o.adapter # BT!None THEN o.scanning ELSE b.scanning
<1>1. PICK there \in BOOLEAN : there <=> o.adapter # BT!None
  OBVIOUS
<1> DEFINE proxy == IF there THEN b.proxy ELSE BT!None
           powered == IF there THEN o.powered ELSE b.powered
           scanning == IF there THEN o.scanning ELSE b.scanning
<1>2. /\ b.proxy \in BtAdapter /\ b.powered \in BOOLEAN /\ b.scanning \in BOOLEAN /\ b.due \in BOOLEAN
      /\ o.adapter \in BtAdapter /\ o.powered \in BOOLEAN /\ o.scanning \in BOOLEAN
      /\ o.devices \in BT!DeviceStates /\ BT!None \in BtAdapter
  BY DEF Copies, Snapshots, BtAdapter
<1>3. proxy \in BtAdapter /\ powered \in BOOLEAN /\ scanning \in BOOLEAN
  BY <1>2
<1>4. BT!Applied(b, o) =
        [b EXCEPT !.present = there, !.path = o.adapter, !.proxy = proxy, !.powered = powered,
                  !.scanning = scanning, !.devices = o.devices, !.connecting = {}]
  BY <1>1 DEF BT!Applied
<1> HIDE DEF proxy, powered, scanning
<1>5. BT!Applied(b, o) =
        [present |-> there, powered |-> powered, scanning |-> scanning, path |-> o.adapter,
         proxy |-> proxy, devices |-> o.devices, connecting |-> {}, due |-> b.due]
  BY <1>4 DEF Copies
<1>6. BT!Applied(b, o) \in Copies
  BY <1>2, <1>3, <1>5 DEF Copies
<1> QED
  BY <1>1, <1>5, <1>6 DEF proxy, powered, scanning

\* The fields a copy keeps when only its proxy is created or it is marked.
Alike(b, n) ==
    /\ n \in Copies /\ n.path = b.path /\ n.devices = b.devices
    /\ n.present = b.present /\ n.powered = b.powered /\ n.scanning = b.scanning
    /\ n.proxy = b.proxy \/ (b.present /\ b.proxy = BT!None /\ n.proxy = b.path)

\* A proxy is created for the path the copy has, and kept.
LEMMA BtProxied ==
    ASSUME NEW b \in Copies
    PROVE  LET n == BT!WithProxy(b)
           IN  /\ Alike(b, n) /\ n.connecting = b.connecting /\ n.due = b.due
               /\ b.present => n.proxy = BT!ProxyOf(b)
<1> DEFINE proxy == IF b.present THEN BT!ProxyOf(b) ELSE b.proxy
<1>1. proxy = b.proxy \/ (b.present /\ b.proxy = BT!None /\ proxy = b.path)
  BY DEF BT!ProxyOf
<1>2. b.path \in BtAdapter /\ b.proxy \in BtAdapter
  BY DEF Copies
<1>3. BT!WithProxy(b) = [b EXCEPT !.proxy = proxy]
  BY DEF BT!WithProxy
<1>4. b.present => proxy = BT!ProxyOf(b)
  OBVIOUS
<1> HIDE DEF proxy
<1>5. proxy \in BtAdapter
  BY <1>1, <1>2
<1> QED
  BY <1>1, <1>3, <1>4, <1>5 DEF Alike, Copies

\* Marks on a copy: what is being connected, and whether a refresh is due.
LEMMA BtMarked ==
    ASSUME NEW b \in Copies, NEW n \in Copies, Alike(b, n), NEW c \in SUBSET Devices, NEW d \in BOOLEAN
    PROVE  /\ Alike(b, [n EXCEPT !.connecting = c]) /\ Alike(b, [n EXCEPT !.due = d])
           /\ [n EXCEPT !.connecting = c].connecting = c
           /\ [n EXCEPT !.due = d].connecting = n.connecting
  BY DEF Alike, Copies

\* A word after all the others halts them; another that is not of B changes nothing.
LEMMA HaltedAppend ==
    ASSUME NEW M, NEW q \in Seq(M), NEW e \in M, NEW A, NEW B
    PROVE  /\ e \in A => Halted(Append(q, e), A, B)
           /\ Halted(q, A, B) /\ e \notin B => Halted(Append(q, e), A, B)
<1> DEFINE t == Append(q, e)
<1>1. /\ Len(q) \in Nat /\ Len(t) = Len(q) + 1 /\ t[Len(q) + 1] = e
      /\ \A i \in 1..Len(q) : t[i] = q[i]
  BY Grows
<1> HIDE DEF t
<1>2. /\ Len(q) + 1 \in 1..Len(t) /\ \A i \in 1..Len(q) : i \in 1..Len(t)
      /\ \A i \in 1..Len(t) : i = Len(q) + 1 \/ i \in 1..Len(q)
      /\ \A i \in 1..Len(t) : ~(i > Len(q) + 1)
  BY <1>1
<1>3. e \in A => Halted(t, A, B)
  BY <1>1, <1>2 DEF Halted
<1>4. ASSUME Halted(q, A, B), e \notin B PROVE Halted(t, A, B)
  <2>1. PICK i \in 1..Len(q) : q[i] \in A /\ \A j \in 1..Len(q) : j > i => q[j] \notin B
    BY <1>4 DEF Halted
  <2>2. \A j \in 1..Len(t) : j > i => t[j] \notin B
    BY <1>1, <1>2, <1>4, <2>1
  <2>3. i \in 1..Len(t) /\ t[i] \in A
    BY <1>1, <1>2, <2>1
  <2> QED
    BY <2>2, <2>3 DEF Halted
<1> QED
  BY <1>3, <1>4 DEF t

\* Without its first word, q is halted still, or was by that word.
LEMMA HaltedTail ==
    ASSUME NEW M, NEW q \in Seq(M), q # <<>>, NEW A, NEW B, Halted(q, A, B)
    PROVE  Halted(Tail(q), A, B) \/ (Head(q) \in A /\ Without(Tail(q), B))
<1> DEFINE t == Tail(q)
<1>1. /\ Len(q) \in Nat \ {0} /\ Len(t) = Len(q) - 1 /\ Head(q) = q[1]
      /\ \A i \in 1..Len(t) : t[i] = q[i + 1]
  BY Shrinks
<1> HIDE DEF t
<1>2. /\ \A i \in 1..Len(t) : i + 1 \in 1..Len(q) /\ i + 1 > 1
      /\ \A i \in 1..Len(q) : i = 1 \/ (i - 1 \in 1..Len(t) /\ t[i - 1] = q[i])
      /\ \A i \in 1..Len(t), j \in 1..Len(q) : i > j - 1 => i + 1 > j
  BY <1>1
<1>3. PICK i \in 1..Len(q) : q[i] \in A /\ \A j \in 1..Len(q) : j > i => q[j] \notin B
  BY DEF Halted
<1>4. CASE i = 1
  BY <1>1, <1>2, <1>3, <1>4 DEF Without, t
<1>5. CASE i # 1
  <2>1. i - 1 \in 1..Len(t) /\ t[i - 1] \in A
    BY <1>2, <1>3, <1>5
  <2>2. \A j \in 1..Len(t) : j > i - 1 => t[j] \notin B
    BY <1>1, <1>2, <1>3
  <2> QED
    BY <2>1, <2>2 DEF Halted, t
<1> QED
  BY <1>4, <1>5

\* A copy that differs in its marks only mirrors the same, and shows the same
\* rows unless another device is being connected.
LEMMA BtAlike ==
    ASSUME NEW b \in Copies, NEW n \in Copies, Alike(b, n), n.connecting = b.connecting
    PROVE  BT!Rows(n) = BT!Rows(b)
  BY DEF Alike, BT!Rows

\* The shell's own steps: at most one request is sent, a start goes to the
\* proxy of a panel that is open, and closing the panel sends the stop.
LEMMA BtUserKeeps ==
    ASSUME BtInv, bluez' = bluez, told' = told, stale' = stale,
           Alike(bt, bt'), btPanel' \in BtPanels, btWork' \in [changes : Nat, clicks : Nat],
           ~btPanel'.redraw => btPanel' = btPanel /\ bt'.connecting = bt.connecting,
           \/ asked' = asked
           \/ /\ Len(asked) < MaxTraffic
              /\ \E r \in BtRequests :
                    /\ asked' = Append(asked, r)
                    /\ r.op = "start" =>
                          btPanel'.open /\ bt.present /\ r.on = bt'.proxy /\ bt'.proxy # BT!None,
           ~btPanel'.open /\ bt.present =>
              ~btPanel.open \/ \E r \in Stops(bt'.proxy) : asked' = Append(asked, r)
    PROVE  BtInv'
<1>1. /\ BT!TypeOK /\ BtTyped /\ BtPainted /\ BtMirrors /\ BtStarts /\ BtStops
      /\ asked \in Seq(BtRequests) /\ told \in Seq(Replies)
      /\ bt \in Copies /\ bt' \in Copies /\ btPanel \in BtPanels
  BY DEF BtInv, BtTyped, BT!TypeOK, Alike, Copies, BtAdapter
<1>2. asked' \in Seq(BtRequests) /\ Len(asked') <= MaxTraffic
  <2>1. CASE asked' = asked
    BY <1>1, <2>1 DEF BT!TypeOK
  <2>2. ASSUME Len(asked) < MaxTraffic, NEW r \in BtRequests, asked' = Append(asked, r)
        PROVE  asked' \in Seq(BtRequests) /\ Len(asked') <= MaxTraffic
    <3>1. asked' \in Seq(BtRequests) /\ Len(asked) \in Nat /\ Len(asked') = Len(asked) + 1
      BY <1>1, <2>2, Grows
    <3> QED
      BY <3>1, <2>2, BtNumbers
  <2> QED
    BY <2>1, <2>2
<1>3. BT!TypeOK'
  <2>1. btPanel'.open \in BOOLEAN /\ btPanel'.redraw \in BOOLEAN
    BY DEF BtPanels
  <2>2. bt' \in [present : BOOLEAN, powered : BOOLEAN, scanning : BOOLEAN,
               path : Adapters \union {BT!None}, proxy : Adapters \union {BT!None},
               devices : BT!DeviceStates, connecting : SUBSET Devices, due : BOOLEAN]
    BY <1>1 DEF Copies, BtAdapter
  <2> QED
    BY <1>1, <1>2, <2>1, <2>2 DEF BT!TypeOK
<1>4. BtTyped'
  BY <1>1, <1>2 DEF BtTyped
<1>5. BtPainted'
  BY <1>1, BtAlike DEF BtPainted
<1>6. BtMirrors'
  <2>1. BT!Objects' = BT!Objects
    BY DEF BT!Objects
  <2>2. Mirrors(BT!Objects) => Mirrors(BT!Objects)'
    BY <2>1 DEF Mirrors, Alike
  <2> QED
    BY <1>1, <2>1, <2>2 DEF BtMirrors
<1>7. /\ bt.present => bluez.discovering \subseteq {bt.proxy}
      /\ bt.present /\ bt.proxy = BT!None => bluez.discovering = {} /\ Without(asked, Starts)
      /\ bt.present => bt.path # BT!None
  <2>1. bt.present => bluez.discovering \subseteq {bt.proxy} /\ bt.path # BT!None
    BY <1>1 DEF BtStarts
  <2>2. ASSUME bt.present, bt.proxy = BT!None PROVE bluez.discovering = {}
    BY <1>1, <2>1, <2>2, BtNumbers DEF BT!TypeOK
  <2>3. ASSUME bt.present, bt.proxy = BT!None PROVE Without(asked, Starts)
    BY <1>1, <2>3 DEF BtStarts, Without, Strays
  <2> QED
    BY <2>1, <2>2, <2>3
<1>8. bt.present => bluez'.discovering \subseteq {bt'.proxy} /\ Without(asked, Strays(bt'.proxy))
  <2>1. CASE bt'.proxy = bt.proxy
    BY <1>1, <2>1 DEF BtStarts
  <2>2. CASE bt.present /\ bt.proxy = BT!None
    BY <1>7, <2>2 DEF Without, Strays
  <2> QED
    BY <2>1, <2>2 DEF Alike
<1>s. PICK r \in BtRequests :
         \/ asked' = asked
         \/ /\ asked' = Append(asked, r)
            /\ r.op = "start" =>
                  btPanel'.open /\ bt.present /\ r.on = bt'.proxy /\ bt'.proxy # BT!None
  <2>1. [op |-> "get", on |-> BT!None] \in BtRequests
    BY DEF BtRequests, BtOps, BtAdapter
  <2> QED
    BY <2>1
<1>t. ASSUME NEW S, Without(asked, S), asked' = asked \/ r \notin S PROVE Without(asked', S)
  <2>1. CASE asked' = asked
    BY <1>t, <2>1
  <2>2. CASE asked' = Append(asked, r) /\ r \notin S
    <3>1. Without(Append(asked, r), S)
      BY ONLY <1>1, <1>t, <2>2, WithoutAppend, r \in BtRequests
    <3> QED
      BY <2>2, <3>1
  <2> QED
    BY <1>s, <1>t, <2>1, <2>2
<1>u. ASSUME NEW A, NEW B, Halted(asked, A, B), asked' = asked \/ r \notin B PROVE Halted(asked', A, B)
  <2>1. CASE asked' = asked
    BY <1>u, <2>1
  <2>2. CASE asked' = Append(asked, r) /\ r \notin B
    <3>1. Halted(Append(asked, r), A, B)
      BY ONLY <1>1, <1>u, <2>2, HaltedAppend, r \in BtRequests
    <3> QED
      BY <2>2, <3>1
  <2> QED
    BY <1>s, <1>u, <2>1, <2>2
<1>9. BtStarts'
  <2>1. bt.present => Without(asked', Strays(bt'.proxy))
    <3>1. asked' = asked \/ r \notin Strays(bt'.proxy)
      BY <1>s DEF Strays, Starts
    <3> QED
      BY <1>8, <1>t, <3>1
  <2>2. ~bt.present /\ Without(asked, Starts) => Without(asked', Starts)
    <3>1. ~bt.present => asked' = asked \/ r \notin Starts
      BY <1>s DEF Starts
    <3> QED
      BY <1>t, <3>1
  <2>3. ~bt.present => bt'.proxy = bt.proxy
    BY DEF Alike
  <2>4. bt'.present = bt.present /\ bt'.path = bt.path
    BY DEF Alike
  <2> QED
    BY <1>1, <1>8, <2>1, <2>2, <2>3, <2>4 DEF BtStarts
<1>10. BtStops'
  <2> SUFFICES ASSUME bt.present, ~btPanel'.open
               PROVE  \/ bluez.discovering = {} /\ Without(asked', Starts)
                      \/ Halted(asked', Stops(bt'.proxy), Starts)
    BY DEF BtStops, Alike
  <2>1. CASE \E z \in Stops(bt'.proxy) : asked' = Append(asked, z)
    <3>1. PICK z \in Stops(bt'.proxy) : asked' = Append(asked, z)
      BY <2>1
    <3>2. z \in BtRequests
      BY DEF Stops
    <3> QED
      BY <1>1, <3>1, <3>2, HaltedAppend
  <2>2. CASE ~btPanel.open
    <3>1. \/ bluez.discovering = {} /\ Without(asked, Starts)
          \/ Halted(asked, Stops(bt.proxy), Starts) /\ bt'.proxy = bt.proxy
      BY <1>1, <1>7, <2>2 DEF BtStops, Alike
    <3>2. asked' = asked \/ r \notin Starts
      BY <1>s DEF Starts
    <3>3. Without(asked, Starts) => Without(asked', Starts)
      BY <1>t, <3>2
    <3>4. Halted(asked, Stops(bt.proxy), Starts) => Halted(asked', Stops(bt.proxy), Starts)
      BY <1>u, <3>2
    <3> QED
      BY <3>1, <3>3, <3>4
  <2> QED
    BY <2>1, <2>2
<1> QED
  BY <1>3, <1>4, <1>5, <1>6, <1>9, <1>10 DEF BtInv

\* A panel that asked for a frame.
LEMMA BtRedrawn ==
    ASSUME NEW p \in BtPanels, NEW s \in {<<>>} \union ({"disconnect", "forget"} \X Devices)
    PROVE  /\ BT!Redrawn(p) \in BtPanels /\ BT!Redrawn(p).redraw /\ BT!Redrawn(p).open = p.open
           /\ BT!Redrawn([p EXCEPT !.sub = s]) \in BtPanels
           /\ BT!Redrawn([p EXCEPT !.sub = s]).redraw
           /\ BT!Redrawn([p EXCEPT !.sub = s]).open = p.open
<1>1. PICK t \in BOOLEAN : t = TRUE
  OBVIOUS
<1>2. BT!Redrawn(p) = [p EXCEPT !.redraw = t]
  BY <1>1 DEF BT!Redrawn
<1>3. BT!Redrawn([p EXCEPT !.sub = s]) = [[p EXCEPT !.sub = s] EXCEPT !.redraw = t]
  BY <1>1 DEF BT!Redrawn
<1>5. p.redraw \in BOOLEAN /\ t
  BY <1>1 DEF BtPanels
<1> QED
  BY <1>2, <1>3, <1>5 DEF BtPanels

\* What the invariant types, for the steps of the shell.
LEMMA BtTypes ==
    ASSUME BtInv
    PROVE  /\ bt \in Copies /\ btPanel \in BtPanels /\ btWork \in [changes : Nat, clicks : Nat]
           /\ asked \in Seq(BtRequests) /\ told \in Seq(Replies)
           /\ Alike(bt, bt) /\ bt.present \in BOOLEAN /\ btPanel.open \in BOOLEAN
           /\ bt.present => bt.path # BT!None /\ BT!ProxyOf(bt) # BT!None
           /\ bt.path \in BtAdapter /\ BT!ProxyOf(bt) \in BtAdapter
  BY DEF BtInv, BtTyped, BT!TypeOK, Copies, BtAdapter, BtPanels, Alike, BtStarts, BT!ProxyOf

LEMMA BtTickKeeps == BtInv /\ BT!BluetoothTick => BtInv'
<1> SUFFICES ASSUME BtInv, BT!BluetoothTick PROVE BtInv'
  OBVIOUS
<1>1. PICK f \in BOOLEAN : f = FALSE
  OBVIOUS
<1>2. bt' = [bt EXCEPT !.due = f] /\ btPanel' = btPanel /\ btWork' = btWork
      /\ bluez' = bluez /\ told' = told /\ stale' = stale /\ Len(asked) < MaxTraffic
  BY <1>1 DEF BT!BluetoothTick
<1>3. Alike(bt, bt') /\ bt'.connecting = bt.connecting
  BY <1>2, BtTypes, BtMarked
<1> DEFINE r == [op |-> "get", on |-> BT!None]
<1>4. asked' = Append(asked, r)
  BY DEF BT!BluetoothTick, BT!Ask
<1>5. r \in BtRequests /\ r.op # "start"
  BY DEF BtRequests, BtOps, BtAdapter
<1>6. ~btPanel'.open /\ bt.present => ~btPanel.open
  BY <1>2
<1> HIDE DEF r
<1> QED
  BY <1>2, <1>3, <1>4, <1>5, <1>6, BtTypes, BtUserKeeps

LEMMA BtDueKeeps == BtInv /\ BT!RefreshDue => BtInv'
<1> SUFFICES ASSUME BtInv, BT!RefreshDue PROVE BtInv'
  OBVIOUS
<1>1. PICK f \in BOOLEAN : f = TRUE
  OBVIOUS
<1>2. bt' = [bt EXCEPT !.due = f] /\ btPanel' = btPanel /\ btWork' = btWork
      /\ bluez' = bluez /\ told' = told /\ stale' = stale /\ asked' = asked
  BY <1>1 DEF BT!RefreshDue
<1>3. Alike(bt, bt') /\ bt'.connecting = bt.connecting
  BY <1>2, BtTypes, BtMarked
<1> QED
  BY <1>2, <1>3, BtTypes, BtUserKeeps

\* A click counts, and leaves BlueZ alone.
LEMMA BtClicked ==
    ASSUME BtInv, BT!Clicked
    PROVE  /\ bluez' = bluez /\ told' = told /\ stale' = stale
           /\ btWork' \in [changes : Nat, clicks : Nat] /\ Len(asked) < MaxTraffic
<1>1. btWork' = [btWork EXCEPT !.clicks = @ + 1]
  BY DEF BT!Clicked
<1> QED
  BY <1>1, BtTypes DEF BT!Clicked

\* A request of the shell, unless it is a start.
LEMMA BtRequest ==
    ASSUME NEW op \in BtOps, NEW on \in BtAdapter \union Devices, op # "start"
    PROVE  [op |-> op, on |-> on] \in BtRequests /\ [op |-> op, on |-> on].op # "start"
  BY DEF BtRequests

LEMMA BtToggleKeeps == BtInv /\ BT!Toggle => BtInv'
<1> SUFFICES ASSUME BtInv, BT!Toggle PROVE BtInv'
  OBVIOUS
<1>1. PICK o \in BOOLEAN : o = ~btPanel.open
  OBVIOUS
<1>2. btPanel' = BT!Redrawn([btPanel EXCEPT !.open = o, !.sub = <<>>])
      /\ bt' = BT!WithProxy(bt)
      /\ (bt.present => asked' = Append(asked, [op |-> IF btPanel.open THEN "stop" ELSE "start",
                                                on |-> BT!ProxyOf(bt)]))
      /\ (~bt.present => asked' = asked)
  BY <1>1 DEF BT!Toggle, BT!AskAdapter, BT!Ask
<1>3. /\ btPanel' \in BtPanels /\ btPanel'.redraw /\ btPanel'.open = o
      /\ Alike(bt, bt') /\ (bt.present => bt'.proxy = BT!ProxyOf(bt))
  <2>1. PICK s \in {<<>>} \union ({"disconnect", "forget"} \X Devices) : s = <<>>
    OBVIOUS
  <2> DEFINE p == [btPanel EXCEPT !.open = o, !.sub = s]
  <2>2. p \in BtPanels /\ p.open = o
    BY BtTypes DEF BtPanels
  <2> HIDE DEF p
  <2>4. BT!Redrawn(p) \in BtPanels /\ BT!Redrawn(p).redraw /\ BT!Redrawn(p).open = o
    BY <2>2, BtRedrawn
  <2>3. Alike(bt, bt') /\ (bt.present => bt'.proxy = BT!ProxyOf(bt))
    BY <1>2, BtTypes, BtProxied
  <2> QED
    BY <1>2, <2>1, <2>3, <2>4 DEF p
<1> DEFINE r == [op |-> IF btPanel.open THEN "stop" ELSE "start", on |-> BT!ProxyOf(bt)]
<1>4. r \in BtRequests /\ r.on = BT!ProxyOf(bt) /\ (r.op = "start" <=> ~btPanel.open)
      /\ (btPanel.open => r.op = "stop")
  BY BtTypes DEF BtRequests, BtOps
<1>5. btPanel.open => r \in Stops(BT!ProxyOf(bt))
  BY <1>4 DEF Stops
<1> HIDE DEF r
<1>6. BT!Clicked
  BY DEF BT!Toggle
<1>7. \/ asked' = asked
      \/ /\ Len(asked) < MaxTraffic
         /\ \E q \in BtRequests :
               /\ asked' = Append(asked, q)
               /\ q.op = "start" =>
                     btPanel'.open /\ bt.present /\ q.on = bt'.proxy /\ bt'.proxy # BT!None
  <2>1. CASE bt.present
    <3>1. bt'.proxy = BT!ProxyOf(bt) /\ bt'.proxy # BT!None
      BY <1>3, <2>1, BtTypes
    <3>2. r.op = "start" => btPanel'.open /\ r.on = bt'.proxy
      BY <1>1, <1>3, <1>4, <3>1
    <3>3. asked' = Append(asked, r) /\ Len(asked) < MaxTraffic
      BY <1>2, <1>6, <2>1, BtClicked DEF r
    <3> QED
      BY <1>4, <2>1, <3>1, <3>2, <3>3
  <2>2. CASE ~bt.present
    BY <1>2, <2>2
  <2> QED
    BY <2>1, <2>2
<1>8. ~btPanel'.open /\ bt.present =>
              ~btPanel.open \/ \E q \in Stops(bt'.proxy) : asked' = Append(asked, q)
  BY <1>1, <1>2, <1>3, <1>5 DEF r
<1> QED
  BY <1>3, <1>6, <1>7, <1>8, BtClicked, BtUserKeeps

\* A click of an open panel: at most one request, which is no start.
LEMMA BtClickKeeps ==
    ASSUME BtInv, BT!Clicked, Alike(bt, bt'), btPanel' \in BtPanels, btPanel'.redraw, btPanel'.open,
           \/ asked' = asked
           \/ \E op \in BtOps, on \in BtAdapter \union Devices :
                 op # "start" /\ asked' = Append(asked, [op |-> op, on |-> on])
    PROVE  BtInv'
<1>1. \/ asked' = asked
      \/ /\ Len(asked) < MaxTraffic
         /\ \E q \in BtRequests :
               /\ asked' = Append(asked, q)
               /\ q.op = "start" =>
                     btPanel'.open /\ bt.present /\ q.on = bt'.proxy /\ bt'.proxy # BT!None
  <2>1. CASE asked' = asked
    BY <2>1
  <2>2. ASSUME NEW op \in BtOps, NEW on \in BtAdapter \union Devices,
               op # "start", asked' = Append(asked, [op |-> op, on |-> on])
        PROVE  /\ Len(asked) < MaxTraffic
               /\ \E q \in BtRequests : asked' = Append(asked, q) /\ q.op # "start"
    BY <2>2, BtRequest, BtClicked
  <2> QED
    BY <2>1, <2>2
<1> QED
  BY <1>1, BtClicked, BtUserKeeps

LEMMA BtPoweredKeeps == BtInv /\ BT!SetPowered => BtInv'
<1> SUFFICES ASSUME BtInv, BT!SetPowered PROVE BtInv'
  OBVIOUS
<1>1. BT!Clicked /\ btPanel.open /\ btPanel' = BT!Redrawn(btPanel)
  BY DEF BT!SetPowered
<1>2. btPanel' \in BtPanels /\ btPanel'.redraw /\ btPanel'.open
  BY <1>1, BtTypes, BtRedrawn
<1>3. \/ /\ \/ asked' = asked
            \/ asked' = Append(asked, [op |-> "off", on |-> BT!ProxyOf(bt)])
            \/ asked' = Append(asked, [op |-> "on", on |-> BT!ProxyOf(bt)])
         /\ bt' = [BT!WithProxy(bt) EXCEPT !.due = @ \/ bt.present]
      \/ asked' = asked /\ bt' = BT!WithProxy(bt)
  BY DEF BT!SetPowered, BT!AskAdapter, BT!Ask
<1>4. \/ asked' = asked
      \/ \E op \in BtOps, on \in BtAdapter \union Devices :
            op # "start" /\ asked' = Append(asked, [op |-> op, on |-> on])
  <2>1. BT!ProxyOf(bt) \in BtAdapter \union Devices /\ {"on", "off"} \subseteq BtOps
    BY BtTypes DEF BtOps
  <2> QED
    BY <1>3, <2>1
<1>5. Alike(bt, BT!WithProxy(bt)) /\ BT!WithProxy(bt) \in Copies
  BY BtTypes, BtProxied DEF Alike
<1>6. Alike(bt, bt')
  <2>1. PICK d \in BOOLEAN : d = (BT!WithProxy(bt).due \/ bt.present)
    OBVIOUS
  <2>2. Alike(bt, [BT!WithProxy(bt) EXCEPT !.due = d])
    BY <1>5, BtTypes, BtMarked
  <2> QED
    BY <1>3, <1>5, <2>1, <2>2
<1> QED
  BY <1>1, <1>2, <1>4, <1>6, BtClickKeeps

LEMMA BtRowKeeps == ASSUME BtInv, NEW d \in Devices, BT!ClickRow(d) PROVE BtInv'
<1>1. BT!Clicked /\ btPanel.open
  BY DEF BT!ClickRow
<1>2. bt.devices[d] \in {"gone", "nearby", "paired", "connected"}
  BY BtTypes DEF Copies, BT!DeviceStates
<1>3. <<"disconnect", d>> \in {"disconnect", "forget"} \X Devices
  OBVIOUS
<1>4. CASE bt.devices[d] = "gone"
  <2>1. asked' = asked /\ bt' = bt /\ btPanel' = BT!Redrawn(btPanel)
    BY <1>4 DEF BT!ClickRow
  <2> QED
    BY <1>1, <2>1, BtTypes, BtRedrawn, BtClickKeeps
<1>5. CASE bt.devices[d] = "connected"
  <2>1. asked' = asked /\ bt' = bt /\ btPanel' = BT!Redrawn([btPanel EXCEPT !.sub = <<"disconnect", d>>])
    BY <1>5 DEF BT!ClickRow
  <2> HIDE DEF BT!Redrawn
  <2>2. btPanel' \in BtPanels /\ btPanel'.redraw /\ btPanel'.open
    BY <1>1, <1>3, <2>1, BtTypes, BtRedrawn
  <2> QED
    BY <1>1, <2>1, <2>2, BtTypes, BtClickKeeps
<1>6. CASE bt.devices[d] \in {"paired", "nearby"}
  <2> DEFINE op == IF bt.devices[d] = "paired" THEN "connect" ELSE "pair"
             busy == bt.connecting \union {d}
  <2>1. asked' = Append(asked, [op |-> op, on |-> d]) /\ bt' = [bt EXCEPT !.connecting = busy]
        /\ btPanel' = BT!Redrawn(btPanel)
    BY <1>6 DEF BT!ClickRow, BT!Ask
  <2>2. op \in BtOps /\ op # "start"
    BY DEF BtOps
  <2>3. busy \in SUBSET Devices
    BY BtTypes DEF Copies
  <2> HIDE DEF op, busy
  <2>4. Alike(bt, bt')
    BY <2>1, <2>3, BtTypes, BtMarked
  <2>5. btPanel' \in BtPanels /\ btPanel'.redraw /\ btPanel'.open
    BY <1>1, <2>1, BtTypes, BtRedrawn
  <2> QED
    BY <1>1, <2>1, <2>2, <2>4, <2>5, BtClickKeeps
<1> QED
  BY <1>2, <1>4, <1>5, <1>6

LEMMA BtForgetKeeps == ASSUME BtInv, NEW d \in Devices, BT!ClickForget(d) PROVE BtInv'
<1>1. BT!Clicked /\ btPanel.open /\ asked' = asked /\ bt' = bt
      /\ btPanel' = BT!Redrawn([btPanel EXCEPT !.sub = <<"forget", d>>])
  BY DEF BT!ClickForget
<1>2. <<"forget", d>> \in {"disconnect", "forget"} \X Devices
  OBVIOUS
<1>3. btPanel' \in BtPanels /\ btPanel'.redraw /\ btPanel'.open
  BY <1>1, <1>2, BtTypes, BtRedrawn
<1> QED
  BY <1>1, <1>3, BtTypes, BtClickKeeps

LEMMA BtCancelKeeps == BtInv /\ BT!SubCancel => BtInv'
<1> SUFFICES ASSUME BtInv, BT!SubCancel PROVE BtInv'
  OBVIOUS
<1>1. BT!Clicked /\ btPanel.open /\ asked' = asked /\ bt' = bt
      /\ btPanel' = BT!Redrawn([btPanel EXCEPT !.sub = <<>>])
  BY DEF BT!SubCancel
<1>2. btPanel' \in BtPanels /\ btPanel'.redraw /\ btPanel'.open
  BY <1>1, BtTypes, BtRedrawn
<1> QED
  BY <1>1, <1>2, BtTypes, BtClickKeeps

LEMMA BtConfirmKeeps == BtInv /\ BT!SubConfirm => BtInv'
<1> SUFFICES ASSUME BtInv, BT!SubConfirm PROVE BtInv'
  OBVIOUS
<1>1. BT!Clicked /\ btPanel.open /\ btPanel.sub # <<>>
      /\ btPanel' = BT!Redrawn([btPanel EXCEPT !.sub = <<>>])
  BY DEF BT!SubConfirm
<1>2. btPanel' \in BtPanels /\ btPanel'.redraw /\ btPanel'.open
  BY <1>1, BtTypes, BtRedrawn
<1>3. btPanel.sub[2] \in Devices
  BY <1>1, BtTypes DEF BtPanels
<1>4. \/ asked' = asked
      \/ asked' = Append(asked, [op |-> "disconnect", on |-> btPanel.sub[2]])
      \/ asked' = Append(asked, [op |-> "remove", on |-> btPanel.sub[2]])
  BY DEF BT!SubConfirm, BT!Ask
<1>5. \/ asked' = asked
      \/ \E op \in BtOps, on \in BtAdapter \union Devices :
            op # "start" /\ asked' = Append(asked, [op |-> op, on |-> on])
  <2>1. btPanel.sub[2] \in BtAdapter \union Devices /\ {"disconnect", "remove"} \subseteq BtOps
    BY <1>3 DEF BtOps
  <2> QED
    BY <1>4, <2>1
<1>6. bt' = bt \/ bt' = BT!WithProxy(bt)
  BY DEF BT!SubConfirm
<1>7. Alike(bt, bt')
  BY <1>6, BtTypes, BtProxied
<1> QED
  BY <1>1, <1>2, <1>5, <1>7, BtClickKeeps

\* The rows of a copy.
LEMMA BtRowsTyped ==
    ASSUME NEW b \in Copies
    PROVE  BT!Rows(b) \in [present : BOOLEAN, powered : BOOLEAN, busy : SUBSET Devices,
                           devices : BT!DeviceStates]
<1>1. /\ b.present \in BOOLEAN /\ b.powered \in BOOLEAN /\ b.connecting \in SUBSET Devices
      /\ b.devices \in BT!DeviceStates
  BY DEF Copies
<1>2. [d \in Devices |->
         IF b.present /\ b.powered /\ (b.devices[d] # "nearby" \/ b.scanning)
         THEN b.devices[d] ELSE "gone"] \in BT!DeviceStates
  BY <1>1 DEF BT!DeviceStates
<1> QED
  BY <1>1, <1>2 DEF BT!Rows

\* A frame shows the rows of the copy.
LEMMA BtPaintKeeps == BtInv /\ BT!Paint => BtInv'
<1> SUFFICES ASSUME BtInv, BT!Paint PROVE BtInv'
  OBVIOUS
<1>1. UNCHANGED <<bluez, asked, told, bt, stale, btWork>>
  BY DEF BT!Paint
<1> DEFINE rows == IF btPanel.open THEN BT!Rows(bt) ELSE btPanel.rows
<1>2. PICK f \in BOOLEAN : f = FALSE
  OBVIOUS
<1>3. btPanel' = [btPanel EXCEPT !.redraw = f, !.rows = rows]
  BY <1>2 DEF BT!Paint
<1>4. rows \in [present : BOOLEAN, powered : BOOLEAN, busy : SUBSET Devices,
                devices : BT!DeviceStates]
  BY BtRowsTyped, BtTypes DEF BtPanels
<1>5. btPanel.open => rows = BT!Rows(bt)
  OBVIOUS
<1> HIDE DEF rows
<1>6. btPanel' \in BtPanels /\ btPanel'.open = btPanel.open /\ btPanel'.redraw \in BOOLEAN
      /\ btPanel'.rows = rows
  BY <1>3, <1>4, BtTypes DEF BtPanels
<1>7. BT!TypeOK'
  BY <1>1, <1>6, BtTypes DEF BtInv, BT!TypeOK, BT!DeviceStates
<1>8. BtTyped'
  BY <1>1, <1>6 DEF BtInv, BtTyped
<1>9. BtPainted'
  BY <1>1, <1>5, <1>6 DEF BtPainted, BT!Rows
<1>10. BtMirrors' /\ BtStarts' /\ BtStops'
  BY <1>1, <1>6 DEF BtInv, BtMirrors, Mirrors, BT!Objects, BtStarts, BtStops
<1> QED
  BY <1>7, <1>8, <1>9, <1>10 DEF BtInv

\* Copies that show the same have the same rows.
LEMMA BtShownAlike ==
    ASSUME NEW b \in Copies, NEW n \in Copies, BT!Shown(n) = BT!Shown(b)
    PROVE  BT!Rows(n) = BT!Rows(b)
<1>1. /\ BT!Shown(n).present = n.present /\ BT!Shown(b).present = b.present
      /\ BT!Shown(n).powered = n.powered /\ BT!Shown(b).powered = b.powered
      /\ BT!Shown(n).scanning = n.scanning /\ BT!Shown(b).scanning = b.scanning
      /\ BT!Shown(n).devices = n.devices /\ BT!Shown(b).devices = b.devices
      /\ BT!Shown(n).connecting = n.connecting /\ BT!Shown(b).connecting = b.connecting
  BY DEF BT!Shown, Copies
<1> QED
  BY <1>1 DEF BT!Rows

\* A refresh is applied, unless it failed; then the copy is as good as before.
LEMMA BtHearKeeps == BtInv /\ BT!HearBlueZ => BtInv'
<1> SUFFICES ASSUME BtInv, BT!HearBlueZ PROVE BtInv'
  OBVIOUS
<1>1. /\ told # <<>> /\ told' = Tail(told) /\ UNCHANGED <<bluez, asked, stale, btWork>>
      /\ BT!TypeOK /\ BtTyped /\ BtPainted /\ BtMirrors /\ BtStarts /\ BtStops
      /\ told \in Seq(Replies) /\ asked \in Seq(BtRequests)
  BY BtTypes DEF BT!HearBlueZ, BtInv
<1>2. told' = <<>> /\ Head(told) \in Replies
  <2>1. Len(told) \in Nat \ {0} /\ Tail(told) \in Seq(Replies) /\ Len(Tail(told)) = Len(told) - 1
        /\ Head(told) \in Replies
    BY <1>1, Shrinks
  <2>2. Len(told) <= 1
    BY <1>1 DEF BT!TypeOK
  <2>3. Len(Tail(told)) = 0
    BY <2>1, <2>2
  <2> QED
    BY <1>1, <2>1, <2>3, EmptySeq
<1>3. told' \in Seq(Replies) /\ Len(told') <= 1 /\ Without(told', NoAdapter)
      /\ Without(told', SomeAdapter)
  BY <1>2 DEF Without
<1>4. Head(told) = told[1] /\ 1 \in 1..Len(told)
  BY <1>1, Shrinks
<1>5. CASE Head(told) = BT!Error
  <2>1. UNCHANGED <<bt, btPanel>>
    BY <1>5 DEF BT!HearBlueZ
  <2>2. BT!TypeOK' /\ BtTyped'
    BY <1>1, <1>3, <2>1 DEF BT!TypeOK, BtTyped, BT!DeviceStates
  <2>3. BtPainted' /\ BtStops'
    BY <1>1, <2>1 DEF BtPainted, BtStops, BT!Rows
  <2>4. BtMirrors'
    BY <1>1, <1>2, <1>5, <2>1 DEF BtMirrors, Mirrors, BT!Objects
  <2>5. BtStarts'
    BY <1>1, <1>3, <2>1 DEF BtStarts
  <2> QED
    BY <2>2, <2>3, <2>4, <2>5 DEF BtInv
<1>6. CASE Head(told) # BT!Error
  <2> DEFINE o == Head(told)
  <2>1. o \in Snapshots /\ bt' = BT!Applied(bt, o)
        /\ btPanel' = [btPanel EXCEPT !.redraw = @ \/ BT!Dirty(bt, o)]
    BY <1>2, <1>6 DEF BT!HearBlueZ, BT!ApplyManagedObjects, Replies
  <2> HIDE DEF o
  <2>2. PICK w \in BOOLEAN : w = (btPanel.redraw \/ BT!Dirty(bt, o))
    OBVIOUS
  <2>3. btPanel' \in BtPanels /\ btPanel'.open = btPanel.open /\ btPanel'.rows = btPanel.rows
        /\ (~btPanel'.redraw => ~btPanel.redraw /\ ~BT!Dirty(bt, o))
    <3>1. btPanel' = [btPanel EXCEPT !.redraw = w]
      BY <2>1, <2>2
    <3> QED
      BY <3>1, <2>2, BtTypes DEF BtPanels
  <2>4. /\ bt' \in Copies
        /\ bt'.present <=> o.adapter # BT!None
        /\ bt'.path = o.adapter /\ bt'.devices = o.devices
        /\ bt'.proxy = IF o.adapter # BT!None THEN bt.proxy ELSE BT!None
        /\ bt'.powered = IF o.adapter # BT!None THEN o.powered ELSE bt.powered
        /\ bt'.scanning = IF o.adapter # BT!None THEN o.scanning ELSE bt.scanning
    BY <2>1, BtTypes, BtApplied
  <2>5. BT!TypeOK'
    BY <1>1, <1>3, <2>3, <2>4 DEF BT!TypeOK, BT!DeviceStates, Copies, BtAdapter, BtPanels
  <2>6. BtTyped'
    BY <1>1, <1>3, <2>3 DEF BtTyped
  <2>7. BtPainted'
    <3> SUFFICES ASSUME btPanel'.open, ~btPanel'.redraw PROVE btPanel'.rows = BT!Rows(bt')
      BY DEF BtPainted
    <3>1. BT!Shown(bt') = BT!Shown(bt)
      BY <2>1, <2>3 DEF BT!Dirty
    <3>2. BT!Rows(bt') = BT!Rows(bt)
      BY <2>4, <3>1, BtTypes, BtShownAlike
    <3> QED
      BY <1>1, <2>3, <3>2 DEF BtPainted
  <2>8. BtMirrors'
    <3>1. ~stale => o = BT!Objects
      BY <1>1, <1>6 DEF BtMirrors, o
    <3>2. BT!Objects' = BT!Objects
      BY <1>1 DEF BT!Objects
    <3>3. ~stale => Mirrors(BT!Objects)'
      BY <2>4, <3>1, <3>2 DEF Mirrors
    <3> QED
      BY <1>1, <1>2, <3>3 DEF BtMirrors
  <2>9. bluez.discovering \in SUBSET Adapters
    BY <1>1 DEF BT!TypeOK
  <2>10. CASE o.adapter = BT!None
    <3>1. bluez.adapters = {} /\ bluez.discovering = {}
      <4>1. ~Without(told, NoAdapter)
        BY <1>4, <2>1, <2>10 DEF Without, NoAdapter, o
      <4> QED
        BY <1>1, <4>1 DEF BtStarts
    <3>2. BtStarts'
      BY <1>1, <1>3, <2>4, <2>10, <3>1 DEF BtStarts
    <3>3. BtStops'
      BY <2>4, <2>10 DEF BtStops
    <3> QED
      BY <2>5, <2>6, <2>7, <2>8, <3>2, <3>3 DEF BtInv
  <2>11. CASE o.adapter # BT!None
    <3>1. ~Without(told, SomeAdapter)
      BY <1>4, <2>1, <2>11 DEF Without, SomeAdapter, o
    <3>2. ~bt.present => bluez.discovering = {} /\ Without(asked, Starts)
      BY <1>1, <3>1 DEF BtStarts
    <3>3. Without(asked, Starts) => Without(asked, Strays(bt.proxy))
      BY DEF Without, Strays
    <3>4. BtStarts'
      BY <1>1, <1>3, <2>4, <2>11, <3>2, <3>3 DEF BtStarts
    <3>5. BtStops'
      BY <1>1, <2>3, <2>4, <2>11, <3>2 DEF BtStops
    <3> QED
      BY <2>5, <2>6, <2>7, <2>8, <3>4, <3>5 DEF BtInv
  <2> QED
    BY <2>10, <2>11
<1> QED
  BY <1>5, <1>6

BtServer == [adapters : SUBSET Adapters, powered : SUBSET Adapters,
             discovering : SUBSET Adapters, devices : BT!DeviceStates]

\* What a request changes: the adapters stay, and only a start to one of them
\* lets discovery run where it did not.
LEMMA BtAfter ==
    ASSUME BT!TypeOK, NEW r \in BtRequests
    PROVE  LET b == BT!After(r)
           IN  /\ b \in BtServer /\ b.adapters = bluez.adapters
               /\ r.op = "stop" => b.discovering = bluez.discovering \ {r.on}
               /\ \/ b.discovering \subseteq bluez.discovering
                  \/ /\ r.op = "start" /\ r.on \in bluez.adapters
                     /\ b.discovering \subseteq bluez.discovering \union {r.on}
<1> DEFINE b == BT!After(r)
<1>1. bluez \in BtServer
  BY DEF BT!TypeOK, BtServer
<1>2. /\ bluez.adapters \in SUBSET Adapters /\ bluez.discovering \in SUBSET Adapters
      /\ bluez.powered \in SUBSET Adapters /\ bluez.devices \in BT!DeviceStates
  BY <1>1 DEF BtServer
<1> DEFINE on == r.op = "on" /\ r.on \in bluez.adapters
           off == r.op = "off" /\ r.on \in bluez.adapters
           start == r.op = "start" /\ r.on \in bluez.adapters \intersect bluez.powered
           stop == r.op = "stop"
           link == r.op \in {"connect", "pair"} /\ bluez.devices[r.on] # "gone"
           unlink == r.op = "disconnect" /\ bluez.devices[r.on] = "connected"
           remove == r.op = "remove"
<1>3. CASE on
  <2>1. b = [bluez EXCEPT !.powered = @ \union {r.on}]
    BY <1>3 DEF BT!After
  <2> QED
    BY <1>1, <1>2, <1>3, <2>1 DEF BtServer
<1>4. CASE off
  <2>1. b = [bluez EXCEPT !.powered = @ \ {r.on}, !.discovering = @ \ {r.on}]
    BY <1>4 DEF BT!After
  <2> QED
    BY <1>1, <1>2, <1>4, <2>1 DEF BtServer
<1>5. CASE start
  <2>1. b = [bluez EXCEPT !.discovering = @ \union {r.on}]
    BY <1>5 DEF BT!After
  <2> QED
    BY <1>1, <1>2, <1>5, <2>1 DEF BtServer
<1>6. CASE stop
  <2>1. b = [bluez EXCEPT !.discovering = @ \ {r.on}]
    BY <1>6 DEF BT!After
  <2> QED
    BY <1>1, <1>2, <1>6, <2>1 DEF BtServer
<1>7. CASE link
  <2>1. b = [bluez EXCEPT !.devices[r.on] = "connected"]
    BY <1>7 DEF BT!After
  <2> DEFINE ds == [bluez.devices EXCEPT ![r.on] = "connected"]
  <2>2. ds \in BT!DeviceStates
    BY <1>2 DEF BT!DeviceStates
  <2>3. b = [bluez EXCEPT !.devices = ds]
    BY <2>1
  <2> HIDE DEF ds
  <2> QED
    BY <1>1, <1>2, <1>7, <2>2, <2>3 DEF BtServer
<1>8. CASE unlink
  <2>1. b = [bluez EXCEPT !.devices[r.on] = "paired"]
    BY <1>8 DEF BT!After
  <2> DEFINE ds == [bluez.devices EXCEPT ![r.on] = "paired"]
  <2>2. ds \in BT!DeviceStates
    BY <1>2 DEF BT!DeviceStates
  <2>3. b = [bluez EXCEPT !.devices = ds]
    BY <2>1
  <2> HIDE DEF ds
  <2> QED
    BY <1>1, <1>2, <1>8, <2>2, <2>3 DEF BtServer
<1>9. CASE remove
  <2>1. b = [bluez EXCEPT !.devices[r.on] = "gone"]
    BY <1>9 DEF BT!After
  <2> DEFINE ds == [bluez.devices EXCEPT ![r.on] = "gone"]
  <2>2. ds \in BT!DeviceStates
    BY <1>2 DEF BT!DeviceStates
  <2>3. b = [bluez EXCEPT !.devices = ds]
    BY <2>1
  <2> HIDE DEF ds
  <2> QED
    BY <1>1, <1>2, <1>9, <2>2, <2>3 DEF BtServer
<1>10. CASE ~on /\ ~off /\ ~start /\ ~stop /\ ~link /\ ~unlink /\ ~remove
  <2>1. b = bluez
    BY <1>10 DEF BT!After
  <2> QED
    BY <1>1, <1>10, <2>1
<1> QED
  BY <1>3, <1>4, <1>5, <1>6, <1>7, <1>8, <1>9, <1>10

\* What keeps the types when BlueZ or its queues move.
LEMMA BtWorldTyped ==
    ASSUME BtInv, bluez' \in BtServer, bt' = bt, btPanel' = btPanel, stale' \in BOOLEAN,
           btWork' \in [changes : Nat, clicks : Nat], asked' \in Seq(BtRequests),
           Len(asked') <= MaxTraffic, told' \in Seq(Replies), Len(told') <= 1
    PROVE  BT!TypeOK' /\ BtTyped' /\ BtPainted'
<1>1. BT!TypeOK'
  BY DEF BtInv, BT!TypeOK, BtServer, BT!DeviceStates
<1>2. BtTyped' /\ BtPainted'
  BY DEF BtInv, BtTyped, BtPainted, BT!Rows
<1> QED
  BY <1>1, <1>2

\* The requests after the first: still fewer than the bound.
LEMMA BtServed ==
    ASSUME BtInv, asked # <<>>
    PROVE  /\ Head(asked) \in BtRequests /\ Tail(asked) \in Seq(BtRequests)
           /\ Len(Tail(asked)) <= MaxTraffic
           /\ \A S : Without(asked, S) <=> Head(asked) \notin S /\ Without(Tail(asked), S)
           /\ \A A, B : Halted(asked, A, B) =>
                 Halted(Tail(asked), A, B) \/ (Head(asked) \in A /\ Without(Tail(asked), B))
<1>1. asked \in Seq(BtRequests) /\ Len(asked) <= MaxTraffic
  BY DEF BtInv, BtTyped, BT!TypeOK
<1>2. /\ Len(asked) \in Nat \ {0} /\ Len(Tail(asked)) = Len(asked) - 1
      /\ Head(asked) \in BtRequests /\ Tail(asked) \in Seq(BtRequests)
  BY <1>1, Shrinks
<1>3. Len(Tail(asked)) <= MaxTraffic
  BY <1>1, <1>2, BtNumbers
<1>4. ASSUME NEW S PROVE Without(asked, S) <=> Head(asked) \notin S /\ Without(Tail(asked), S)
  BY <1>1, WithoutTail
<1>5. ASSUME NEW A, NEW B, Halted(asked, A, B)
      PROVE  Halted(Tail(asked), A, B) \/ (Head(asked) \in A /\ Without(Tail(asked), B))
  BY <1>1, <1>5, HaltedTail
<1> QED
  BY <1>2, <1>3, <1>4, <1>5

\* A refresh is answered with what BlueZ has then, or with an error.
LEMMA BtAnswerKeeps ==
    ASSUME BtInv, asked # <<>>, Head(asked).op = "get", told = <<>>, asked' = Tail(asked),
           UNCHANGED <<bluez, bt, btPanel, btWork>>,
           \/ told' = Append(told, BT!Objects) /\ stale' = FALSE
           \/ told' = Append(told, BT!Error) /\ stale' = stale
    PROVE  BtInv'
<1>1. PICK o \in Replies : /\ told' = Append(told, o)
                           /\ \/ o = BT!Objects /\ stale' = FALSE
                              \/ o = BT!Error /\ stale' = stale
  BY BtObjects DEF BtInv, Replies
<1>2. told' \in Seq(Replies) /\ Len(told') = 1 /\ Head(told') = o /\ told' # <<>> /\ told'[1] = o
  <2>1. /\ told' \in Seq(Replies) /\ Len(told) = 0 /\ Len(told') = Len(told) + 1
        /\ told'[Len(told) + 1] = o
    BY <1>1, BtTypes, Grows
  <2>2. Len(told') = 1 /\ told'[1] = o
    BY <2>1
  <2>3. told' # <<>>
    BY <2>2
  <2> QED
    BY <2>1, <2>2, <2>3, Shrinks
<1>3. BT!TypeOK' /\ BtTyped' /\ BtPainted'
  <2>1. Len(told') <= 1 /\ stale' \in BOOLEAN
    <3>1. Len(told') <= 1
      BY <1>2
    <3>2. stale' = FALSE \/ stale' = stale
      BY <1>1
    <3> QED
      BY <3>1, <3>2 DEF BtInv, BT!TypeOK
  <2>2. bluez' \in BtServer
    BY DEF BtInv, BT!TypeOK, BtServer
  <2> QED
    BY <1>2, <2>1, <2>2, BtTypes, BtServed, BtWorldTyped
<1>4. BT!Objects' = BT!Objects /\ (Mirrors(BT!Objects) => Mirrors(BT!Objects)')
  BY DEF BT!Objects, Mirrors
<1>5. BtMirrors'
  <2>1. CASE o = BT!Objects
    <3>1. o # BT!Error
      BY <2>1, BtObjects, BtErrors DEF BtInv
    <3> QED
      BY <1>2, <1>4, <2>1, <3>1 DEF BtMirrors
  <2>2. CASE o = BT!Error /\ stale' = stale
    BY <1>2, <1>4, <2>2 DEF BtInv, BtMirrors
  <2> QED
    BY <1>1, <2>1, <2>2
<1>6. Head(asked) \notin Starts /\ Head(asked) \notin Strays(bt.proxy)
      /\ Head(asked) \notin Stops(bt.proxy)
  BY DEF Starts, Strays, Stops
<1>7. BtStarts'
  <2>1. ~Without(told', NoAdapter) => bluez.adapters = {}
    BY <1>1, <1>2, BtObjects, BtErrors DEF Without, NoAdapter, BtInv
  <2>2. bluez.adapters = {} => Without(told', SomeAdapter)
    BY <1>1, <1>2, BtObjects, BtErrors DEF Without, SomeAdapter, BtInv
  <2>3. Without(asked, Starts) => Without(asked', Starts)
    BY BtServed
  <2>4. Without(asked, Strays(bt.proxy)) => Without(asked', Strays(bt.proxy))
    BY BtServed
  <2> QED
    BY <2>1, <2>2, <2>3, <2>4 DEF BtInv, BtStarts
<1>8. BtStops'
  <2>1. Without(asked, Starts) => Without(asked', Starts)
    BY BtServed
  <2>2. Halted(asked, Stops(bt.proxy), Starts) => Halted(asked', Stops(bt.proxy), Starts)
    BY <1>6, BtServed
  <2> QED
    BY <2>1, <2>2 DEF BtInv, BtStops
<1> QED
  BY <1>3, <1>5, <1>7, <1>8 DEF BtInv

\* A request that is no refresh: BlueZ changes by it, or refuses.
LEMMA BtRequestKeeps ==
    ASSUME BtInv, asked # <<>>, Head(asked).op # "get", told = <<>>, asked' = Tail(asked),
           UNCHANGED <<told, bt, btPanel, btWork>>,
           NEW b, b = BT!After(Head(asked)) \/ (b = bluez /\ Head(asked).op # "stop"),
           bluez' = b, stale' = (stale \/ b # bluez)
    PROVE  BtInv'
<1> DEFINE r == Head(asked)
<1>1. BT!TypeOK /\ BtMirrors /\ BtStarts /\ BtStops /\ bluez \in BtServer /\ r \in BtRequests
  BY BtServed DEF BtInv, BT!TypeOK, BtServer
<1> HIDE DEF r
<1>2. /\ b \in BtServer /\ b.adapters = bluez.adapters
      /\ r.op = "stop" => b.discovering = bluez.discovering \ {r.on}
      /\ \/ b.discovering \subseteq bluez.discovering
         \/ /\ r.op = "start" /\ r.on \in bluez.adapters
            /\ b.discovering \subseteq bluez.discovering \union {r.on}
  BY <1>1, BtAfter DEF r
<1>3. /\ \A S : Without(asked, S) <=> r \notin S /\ Without(asked', S)
      /\ \A A, B : Halted(asked, A, B) =>
            Halted(asked', A, B) \/ (r \in A /\ Without(asked', B))
  BY BtServed DEF r
<1>4. Without(told, NoAdapter) /\ Without(told, SomeAdapter)
  BY DEF Without
<1>5. BT!TypeOK' /\ BtTyped' /\ BtPainted'
  <2>1. Len(told') <= 1 /\ stale' \in BOOLEAN
    BY DEF BtInv, BT!TypeOK
  <2> QED
    BY <1>2, <2>1, BtTypes, BtServed, BtWorldTyped
<1>6. BtMirrors'
  <2>1. ~stale' => ~stale /\ bluez' = bluez
    OBVIOUS
  <2>2. ~stale' => BT!Objects' = BT!Objects
    BY <2>1 DEF BT!Objects
  <2>3. ~stale' => Mirrors(BT!Objects)'
    BY <1>1, <2>1, <2>2 DEF BtMirrors, Mirrors
  <2> QED
    BY <2>3 DEF BtMirrors
<1>7. /\ bluez'.discovering \subseteq bluez'.adapters
      /\ ~bt.present => bluez'.discovering = {}
      /\ bt.present => bluez'.discovering \subseteq {bt.proxy}
      /\ Without(asked, Starts) => bluez'.discovering \subseteq bluez.discovering
  <2>1. CASE b.discovering \subseteq bluez.discovering
    BY <1>1, <1>2, <2>1 DEF BtStarts
  <2>2. CASE /\ r.op = "start" /\ r.on \in bluez.adapters
             /\ b.discovering \subseteq bluez.discovering \union {r.on}
    <3>1. r \in Starts
      BY <1>1, <2>2 DEF Starts
    <3>2. ~Without(asked, Starts)
      BY <1>3, <3>1
    <3>3. bt.present
      BY <1>1, <2>2, <3>2 DEF BtStarts
    <3>4. r.on = bt.proxy
      BY <1>1, <1>3, <3>1, <3>3 DEF BtStarts, Strays
    <3> QED
      BY <1>1, <1>2, <2>2, <3>2, <3>3, <3>4 DEF BtStarts
  <2> QED
    BY <1>2, <2>1, <2>2
<1>8. BtStarts'
  BY <1>1, <1>2, <1>3, <1>4, <1>7 DEF BtStarts
<1>9. BtStops'
  <2> SUFFICES ASSUME bt.present, ~btPanel.open
               PROVE  \/ bluez'.discovering = {} /\ Without(asked', Starts)
                      \/ Halted(asked', Stops(bt.proxy), Starts)
    BY DEF BtStops
  <2>1. CASE bluez.discovering = {} /\ Without(asked, Starts)
    BY <1>3, <1>7, <2>1
  <2>2. CASE Halted(asked, Stops(bt.proxy), Starts) /\ ~Halted(asked', Stops(bt.proxy), Starts)
    <3>1. r \in Stops(bt.proxy) /\ Without(asked', Starts)
      BY <1>3, <2>2
    <3>2. r.op = "stop" /\ r.on = bt.proxy
      BY <3>1 DEF Stops
    <3>3. bluez'.discovering = bluez.discovering \ {bt.proxy}
      BY <1>2, <3>2 DEF r
    <3>4. bluez'.discovering = {}
      BY <1>1, <3>3 DEF BtStarts
    <3> QED
      BY <3>1, <3>4
  <2> QED
    BY <1>1, <2>1, <2>2 DEF BtStops
<1> QED
  BY <1>5, <1>6, <1>8, <1>9 DEF BtInv

LEMMA BtServeKeeps == BtInv /\ (BT!Serve \/ BT!ServeFails) => BtInv'
<1> SUFFICES ASSUME BtInv, BT!Serve \/ BT!ServeFails PROVE BtInv'
  OBVIOUS
<1>1. asked # <<>> /\ told = <<>> /\ asked' = Tail(asked) /\ UNCHANGED <<bt, btPanel, btWork>>
  BY DEF BT!Serve, BT!ServeFails
<1>2. CASE BT!ServeFails
  <2>1. Head(asked).op = "get" /\ told' = Append(told, BT!Error) /\ UNCHANGED <<bluez, stale>>
    BY <1>2 DEF BT!ServeFails
  <2> QED
    BY <1>1, <2>1, BtAnswerKeeps
<1>3. CASE BT!Serve /\ Head(asked).op = "get"
  <2>1. told' = Append(told, BT!Objects) /\ stale' = FALSE /\ bluez' = bluez
    BY <1>3 DEF BT!Serve
  <2> QED
    BY <1>1, <1>3, <2>1, BtAnswerKeeps
<1>4. CASE BT!Serve /\ Head(asked).op # "get"
  <2> DEFINE r == Head(asked)
  <2>1. told' = told
        /\ \E b \in IF r.op \in BT!Fallible THEN {BT!After(r), bluez} ELSE {BT!After(r)} :
              bluez' = b /\ stale' = (stale \/ b # bluez)
    BY <1>4 DEF BT!Serve
  <2>2. PICK b : /\ b = BT!After(r) \/ (b = bluez /\ r.op # "stop")
                 /\ bluez' = b /\ stale' = (stale \/ b # bluez)
    BY <2>1 DEF BT!Fallible
  <2> QED
    BY <1>1, <1>4, <2>1, <2>2, BtRequestKeeps
<1> QED
  BY <1>2, <1>3, <1>4

\* BlueZ changes by itself: the copy is stale until the next snapshot.
LEMMA BtWorldKeeps ==
    ASSUME BtInv, NEW b \in BtServer, BT!World(b),
           b.discovering \subseteq bluez.discovering, b.discovering \subseteq b.adapters,
           \/ b.adapters \subseteq bluez.adapters
           \/ asked = <<>> /\ told = <<>>
    PROVE  BtInv'
<1>1. /\ BtStarts /\ BtStops /\ UNCHANGED <<asked, told, bt, btPanel>>
      /\ bluez' = b /\ stale' = TRUE
  BY DEF BT!World, BtInv
<1>2. btWork' \in [changes : Nat, clicks : Nat]
  <2>1. btWork' = [btWork EXCEPT !.changes = @ + 1]
    BY DEF BT!World
  <2> QED
    BY <2>1, BtTypes
<1>3. BT!TypeOK' /\ BtTyped' /\ BtPainted'
  <2>1. Len(told) <= 1 /\ Len(asked) <= MaxTraffic /\ stale' \in BOOLEAN
    BY <1>1 DEF BtInv, BT!TypeOK
  <2> QED
    BY <1>1, <1>2, <2>1, BtTypes, BtWorldTyped
<1>4. BtMirrors'
  BY <1>1 DEF BtMirrors
<1>5. /\ asked = <<>> => \A S : Without(asked, S)
      /\ told = <<>> => \A S : Without(told, S)
  BY DEF Without
<1>6. BtStarts'
  BY <1>1, <1>5 DEF BtStarts, BtServer
<1>7. BtStops'
  BY <1>1 DEF BtStops
<1> QED
  BY <1>3, <1>4, <1>6, <1>7 DEF BtInv

LEMMA BtAdapterKeeps == ASSUME BtInv, NEW a \in Adapters, BT!AdapterChanges(a) PROVE BtInv'
<1>1. /\ bluez \in BtServer /\ bluez.discovering \subseteq bluez.adapters
      /\ bluez.adapters \subseteq Adapters /\ bluez.devices \in BT!DeviceStates
  BY DEF BtInv, BT!TypeOK, BtServer, BtStarts
<1>2. BT!NoDevice \in BT!DeviceStates
  BY DEF BT!NoDevice, BT!DeviceStates
<1>3. CASE a \in bluez.adapters
  <2> DEFINE ds == IF bluez.adapters = {a} THEN BT!NoDevice ELSE bluez.devices
             b == [bluez EXCEPT !.adapters = @ \ {a}, !.discovering = @ \ {a}, !.devices = ds]
  <2>1. BT!World(b)
    BY <1>3 DEF BT!AdapterChanges
  <2>2. ds \in BT!DeviceStates
    BY <1>1, <1>2
  <2> HIDE DEF ds
  <2>3. /\ b \in BtServer /\ b.adapters = bluez.adapters \ {a}
        /\ b.discovering = bluez.discovering \ {a}
    BY <1>1, <2>2 DEF BtServer
  <2> HIDE DEF b
  <2> QED
    BY <1>1, <2>1, <2>3, BtWorldKeeps
<1>4. CASE a \notin bluez.adapters
  <2> DEFINE b == [bluez EXCEPT !.adapters = @ \union {a}]
  <2>1. BT!World(b) /\ asked = <<>> /\ told = <<>>
    BY <1>4 DEF BT!AdapterChanges
  <2>2. /\ b \in BtServer /\ b.adapters = bluez.adapters \union {a}
        /\ b.discovering = bluez.discovering
    BY <1>1 DEF BtServer
  <2> HIDE DEF b
  <2> QED
    BY <1>1, <2>1, <2>2, BtWorldKeeps
<1> QED
  BY <1>3, <1>4

LEMMA BtDeviceKeeps == ASSUME BtInv, NEW d \in Devices, BT!DeviceChanges(d) PROVE BtInv'
<1>1. /\ bluez \in BtServer /\ bluez.discovering \subseteq bluez.adapters
      /\ bluez.devices \in BT!DeviceStates
  BY DEF BtInv, BT!TypeOK, BtServer, BtStarts
<1>2. PICK s \in {"gone", "nearby", "paired", "connected"} :
         BT!World([bluez EXCEPT !.devices[d] = s])
  BY DEF BT!DeviceChanges
<1> DEFINE ds == [bluez.devices EXCEPT ![d] = s]
           b == [bluez EXCEPT !.devices = ds]
<1>3. ds \in BT!DeviceStates
  BY <1>1 DEF BT!DeviceStates
<1>4. BT!World(b)
  BY <1>2
<1> HIDE DEF ds
<1>5. b \in BtServer /\ b.adapters = bluez.adapters /\ b.discovering = bluez.discovering
  BY <1>1, <1>3 DEF BtServer
<1> HIDE DEF b
<1> QED
  BY <1>1, <1>4, <1>5, BtWorldKeeps

LEMMA BtInitially == BT!Init => BtInv
<1> SUFFICES ASSUME BT!Init PROVE BtInv
  OBVIOUS
<1>1. PICK open \in BOOLEAN :
        /\ BT!InitBlueZ(open) /\ asked = <<>> /\ told = <<>> /\ BT!InitService(open)
        /\ btPanel = [open |-> open, sub |-> <<>>, redraw |-> FALSE, rows |-> BT!Rows(bt)]
        /\ stale = FALSE /\ btWork = [changes |-> 0, clicks |-> 0]
  BY DEF BT!Init
<1>2. PICK as \in SUBSET Adapters :
        bluez = [adapters |-> as, powered |-> Adapters,
                 discovering |-> IF open /\ as # {} THEN {BT!Lowest(as)} ELSE {},
                 devices |-> [d \in Devices |-> "paired"]]
  BY <1>1 DEF BT!InitBlueZ
<1>3. /\ bluez.adapters = as /\ bluez.powered = Adapters
      /\ bluez.discovering = IF open /\ as # {} THEN {BT!Lowest(as)} ELSE {}
      /\ bluez.devices = [d \in Devices |-> "paired"]
  BY <1>2
<1>4. (as # {} => BT!Lowest(as) \in as) /\ bluez.discovering \subseteq as
  BY <1>3, LowestIsOne
<1>5. bluez \in BtServer
  <2>1. [d \in Devices |-> "paired"] \in BT!DeviceStates
    BY DEF BT!DeviceStates
  <2> DEFINE ds == [d \in Devices |-> "paired"]
             di == IF open /\ as # {} THEN {BT!Lowest(as)} ELSE {}
  <2>2. di \in SUBSET Adapters /\ ds \in BT!DeviceStates
    BY <1>3, <1>4, <2>1
  <2>3. bluez = [adapters |-> as, powered |-> Adapters, discovering |-> di, devices |-> ds]
    BY <1>2
  <2> HIDE DEF di, ds
  <2> QED
    BY <2>2, <2>3 DEF BtServer
<1> DEFINE first == IF bluez.adapters = {} THEN BT!None ELSE BT!Lowest(bluez.adapters)
           o == BT!Objects
           b == BT!Applied(BT!Blank, o)
<1>6. first \in BtAdapter /\ (first = BT!None <=> as = {})
  BY <1>3, <1>4, BtNumbers DEF BtAdapter
<1>7. o \in Snapshots /\ o.adapter = first
  <2>1. PICK p \in BOOLEAN, s \in BOOLEAN :
           (p <=> first \in bluez.powered) /\ (s <=> first \in bluez.discovering)
    OBVIOUS
  <2>2. BT!Objects = [adapter |-> first, powered |-> p, scanning |-> s, devices |-> bluez.devices]
    BY <2>1 DEF BT!Objects
  <2> HIDE DEF first
  <2> QED
    BY <1>5, <1>6, <2>2 DEF Snapshots, BtServer
<1>8. BT!Blank \in Copies
  <2>1. PICK f \in BOOLEAN, t \in BOOLEAN : f = FALSE /\ t = TRUE
    OBVIOUS
  <2>2. BT!NoDevice \in BT!DeviceStates
    BY DEF BT!NoDevice, BT!DeviceStates
  <2>3. BT!Blank = [present |-> f, powered |-> f, scanning |-> f,
                    path |-> BT!None, proxy |-> BT!None, devices |-> BT!NoDevice,
                    connecting |-> {}, due |-> t]
    BY <2>1 DEF BT!Blank
  <2> QED
    BY <2>2, <2>3 DEF Copies, BtAdapter
<1> DEFINE proxy == IF open THEN b.path ELSE BT!None
<1>9. bt = [b EXCEPT !.proxy = proxy]
  BY <1>1 DEF BT!InitService
<1> HIDE DEF o
<1>10. /\ b \in Copies /\ (b.present <=> first # BT!None)
       /\ b.path = first /\ b.devices = o.devices
       /\ b.present => b.powered = o.powered /\ b.scanning = o.scanning
  BY <1>7, <1>8, BtApplied
<1> HIDE DEF b, first
<1>11. proxy \in BtAdapter /\ (proxy = BT!None \/ proxy = first)
  BY <1>6, <1>10 DEF BtAdapter
<1>12. open => proxy = first
  BY <1>10
<1> HIDE DEF proxy
<1>13. /\ bt \in Copies /\ (bt.present <=> first # BT!None) /\ bt.path = first
       /\ bt.devices = o.devices /\ bt.proxy = proxy
       /\ bt.present => bt.powered = o.powered /\ bt.scanning = o.scanning
  BY <1>9, <1>10, <1>11 DEF Copies
<1>14. asked \in Seq(BtRequests) /\ told \in Seq(Replies) /\ Len(asked) = 0 /\ Len(told) = 0
  BY <1>1
<1>15. btPanel \in BtPanels /\ btPanel.open = open /\ btPanel.rows = BT!Rows(bt)
  <2>1. PICK f \in BOOLEAN : f = FALSE
    OBVIOUS
  <2>2. btPanel = [open |-> open, sub |-> <<>>, redraw |-> f, rows |-> BT!Rows(bt)]
    BY <1>1, <2>1
  <2> QED
    BY <1>13, <2>2, BtRowsTyped DEF BtPanels
<1>16. BT!TypeOK
  <2>1. Len(asked) <= MaxTraffic /\ Len(told) <= 1
    BY <1>14, BtNumbers
  <2> QED
    BY <1>1, <1>5, <1>13, <1>15, <2>1 DEF BT!TypeOK, BtServer, Copies, BtAdapter, BtPanels
<1>17. BtTyped /\ BtPainted
  <2>1. btWork \in [changes : Nat, clicks : Nat]
    BY <1>1
  <2> QED
    BY <1>14, <1>15, <2>1 DEF BtTyped, BtPainted
<1>18. BtMirrors
  BY <1>1, <1>7, <1>13 DEF BtMirrors, Mirrors, o
<1>19. Without(told, NoAdapter) /\ \A S : Without(asked, S)
  BY <1>14 DEF Without
<1>20. BtStarts
  <2>1. ~bt.present => bt.proxy = BT!None /\ bluez.discovering = {}
    BY <1>3, <1>6, <1>11, <1>13
  <2>2. bt.present => bluez.discovering \subseteq {bt.proxy}
    BY <1>3, <1>6, <1>12, <1>13 DEF first
  <2> QED
    BY <1>3, <1>4, <1>13, <1>19, <2>1, <2>2 DEF BtStarts
<1>21. BtStops
  BY <1>3, <1>15, <1>19 DEF BtStops
<1> QED
  BY <1>16, <1>17, <1>18, <1>20, <1>21 DEF BtInv

LEMMA BtStep == BtInv /\ BT!Next => BtInv'
  BY BtTickKeeps, BtDueKeeps, BtHearKeeps, BtToggleKeeps, BtPoweredKeeps, BtConfirmKeeps,
     BtCancelKeeps, BtPaintKeeps, BtRowKeeps, BtForgetKeeps, BtServeKeeps, BtAdapterKeeps,
     BtDeviceKeeps DEF BT!Next

LEMMA BtStays == BtInv /\ UNCHANGED btVars => BtInv'
  BY DEF BtInv, BT!TypeOK, BT!DeviceStates, BtTyped, BtPainted, BtMirrors, BtStarts, BtStops,
         Mirrors, BT!Objects, BT!Rows, btVars

LEMMA BtSettled == BtInv => BT!Settles /\ BT!DiscoveryFollowsPanel
<1> SUFFICES ASSUME BtInv PROVE BT!Settles /\ BT!DiscoveryFollowsPanel
  OBVIOUS
<1>1. ASSUME BT!Quiet
      PROVE  /\ BT!Shown(BT!Applied(bt, BT!Objects)) = [BT!Shown(bt) EXCEPT !.connecting = {}]
             /\ btPanel.open => btPanel.rows = BT!Rows(bt)
  <2> DEFINE o == BT!Objects
             n == BT!Applied(bt, o)
  <2>1. Mirrors(o) /\ o \in Snapshots
    BY <1>1, BtObjects DEF BT!Quiet, BtInv, BtMirrors
  <2> HIDE DEF o
  <2>2. /\ n \in Copies
        /\ n.present = bt.present /\ n.devices = bt.devices /\ n.connecting = {}
        /\ n.powered = bt.powered /\ n.scanning = bt.scanning
    BY <2>1, BtTypes, BtApplied DEF Mirrors, Copies
  <2> HIDE DEF n
  <2>3. bt \in Copies
    BY BtTypes
  <2>4. BT!Shown(n) = [BT!Shown(bt) EXCEPT !.connecting = {}]
    BY <2>2, <2>3 DEF BT!Shown, Copies
  <2> QED
    BY <1>1, <2>4 DEF n, o, BT!Quiet, BtInv, BtPainted
<1>2. ASSUME asked = <<>>, bluez.discovering # {} PROVE btPanel.open
  <2>1. bt.present
    BY <1>2 DEF BtInv, BtStarts
  <2>2. ~Halted(asked, Stops(bt.proxy), Starts)
    BY <1>2 DEF Halted
  <2> QED
    BY <1>2, <2>1, <2>2 DEF BtInv, BtStops
<1> QED
  BY <1>1, <1>2 DEF BT!Settles, BT!DiscoveryFollowsPanel

-----------------------------------------------------------------------------
(* The tray.  What a client has sent is in one order: its registration,    *)
(* what it answered while it ran, the notice that it is gone.  An open     *)
(* menu owes a frame, or has painted its level; the frame it owes is       *)
(* always behind a callback the compositor answers.                        *)
Layouts == 0..MaxLayout
Heights == Layouts \X {0, 1}
Menus == [item : Clients \union {Icons!NoItem}, popup : BOOLEAN, configured : BOOLEAN,
          done : BOOLEAN, path : {0, 1}, applied : Heights, shown : Heights \union {<<>>},
          clock : Icons!Clock]
Trays == [items : SUBSET Clients, proxies : SUBSET Clients, withMenu : SUBSET Clients,
          cache : [Clients -> Layouts]]
TrWords == {"props", "layout"}
TrMessages == [op : {"register", "exited", "failed"}, from : Clients]
                \union [op : TrWords, from : Clients, layout : 1..MaxLayout]
From(c) == {m \in TrMessages : m.from = c}
Registers(c) == {m \in From(c) : m.op = "register"}
Exits(c) == {m \in From(c) : m.op = "exited"}
Words(c) == {m \in From(c) : m.op \in TrWords}

\* Nothing of B comes after anything of A.
Ends(q, A, B) == \A i, j \in 1..Len(q) : i < j /\ q[i] \in A => q[j] \notin B

TrTyped ==
    /\ menu \in Menus /\ trInbox \in Seq(TrMessages)
    /\ trCalls \in [Clients -> Seq(TrWords)]

\* Where the words of client c are; nothing of it is kept once it is gone.
TrLife(c, life, calls_, q, t) ==
    /\ t.cache[c] # 0 => c \in t.items
    /\ life = "new" => c \notin t.items /\ Without(q, From(c))
    /\ life # "gone" => Without(q, Exits(c)) /\ (c \notin t.items => calls_ = <<>>)
    /\ life = "gone" /\ (c \in t.items \/ ~Without(q, Registers(c))) => ~Without(q, Exits(c))
    /\ c \notin t.items => Without(q, Words(c))
    /\ c \in t.items => Without(q, Registers(c))
    /\ Once(q, Registers(c)) /\ Ends(q, Exits(c), Words(c) \union Registers(c))
TrLives ==
    /\ tray.proxies = tray.items /\ tray.withMenu \subseteq tray.items
    /\ \A c \in Clients : TrLife(c, client[c].life, trCalls[c], trInbox, tray)

\* An open menu owes a frame behind a committed callback, or shows its level.
MenuOK(m, t) ==
    /\ m \in Menus /\ Icons!ClockOK(m.clock)
    /\ m.popup => m.item \in Clients /\ m.clock.mapped
    /\ m.popup /\ ~m.done =>
          /\ m.clock.callback # "armed"
          /\ m.clock.redraw \/ (m.item \in t.items /\ m.shown = Icons!MenuLevelHeight(t, m))
TrMenu == MenuOK(menu, tray) /\ (menu.popup /\ ~menu.configured => owed)

TrInv == Icons!TypeOK /\ TrTyped /\ TrLives /\ TrMenu

LEMMA TrNumbers == MaxLayout \in Nat \ {0} /\ 0 \in Layouts /\ 1..MaxLayout \subseteq Layouts
<1>1. MaxLayout \in Nat \ {0}
  BY ServicesAssumption
<1> QED
  BY <1>1 DEF Layouts

LEMMA TrTypes ==
    ASSUME TrInv
    PROVE  /\ menu \in Menus /\ tray \in Trays /\ trInbox \in Seq(TrMessages)
           /\ trCalls \in [Clients -> Seq(TrWords)] /\ owed \in BOOLEAN
           /\ client \in [Clients -> [life : {"new", "running", "gone"}, layout : 1..MaxLayout]]
           /\ MenuOK(menu, tray) /\ (menu.popup /\ ~menu.configured => owed)
           /\ tray.withMenu \subseteq tray.items
  BY DEF TrInv, TrTyped, Trays, Layouts, Icons!TypeOK, TrMenu, TrLives

\* A word more, and the words but the first.
LEMMA EndsAppend ==
    ASSUME NEW M, NEW q \in Seq(M), NEW e \in M, NEW A, NEW B, Ends(q, A, B),
           e \notin B \/ Without(q, A)
    PROVE  Ends(Append(q, e), A, B)
<1> DEFINE t == Append(q, e)
<1>1. /\ Len(q) \in Nat /\ Len(t) = Len(q) + 1 /\ t[Len(q) + 1] = e
      /\ \A i \in 1..Len(q) : t[i] = q[i]
  BY Grows
<1> HIDE DEF t
<1>2. /\ \A i \in 1..Len(t) : i = Len(q) + 1 \/ i \in 1..Len(q)
      /\ \A i, j \in 1..Len(t) : i < j => i \in 1..Len(q)
  BY <1>1
<1> QED
  BY <1>1, <1>2 DEF Ends, Without, t

LEMMA EndsTail ==
    ASSUME NEW M, NEW q \in Seq(M), q # <<>>, NEW A, NEW B, Ends(q, A, B)
    PROVE  /\ Ends(Tail(q), A, B)
           /\ Head(q) \in A => Without(Tail(q), B)
<1> DEFINE t == Tail(q)
<1>1. /\ Len(q) \in Nat \ {0} /\ Len(t) = Len(q) - 1 /\ Head(q) = q[1]
      /\ \A i \in 1..Len(t) : t[i] = q[i + 1]
  BY Shrinks
<1> HIDE DEF t
<1>2. /\ 1 \in 1..Len(q) /\ \A i \in 1..Len(t) : i + 1 \in 1..Len(q) /\ 1 < i + 1
      /\ \A i, j \in 1..Len(t) : i < j => i + 1 < j + 1
  BY <1>1
<1>3. Ends(t, A, B)
  <2> SUFFICES ASSUME NEW i \in 1..Len(t), NEW j \in 1..Len(t), i < j, t[i] \in A PROVE t[j] \notin B
    BY DEF Ends
  <2>1. i + 1 < j + 1 /\ q[i + 1] \in A /\ q[j + 1] = t[j]
    BY <1>1, <1>2
  <2> QED
    BY <1>2, <2>1 DEF Ends
<1>4. Head(q) \in A => Without(t, B)
  BY <1>1, <1>2 DEF Ends, Without
<1> QED
  BY <1>3, <1>4 DEF t

\* The level of a menu has a height.
LEMMA TrHeight ==
    ASSUME NEW t \in Trays, NEW m \in Menus, m.item \in Clients
    PROVE  Icons!MenuLevelHeight(t, m) \in Heights
  BY DEF Icons!MenuLevelHeight, Trays, Menus, Heights

\* The clocks the menu goes through.
LEMMA TrClocks ==
    ASSUME NEW c \in Icons!Clock, Icons!ClockOK(c)
    PROVE  /\ Icons!Deferred(c) \in Icons!Clock /\ Icons!Deferred(c).redraw
           /\ Icons!Deferred(c).callback = c.callback /\ Icons!Deferred(c).mapped = c.mapped
           /\ c.callback # "none" => Icons!ClockOK(Icons!Deferred(c))
           /\ Icons!Scheduled(c) \in Icons!Clock /\ Icons!Scheduled(c).redraw
           /\ Icons!Scheduled(c).callback = "committed" /\ Icons!Scheduled(c).mapped = c.mapped
           /\ c.mapped => Icons!ClockOK(Icons!Scheduled(c))
           /\ Icons!FirstDraw(c) \in Icons!Clock /\ Icons!ClockOK(Icons!FirstDraw(c))
           /\ Icons!FirstDraw(c).callback = "armed" /\ Icons!FirstDraw(c).mapped
           /\ Icons!DoneIdle(c) \in Icons!Clock /\ Icons!DoneIdle(c).callback = "none"
           /\ Icons!DoneIdle(c).redraw = c.redraw /\ Icons!DoneIdle(c).mapped = c.mapped
           /\ ~c.redraw => Icons!ClockOK(Icons!DoneIdle(c))
           /\ Icons!DoneForDraw(c) \in Icons!Clock /\ Icons!DoneForDraw(c).callback = "armed"
           /\ Icons!DoneForDraw(c).mapped = c.mapped
           /\ c.mapped => Icons!ClockOK(Icons!DoneForDraw(c))
           /\ Icons!Committed(c) \in Icons!Clock /\ Icons!Committed(c).redraw = c.redraw
           /\ Icons!Committed(c).mapped = c.mapped /\ Icons!Committed(c).callback # "armed"
           /\ c.callback = "armed" => Icons!Committed(c).callback = "committed"
           /\ Icons!ClockOK(Icons!Committed(c))
<1>1. PICK t \in BOOLEAN, f \in BOOLEAN : t = TRUE /\ f = FALSE
  OBVIOUS
<1>2. PICK k \in Icons!Callbacks, l \in Icons!Callbacks, n \in Icons!Callbacks :
         k = "armed" /\ l = "committed" /\ n = "none"
  BY DEF Icons!Callbacks
<1>3. c.callback \in Icons!Callbacks /\ c.redraw \in BOOLEAN /\ c.mapped \in BOOLEAN
  BY DEF Icons!Clock
<1>4. Icons!Deferred(c) = [c EXCEPT !.redraw = t]
  BY <1>1 DEF Icons!Deferred
<1>5. Icons!Scheduled(c) = [[c EXCEPT !.redraw = t] EXCEPT !.callback = l]
  <2> DEFINE d == [c EXCEPT !.redraw = t]
             e == [d EXCEPT !.callback = k]
  <2>1. d \in Icons!Clock
    BY DEF Icons!Clock
  <2>2. e.callback = "armed" /\ e \in Icons!Clock
    BY <1>2, <2>1 DEF Icons!Clock
  <2>3. [e EXCEPT !.callback = l] = [d EXCEPT !.callback = l]
    BY <2>1 DEF Icons!Clock
  <2>4. Icons!Scheduled(c) = Icons!Committed(e)
    BY <1>1, <1>2 DEF Icons!Scheduled, Icons!Armed
  <2> HIDE DEF e
  <2>5. Icons!Committed(e) = [e EXCEPT !.callback = l]
    BY <1>2, <2>2 DEF Icons!Committed
  <2> QED
    BY <2>3, <2>4, <2>5
<1>6. Icons!FirstDraw(c) = [[c EXCEPT !.mapped = t] EXCEPT !.callback = k]
  BY <1>1, <1>2 DEF Icons!FirstDraw, Icons!Armed
<1>7. Icons!DoneIdle(c) = [c EXCEPT !.callback = n]
  BY <1>2 DEF Icons!DoneIdle
<1>8. Icons!DoneForDraw(c) = [[c EXCEPT !.redraw = f] EXCEPT !.callback = k]
  BY <1>1, <1>2 DEF Icons!DoneForDraw, Icons!Armed
<1> DEFINE cb == IF c.callback = "armed" THEN l ELSE c.callback
<1>9. Icons!Committed(c) = [c EXCEPT !.callback = cb]
  BY <1>2 DEF Icons!Committed
<1>10. cb \in Icons!Callbacks /\ cb # "armed" /\ (c.callback = "armed" => cb = "committed")
       /\ (cb = "none" <=> c.callback = "none")
  BY <1>2, <1>3
<1> HIDE DEF cb
<1>11. /\ Icons!Deferred(c) \in Icons!Clock /\ Icons!Deferred(c).redraw
       /\ Icons!Deferred(c).callback = c.callback /\ Icons!Deferred(c).mapped = c.mapped
       /\ Icons!DoneIdle(c) \in Icons!Clock /\ Icons!DoneIdle(c).callback = "none"
       /\ Icons!DoneIdle(c).redraw = c.redraw /\ Icons!DoneIdle(c).mapped = c.mapped
  BY <1>1, <1>2, <1>3, <1>4, <1>7 DEF Icons!Clock
<1>12. /\ Icons!Scheduled(c) \in Icons!Clock /\ Icons!Scheduled(c).redraw
       /\ Icons!Scheduled(c).callback = "committed" /\ Icons!Scheduled(c).mapped = c.mapped
  BY <1>1, <1>2, <1>3, <1>5 DEF Icons!Clock
<1>13. /\ Icons!FirstDraw(c) \in Icons!Clock /\ Icons!FirstDraw(c).redraw = c.redraw
       /\ Icons!FirstDraw(c).callback = "armed" /\ Icons!FirstDraw(c).mapped
  BY <1>1, <1>2, <1>3, <1>6 DEF Icons!Clock
<1>14. /\ Icons!DoneForDraw(c) \in Icons!Clock /\ Icons!DoneForDraw(c).callback = "armed"
       /\ ~Icons!DoneForDraw(c).redraw /\ Icons!DoneForDraw(c).mapped = c.mapped
  BY <1>1, <1>2, <1>3, <1>8 DEF Icons!Clock
<1>15. /\ Icons!Committed(c) \in Icons!Clock /\ Icons!Committed(c).redraw = c.redraw
       /\ Icons!Committed(c).mapped = c.mapped /\ Icons!Committed(c).callback = cb
  BY <1>3, <1>9, <1>10 DEF Icons!Clock
<1>16. /\ c.callback # "none" => Icons!ClockOK(Icons!Deferred(c))
       /\ ~c.redraw => Icons!ClockOK(Icons!DoneIdle(c))
  BY <1>11 DEF Icons!ClockOK
<1>17. c.mapped => Icons!ClockOK(Icons!Scheduled(c))
  BY <1>12 DEF Icons!ClockOK
<1>18. Icons!ClockOK(Icons!FirstDraw(c))
  BY <1>13 DEF Icons!ClockOK
<1>19. c.mapped => Icons!ClockOK(Icons!DoneForDraw(c))
  BY <1>14 DEF Icons!ClockOK
<1>20. Icons!ClockOK(Icons!Committed(c)) /\ Icons!Committed(c).callback # "armed"
       /\ (c.callback = "armed" => Icons!Committed(c).callback = "committed")
  BY <1>10, <1>15 DEF Icons!ClockOK
<1> QED
  BY <1>11, <1>12, <1>13, <1>14, <1>15, <1>16, <1>17, <1>18, <1>19, <1>20

\* A menu as it is when it asks for a frame or draws one.
Asks(m) ==
    /\ m \in Menus /\ Icons!ClockOK(m.clock)
    /\ m.popup => m.item \in Clients /\ m.clock.mapped
    /\ m.popup /\ ~m.done => m.clock.callback # "armed"

\* A frame asked for a menu that is open is owed, and nothing else changes.
LEMMA TrRequested ==
    ASSUME NEW m, Asks(m), NEW t
    PROVE  LET r == Icons!RequestFrame(m, t)
           IN  /\ MenuOK(r, t) /\ r.configured = m.configured /\ r.applied = m.applied
               /\ r.popup = m.popup
<1> DEFINE r == Icons!RequestFrame(m, t)
<1>1. m \in Menus /\ m.clock \in Icons!Clock /\ Icons!ClockOK(m.clock)
  BY DEF Asks, Menus
<1>2. CASE ~m.popup \/ m.done
  <2>1. r = m
    BY <1>2 DEF Icons!RequestFrame
  <2> QED
    BY <1>1, <1>2, <2>1 DEF MenuOK, Asks
<1>3. CASE m.popup /\ ~m.done /\ m.clock.callback # "none"
  <2> DEFINE k == Icons!Deferred(m.clock)
  <2>1. r = [m EXCEPT !.clock = k]
    BY <1>3 DEF Icons!RequestFrame
  <2>2. /\ k \in Icons!Clock /\ Icons!ClockOK(k) /\ k.redraw /\ k.mapped = m.clock.mapped
        /\ k.callback = m.clock.callback
    BY <1>1, <1>3, TrClocks
  <2> HIDE DEF k
  <2>3. /\ r \in Menus /\ r.clock = k /\ r.popup = m.popup /\ r.item = m.item /\ r.done = m.done
        /\ r.configured = m.configured /\ r.applied = m.applied
    BY <1>1, <2>1, <2>2 DEF Menus
  <2> HIDE DEF r
  <2>4. MenuOK(r, t)
    BY <1>3, <2>2, <2>3 DEF MenuOK, Asks
  <2> QED
    BY <2>3, <2>4 DEF r
<1>4. CASE m.popup /\ ~m.done /\ m.clock.callback = "none"
  <2> DEFINE k == Icons!Scheduled(m.clock)
  <2>1. r = [m EXCEPT !.clock = k]
    BY <1>4 DEF Icons!RequestFrame, Asks
  <2>2. /\ k \in Icons!Clock /\ k.redraw /\ k.mapped = m.clock.mapped /\ k.callback = "committed"
        /\ Icons!ClockOK(k)
    BY <1>1, <1>4, TrClocks DEF Asks
  <2> HIDE DEF k
  <2>3. /\ r \in Menus /\ r.clock = k /\ r.popup = m.popup /\ r.item = m.item /\ r.done = m.done
        /\ r.configured = m.configured /\ r.applied = m.applied
    BY <1>1, <2>1, <2>2 DEF Menus
  <2> HIDE DEF r
  <2>4. MenuOK(r, t)
    BY <1>4, <2>2, <2>3 DEF MenuOK, Asks
  <2> QED
    BY <2>3, <2>4 DEF r
<1> QED
  BY <1>2, <1>3, <1>4

\* What a draw of the menu leaves, when its callback has been armed for it.
LEMMA TrPainted ==
    ASSUME NEW t \in Trays, NEW m \in Menus, m.popup, ~m.done, m.item \in Clients, m.configured,
           Icons!ClockOK(m.clock), m.clock.callback = "armed", m.clock.mapped
    PROVE  LET r == Icons!Paint(m, t)
           IN  /\ MenuOK(r, t) /\ r.popup /\ r.item = m.item
               /\ r.configured \/ (~r.configured /\ r.applied # m.applied)
<1> DEFINE r == Icons!Paint(m, t)
           h == Icons!MenuLevelHeight(t, m)
<1>1. m.clock \in Icons!Clock /\ h \in Heights
  BY TrHeight DEF Menus
<1>2. CASE m.item \notin t.items
  <2>1. PICK b \in BOOLEAN : b = TRUE
    OBVIOUS
  <2>2. r = [m EXCEPT !.done = b]
    BY <1>2, <2>1 DEF Icons!Paint
  <2>3. /\ r \in Menus /\ r.clock = m.clock /\ r.popup = m.popup /\ r.item = m.item /\ r.done
        /\ r.configured = m.configured
    BY <2>1, <2>2 DEF Menus
  <2> HIDE DEF r
  <2>4. MenuOK(r, t)
    BY <2>3 DEF MenuOK
  <2> QED
    BY <2>3, <2>4 DEF r
<1>3. CASE m.item \in t.items /\ h # m.applied
  <2> DEFINE k == Icons!Deferred(Icons!Committed(m.clock))
  <2>1. PICK b \in BOOLEAN : b = FALSE
    OBVIOUS
  <2>2. r = [m EXCEPT !.applied = h, !.configured = b, !.clock = k]
    BY <1>3, <2>1 DEF Icons!Paint, Icons!Reposition
  <2>3. /\ k \in Icons!Clock /\ Icons!ClockOK(k) /\ k.redraw /\ k.mapped
        /\ k.callback = "committed"
    <3>1. /\ Icons!Committed(m.clock) \in Icons!Clock /\ Icons!ClockOK(Icons!Committed(m.clock))
          /\ Icons!Committed(m.clock).callback = "committed" /\ Icons!Committed(m.clock).mapped
      BY <1>1, TrClocks
    <3> QED
      BY <3>1, TrClocks
  <2> HIDE DEF k, h
  <2>4. /\ r \in Menus /\ r.clock = k /\ r.popup = m.popup /\ r.item = m.item /\ r.done = m.done
        /\ ~r.configured /\ r.applied = h
    BY <1>1, <2>1, <2>2, <2>3 DEF Menus
  <2> HIDE DEF r
  <2>5. MenuOK(r, t)
    BY <2>3, <2>4 DEF MenuOK
  <2> QED
    BY <1>3, <2>4, <2>5 DEF r, h
<1>4. CASE m.item \in t.items /\ h = m.applied
  <2> DEFINE k == Icons!Committed(m.clock)
  <2>1. r = [m EXCEPT !.shown = h, !.clock = k]
    BY <1>4 DEF Icons!Paint
  <2>2. /\ k \in Icons!Clock /\ Icons!ClockOK(k) /\ k.mapped /\ k.callback # "armed"
    BY <1>1, TrClocks
  <2> HIDE DEF k, h
  <2>3. /\ r \in Menus /\ r.clock = k /\ r.popup = m.popup /\ r.item = m.item /\ r.done = m.done
        /\ r.configured = m.configured /\ r.shown = h /\ r.path = m.path
    BY <1>1, <2>1, <2>2 DEF Menus
  <2>4. Icons!MenuLevelHeight(t, r) = h
    BY <2>3 DEF Icons!MenuLevelHeight, h
  <2> HIDE DEF r
  <2>5. MenuOK(r, t)
    BY <1>4, <2>2, <2>3, <2>4 DEF MenuOK
  <2> QED
    BY <2>3, <2>5 DEF r
<1> QED
  BY <1>2, <1>3, <1>4

LEMMA TrNoMenu ==
    /\ Icons!NoMenu \in Menus /\ ~Icons!NoMenu.popup /\ Icons!ClockOK(Icons!NoMenu.clock)
    /\ \A t : MenuOK(Icons!NoMenu, t)
<1>1. PICK f \in BOOLEAN : f = FALSE
  OBVIOUS
<1>2. PICK k \in Icons!Clock : /\ k = Icons!IdleClock /\ k.callback = "none" /\ ~k.redraw
  <2>1. Icons!IdleClock = [callback |-> "none", redraw |-> f, mapped |-> f]
    BY <1>1 DEF Icons!IdleClock
  <2>2. Icons!IdleClock \in Icons!Clock /\ Icons!IdleClock.callback = "none"
        /\ ~Icons!IdleClock.redraw
    BY <1>1, <2>1 DEF Icons!Clock, Icons!Callbacks
  <2> QED
    BY <2>2
<1>3. PICK h \in Heights : h = <<0, 0>>
  <2>1. <<0, 0>> \in Heights
    BY TrNumbers DEF Heights
  <2> QED
    BY <2>1
<1>4. Icons!NoMenu =
        [item |-> Icons!NoItem, popup |-> f, configured |-> f, done |-> f,
         path |-> 0, applied |-> h, shown |-> <<>>, clock |-> k]
  BY <1>1, <1>2, <1>3 DEF Icons!NoMenu
<1>5. Icons!NoMenu \in Menus /\ ~Icons!NoMenu.popup /\ Icons!NoMenu.clock = k
  BY <1>1, <1>4 DEF Menus
<1>6. Icons!ClockOK(k)
  BY <1>2 DEF Icons!ClockOK
<1> QED
  BY <1>5, <1>6 DEF MenuOK

\* A menu opened anew is configured, drawn at once, and shows its level.
LEMMA TrOpened ==
    ASSUME NEW t \in Trays, NEW c \in t.items,
           NEW m, m = [Icons!NoMenu EXCEPT !.item = c, !.popup = TRUE, !.configured = TRUE,
                                           !.applied = <<t.cache[c], 0>>]
    PROVE  MenuOK(Icons!RequestFrame(m, t), t) /\ Icons!RequestFrame(m, t).configured
<1>1. c \in Clients /\ t.cache[c] \in Layouts
  BY DEF Trays
<1>2. PICK b \in BOOLEAN, f \in BOOLEAN : b = TRUE /\ f = FALSE
  OBVIOUS
<1>3. PICK h \in Heights : h = <<t.cache[c], 0>>
  <2>1. <<t.cache[c], 0>> \in Heights
    BY <1>1 DEF Heights
  <2> QED
    BY <2>1
<1>4. m = [Icons!NoMenu EXCEPT !.item = c, !.popup = b, !.configured = b, !.applied = h]
  BY <1>2, <1>3
<1>5. /\ Icons!NoMenu.path = 0 /\ ~Icons!NoMenu.done /\ Icons!NoMenu.clock = Icons!IdleClock
  BY DEF Icons!NoMenu
<1>6. /\ Icons!IdleClock \in Icons!Clock /\ Icons!IdleClock.callback = "none"
      /\ ~Icons!IdleClock.mapped /\ Icons!ClockOK(Icons!IdleClock)
  <2>1. Icons!IdleClock.callback = "none" /\ ~Icons!IdleClock.mapped
    BY DEF Icons!IdleClock
  <2> QED
    BY <1>5, <2>1, TrNoMenu DEF Menus
<1>7. /\ m \in Menus /\ m.item = c /\ m.popup /\ m.configured /\ m.applied = h /\ m.path = 0
      /\ ~m.done /\ m.clock = Icons!IdleClock
  BY <1>1, <1>2, <1>4, <1>5, TrNoMenu DEF Menus
<1> DEFINE k == Icons!FirstDraw(m.clock)
           n == [m EXCEPT !.clock = k]
<1>8. Icons!RequestFrame(m, t) = Icons!Paint(n, t)
  BY <1>6, <1>7 DEF Icons!RequestFrame
<1>9. k \in Icons!Clock /\ Icons!ClockOK(k) /\ k.callback = "armed" /\ k.mapped
  BY <1>6, <1>7, TrClocks
<1> HIDE DEF k
<1>10. /\ n \in Menus /\ n.item = c /\ n.popup /\ n.configured /\ n.applied = h /\ n.path = 0
       /\ ~n.done /\ n.clock = k
  BY <1>7, <1>9 DEF Menus
<1> HIDE DEF n
<1>11. Icons!MenuLevelHeight(t, n) = n.applied
  BY <1>3, <1>10 DEF Icons!MenuLevelHeight
<1>12. Icons!Paint(n, t).configured
  <2>1. Icons!Paint(n, t) =
          [n EXCEPT !.shown = Icons!MenuLevelHeight(t, n), !.clock = Icons!Committed(n.clock)]
    BY <1>10, <1>11 DEF Icons!Paint
  <2> QED
    BY <1>10, <2>1 DEF Menus
<1>13. MenuOK(Icons!Paint(n, t), t)
  BY <1>1, <1>9, <1>10, TrPainted
<1> QED
  BY <1>8, <1>12, <1>13

\* An open menu at another level, or that is done.
LEMMA TrMoved ==
    ASSUME NEW m, NEW t, MenuOK(m, t), NEW p \in {0, 1}
    PROVE  LET r == [m EXCEPT !.path = p]
           IN  Asks(r) /\ r.popup = m.popup /\ r.configured = m.configured /\ r.applied = m.applied
<1> DEFINE r == [m EXCEPT !.path = p]
<1>1. m \in Menus
  BY DEF MenuOK
<1>2. /\ r \in Menus /\ r.popup = m.popup /\ r.configured = m.configured /\ r.item = m.item
      /\ r.applied = m.applied /\ r.clock = m.clock /\ r.done = m.done
  BY <1>1 DEF Menus
<1> HIDE DEF r
<1>3. Asks(r)
  BY <1>2 DEF MenuOK, Asks
<1> QED
  BY <1>2, <1>3 DEF r

\* The shell's own steps change the menu; a call goes to a client with an item.
LEMMA TrUserKeeps ==
    ASSUME TrInv, UNCHANGED <<client, trInbox, tray>>, NEW m, Icons!SetMenu(m), MenuOK(m, tray),
           m.popup /\ ~m.configured => (menu.popup /\ ~menu.configured) \/ m.applied # menu.applied,
           \/ trCalls' = trCalls
           \/ \E c \in tray.items : \E w \in TrWords :
                 trCalls' = [trCalls EXCEPT ![c] = Append(@, w)]
    PROVE  TrInv'
<1>1. menu' = m /\ (m.popup /\ ~m.configured => owed') /\ owed' \in BOOLEAN
  BY TrTypes DEF Icons!SetMenu
<1>2. TrMenu'
  BY <1>1 DEF TrMenu, MenuOK, Icons!MenuLevelHeight
<1>3. /\ trCalls' \in [Clients -> Seq(TrWords)]
      /\ \A c \in Clients : trCalls'[c] = trCalls[c] \/ c \in tray.items
  <2>1. CASE trCalls' = trCalls
    BY <2>1, TrTypes
  <2>2. ASSUME NEW c \in tray.items, NEW w \in TrWords,
               trCalls' = [trCalls EXCEPT ![c] = Append(@, w)]
        PROVE  /\ trCalls' \in [Clients -> Seq(TrWords)]
               /\ \A d \in Clients : trCalls'[d] = trCalls[d] \/ d \in tray.items
    <3>1. c \in Clients /\ trCalls \in [Clients -> Seq(TrWords)]
      BY TrTypes DEF Trays
    <3>2. Append(trCalls[c], w) \in Seq(TrWords)
      BY <3>1
    <3> QED
      BY <2>2, <3>1, <3>2
  <2> QED
    BY <2>1, <2>2
<1>4. TrTyped'
  BY <1>1, <1>3, TrTypes DEF TrTyped, MenuOK
<1>5. Icons!TypeOK'
  BY <1>1, TrTypes DEF TrInv, Icons!TypeOK, MenuOK
<1>6. TrLives'
  <2>1. ASSUME NEW c \in Clients
        PROVE  TrLife(c, client[c].life, trCalls'[c], trInbox, tray)
    BY <1>3, <2>1 DEF TrInv, TrLives, TrLife
  <2> QED
    BY <2>1 DEF TrInv, TrLives
<1> QED
  BY <1>2, <1>4, <1>5, <1>6 DEF TrInv

LEMMA TrRightClickKeeps == ASSUME TrInv, NEW c \in Clients, Icons!RightClick(c) PROVE TrInv'
<1>1. UNCHANGED <<client, trInbox, tray>> /\ c \in tray.withMenu /\ c \in tray.items
  BY TrTypes DEF Icons!RightClick, Icons!Click
<1> DEFINE o == Icons!MenuOpen(menu, tray, c)
           r == Icons!RequestFrame(o, tray)
<1>2. Icons!SetMenu(r)
  BY DEF Icons!RightClick
<1>3. /\ MenuOK(r, tray)
      /\ r.popup /\ ~r.configured => (menu.popup /\ ~menu.configured) \/ r.applied # menu.applied
  <2>1. CASE menu.popup /\ menu.item = c
    <3>1. o = [menu EXCEPT !.path = 0]
      BY <2>1 DEF Icons!MenuOpen
    <3>2. Asks(o) /\ o.popup = menu.popup /\ o.configured = menu.configured
      BY <3>1, TrTypes, TrMoved
    <3> HIDE DEF o
    <3> QED
      BY <2>1, <3>2, TrRequested
  <2>2. CASE ~(menu.popup /\ menu.item = c)
    <3>1. o = [Icons!NoMenu EXCEPT !.item = c, !.popup = TRUE, !.configured = TRUE,
                                   !.applied = <<tray.cache[c], 0>>]
      BY <2>2 DEF Icons!MenuOpen
    <3> HIDE DEF o
    <3> QED
      BY <1>1, <3>1, TrTypes, TrOpened
  <2> QED
    BY <2>1, <2>2
<1>4. \/ trCalls' = trCalls
      \/ \E d \in tray.items : \E w \in TrWords : trCalls' = [trCalls EXCEPT ![d] = Append(@, w)]
  BY <1>1 DEF Icons!RightClick, TrWords
<1> HIDE DEF r
<1> QED
  BY <1>1, <1>2, <1>3, <1>4, TrUserKeeps

\* A menu that is closed.
LEMMA TrCloses ==
    ASSUME TrInv, UNCHANGED <<client, trInbox, tray, trCalls>>, Icons!SetMenu(Icons!NoMenu)
    PROVE  TrInv'
  BY TrNoMenu, TrUserKeeps

\* An open menu at another level asks for a frame.
LEMMA TrMoves ==
    ASSUME TrInv, UNCHANGED <<client, trInbox, tray, trCalls>>, NEW p \in {0, 1},
           Icons!SetMenu(Icons!RequestFrame([menu EXCEPT !.path = p], tray))
    PROVE  TrInv'
<1> DEFINE o == [menu EXCEPT !.path = p]
           r == Icons!RequestFrame(o, tray)
<1>1. Asks(o) /\ o.popup = menu.popup /\ o.configured = menu.configured
  BY TrTypes, TrMoved
<1> HIDE DEF o
<1>2. MenuOK(r, tray) /\ r.popup = menu.popup /\ r.configured = menu.configured
  BY <1>1, TrRequested
<1>3. Icons!SetMenu(r)
  BY DEF o
<1> HIDE DEF r
<1> QED
  BY <1>2, <1>3, TrUserKeeps

LEMMA TrClicksKeep ==
    ASSUME TrInv,
           \/ \E c \in Clients : Icons!LeftClick(c)
           \/ Icons!ClickEntry \/ Icons!Back \/ Icons!Tick
    PROVE  TrInv'
<1>1. UNCHANGED <<client, trInbox, tray, trCalls>>
  BY DEF Icons!LeftClick, Icons!ClickEntry, Icons!Back, Icons!Tick, Icons!Click
<1>2. \/ Icons!SetMenu(Icons!NoMenu)
      \/ Icons!SetMenu(Icons!RequestFrame([menu EXCEPT !.path = 0], tray))
      \/ Icons!SetMenu(Icons!RequestFrame([menu EXCEPT !.path = 1], tray))
  BY DEF Icons!LeftClick, Icons!ClickEntry, Icons!Back, Icons!Tick
<1> QED
  BY <1>1, <1>2, TrCloses, TrMoves

LEMMA TrDoneKeeps == TrInv /\ Icons!PopupDone => TrInv'
<1> SUFFICES ASSUME TrInv, Icons!PopupDone PROVE TrInv'
  OBVIOUS
<1>1. PICK b \in BOOLEAN : b = TRUE
  OBVIOUS
<1> DEFINE r == [menu EXCEPT !.done = b]
<1>2. UNCHANGED <<client, trInbox, tray, trCalls>> /\ Icons!SetMenu(r)
  BY <1>1 DEF Icons!PopupDone, Icons!Click
<1>3. /\ r \in Menus /\ r.done /\ r.popup = menu.popup /\ r.configured = menu.configured
      /\ r.clock = menu.clock /\ r.item = menu.item
  BY <1>1, TrTypes DEF Menus
<1> HIDE DEF r
<1>4. MenuOK(r, tray)
  BY <1>3, TrTypes DEF MenuOK
<1> QED
  BY <1>2, <1>3, <1>4, TrUserKeeps

\* The callback: nothing to draw, the popup is done, or a draw.  The compositor
\* has configured a popup it resized, so that a draw finds it configured.
LEMMA TrFrameKeeps == TrInv /\ Icons!FrameDone => TrInv'
<1> SUFFICES ASSUME TrInv, Icons!FrameDone PROVE TrInv'
  OBVIOUS
<1>1. /\ UNCHANGED <<client, trInbox, tray, trCalls>> /\ menu.popup /\ ~owed
      /\ menu.clock.callback = "committed"
  BY DEF Icons!FrameDone
<1>2. /\ menu.configured /\ menu \in Menus /\ menu.item \in Clients /\ menu.clock \in Icons!Clock
      /\ Icons!ClockOK(menu.clock) /\ menu.clock.mapped /\ tray \in Trays
  BY <1>1, TrTypes DEF MenuOK, Menus
<1>3. CASE ~menu.clock.redraw
  <2> DEFINE k == Icons!DoneIdle(menu.clock)
             r == [menu EXCEPT !.clock = k]
  <2>1. Icons!SetMenu(r)
    BY <1>3 DEF Icons!FrameDone
  <2>2. /\ k \in Icons!Clock /\ k.callback = "none" /\ k.redraw = menu.clock.redraw /\ k.mapped
        /\ Icons!ClockOK(k)
    BY <1>2, <1>3, TrClocks
  <2> HIDE DEF k
  <2>3. /\ r \in Menus /\ r.clock = k /\ r.popup = menu.popup /\ r.done = menu.done
        /\ r.configured = menu.configured /\ r.item = menu.item /\ r.shown = menu.shown
        /\ r.path = menu.path
    BY <1>2, <2>2 DEF Menus
  <2> HIDE DEF r
  <2>4. Icons!MenuLevelHeight(tray, r) = Icons!MenuLevelHeight(tray, menu)
    BY <2>3 DEF Icons!MenuLevelHeight
  <2>5. MenuOK(r, tray)
    BY <1>2, <1>3, <2>2, <2>3, <2>4, TrTypes DEF MenuOK
  <2> QED
    BY <1>1, <1>2, <2>1, <2>3, <2>5, TrUserKeeps
<1> DEFINE k == Icons!DoneForDraw(menu.clock)
           n == [menu EXCEPT !.clock = k]
<1>4. /\ k \in Icons!Clock /\ k.callback = "armed" /\ k.mapped /\ Icons!ClockOK(k)
  BY <1>2, TrClocks
<1>5. /\ n \in Menus /\ n.clock = k /\ n.popup = menu.popup /\ n.done = menu.done
      /\ n.configured = menu.configured /\ n.item = menu.item /\ n.applied = menu.applied
  <2> HIDE DEF k
  <2> QED
    BY <1>2, <1>4 DEF Menus
<1>6. CASE menu.clock.redraw /\ menu.done
  <2>1. Icons!SetMenu(n)
    BY <1>6 DEF Icons!FrameDone
  <2> HIDE DEF n, k
  <2>2. MenuOK(n, tray)
    BY <1>2, <1>4, <1>5, <1>6 DEF MenuOK
  <2> QED
    BY <1>1, <1>2, <1>5, <2>1, <2>2, TrUserKeeps
<1>7. CASE menu.clock.redraw /\ ~menu.done
  <2> DEFINE r == Icons!Paint(n, tray)
  <2>1. Icons!SetMenu(r)
    BY <1>7 DEF Icons!FrameDone
  <2> HIDE DEF n, k
  <2>2. MenuOK(r, tray) /\ (r.configured \/ (~r.configured /\ r.applied # n.applied))
    BY <1>1, <1>2, <1>4, <1>5, <1>7, TrPainted
  <2> HIDE DEF r
  <2> QED
    BY <1>1, <1>5, <2>1, <2>2, TrUserKeeps
<1> QED
  BY <1>3, <1>6, <1>7, <1>2 DEF Icons!Clock

\* The configure of a popup.
LEMMA TrConfigureKeeps == TrInv /\ Icons!Configure => TrInv'
<1> SUFFICES ASSUME TrInv, Icons!Configure PROVE TrInv'
  OBVIOUS
<1>1. PICK b \in BOOLEAN : b = TRUE
  OBVIOUS
<1>2. UNCHANGED <<client, trInbox, tray, trCalls>> /\ menu' = [menu EXCEPT !.configured = b]
      /\ owed' \in BOOLEAN
  BY <1>1 DEF Icons!Configure
<1>3. /\ menu' \in Menus /\ menu'.configured /\ menu'.popup = menu.popup /\ menu'.done = menu.done
      /\ menu'.clock = menu.clock /\ menu'.item = menu.item /\ menu'.shown = menu.shown
      /\ menu'.path = menu.path
  BY <1>1, <1>2, TrTypes DEF Menus
<1>4. TrMenu'
  BY <1>2, <1>3, TrTypes DEF TrMenu, MenuOK, Icons!MenuLevelHeight
<1>5. Icons!TypeOK' /\ TrTyped'
  BY <1>2, <1>3 DEF TrInv, Icons!TypeOK, TrTyped
<1>6. TrLives'
  BY <1>2 DEF TrInv, TrLives
<1> QED
  BY <1>4, <1>5, <1>6 DEF TrInv

\* The sets of a client's messages.
LEMMA TrSets ==
    ASSUME NEW c
    PROVE  /\ Registers(c) \subseteq From(c) /\ Exits(c) \subseteq From(c) /\ Words(c) \subseteq From(c)
           /\ From(c) \subseteq TrMessages
           /\ \A q, S, T : S \subseteq T /\ Without(q, T) => Without(q, S)
           /\ \A m \in From(c) : /\ m \in Registers(c) <=> m.op = "register"
                                 /\ m \in Exits(c) <=> m.op = "exited"
                                 /\ m \in Words(c) <=> m.op \in TrWords
<1>1. /\ Registers(c) \subseteq From(c) /\ Exits(c) \subseteq From(c) /\ Words(c) \subseteq From(c)
      /\ From(c) \subseteq TrMessages
  BY DEF Registers, Exits, Words, From
<1>2. \A q, S, T : S \subseteq T /\ Without(q, T) => Without(q, S)
  BY DEF Without
<1>3. \A m \in From(c) : /\ m \in Registers(c) <=> m.op = "register"
                         /\ m \in Exits(c) <=> m.op = "exited"
                         /\ m \in Words(c) <=> m.op \in TrWords
  BY DEF Registers, Exits, Words
<1> QED
  BY <1>1, <1>2, <1>3

\* A message of another client changes nothing for this one.
LEMMA TrAside ==
    ASSUME NEW c, NEW q \in Seq(TrMessages), NEW m \in TrMessages, m.from # c,
           NEW life, NEW k, NEW t, TrLife(c, life, k, q, t)
    PROVE  TrLife(c, life, k, Append(q, m), t)
<1>1. m \notin From(c)
  BY DEF From
<1>2. m \notin Registers(c) /\ m \notin Exits(c) /\ m \notin Words(c)
      /\ m \notin Words(c) \union Registers(c)
  BY <1>1, TrSets
<1>3. \A S : m \notin S => (Without(Append(q, m), S) <=> Without(q, S))
  BY WithoutAppend
<1>4. Once(Append(q, m), Registers(c))
  BY <1>2, WithoutAppend DEF TrLife
<1>5. Ends(Append(q, m), Exits(c), Words(c) \union Registers(c))
  BY <1>2, EndsAppend DEF TrLife
<1> QED
  BY <1>1, <1>2, <1>3, <1>4, <1>5 DEF TrLife

\* A message of another client that is handled changes nothing either.
LEMMA TrPassed ==
    ASSUME NEW c, NEW q \in Seq(TrMessages), q # <<>>, Head(q) \notin From(c),
           NEW life, NEW k, NEW t, NEW u, TrLife(c, life, k, q, t),
           u.cache[c] = t.cache[c], c \in u.items <=> c \in t.items
    PROVE  TrLife(c, life, k, Tail(q), u)
<1>1. Head(q) \notin Registers(c) /\ Head(q) \notin Exits(c) /\ Head(q) \notin Words(c)
  BY TrSets
<1>2. \A S : Head(q) \notin S => (Without(q, S) <=> Without(Tail(q), S))
  BY WithoutTail
<1>3. Once(Tail(q), Registers(c))
  BY WithoutTail DEF TrLife
<1>4. Ends(Tail(q), Exits(c), Words(c) \union Registers(c))
  BY EndsTail DEF TrLife
<1> QED
  BY <1>1, <1>2, <1>3, <1>4 DEF TrLife

\* A step of client c: it may change, take a call, and send a message.
LEMMA TrClientKeeps ==
    ASSUME TrInv, UNCHANGED <<tray, menu, owed>>, NEW c \in Clients,
           client' \in [Clients -> [life : {"new", "running", "gone"}, layout : 1..MaxLayout]],
           trCalls' \in [Clients -> Seq(TrWords)],
           \A d \in Clients \ {c} : client'[d] = client[d] /\ trCalls'[d] = trCalls[d],
           trInbox' = trInbox \/ \E m \in From(c) : trInbox' = Append(trInbox, m),
           TrLife(c, client'[c].life, trCalls'[c], trInbox', tray)
    PROVE  TrInv'
<1>1. trInbox' \in Seq(TrMessages)
  <2>1. ASSUME NEW m \in From(c) PROVE Append(trInbox, m) \in Seq(TrMessages)
    BY TrTypes, TrSets, Grows
  <2> QED
    BY <2>1, TrTypes
<1>2. Icons!TypeOK' /\ TrTyped'
  BY <1>1 DEF TrInv, Icons!TypeOK, TrTyped
<1>3. TrMenu'
  BY DEF TrInv, TrMenu
<1>4. TrLives'
  <2>1. ASSUME NEW d \in Clients \ {c}
        PROVE  TrLife(d, client'[d].life, trCalls'[d], trInbox', tray)
    <3>1. TrLife(d, client[d].life, trCalls[d], trInbox, tray)
      BY <2>1 DEF TrInv, TrLives
    <3>2. ASSUME NEW m \in From(c)
          PROVE  TrLife(d, client[d].life, trCalls[d], Append(trInbox, m), tray)
      <4>1. m \in TrMessages /\ m.from # d
        BY <2>1 DEF From
      <4> QED
        BY <3>1, <4>1, TrTypes, TrAside
    <3> QED
      BY <2>1, <3>1, <3>2
  <2> QED
    BY <2>1 DEF TrInv, TrLives
<1> QED
  BY <1>2, <1>3, <1>4 DEF TrInv

\* What TrLife says of a message more of the client itself.
LEMMA TrSaid ==
    ASSUME NEW c, NEW q \in Seq(TrMessages), NEW m \in From(c), NEW life, NEW k, NEW t,
           TrLife(c, life, k, q, t)
    PROVE  LET p == Append(q, m)
           IN  /\ Without(p, Registers(c)) <=> Without(q, Registers(c)) /\ m.op # "register"
               /\ Without(p, Exits(c)) <=> Without(q, Exits(c)) /\ m.op # "exited"
               /\ Without(p, Words(c)) <=> Without(q, Words(c)) /\ m.op \notin TrWords
               /\ (m.op = "register" => Without(q, Registers(c))) => Once(p, Registers(c))
               /\ (m.op \in TrWords \union {"register"} => Without(q, Exits(c)))
                    => Ends(p, Exits(c), Words(c) \union Registers(c))
<1>1. /\ m \in Registers(c) <=> m.op = "register"
      /\ m \in Exits(c) <=> m.op = "exited"
      /\ m \in Words(c) <=> m.op \in TrWords
      /\ m \in TrMessages
  BY TrSets
<1>2. \A S : Without(Append(q, m), S) <=> Without(q, S) /\ m \notin S
  BY <1>1, WithoutAppend
<1>3. (m.op = "register" => Without(q, Registers(c))) => Once(Append(q, m), Registers(c))
  BY <1>1, WithoutAppend DEF TrLife
<1>4. (m.op \in TrWords \union {"register"} => Without(q, Exits(c)))
        => Ends(Append(q, m), Exits(c), Words(c) \union Registers(c))
  <2>1. m \notin Words(c) \union Registers(c) <=> m.op \notin TrWords \union {"register"}
    BY <1>1
  <2> QED
    BY <1>1, <2>1, EndsAppend DEF TrLife
<1> QED
  BY <1>1, <1>2, <1>3, <1>4

LEMMA TrStartsKeeps == ASSUME TrInv, NEW c \in Clients, Icons!ClientStarts(c) PROVE TrInv'
<1> DEFINE m == [op |-> "register", from |-> c]
<1>1. /\ client[c].life = "new" /\ client' = [client EXCEPT ![c].life = "running"]
      /\ trInbox' = Append(trInbox, m) /\ UNCHANGED <<trCalls, tray, menu, owed>>
  BY DEF Icons!ClientStarts, Icons!Send, Icons!ClientActs
<1>2. m \in From(c) /\ m.op = "register"
  BY DEF From, TrMessages
<1> HIDE DEF m
<1>3. /\ client' \in [Clients -> [life : {"new", "running", "gone"}, layout : 1..MaxLayout]]
      /\ \A d \in Clients \ {c} : client'[d] = client[d]
      /\ client'[c].life = "running"
  BY <1>1, TrTypes
<1>4. TrLife(c, "new", trCalls[c], trInbox, tray)
  BY <1>1 DEF TrInv, TrLives
<1>5. /\ Without(trInbox, From(c)) /\ Without(trInbox, Registers(c))
      /\ Without(trInbox, Exits(c)) /\ Without(trInbox, Words(c))
  BY <1>4, TrSets DEF TrLife
<1>6. TrLife(c, "running", trCalls[c], trInbox', tray)
  <2>1. /\ Without(trInbox', Exits(c)) /\ Without(trInbox', Words(c))
        /\ Once(trInbox', Registers(c)) /\ Ends(trInbox', Exits(c), Words(c) \union Registers(c))
    BY <1>1, <1>2, <1>4, <1>5, TrTypes, TrSaid DEF TrWords
  <2> QED
    BY <1>4, <2>1 DEF TrLife
<1> QED
  BY <1>1, <1>2, <1>3, <1>6, TrTypes, TrClientKeeps

LEMMA TrChangesKeeps == ASSUME TrInv, NEW c \in Clients, Icons!MenuChanges(c) PROVE TrInv'
<1>1. /\ client[c].layout < MaxLayout /\ client' = [client EXCEPT ![c].layout = @ + 1]
      /\ UNCHANGED <<trInbox, trCalls, tray, menu, owed>>
  BY DEF Icons!MenuChanges, Icons!ClientActs
<1>2. client[c] \in [life : {"new", "running", "gone"}, layout : 1..MaxLayout]
  BY TrTypes
<1>3. client[c].layout + 1 \in 1..MaxLayout
  BY <1>1, <1>2, TrNumbers
<1>4. /\ client' \in [Clients -> [life : {"new", "running", "gone"}, layout : 1..MaxLayout]]
      /\ \A d \in Clients \ {c} : client'[d] = client[d]
      /\ client'[c].life = client[c].life
  BY <1>1, <1>2, <1>3, TrTypes
<1>5. TrLife(c, client'[c].life, trCalls'[c], trInbox', tray)
  BY <1>1, <1>4 DEF TrInv, TrLives
<1> QED
  BY <1>1, <1>4, <1>5, TrTypes, TrClientKeeps

LEMMA TrAnswersKeeps == ASSUME TrInv, NEW c \in Clients, Icons!Answers(c) PROVE TrInv'
<1>1. /\ trCalls[c] # <<>> /\ trCalls' = [trCalls EXCEPT ![c] = Tail(@)]
      /\ UNCHANGED <<client, tray, menu, owed>>
  BY DEF Icons!Answers, Icons!ClientActs
<1>2. Head(trCalls[c]) \in TrWords /\ Tail(trCalls[c]) \in Seq(TrWords)
  BY <1>1, TrTypes, Shrinks
<1>3. /\ trCalls' \in [Clients -> Seq(TrWords)] /\ trCalls'[c] = Tail(trCalls[c])
      /\ \A d \in Clients \ {c} : trCalls'[d] = trCalls[d]
  BY <1>1, <1>2, TrTypes
<1>4. TrLife(c, client[c].life, trCalls[c], trInbox, tray)
  BY DEF TrInv, TrLives
<1>5. client[c] \in [life : {"new", "running", "gone"}, layout : 1..MaxLayout]
  BY TrTypes
<1>6. CASE client[c].life # "running"
  <2> DEFINE m == [op |-> "failed", from |-> c]
  <2>1. trInbox' = Append(trInbox, m)
    BY <1>6 DEF Icons!Answers, Icons!Send
  <2>2. m \in From(c) /\ m.op = "failed"
    BY DEF From, TrMessages
  <2> HIDE DEF m
  <2>3. client[c].life = "gone"
    BY <1>1, <1>4, <1>5, <1>6 DEF TrLife
  <2>4. TrLife(c, client[c].life, trCalls'[c], trInbox', tray)
    <3>1. /\ Without(trInbox', Registers(c)) <=> Without(trInbox, Registers(c))
          /\ Without(trInbox', Exits(c)) <=> Without(trInbox, Exits(c))
          /\ Without(trInbox', Words(c)) <=> Without(trInbox, Words(c))
          /\ Once(trInbox', Registers(c)) /\ Ends(trInbox', Exits(c), Words(c) \union Registers(c))
      BY <1>4, <2>1, <2>2, TrTypes, TrSaid DEF TrWords
    <3> QED
      BY <1>4, <2>3, <3>1 DEF TrLife
  <2> QED
    BY <1>1, <1>3, <2>1, <2>2, <2>4, TrTypes, TrClientKeeps
<1>7. CASE client[c].life = "running"
  <2> DEFINE m == [op |-> Head(trCalls[c]), from |-> c, layout |-> client[c].layout]
  <2>1. trInbox' = Append(trInbox, m)
    BY <1>7 DEF Icons!Answers, Icons!Send
  <2>2. m \in From(c) /\ m.op \in TrWords
    <3>1. m \in [op : TrWords, from : Clients, layout : 1..MaxLayout]
      BY <1>2, <1>5
    <3> QED
      BY <1>2, <3>1 DEF From, TrMessages
  <2> HIDE DEF m
  <2>3. c \in tray.items /\ Without(trInbox, Exits(c))
    BY <1>1, <1>4, <1>7 DEF TrLife
  <2>4. TrLife(c, client[c].life, trCalls'[c], trInbox', tray)
    <3>1. /\ Without(trInbox', Registers(c)) <=> Without(trInbox, Registers(c))
          /\ Without(trInbox', Exits(c)) <=> Without(trInbox, Exits(c))
          /\ Once(trInbox', Registers(c)) /\ Ends(trInbox', Exits(c), Words(c) \union Registers(c))
      BY <1>4, <2>1, <2>2, <2>3, TrTypes, TrSaid DEF TrWords
    <3> QED
      BY <1>4, <1>7, <2>3, <3>1 DEF TrLife
  <2> QED
    BY <1>1, <1>3, <2>1, <2>2, <2>4, TrTypes, TrClientKeeps
<1> QED
  BY <1>6, <1>7

LEMMA TrExitsKeeps == ASSUME TrInv, NEW c \in Clients, Icons!ClientExits(c) PROVE TrInv'
<1> DEFINE m == [op |-> "exited", from |-> c]
<1>1. /\ client[c].life = "running" /\ client' = [client EXCEPT ![c].life = "gone"]
      /\ trInbox' = Append(trInbox, m) /\ UNCHANGED <<trCalls, tray, menu, owed>>
  BY DEF Icons!ClientExits, Icons!Send, Icons!ClientActs
<1>2. m \in From(c) /\ m.op = "exited"
  BY DEF From, TrMessages
<1> HIDE DEF m
<1>3. /\ client' \in [Clients -> [life : {"new", "running", "gone"}, layout : 1..MaxLayout]]
      /\ \A d \in Clients \ {c} : client'[d] = client[d]
      /\ client'[c].life = "gone"
  BY <1>1, TrTypes
<1>4. TrLife(c, "running", trCalls[c], trInbox, tray)
  BY <1>1 DEF TrInv, TrLives
<1>5. TrLife(c, "gone", trCalls[c], trInbox', tray)
  <2>1. /\ ~Without(trInbox', Exits(c))
        /\ Without(trInbox', Registers(c)) <=> Without(trInbox, Registers(c))
        /\ Without(trInbox', Words(c)) <=> Without(trInbox, Words(c))
        /\ Once(trInbox', Registers(c)) /\ Ends(trInbox', Exits(c), Words(c) \union Registers(c))
    BY <1>1, <1>2, <1>4, TrTypes, TrSaid DEF TrWords
  <2> QED
    BY <1>4, <2>1 DEF TrLife
<1> QED
  BY <1>1, <1>2, <1>3, <1>5, TrTypes, TrClientKeeps

\* What hearing a message of client c does to what is kept.
LEMMA TrHeard ==
    ASSUME NEW t \in Trays, t.proxies = t.items, t.withMenu \subseteq t.items,
           NEW c \in Clients, NEW m \in From(c)
    PROVE  LET u == Icons!Heard(t, m)
           IN  /\ u \in Trays /\ u.proxies = u.items /\ u.withMenu \subseteq u.items
               /\ \A d \in Clients \ {c} : u.cache[d] = t.cache[d] /\ (d \in u.items <=> d \in t.items)
               /\ m.op = "register" => c \in u.items /\ u.cache[c] = t.cache[c]
               /\ m.op = "exited" => c \notin u.items /\ u.cache[c] = 0
               /\ m.op = "failed" => u = t
               /\ m.op \in TrWords => u.items = t.items
               /\ m.op = "props" => u.cache[c] = t.cache[c]
<1> DEFINE u == Icons!Heard(t, m)
<1>1. m.from = c /\ m \in TrMessages
  BY DEF From
<1>2. CASE m.op = "register"
  <2>1. u = Icons!RegisterItem(t, c)
    BY <1>1, <1>2 DEF Icons!Heard
  <2>2. u = t \/ u = [t EXCEPT !.items = t.items \union {c}, !.proxies = t.proxies \union {c}]
    BY <2>1 DEF Icons!RegisterItem
  <2>3. c \in u.items
    BY <2>1 DEF Icons!RegisterItem, Trays
  <2> HIDE DEF u
  <2>4. u \in Trays /\ u.proxies = u.items /\ u.withMenu \subseteq u.items
        /\ u.cache = t.cache /\ u.items \subseteq t.items \union {c} /\ t.items \subseteq u.items
    BY <2>2 DEF Trays
  <2>5. \A d \in Clients \ {c} : u.cache[d] = t.cache[d] /\ (d \in u.items <=> d \in t.items)
    BY <2>4
  <2> QED
    BY <1>2, <2>3, <2>4, <2>5 DEF TrWords, u
<1>3. CASE m.op = "exited"
  <2> DEFINE cs == [t.cache EXCEPT ![c] = 0]
  <2>1. u = [t EXCEPT !.items = t.items \ {c}, !.proxies = t.proxies \ {c},
                      !.withMenu = t.withMenu \ {c}, !.cache = cs]
    BY <1>1, <1>3 DEF Icons!Heard, Icons!NameLost
  <2>2. cs \in [Clients -> Layouts] /\ cs[c] = 0 /\ \A d \in Clients \ {c} : cs[d] = t.cache[d]
    BY TrNumbers DEF Trays
  <2> HIDE DEF u, cs
  <2>3. u \in Trays /\ u.proxies = u.items /\ u.withMenu \subseteq u.items
        /\ u.cache = cs /\ u.items = t.items \ {c}
    BY <2>1, <2>2 DEF Trays
  <2> QED
    BY <1>3, <2>2, <2>3 DEF TrWords, u
<1>4. CASE m.op = "failed"
  <2>1. u = t
    BY <1>4 DEF Icons!Heard
  <2> QED
    BY <1>4, <2>1 DEF TrWords
<1>5. CASE m.op = "props"
  <2>1. u = t \/ (c \in t.items /\ u = [t EXCEPT !.withMenu = t.withMenu \union {c}])
    BY <1>1, <1>5 DEF Icons!Heard
  <2> HIDE DEF u
  <2>2. u \in Trays /\ u.proxies = u.items /\ u.withMenu \subseteq u.items
        /\ u.cache = t.cache /\ u.items = t.items
    BY <2>1 DEF Trays
  <2> QED
    BY <1>5, <2>2 DEF u
<1>6. CASE m.op = "layout"
  <2> DEFINE cs == [t.cache EXCEPT ![c] = m.layout]
  <2>1. u = [t EXCEPT !.cache = cs]
    BY <1>1, <1>6 DEF Icons!Heard
  <2>2. m.layout \in Layouts
    BY <1>1, <1>6, TrNumbers DEF TrMessages, TrWords
  <2>3. cs \in [Clients -> Layouts] /\ \A d \in Clients \ {c} : cs[d] = t.cache[d]
    BY <2>2 DEF Trays
  <2> HIDE DEF u, cs
  <2>4. u \in Trays /\ u.proxies = u.items /\ u.withMenu \subseteq u.items
        /\ u.cache = cs /\ u.items = t.items
    BY <2>1, <2>3 DEF Trays
  <2> QED
    BY <1>6, <2>3, <2>4 DEF u
<1>7. m.op \in {"register", "exited", "failed", "props", "layout"}
  BY <1>1 DEF TrMessages, TrWords
<1> QED
  BY <1>2, <1>3, <1>4, <1>5, <1>6, <1>7

\* The client's own message, handled.
LEMMA TrOwnHeard ==
    ASSUME NEW c \in Clients, NEW q \in Seq(TrMessages), q # <<>>, Head(q) \in From(c),
           NEW t \in Trays, t.proxies = t.items, t.withMenu \subseteq t.items,
           NEW life \in {"new", "running", "gone"}, NEW k, NEW l, TrLife(c, life, k, q, t),
           l = k \/ (Head(q).op = "register" /\ c \notin t.items)
    PROVE  TrLife(c, life, l, Tail(q), Icons!Heard(t, Head(q)))
<1> DEFINE m == Head(q)
           u == Icons!Heard(t, m)
           p == Tail(q)
<1>1. /\ m \in Registers(c) <=> m.op = "register"
      /\ m \in Exits(c) <=> m.op = "exited"
      /\ m \in Words(c) <=> m.op \in TrWords
      /\ m \in From(c) /\ m \in TrMessages
  BY TrSets
<1>2. /\ u \in Trays
      /\ m.op = "register" => c \in u.items /\ u.cache[c] = t.cache[c]
      /\ m.op = "exited" => c \notin u.items /\ u.cache[c] = 0
      /\ m.op = "failed" => u = t
      /\ m.op \in TrWords => u.items = t.items
      /\ m.op = "props" => u.cache[c] = t.cache[c]
  BY <1>1, TrHeard
<1>3. /\ Once(p, Registers(c)) /\ Ends(p, Exits(c), Words(c) \union Registers(c))
      /\ m \in Registers(c) => Without(p, Registers(c))
      /\ m \in Exits(c) => Without(p, Words(c) \union Registers(c))
  BY WithoutTail, EndsTail DEF TrLife
<1>4. \A S : Without(q, S) <=> m \notin S /\ Without(p, S)
  BY WithoutTail
<1>5. life # "new"
  BY <1>1, <1>4 DEF TrLife
<1> HIDE DEF u, p, m
<1>6. CASE m.op = "register"
  <2>1. c \notin t.items /\ m \in Registers(c) /\ m \notin Exits(c)
    BY <1>1, <1>4, <1>6 DEF TrLife
  <2> QED
    BY <1>2, <1>3, <1>4, <1>5, <1>6, <2>1 DEF TrLife, u, p, m
<1>7. CASE m.op = "exited"
  <2>1. m \in Exits(c) /\ life = "gone"
    BY <1>1, <1>4, <1>7 DEF TrLife
  <2>2. Without(p, Words(c)) /\ Without(p, Registers(c))
    BY <1>3, <2>1 DEF Without
  <2>3. TrLife(c, life, l, p, u)
    BY <1>2, <1>3, <1>5, <1>7, <2>1, <2>2 DEF TrLife
  <2> QED
    BY <2>3 DEF u, p, m
<1>8. CASE m.op = "failed"
  <2>1. m \notin Registers(c) /\ m \notin Exits(c) /\ m \notin Words(c) /\ u = t /\ l = k
    BY <1>1, <1>2, <1>8 DEF TrWords, m
  <2>2. TrLife(c, life, l, p, u)
    BY <1>3, <1>4, <1>5, <2>1 DEF TrLife
  <2> QED
    BY <2>2 DEF u, p, m
<1>9. CASE m.op \in TrWords
  <2>1. m \notin Registers(c) /\ m \notin Exits(c) /\ m \in Words(c) /\ u.items = t.items /\ l = k
    BY <1>1, <1>2, <1>9 DEF TrWords, m
  <2>2. c \in t.items
    BY <1>4, <2>1 DEF TrLife
  <2>3. TrLife(c, life, l, p, u)
    BY <1>3, <1>4, <1>5, <2>1, <2>2 DEF TrLife
  <2> QED
    BY <2>3 DEF u, p, m
<1>10. m.op \in TrWords \union {"register", "exited", "failed"}
  BY <1>1 DEF TrMessages
<1> QED
  BY <1>6, <1>7, <1>8, <1>9, <1>10

LEMMA TrDispatchKeeps == TrInv /\ Icons!Dispatch => TrInv'
<1> SUFFICES ASSUME TrInv, Icons!Dispatch PROVE TrInv'
  OBVIOUS
<1> DEFINE m == Head(trInbox)
           r == IF m.op = "failed" THEN menu ELSE Icons!RequestFrame(menu, tray')
<1>1. /\ trInbox # <<>> /\ trInbox' = Tail(trInbox) /\ UNCHANGED <<client, trClicks>>
      /\ tray' = Icons!Heard(tray, m) /\ Icons!SetMenu(r)
      /\ trCalls' = IF m.op = "register" /\ m.from \notin tray.items
                    THEN [trCalls EXCEPT ![m.from] = Append(@, "props")] ELSE trCalls
  BY DEF Icons!Dispatch
<1>2. m \in TrMessages /\ trInbox' \in Seq(TrMessages)
  BY <1>1, TrTypes, Shrinks
<1> HIDE DEF m
<1>3. PICK c \in Clients : m.from = c /\ m \in From(c)
  BY <1>2 DEF TrMessages, From
<1>4. tray.proxies = tray.items /\ tray.withMenu \subseteq tray.items
  BY DEF TrInv, TrLives
<1>5. /\ tray' \in Trays /\ tray'.proxies = tray'.items /\ tray'.withMenu \subseteq tray'.items
      /\ \A d \in Clients \ {c} :
            tray'.cache[d] = tray.cache[d] /\ (d \in tray'.items <=> d \in tray.items)
      /\ m.op = "failed" => tray' = tray
  <2>1. tray \in Trays
    BY TrTypes
  <2> DEFINE u == Icons!Heard(tray, m)
  <2>2. /\ u \in Trays /\ u.proxies = u.items /\ u.withMenu \subseteq u.items
        /\ \A d \in Clients \ {c} :
              u.cache[d] = tray.cache[d] /\ (d \in u.items <=> d \in tray.items)
        /\ m.op = "failed" => u = tray
    BY ONLY <1>3, <1>4, <2>1, TrHeard
  <2>3. tray' = u
    BY <1>1
  <2> HIDE DEF u
  <2> QED
    BY ONLY <2>2, <2>3
<1>6. /\ trCalls' \in [Clients -> Seq(TrWords)]
      /\ \A d \in Clients \ {c} : trCalls'[d] = trCalls[d]
      /\ trCalls'[c] = trCalls[c] \/ (m.op = "register" /\ c \notin tray.items)
  <2>1. Append(trCalls[c], "props") \in Seq(TrWords) /\ trCalls \in [Clients -> Seq(TrWords)]
    BY TrTypes DEF TrWords
  <2>2. trCalls' = trCalls \/ (/\ m.op = "register" /\ c \notin tray.items
                               /\ trCalls' = [trCalls EXCEPT ![c] = Append(trCalls[c], "props")])
    BY <1>1, <1>3
  <2> QED
    BY <2>1, <2>2
<1>7. ASSUME NEW d \in Clients PROVE TrLife(d, client[d].life, trCalls'[d], trInbox', tray')
  <2>1. TrLife(d, client[d].life, trCalls[d], trInbox, tray)
    BY DEF TrInv, TrLives
  <2>2. CASE d = c
    <3>1. client[c].life \in {"new", "running", "gone"} /\ tray \in Trays /\ trInbox \in Seq(TrMessages)
      BY TrTypes
    <3>2. trInbox # <<>> /\ Head(trInbox) \in From(c)
      BY <1>1, <1>3 DEF m
    <3>3. TrLife(c, client[c].life, trCalls[c], trInbox, tray)
      BY <2>1, <2>2
    <3>4. trCalls'[c] = trCalls[c] \/ (Head(trInbox).op = "register" /\ c \notin tray.items)
      BY <1>6 DEF m
    <3>5. TrLife(c, client[c].life, trCalls'[c], Tail(trInbox), Icons!Heard(tray, Head(trInbox)))
      BY ONLY <1>4, <3>1, <3>2, <3>3, <3>4, TrOwnHeard
    <3>6. trInbox' = Tail(trInbox) /\ tray' = Icons!Heard(tray, Head(trInbox))
      BY <1>1 DEF m
    <3> QED
      BY <2>2, <3>5, <3>6
  <2>3. CASE d # c
    <3>1. m \notin From(d)
      BY <1>3, <2>3 DEF From
    <3>2. /\ tray'.cache[d] = tray.cache[d] /\ (d \in tray'.items <=> d \in tray.items)
          /\ trCalls'[d] = trCalls[d]
      BY <1>5, <1>6, <2>3
    <3> QED
      BY <1>1, <2>1, <3>1, <3>2, TrTypes, TrPassed DEF m
  <2> QED
    BY <2>2, <2>3
<1>8. TrLives'
  BY <1>1, <1>5, <1>7 DEF TrLives
<1>9. MenuOK(r, tray') /\ r.popup = menu.popup /\ r.configured = menu.configured
  <2>1. CASE m.op = "failed"
    BY <1>5, <2>1, TrTypes
  <2>2. CASE m.op # "failed"
    <3>1. Asks(menu)
      BY TrTypes DEF MenuOK, Asks
    <3> QED
      BY <2>2, <3>1, TrRequested
  <2> QED
    BY <2>1, <2>2
<1> HIDE DEF r
<1>10. menu' = r /\ owed' \in BOOLEAN /\ (r.popup /\ ~r.configured => owed')
  BY <1>1, <1>9, TrTypes DEF Icons!SetMenu
<1>11. TrMenu'
  BY <1>9, <1>10 DEF TrMenu
<1>12. TrTyped'
  BY <1>2, <1>6, <1>9, <1>10 DEF TrTyped, MenuOK
<1>13. Icons!TypeOK'
  BY <1>1, <1>5, <1>9, <1>10 DEF TrInv, Icons!TypeOK, MenuOK, Trays, Layouts
<1> QED
  BY <1>8, <1>11, <1>12, <1>13 DEF TrInv

LEMMA TrInitially == Icons!Init => TrInv
<1> SUFFICES ASSUME Icons!Init PROVE TrInv
  OBVIOUS
<1>1. /\ client = [c \in Clients |-> [life |-> "new", layout |-> 1]]
      /\ trCalls = [c \in Clients |-> <<>>] /\ trInbox = <<>> /\ owed = FALSE
      /\ menu = Icons!NoMenu
      /\ tray = [items |-> {}, proxies |-> {}, withMenu |-> {}, cache |-> [c \in Clients |-> 0]]
  BY DEF Icons!Init
<1>2. client \in [Clients -> [life : {"new", "running", "gone"}, layout : 1..MaxLayout]]
  <2>1. 1 \in 1..MaxLayout
    BY TrNumbers
  <2> QED
    BY <1>1, <2>1
<1>3. tray \in Trays
  <2>1. [c \in Clients |-> 0] \in [Clients -> Layouts]
    BY TrNumbers
  <2> QED
    BY <1>1, <2>1 DEF Trays
<1>4. trInbox \in Seq(TrMessages) /\ trCalls \in [Clients -> Seq(TrWords)] /\ Len(trInbox) = 0
  BY <1>1
<1>5. MenuOK(menu, tray) /\ menu \in Menus /\ ~menu.popup
  BY <1>1, TrNoMenu
<1>6. Icons!TypeOK
  BY <1>1, <1>2, <1>3, <1>5 DEF Icons!TypeOK, Trays, Layouts, MenuOK
<1>7. TrLives
  <2>1. \A S : Without(trInbox, S) /\ Once(trInbox, S)
    BY <1>4 DEF Without, Once
  <2>2. \A A, B : Ends(trInbox, A, B)
    BY <1>4 DEF Ends
  <2>3. tray.items = {} /\ tray.proxies = {} /\ tray.withMenu = {} /\ \A c \in Clients : tray.cache[c] = 0
    BY <1>1
  <2>4. \A c \in Clients : client[c].life = "new" /\ trCalls[c] = <<>>
    BY <1>1
  <2>5. \A c \in Clients : TrLife(c, client[c].life, trCalls[c], trInbox, tray)
    BY <2>1, <2>2, <2>3, <2>4 DEF TrLife
  <2> QED
    BY <2>3, <2>5 DEF TrLives
<1> QED
  BY <1>4, <1>5, <1>6, <1>7 DEF TrInv, TrTyped, TrMenu

LEMMA TrStep == TrInv /\ Icons!Next => TrInv'
  BY TrDispatchKeeps, TrClicksKeep, TrDoneKeeps, TrFrameKeeps, TrConfigureKeeps,
     TrRightClickKeeps, TrStartsKeeps, TrChangesKeeps, TrAnswersKeeps, TrExitsKeeps
  DEF Icons!Next

LEMMA TrStays == TrInv /\ UNCHANGED trVars => TrInv'
  BY DEF TrInv, TrTyped, TrLives, TrMenu, Icons!TypeOK, trVars

LEMMA TrSettled == TrInv => Icons!ItemsFollowClients /\ Icons!MenuSettles
<1> SUFFICES ASSUME TrInv PROVE Icons!ItemsFollowClients /\ Icons!MenuSettles
  OBVIOUS
<1>1. ASSUME NEW c \in Clients
      PROVE  /\ tray.cache[c] # 0 => c \in tray.items
             /\ c \in tray.items /\ client[c].life = "gone" =>
                   \E i \in DOMAIN trInbox : trInbox[i] = [op |-> "exited", from |-> c]
  <2>1. TrLife(c, client[c].life, trCalls[c], trInbox, tray)
    BY DEF TrInv, TrLives
  <2>2. ASSUME c \in tray.items, client[c].life = "gone"
        PROVE  \E i \in DOMAIN trInbox : trInbox[i] = [op |-> "exited", from |-> c]
    <3>1. PICK i \in 1..Len(trInbox) : trInbox[i] \in Exits(c)
      BY <2>1, <2>2 DEF TrLife, Without
    <3>2. trInbox[i] = [op |-> "exited", from |-> c]
      <4>1. trInbox[i].op = "exited" /\ trInbox[i].from = c /\ trInbox[i] \in TrMessages
        BY <3>1 DEF Exits, From
      <4>2. trInbox[i] \in [op : {"register", "exited", "failed"}, from : Clients]
        BY <4>1 DEF TrMessages, TrWords
      <4> QED
        BY <4>1, <4>2
    <3>3. i \in DOMAIN trInbox
      BY TrTypes
    <3> QED
      BY <3>2, <3>3
  <2> QED
    BY <2>1, <2>2 DEF TrLife
<1>2. Icons!ItemsFollowClients
  <2>1. tray.items \subseteq Clients
    BY TrTypes DEF Trays
  <2> QED
    BY <1>1, <2>1 DEF Icons!ItemsFollowClients, TrInv, TrLives
<1>3. ASSUME Icons!Quiet, menu.popup
      PROVE  menu.item \in tray.items /\ menu.shown = Icons!MenuLevelHeight(tray, menu)
  <2>1. menu.clock.callback \in Icons!Callbacks
    BY TrTypes DEF Menus, Icons!Clock
  <2> QED
    BY <1>3, <2>1, TrTypes DEF Icons!Quiet, MenuOK, Icons!ClockOK, Icons!Callbacks
<1> QED
  BY <1>2, <1>3 DEF Icons!MenuSettles

-----------------------------------------------------------------------------
(* Audio levels.  What is under way about a node is, in order, its         *)
(* announcement, its levels and its end, and the announcement comes after  *)
(* the end of whoever had the name; the last level of a node under way is  *)
(* the server's, and without one the shell's level is the server's or the  *)
(* last the shell asked for; a display that is wrong has a cause under     *)
(* way.                                                                    *)
AllKinds == Audio!Kinds \union {"stream"}
NodeNames == Sinks \union Sources \union Streams
\* Sinks and sources have names.
NamedRight(n) == n.kind \in Audio!Kinds => n.name # ""
VolNodes == {Audio!NoNode}
              \union {n \in [kind : AllKinds, name : NodeNames, level : {0, 1}] : NamedRight(n)}
VolEvents == {e \in [op : {"global"}, id : Audio!Ids, kind : AllKinds, name : NodeNames] : NamedRight(e)}
               \union [op : {"remove"}, id : Audio!Ids]
               \union [op : {"param"}, id : Audio!Ids, level : {0, 1}]
               \union [op : {"meta"}, kind : Audio!Kinds, name : NodeNames \union {""}]
VolRequests == [op : {"bind"}, id : Audio!Ids]
                 \union [op : {"level"}, id : Audio!Ids, level : {0, 1}]
                 \union [op : {"default"}, kind : Audio!Kinds, name : NodeNames]
VolNames == NodeNames \union {""}
VolServers == [nodes : [Audio!Ids -> VolNodes], bound : SUBSET Audio!Ids,
               default : [Audio!Kinds -> VolNames]]
VolCopies == [nodes : [Audio!Ids -> VolNodes], name : [Audio!Kinds -> VolNames],
              id : [Audio!Kinds -> Audio!Ids \union {0}], changed : SUBSET Audio!Kinds]

Comes(i) == {e \in VolEvents : e.op = "global" /\ e.id = i}
Goes(i) == {e \in VolEvents : e.op = "remove" /\ e.id = i}
Params(i) == {e \in VolEvents : e.op = "param" /\ e.id = i}
Louds(i) == {e \in Params(i) : e.level = 1}
Metas(k) == {e \in VolEvents : e.op = "meta" /\ e.kind = k}
BindsOf(i) == {x \in VolRequests : x.op = "bind" /\ x.id = i}
SetsOf(i) == {x \in VolRequests : x.op = "level" /\ x.id = i}
AsksOf(i) == BindsOf(i) \union SetsOf(i)

\* The last message of S in q, if there is one, fits R.
LastFits(q, S, R) ==
    \A i \in 1..Len(q) : q[i] \in S /\ (\A j \in 1..Len(q) : j > i => q[j] \notin S) => q[i] \in R

AtLevel(S, l) == {m \in S : m.level = l}
OfName(k, n) == {e \in Metas(k) : e.name = n}
Same(n, m) == n.kind = m.kind /\ n.name = m.name
Namesakes(S, n) == {e \in S : Same(e, n)}

\* Where node i is: h is the server's node, b whether it is bound, n the shell's.
VolNode(i, h, b, n, q, r) ==
    /\ h = Audio!NoNode => (n = Audio!NoNode /\ Without(q, Comes(i))) \/ ~Without(q, Goes(i))
    /\ h # Audio!NoNode =>
          /\ Without(q, Goes(i)) /\ LastFits(q, Params(i), AtLevel(Params(i), h.level))
          /\ \A j \in 1..Len(q) : q[j] \in Comes(i) => Same(q[j], h)
          /\ IF n = Audio!NoNode THEN ~Without(q, Comes(i)) ELSE Same(n, h)
          /\ ~b => h.level = 1
    /\ b => h # Audio!NoNode /\ n # Audio!NoNode
    /\ n # Audio!NoNode => Without(q, Comes(i))
    /\ n = Audio!NoNode => Without(q, Params(i))
    /\ ~Without(q, Comes(i)) => Without(r, AsksOf(i))
    /\ Once(q, Comes(i)) /\ Ends(q, Goes(i), Comes(i) \union Params(i) \union Goes(i))
    /\ Once(r, BindsOf(i)) /\ Ends(r, SetsOf(i), BindsOf(i))
    /\ h # Audio!NoNode /\ n # Audio!NoNode =>
          /\ b <=> Without(r, BindsOf(i))
          /\ ~b => Without(q, Params(i))
          /\ b /\ Without(q, Params(i)) /\ n.level # h.level =>
                /\ ~Without(r, SetsOf(i)) /\ LastFits(r, SetsOf(i), AtLevel(SetsOf(i), n.level))

\* An announcement comes after the end of whoever had its name.
VolOrder(q, nodes) ==
    \A b \in 1..Len(q) : q[b].op = "global" =>
        \A i \in Audio!Ids \ {q[b].id} :
            (nodes[i] # Audio!NoNode /\ Same(nodes[i], q[b]))
              \/ (\E a \in 1..Len(q) : a < b /\ q[a] \in Namesakes(Comes(i), q[b]))
            => \E c \in 1..Len(q) : c < b /\ q[c] \in Goes(i)

Unique(nodes) ==
    \A i, j \in Audio!Ids : nodes[i] # Audio!NoNode /\ nodes[j] # Audio!NoNode /\ Same(nodes[i], nodes[j])
                              => i = j

\* The default of kind k: its name, and the node that has it.
VolDefault(k, s, q, p) ==
    /\ LastFits(q, Metas(k), OfName(k, s.default[k]))
    /\ Without(q, Metas(k)) => p.name[k] = s.default[k]
    /\ IF p.id[k] = 0 THEN \A i \in Audio!Ids : ~(p.nodes[i].kind = k /\ p.nodes[i].name = p.name[k])
       ELSE p.nodes[p.id[k]].kind = k /\ p.nodes[p.id[k]].name = p.name[k]

\* Unserved(k): the default has no node; Fresh(i): node i is silent until told.
Unserved(k, p) == p.id[k] = 0 /\ p.name[k] # ""
Fresh(i, q, r) == ~Without(r, BindsOf(i)) \/ ~Without(q, Louds(i)) \/ ~Without(q, Goes(i))
Due(s) == {x \in VolRequests : /\ x.op \in {"bind", "level"} /\ s.nodes[x.id] # Audio!NoNode
                               /\ x.op = "level" => x.level # s.nodes[x.id].level}

\* Level l is shown of kind k: if that is wrong, the change is noted or on its
\* way (Excused), and when it is noted a poll will come (Stirs).
Excused(k, l, q, r, p) ==
    l # Audio!LevelOf(p, k) =>
        \/ k \in p.changed \/ ~Without(q, Metas(k)) \/ Unserved(k, p)
        \/ p.id[k] # 0 /\ p.nodes[p.id[k]].level = 0 /\ Fresh(p.id[k], q, r)
Stirs(k, l, s, q, r, p) ==
    l # Audio!LevelOf(p, k) /\ k \in p.changed => q # <<>> \/ Unserved(k, p) \/ ~Without(r, Due(s))

VolCore(s, q, r, p) ==
    /\ s \in VolServers /\ q \in Seq(VolEvents) /\ r \in Seq(VolRequests) /\ p \in VolCopies
    /\ \A i \in Audio!Ids : VolNode(i, s.nodes[i], i \in s.bound, p.nodes[i], q, r)
    /\ VolOrder(q, p.nodes) /\ Unique(s.nodes) /\ Unique(p.nodes)
    /\ \A k \in Audio!Kinds : VolDefault(k, s, q, p)
VolExcused(q, r, p, v, d, o) ==
    /\ o.visible => Excused(o.kind, o.level, q, r, p)
    /\ v.open /\ ~d => \A k \in Audio!Kinds : Excused(k, v.painted[k], q, r, p)
VolStirs ==
    /\ osd.visible => Stirs(osd.kind, osd.level, pwServer, pwInbox, toPw, pw)
    /\ volPanel.open /\ ~volDirty =>
          \A k \in Audio!Kinds : Stirs(k, volPanel.painted[k], pwServer, pwInbox, toPw, pw)

VolTags == {Audio!NoTag} \union [kind : Audio!Kinds, id : {0}] \union [kind : {"stream"}, id : Audio!Ids]
VolPanels == [open : BOOLEAN, painted : [Audio!Kinds -> {0, 1}], selected : VolTags]
VolOsds == [visible : BOOLEAN, kind : Audio!Kinds, level : {0, 1}]

VolTyped == volPanel \in VolPanels /\ volDirty \in BOOLEAN /\ osd \in VolOsds

VolInv ==
    /\ VolTyped /\ VolCore(pwServer, pwInbox, toPw, pw)
    /\ VolExcused(pwInbox, toPw, pw, volPanel, volDirty, osd) /\ VolStirs

LEMMA VolNumbers ==
    /\ MaxIds \in Nat /\ Audio!Ids = 1..MaxIds /\ 0 \notin Audio!Ids
    /\ Audio!Kinds = {"sink", "source"} /\ AllKinds = {"sink", "source", "stream"}
    /\ "" \notin Sinks \union Sources /\ Audio!Levels = {0, 1} /\ 1 - 0 = 1 /\ 1 - 1 = 0
<1>1. MaxIds \in Nat
  BY ServicesAssumption
<1>2. Audio!Ids = 1..MaxIds
  BY DEF Audio!Ids
<1>3. 0 \notin Audio!Ids
  <2>1. 0 \notin 1..MaxIds
    BY ONLY <1>1
  <2> QED
    BY <1>2, <2>1
<1>4. 0..1 = {0, 1}
  OBVIOUS
<1>5. Audio!Levels = {0, 1}
  BY <1>4 DEF Audio!Levels
<1>6. "" \notin Sinks \union Sources
  BY ServicesAssumption
<1>7. 1 - 0 = 1 /\ 1 - 1 = 0
  OBVIOUS
<1>8. Audio!Kinds = {"sink", "source"} /\ AllKinds = {"sink", "source", "stream"}
  <2>1. {"sink", "source"} \union {"stream"} = {"sink", "source", "stream"}
    OBVIOUS
  <2> QED
    BY <2>1 DEF Audio!Kinds, AllKinds
<1> QED
  BY <1>1, <1>2, <1>3, <1>5, <1>6, <1>7, <1>8

\* A node is none, or of a kind; no default is called "".
LEMMA VolNodeCases ==
    ASSUME NEW n \in VolNodes
    PROVE  /\ n = Audio!NoNode <=> n.kind = "none"
           /\ n # Audio!NoNode => n.kind \in AllKinds /\ n.name \in NodeNames
           /\ n.kind \in Audio!Kinds => n.name # ""
           /\ n.level \in {0, 1} /\ n.name \in VolNames /\ n.kind \in AllKinds \union {"none"}
           /\ n = [kind |-> n.kind, name |-> n.name, level |-> n.level]
<1>1. "none" \notin AllKinds /\ "none" \notin Audio!Kinds
  BY VolNumbers
<1>2. CASE n = Audio!NoNode
  <2>1. n = [kind |-> "none", name |-> "", level |-> 0]
    BY <1>2 DEF Audio!NoNode
  <2>2. n.kind = "none" /\ n.name = "" /\ n.level = 0
    BY <2>1
  <2>3. n = [kind |-> n.kind, name |-> n.name, level |-> n.level]
    BY <2>1, <2>2
  <2> QED
    BY <1>1, <1>2, <2>2, <2>3 DEF VolNames
<1>3. CASE n \in [kind : AllKinds, name : NodeNames, level : {0, 1}] /\ NamedRight(n)
  <2>1. Audio!NoNode.kind = "none"
    BY DEF Audio!NoNode
  <2>2. n # Audio!NoNode
    BY <1>1, <1>3, <2>1
  <2>3. n.kind \in AllKinds /\ n.name \in NodeNames /\ n.level \in {0, 1}
    BY <1>3
  <2>4. n = [kind |-> n.kind, name |-> n.name, level |-> n.level]
    BY <1>3
  <2> QED
    BY <1>1, <1>3, <2>2, <2>3, <2>4 DEF NamedRight, VolNames
<1> QED
  BY <1>2, <1>3 DEF VolNodes

\* A node with another level.
LEMMA VolLevelSet ==
    ASSUME NEW n \in VolNodes, n # Audio!NoNode, NEW l \in {0, 1}
    PROVE  LET m == [n EXCEPT !.level = l]
           IN  m \in VolNodes /\ m # Audio!NoNode /\ m.kind = n.kind /\ m.name = n.name /\ m.level = l
<1> DEFINE m == [n EXCEPT !.level = l]
<1>1. n \in [kind : AllKinds, name : NodeNames, level : {0, 1}] /\ NamedRight(n)
  BY DEF VolNodes
<1>2. m \in [kind : AllKinds, name : NodeNames, level : {0, 1}]
      /\ m.kind = n.kind /\ m.name = n.name /\ m.level = l
  BY <1>1
<1> HIDE DEF m
<1>3. m \in VolNodes
  BY <1>1, <1>2 DEF VolNodes, NamedRight
<1>4. m # Audio!NoNode
  BY <1>2, <1>3, VolNodeCases
<1> QED
  BY <1>2, <1>3, <1>4 DEF m

\* What an event is.
LEMMA VolEventCases ==
    ASSUME NEW e \in VolEvents
    PROVE  \/ /\ e.op = "global" /\ e.id \in Audio!Ids /\ e.kind \in AllKinds /\ e.name \in NodeNames
              /\ NamedRight(e) /\ e \in Comes(e.id)
           \/ e.op = "remove" /\ e.id \in Audio!Ids /\ e \in Goes(e.id)
           \/ e.op = "param" /\ e.id \in Audio!Ids /\ e.level \in {0, 1} /\ e \in Params(e.id)
           \/ e.op = "meta" /\ e.kind \in Audio!Kinds /\ e.name \in VolNames /\ e \in Metas(e.kind)
  BY DEF VolEvents, Comes, Goes, Params, Metas, VolNames

LEMMA VolSets ==
    ASSUME NEW i, NEW e \in VolEvents
    PROVE  /\ e \in Comes(i) <=> e.op = "global" /\ e.id = i
           /\ e \in Goes(i) <=> e.op = "remove" /\ e.id = i
           /\ e \in Params(i) <=> e.op = "param" /\ e.id = i
           /\ e \in Louds(i) <=> e.op = "param" /\ e.id = i /\ e.level = 1
           /\ e \in Metas(i) <=> e.op = "meta" /\ e.kind = i
  BY DEF Comes, Goes, Params, Metas, Louds

LEMMA VolAskSets ==
    ASSUME NEW i, NEW x \in VolRequests
    PROVE  /\ x \in BindsOf(i) <=> x.op = "bind" /\ x.id = i
           /\ x \in SetsOf(i) <=> x.op = "level" /\ x.id = i
           /\ x \in AsksOf(i) <=> x \in BindsOf(i) \/ x \in SetsOf(i)
           /\ \/ x.op = "bind" /\ x.id \in Audio!Ids
              \/ x.op = "level" /\ x.id \in Audio!Ids /\ x.level \in {0, 1}
              \/ x.op = "default" /\ x.kind \in Audio!Kinds /\ x.name \in NodeNames
  BY DEF BindsOf, SetsOf, AsksOf, VolRequests

LEMMA VolTypes ==
    ASSUME VolInv
    PROVE  /\ pwServer \in VolServers /\ pwInbox \in Seq(VolEvents) /\ toPw \in Seq(VolRequests)
           /\ pw \in VolCopies /\ volPanel \in VolPanels /\ volDirty \in BOOLEAN /\ osd \in VolOsds
           /\ VolCore(pwServer, pwInbox, toPw, pw)
           /\ VolExcused(pwInbox, toPw, pw, volPanel, volDirty, osd) /\ VolStirs
  BY DEF VolInv, VolCore, VolTyped

\* The last message, when there is one more, and when the first is gone.
LEMMA LastFitsAppend ==
    ASSUME NEW M, NEW q \in Seq(M), NEW e \in M, NEW S, NEW R
    PROVE  /\ e \in S /\ e \in R => LastFits(Append(q, e), S, R)
           /\ e \notin S /\ LastFits(q, S, R) => LastFits(Append(q, e), S, R)
<1> DEFINE t == Append(q, e)
<1>1. /\ Len(q) \in Nat /\ Len(t) = Len(q) + 1 /\ t[Len(q) + 1] = e
      /\ \A i \in 1..Len(q) : t[i] = q[i]
  BY Grows
<1> HIDE DEF t
<1>2. /\ Len(q) + 1 \in 1..Len(t)
      /\ \A i \in 1..Len(t) : i = Len(q) + 1 \/ (i \in 1..Len(q) /\ Len(q) + 1 > i)
      /\ \A i \in 1..Len(q) : i \in 1..Len(t)
  BY <1>1
<1>3. e \in S /\ e \in R => LastFits(t, S, R)
  BY <1>1, <1>2 DEF LastFits
<1>4. e \notin S /\ LastFits(q, S, R) => LastFits(t, S, R)
  BY <1>1, <1>2 DEF LastFits
<1> QED
  BY <1>3, <1>4 DEF t

LEMMA LastFitsTail ==
    ASSUME NEW M, NEW q \in Seq(M), q # <<>>, NEW S, NEW R, LastFits(q, S, R)
    PROVE  /\ LastFits(Tail(q), S, R)
           /\ Head(q) \in S /\ Without(Tail(q), S) => Head(q) \in R
<1> DEFINE t == Tail(q)
<1>1. /\ Len(q) \in Nat \ {0} /\ Len(t) = Len(q) - 1 /\ Head(q) = q[1]
      /\ \A i \in 1..Len(t) : t[i] = q[i + 1]
  BY Shrinks
<1> HIDE DEF t
<1>2. /\ 1 \in 1..Len(q) /\ \A i \in 1..Len(t) : i + 1 \in 1..Len(q)
      /\ \A j \in 1..Len(q) : j = 1 \/ (j - 1 \in 1..Len(t) /\ (j - 1) + 1 = j)
      /\ \A i, j \in 1..Len(t) : j > i <=> j + 1 > i + 1
  BY <1>1
<1>3. LastFits(t, S, R)
  <2> SUFFICES ASSUME NEW i \in 1..Len(t), t[i] \in S, \A j \in 1..Len(t) : j > i => t[j] \notin S
               PROVE  t[i] \in R
    BY DEF LastFits
  <2>1. i + 1 \in 1..Len(q) /\ q[i + 1] \in S /\ q[i + 1] = t[i]
    BY <1>1, <1>2
  <2>2. ASSUME NEW j \in 1..Len(q), j > i + 1 PROVE q[j] \notin S
    <3>1. j - 1 \in 1..Len(t) /\ (j - 1) + 1 = j /\ j - 1 > i
      BY <1>1, <2>2
    <3> QED
      BY <1>1, <3>1
  <2> QED
    BY <2>1, <2>2 DEF LastFits
<1>4. Head(q) \in S /\ Without(t, S) => Head(q) \in R
  <2> SUFFICES ASSUME q[1] \in S, Without(t, S) PROVE q[1] \in R
    BY <1>1
  <2>1. ASSUME NEW j \in 1..Len(q), j > 1 PROVE q[j] \notin S
    <3>1. j - 1 \in 1..Len(t) /\ (j - 1) + 1 = j
      BY <1>1, <2>1
    <3> QED
      BY <1>1, <3>1 DEF Without
  <2> QED
    BY <1>2, <2>1 DEF LastFits
<1> QED
  BY <1>3, <1>4 DEF t

LEMMA LastFitsNone == \A q, S, R : Without(q, S) => LastFits(q, S, R)
  BY DEF LastFits, Without

\* What holds of every message of q holds of those of a set.
LEMMA EveryAppend ==
    ASSUME NEW M, NEW q \in Seq(M), NEW e \in M, NEW S, NEW h,
           \A j \in 1..Len(q) : q[j] \in S => Same(q[j], h), e \in S => Same(e, h)
    PROVE  \A j \in 1..Len(Append(q, e)) : Append(q, e)[j] \in S => Same(Append(q, e)[j], h)
<1> DEFINE t == Append(q, e)
<1>1. /\ Len(q) \in Nat /\ Len(t) = Len(q) + 1 /\ t[Len(q) + 1] = e
      /\ \A i \in 1..Len(q) : t[i] = q[i]
  BY Grows
<1> HIDE DEF t
<1>2. \A i \in 1..Len(t) : i = Len(q) + 1 \/ i \in 1..Len(q)
  BY <1>1
<1>3. \A j \in 1..Len(t) : t[j] \in S => Same(t[j], h)
  BY <1>1, <1>2
<1> QED
  BY <1>3 DEF t

LEMMA EveryTail ==
    ASSUME NEW M, NEW q \in Seq(M), q # <<>>, NEW S, NEW h,
           \A j \in 1..Len(q) : q[j] \in S => Same(q[j], h)
    PROVE  /\ \A j \in 1..Len(Tail(q)) : Tail(q)[j] \in S => Same(Tail(q)[j], h)
           /\ Head(q) \in S => Same(Head(q), h)
<1> DEFINE t == Tail(q)
<1>1. /\ Len(q) \in Nat \ {0} /\ Len(t) = Len(q) - 1 /\ Head(q) = q[1]
      /\ \A i \in 1..Len(t) : t[i] = q[i + 1]
  BY Shrinks
<1> HIDE DEF t
<1>2. 1 \in 1..Len(q) /\ \A i \in 1..Len(t) : i + 1 \in 1..Len(q)
  BY <1>1
<1>3. (\A j \in 1..Len(t) : t[j] \in S => Same(t[j], h)) /\ (Head(q) \in S => Same(Head(q), h))
  BY <1>1, <1>2
<1> QED
  BY <1>3 DEF t

\* A message or a request about another node changes nothing for node i.
LEMMA VolAside ==
    ASSUME NEW i, NEW h, NEW b, NEW n, NEW q \in Seq(VolEvents), NEW r, NEW e \in VolEvents,
           e \notin Comes(i), e \notin Goes(i), e \notin Params(i), VolNode(i, h, b, n, q, r)
    PROVE  VolNode(i, h, b, n, Append(q, e), r)
<1> DEFINE t == Append(q, e)
<1>1. \A S : e \notin S => (Without(t, S) <=> Without(q, S)) /\ (Once(q, S) => Once(t, S))
  BY WithoutAppend
<1>2. \A S, R : e \notin S /\ LastFits(q, S, R) => LastFits(t, S, R)
  BY LastFitsAppend
<1>3. Ends(t, Goes(i), Comes(i) \union Params(i) \union Goes(i))
  BY EndsAppend DEF VolNode
<1>4. ASSUME \A j \in 1..Len(q) : q[j] \in Comes(i) => Same(q[j], h)
      PROVE  \A j \in 1..Len(t) : t[j] \in Comes(i) => Same(t[j], h)
  BY <1>4, EveryAppend
<1> HIDE DEF t
<1>5. VolNode(i, h, b, n, t, r)
  BY <1>1, <1>2, <1>3, <1>4 DEF VolNode
<1> QED
  BY <1>5 DEF t

LEMMA VolPassed ==
    ASSUME NEW i, NEW h, NEW b, NEW n, NEW q \in Seq(VolEvents), q # <<>>, NEW r,
           Head(q) \notin Comes(i), Head(q) \notin Goes(i), Head(q) \notin Params(i),
           VolNode(i, h, b, n, q, r)
    PROVE  VolNode(i, h, b, n, Tail(q), r)
<1> DEFINE t == Tail(q)
<1>1. \A S : Head(q) \notin S => (Without(t, S) <=> Without(q, S)) /\ (Once(q, S) => Once(t, S))
  BY WithoutTail
<1>2. \A S, R : LastFits(q, S, R) => LastFits(t, S, R)
  BY LastFitsTail
<1>3. Ends(t, Goes(i), Comes(i) \union Params(i) \union Goes(i))
  BY EndsTail DEF VolNode
<1>4. ASSUME \A j \in 1..Len(q) : q[j] \in Comes(i) => Same(q[j], h)
      PROVE  \A j \in 1..Len(t) : t[j] \in Comes(i) => Same(t[j], h)
  BY <1>4, EveryTail
<1> HIDE DEF t
<1>5. VolNode(i, h, b, n, t, r)
  BY <1>1, <1>2, <1>3, <1>4 DEF VolNode
<1> QED
  BY <1>5 DEF t

LEMMA VolAskedAside ==
    ASSUME NEW i, NEW h, NEW b, NEW n, NEW q, NEW r \in Seq(VolRequests), NEW x \in VolRequests,
           x \notin AsksOf(i), VolNode(i, h, b, n, q, r)
    PROVE  VolNode(i, h, b, n, q, Append(r, x))
<1> DEFINE t == Append(r, x)
<1>0. x \notin BindsOf(i) /\ x \notin SetsOf(i)
  BY VolAskSets
<1>1. \A S : x \notin S => (Without(t, S) <=> Without(r, S)) /\ (Once(r, S) => Once(t, S))
  BY WithoutAppend
<1>2. \A S, R : x \notin S /\ LastFits(r, S, R) => LastFits(t, S, R)
  BY LastFitsAppend
<1>3. Ends(t, SetsOf(i), BindsOf(i))
  BY <1>0, EndsAppend DEF VolNode
<1> HIDE DEF t
<1>4. VolNode(i, h, b, n, q, t)
  BY <1>0, <1>1, <1>2, <1>3 DEF VolNode
<1> QED
  BY <1>4 DEF t

LEMMA VolServedAside ==
    ASSUME NEW i, NEW h, NEW b, NEW n, NEW q, NEW r \in Seq(VolRequests), r # <<>>,
           Head(r) \notin AsksOf(i), VolNode(i, h, b, n, q, r)
    PROVE  VolNode(i, h, b, n, q, Tail(r))
<1> DEFINE t == Tail(r)
<1>0. Head(r) \notin BindsOf(i) /\ Head(r) \notin SetsOf(i)
  BY DEF AsksOf
<1>1. \A S : Head(r) \notin S => (Without(t, S) <=> Without(r, S)) /\ (Once(r, S) => Once(t, S))
  BY WithoutTail
<1>2. \A S, R : LastFits(r, S, R) => LastFits(t, S, R)
  BY LastFitsTail
<1>3. Ends(t, SetsOf(i), BindsOf(i))
  BY EndsTail DEF VolNode
<1> HIDE DEF t
<1>4. VolNode(i, h, b, n, q, t)
  BY <1>0, <1>1, <1>2, <1>3 DEF VolNode
<1> QED
  BY <1>4 DEF t

\* The server's own steps with node i: it appears, it goes, its level changes.
LEMMA VolAppears ==
    ASSUME NEW i \in Audio!Ids, NEW n \in VolNodes, NEW q \in Seq(VolEvents), NEW r \in Seq(VolRequests),
           VolNode(i, Audio!NoNode, FALSE, n, q, r), Without(q, Goes(i)), Without(r, AsksOf(i)),
           NEW h \in VolNodes, h # Audio!NoNode, h.level = 1,
           NEW e \in Comes(i), Same(e, h)
    PROVE  n = Audio!NoNode /\ VolNode(i, h, FALSE, n, Append(q, e), r)
<1> DEFINE t == Append(q, e)
<1>1. n = Audio!NoNode /\ Without(q, Comes(i)) /\ Without(q, Params(i))
  BY DEF VolNode
<1>2. e \in VolEvents /\ e \notin Goes(i) /\ e \notin Params(i)
  BY VolSets DEF Comes
<1>3. /\ Without(t, Goes(i)) /\ Without(t, Params(i)) /\ ~Without(t, Comes(i)) /\ Once(t, Comes(i))
  BY <1>1, <1>2, WithoutAppend DEF VolNode
<1>4. \A j \in 1..Len(t) : t[j] \in Comes(i) => Same(t[j], h)
  BY <1>1, <1>2, EveryAppend DEF Without
<1>5. Ends(t, Goes(i), Comes(i) \union Params(i) \union Goes(i)) /\ LastFits(t, Params(i), AtLevel(Params(i), h.level))
  <2>1. \A S : Ends(t, Goes(i), S)
    BY <1>3 DEF Ends, Without
  <2> QED
    BY <1>3, <2>1, LastFitsNone
<1> HIDE DEF t
<1>6. VolNode(i, h, FALSE, n, t, r)
  BY <1>1, <1>3, <1>4, <1>5 DEF VolNode
<1> QED
  BY <1>1, <1>6 DEF t

LEMMA VolVanishes ==
    ASSUME NEW i \in Audio!Ids, NEW h, h # Audio!NoNode, NEW b, NEW n, NEW q \in Seq(VolEvents), NEW r,
           VolNode(i, h, b, n, q, r), NEW e \in Goes(i)
    PROVE  VolNode(i, Audio!NoNode, FALSE, n, Append(q, e), r)
<1> DEFINE t == Append(q, e)
<1>1. e \in VolEvents /\ e \notin Comes(i) /\ e \notin Params(i)
  BY VolSets DEF Goes
<1>2. Without(q, Goes(i))
  BY DEF VolNode
<1>3. /\ Without(t, Params(i)) <=> Without(q, Params(i))
      /\ Without(t, Comes(i)) <=> Without(q, Comes(i))
      /\ ~Without(t, Goes(i)) /\ Once(t, Comes(i))
  BY <1>1, WithoutAppend DEF VolNode
<1>4. Ends(t, Goes(i), Comes(i) \union Params(i) \union Goes(i))
  BY <1>1, <1>2, EndsAppend DEF VolNode
<1> HIDE DEF t
<1>5. VolNode(i, Audio!NoNode, FALSE, n, t, r)
  BY <1>3, <1>4 DEF VolNode
<1> QED
  BY <1>5 DEF t

\* A level the server tells, of a node it has bound or binds with the first request.
LEMMA VolTells ==
    ASSUME NEW i \in Audio!Ids, NEW h, h # Audio!NoNode, NEW b, NEW n, n # Audio!NoNode,
           NEW q \in Seq(VolEvents), NEW r, VolNode(i, h, b, n, q, r), Without(r, BindsOf(i)),
           NEW g, g # Audio!NoNode, Same(g, h), NEW e \in AtLevel(Params(i), g.level)
    PROVE  VolNode(i, g, TRUE, n, Append(q, e), r)
<1> DEFINE t == Append(q, e)
<1>1. e \in VolEvents /\ e \in Params(i) /\ e \notin Comes(i) /\ e \notin Goes(i)
  BY VolSets DEF AtLevel, Params
<1>2. /\ Without(t, Goes(i)) /\ ~Without(t, Params(i)) /\ Without(t, Comes(i))
      /\ LastFits(t, Params(i), AtLevel(Params(i), g.level))
  BY <1>1, WithoutAppend, LastFitsAppend DEF VolNode
<1>3. Ends(t, Goes(i), Comes(i) \union Params(i) \union Goes(i)) /\ Once(t, Comes(i))
  <2>1. \A S : Ends(t, Goes(i), S)
    BY <1>2 DEF Ends, Without
  <2> QED
    BY <1>2, <2>1 DEF Once, Without
<1>4. \A j \in 1..Len(t) : t[j] \in Comes(i) => Same(t[j], g)
  BY <1>2 DEF Without
<1>5. Same(n, g)
  BY DEF VolNode, Same
<1> HIDE DEF t
<1>6. VolNode(i, g, TRUE, n, t, r)
  BY <1>2, <1>3, <1>4, <1>5 DEF VolNode
<1> QED
  BY <1>6 DEF t

\* Requests of node i served: those of a dead node are dropped, a bind tells
\* the level, a level that is the server's, or is told, is gone.
LEMMA VolDead ==
    ASSUME NEW i, NEW b, NEW n, NEW q, NEW r \in Seq(VolRequests), r # <<>>,
           VolNode(i, Audio!NoNode, b, n, q, r)
    PROVE  VolNode(i, Audio!NoNode, b, n, q, Tail(r))
<1> DEFINE t == Tail(r)
<1>1. \A S : (Without(r, S) => Without(t, S)) /\ (Once(r, S) => Once(t, S))
  BY WithoutTail
<1>2. Ends(t, SetsOf(i), BindsOf(i))
  BY EndsTail DEF VolNode
<1> HIDE DEF t
<1>3. VolNode(i, Audio!NoNode, b, n, q, t)
  BY <1>1, <1>2 DEF VolNode
<1> QED
  BY <1>3 DEF t

LEMMA VolBound ==
    ASSUME NEW i \in Audio!Ids, NEW h, h # Audio!NoNode, NEW b \in BOOLEAN, NEW n,
           NEW q \in Seq(VolEvents), NEW r \in Seq(VolRequests), r # <<>>, Head(r) \in BindsOf(i),
           VolNode(i, h, b, n, q, r), NEW e \in AtLevel(Params(i), h.level)
    PROVE  /\ n # Audio!NoNode /\ h.level = 1
           /\ VolNode(i, h, TRUE, n, Append(q, e), Tail(r))
<1> DEFINE t == Append(q, e)
           u == Tail(r)
<1>1. e \in VolEvents /\ e \in Params(i) /\ e \notin Comes(i) /\ e \notin Goes(i)
  BY VolSets DEF AtLevel, Params
<1>2. /\ ~Without(r, BindsOf(i)) /\ Without(u, BindsOf(i)) /\ Once(u, BindsOf(i))
      /\ Ends(u, SetsOf(i), BindsOf(i))
  BY WithoutTail, EndsTail DEF VolNode
<1>3. ~Without(r, AsksOf(i))
  BY <1>2 DEF Without, AsksOf
<1>4. n # Audio!NoNode /\ ~b /\ h.level = 1 /\ Without(q, Params(i)) /\ Without(q, Goes(i)) /\ Without(q, Comes(i))
  BY <1>2, <1>3 DEF VolNode
<1>5. /\ Without(t, Goes(i)) /\ ~Without(t, Params(i)) /\ Without(t, Comes(i))
      /\ LastFits(t, Params(i), AtLevel(Params(i), h.level))
  BY <1>1, <1>4, WithoutAppend, LastFitsAppend
<1>6. Ends(t, Goes(i), Comes(i) \union Params(i) \union Goes(i)) /\ Once(t, Comes(i))
  <2>1. \A S : Ends(t, Goes(i), S)
    BY <1>5 DEF Ends, Without
  <2> QED
    BY <1>5, <2>1 DEF Once, Without
<1>7. \A j \in 1..Len(t) : t[j] \in Comes(i) => Same(t[j], h)
  BY <1>5 DEF Without
<1>8. Same(n, h)
  BY <1>4 DEF VolNode
<1> HIDE DEF t, u
<1>9. VolNode(i, h, TRUE, n, t, u)
  BY <1>2, <1>4, <1>5, <1>6, <1>7, <1>8 DEF VolNode
<1> QED
  BY <1>4, <1>9 DEF t, u

LEMMA VolSetServed ==
    ASSUME NEW i, NEW h, h # Audio!NoNode, NEW b \in BOOLEAN, NEW n, NEW q,
           NEW r \in Seq(VolRequests), r # <<>>, Head(r) \in SetsOf(i), VolNode(i, h, b, n, q, r)
    PROVE  b /\ n # Audio!NoNode /\ Without(r, BindsOf(i))
<1>1. Head(r) \in AsksOf(i) /\ Head(r) \notin BindsOf(i)
  BY DEF AsksOf, SetsOf, BindsOf
<1>2. ~Without(r, AsksOf(i)) /\ Without(r, BindsOf(i))
  BY <1>1, WithoutTail, EndsTail DEF VolNode
<1> QED
  BY <1>2 DEF VolNode

LEMMA VolDropped ==
    ASSUME NEW i, NEW h, h # Audio!NoNode, NEW n, n # Audio!NoNode, NEW q,
           NEW r \in Seq(VolRequests), r # <<>>, Head(r) \in SetsOf(i), VolNode(i, h, TRUE, n, q, r),
           ~Without(q, Params(i)) \/ Head(r).level = h.level
    PROVE  VolNode(i, h, TRUE, n, q, Tail(r))
<1> DEFINE t == Tail(r)
<1>1. \A S : (Without(r, S) => Without(t, S)) /\ (Once(r, S) => Once(t, S))
  BY WithoutTail
<1>2. Ends(t, SetsOf(i), BindsOf(i))
  BY EndsTail DEF VolNode
<1>3. ASSUME Without(q, Params(i)), n.level # h.level
      PROVE  ~Without(t, SetsOf(i)) /\ LastFits(t, SetsOf(i), AtLevel(SetsOf(i), n.level))
  <2>1. LastFits(r, SetsOf(i), AtLevel(SetsOf(i), n.level))
    BY <1>3 DEF VolNode
  <2>2. Head(r) \notin AtLevel(SetsOf(i), n.level)
    BY <1>3 DEF AtLevel
  <2> QED
    BY <2>1, <2>2, LastFitsTail
<1> HIDE DEF t
<1>4. VolNode(i, h, TRUE, n, q, t)
  BY <1>1, <1>2, <1>3 DEF VolNode
<1> QED
  BY <1>4 DEF t

\* The shell sets a level and asks for it.
LEMMA VolSets1 ==
    ASSUME NEW i, NEW h, NEW b, NEW n, n # Audio!NoNode, NEW q, NEW r \in Seq(VolRequests),
           VolNode(i, h, b, n, q, r), NEW m, m # Audio!NoNode, Same(m, n),
           NEW x \in AtLevel(SetsOf(i), m.level)
    PROVE  VolNode(i, h, b, m, q, Append(r, x))
<1> DEFINE t == Append(r, x)
<1>1. x \in VolRequests /\ x \in SetsOf(i) /\ x \notin BindsOf(i)
  BY DEF AtLevel, SetsOf, BindsOf
<1>2. /\ Without(t, BindsOf(i)) <=> Without(r, BindsOf(i))
      /\ Once(t, BindsOf(i)) /\ ~Without(t, SetsOf(i)) /\ Ends(t, SetsOf(i), BindsOf(i))
      /\ LastFits(t, SetsOf(i), AtLevel(SetsOf(i), m.level))
  BY <1>1, WithoutAppend, EndsAppend, LastFitsAppend DEF VolNode
<1>3. Without(q, Comes(i)) /\ (h # Audio!NoNode => Same(m, h))
  BY DEF VolNode, Same
<1> HIDE DEF t
<1>4. VolNode(i, h, b, m, q, t)
  BY <1>2, <1>3 DEF VolNode
<1> QED
  BY <1>4 DEF t

\* The shell hears of node i: it comes, it goes, its level.
LEMMA VolHearsCome ==
    ASSUME NEW i, NEW h, NEW b \in BOOLEAN, NEW n, NEW q \in Seq(VolEvents), q # <<>>,
           Head(q) \in Comes(i), NEW r \in Seq(VolRequests), VolNode(i, h, b, n, q, r),
           NEW m, m # Audio!NoNode, Same(m, Head(q)), NEW x \in BindsOf(i)
    PROVE  VolNode(i, h, b, m, Tail(q), Append(r, x))
<1> DEFINE t == Tail(q)
           u == Append(r, x)
<1>1. Head(q) \in VolEvents /\ Head(q) \notin Goes(i) /\ Head(q) \notin Params(i)
      /\ x \in VolRequests /\ x \notin SetsOf(i)
  BY DEF Comes, Goes, Params, BindsOf, SetsOf
<1>2. ~Without(q, Comes(i)) /\ Without(t, Comes(i))
      /\ (Without(t, Goes(i)) <=> Without(q, Goes(i))) /\ (Without(t, Params(i)) <=> Without(q, Params(i)))
  BY <1>1, WithoutTail DEF VolNode
<1>3. n = Audio!NoNode /\ ~b /\ Without(q, Params(i)) /\ Without(r, AsksOf(i))
  BY <1>2 DEF VolNode
<1>4. Without(r, BindsOf(i)) /\ Without(r, SetsOf(i))
  BY <1>3 DEF Without, AsksOf
<1>5. /\ ~Without(u, BindsOf(i)) /\ Once(u, BindsOf(i)) /\ Ends(u, SetsOf(i), BindsOf(i))
  BY <1>1, <1>4, WithoutAppend, EndsAppend DEF VolNode
<1>6. Once(t, Comes(i)) /\ Ends(t, Goes(i), Comes(i) \union Params(i) \union Goes(i))
  BY WithoutTail, EndsTail DEF VolNode
<1>7. h # Audio!NoNode => Same(m, h)
  <2>1. h # Audio!NoNode => Same(Head(q), h)
    BY EveryTail DEF VolNode
  <2> QED
    BY <2>1 DEF Same
<1>8. h # Audio!NoNode => LastFits(t, Params(i), AtLevel(Params(i), h.level)) /\ h.level = 1
  BY <1>3, LastFitsTail DEF VolNode
<1>9. \A j \in 1..Len(t) : t[j] \in Comes(i) => Same(t[j], h)
  BY <1>2 DEF Without
<1> HIDE DEF t, u
<1>10. VolNode(i, h, b, m, t, u)
  BY <1>2, <1>3, <1>5, <1>6, <1>7, <1>8, <1>9 DEF VolNode
<1> QED
  BY <1>10 DEF t, u

LEMMA VolHearsGo ==
    ASSUME NEW i, NEW h, NEW b \in BOOLEAN, NEW n, NEW q \in Seq(VolEvents), q # <<>>,
           Head(q) \in Goes(i), NEW r, VolNode(i, h, b, n, q, r)
    PROVE  VolNode(i, h, b, Audio!NoNode, Tail(q), r)
<1> DEFINE t == Tail(q)
<1>1. h = Audio!NoNode /\ ~b
  BY WithoutTail DEF VolNode
<1>2. Without(t, Comes(i) \union Params(i) \union Goes(i))
  BY EndsTail DEF VolNode
<1>3. Without(t, Comes(i)) /\ Without(t, Params(i))
  BY <1>2 DEF Without
<1>4. Once(t, Comes(i)) /\ Ends(t, Goes(i), Comes(i) \union Params(i) \union Goes(i))
  BY WithoutTail, EndsTail DEF VolNode
<1> HIDE DEF t
<1>5. VolNode(i, h, b, Audio!NoNode, t, r)
  BY <1>1, <1>3, <1>4 DEF VolNode
<1> QED
  BY <1>5 DEF t

LEMMA VolHearsLevel ==
    ASSUME NEW i, NEW h, NEW b \in BOOLEAN, NEW n, NEW q \in Seq(VolEvents), q # <<>>,
           Head(q) \in Params(i), NEW r, VolNode(i, h, b, n, q, r),
           NEW m, m # Audio!NoNode, Same(m, n), m.level = Head(q).level
    PROVE  n # Audio!NoNode /\ VolNode(i, h, b, m, Tail(q), r)
<1> DEFINE t == Tail(q)
<1>1. Head(q) \in VolEvents /\ Head(q) \notin Goes(i) /\ Head(q) \notin Comes(i)
  BY DEF Comes, Goes, Params
<1>2. ~Without(q, Params(i)) /\ (Without(t, Comes(i)) <=> Without(q, Comes(i)))
      /\ (Without(t, Goes(i)) <=> Without(q, Goes(i))) /\ Once(t, Comes(i))
  BY <1>1, WithoutTail DEF VolNode
<1>3. n # Audio!NoNode /\ Without(q, Comes(i)) /\ (h # Audio!NoNode => b /\ Same(m, h))
  BY <1>2 DEF VolNode, Same
<1>4. Ends(t, Goes(i), Comes(i) \union Params(i) \union Goes(i))
  BY EndsTail DEF VolNode
<1>5. ASSUME h # Audio!NoNode
      PROVE  /\ LastFits(t, Params(i), AtLevel(Params(i), h.level))
             /\ Without(t, Params(i)) => m.level = h.level
  <2>1. LastFits(q, Params(i), AtLevel(Params(i), h.level))
    BY <1>5 DEF VolNode
  <2>2. Without(t, Params(i)) => Head(q) \in AtLevel(Params(i), h.level)
    BY <2>1, LastFitsTail
  <2> QED
    BY <2>1, <2>2, LastFitsTail DEF AtLevel
<1>6. \A j \in 1..Len(t) : t[j] \in Comes(i) => Same(t[j], h)
  BY <1>2, <1>3 DEF Without
<1> HIDE DEF t
<1>7. VolNode(i, h, b, m, t, r)
  BY <1>2, <1>3, <1>4, <1>5, <1>6 DEF VolNode
<1> QED
  BY <1>3, <1>7 DEF t

\* The order of announcements and ends, with one message more or less.
LEMMA VolOrderPush ==
    ASSUME NEW q \in Seq(VolEvents), NEW e \in VolEvents, NEW nodes, VolOrder(q, nodes),
           e.op = "global" =>
              \A i \in Audio!Ids \ {e.id} :
                 (nodes[i] # Audio!NoNode /\ Same(nodes[i], e)) \/ ~Without(q, Namesakes(Comes(i), e))
                   => ~Without(q, Goes(i))
    PROVE  VolOrder(Append(q, e), nodes)
<1> DEFINE t == Append(q, e)
<1>1. /\ Len(q) \in Nat /\ Len(t) = Len(q) + 1 /\ t[Len(q) + 1] = e
      /\ \A i \in 1..Len(q) : t[i] = q[i]
  BY Grows
<1> HIDE DEF t
<1>2. /\ \A i \in 1..Len(t) : i = Len(q) + 1 \/ i \in 1..Len(q)
      /\ \A i \in 1..Len(q) : i \in 1..Len(t) /\ i < Len(q) + 1
      /\ \A i, j \in 1..Len(t) : i < j => i \in 1..Len(q)
  BY <1>1
<1> SUFFICES ASSUME NEW b \in 1..Len(t), t[b].op = "global", NEW i \in Audio!Ids \ {t[b].id},
                    \/ nodes[i] # Audio!NoNode /\ Same(nodes[i], t[b])
                    \/ \E a \in 1..Len(t) : a < b /\ t[a] \in Namesakes(Comes(i), t[b])
             PROVE  \E c \in 1..Len(t) : c < b /\ t[c] \in Goes(i)
  BY DEF VolOrder, t
<1>3. CASE b \in 1..Len(q)
  <2>1. q[b] = t[b]
    BY <1>1, <1>3
  <2>2. ASSUME NEW a \in 1..Len(t), a < b, t[a] \in Namesakes(Comes(i), t[b])
        PROVE  a \in 1..Len(q) /\ q[a] \in Namesakes(Comes(i), q[b])
    BY <1>1, <1>2, <2>1, <2>2
  <2>3. PICK c \in 1..Len(q) : c < b /\ q[c] \in Goes(i)
    BY <1>3, <2>1, <2>2 DEF VolOrder
  <2> QED
    BY <1>1, <1>2, <2>3
<1>4. CASE b = Len(q) + 1
  <2>1. t[b] = e
    BY <1>1, <1>4
  <2>2. ASSUME NEW a \in 1..Len(t), a < b, t[a] \in Namesakes(Comes(i), t[b])
        PROVE  ~Without(q, Namesakes(Comes(i), e))
    <3>1. a \in 1..Len(q) /\ q[a] \in Namesakes(Comes(i), e)
      BY <1>1, <1>2, <2>1, <2>2
    <3> QED
      BY <3>1 DEF Without
  <2>3. ~Without(q, Goes(i))
    BY <2>1, <2>2
  <2>4. PICK c \in 1..Len(q) : q[c] \in Goes(i)
    BY <2>3 DEF Without
  <2> QED
    BY <1>1, <1>2, <1>4, <2>4
<1> QED
  BY <1>2, <1>3, <1>4

LEMMA VolOrderTail ==
    ASSUME NEW q \in Seq(VolEvents), q # <<>>, NEW nodes, VolOrder(q, nodes), NEW new,
           \A i \in Audio!Ids : new[i] # Audio!NoNode =>
              \/ nodes[i] # Audio!NoNode /\ Same(new[i], nodes[i])
              \/ Head(q) \in Comes(i) /\ Same(new[i], Head(q)),
           \A i \in Audio!Ids : Head(q) \in Goes(i) =>
              new[i] = Audio!NoNode /\ Without(Tail(q), Comes(i))
    PROVE  VolOrder(Tail(q), new)
<1> DEFINE t == Tail(q)
<1>1. /\ Len(q) \in Nat \ {0} /\ Len(t) = Len(q) - 1 /\ Head(q) = q[1]
      /\ \A i \in 1..Len(t) : t[i] = q[i + 1]
  BY Shrinks
<1> HIDE DEF t
<1>2. /\ 1 \in 1..Len(q) /\ \A i \in 1..Len(t) : i + 1 \in 1..Len(q) /\ 1 < i + 1
      /\ \A j \in 1..Len(q) : j = 1 \/ (j - 1 \in 1..Len(t) /\ (j - 1) + 1 = j)
      /\ \A i, j \in 1..Len(t) : i < j <=> i + 1 < j + 1
  BY <1>1
<1> SUFFICES ASSUME NEW b \in 1..Len(t), t[b].op = "global", NEW i \in Audio!Ids \ {t[b].id},
                    \/ new[i] # Audio!NoNode /\ Same(new[i], t[b])
                    \/ \E a \in 1..Len(t) : a < b /\ t[a] \in Namesakes(Comes(i), t[b])
             PROVE  \E c \in 1..Len(t) : c < b /\ t[c] \in Goes(i)
  BY DEF VolOrder, t
<1>3. b + 1 \in 1..Len(q) /\ q[b + 1] = t[b]
  BY <1>1, <1>2
<1>4. \/ nodes[i] # Audio!NoNode /\ Same(nodes[i], q[b + 1])
      \/ \E a \in 1..Len(q) : a < b + 1 /\ q[a] \in Namesakes(Comes(i), q[b + 1])
  <2>1. CASE new[i] # Audio!NoNode /\ Same(new[i], t[b])
    <3>1. CASE nodes[i] # Audio!NoNode /\ Same(new[i], nodes[i])
      BY <1>3, <2>1, <3>1 DEF Same
    <3>2. CASE Head(q) \in Comes(i) /\ Same(new[i], Head(q))
      <4>1. q[1] \in Namesakes(Comes(i), q[b + 1])
        BY <1>1, <1>3, <2>1, <3>2 DEF Same, Namesakes
      <4> QED
        BY <1>2, <4>1
    <3> QED
      BY <2>1, <3>1, <3>2
  <2>2. CASE \E a \in 1..Len(t) : a < b /\ t[a] \in Namesakes(Comes(i), t[b])
    <3>1. PICK a \in 1..Len(t) : a < b /\ t[a] \in Namesakes(Comes(i), t[b])
      BY <2>2
    <3>2. a + 1 \in 1..Len(q) /\ a + 1 < b + 1 /\ q[a + 1] \in Namesakes(Comes(i), q[b + 1])
      BY <1>1, <1>2, <1>3, <3>1
    <3> QED
      BY <3>2
  <2> QED
    BY <2>1, <2>2
<1>5. PICK c \in 1..Len(q) : c < b + 1 /\ q[c] \in Goes(i)
  BY <1>3, <1>4 DEF VolOrder
<1>6. c # 1
  <2> SUFFICES ASSUME c = 1 PROVE FALSE
    OBVIOUS
  <2>1. new[i] = Audio!NoNode /\ Without(t, Comes(i))
    BY <1>1, <1>5 DEF t
  <2> QED
    BY <2>1 DEF Without, Namesakes
<1>7. c - 1 \in 1..Len(t) /\ c - 1 < b /\ t[c - 1] = q[c]
  BY <1>1, <1>2, <1>5, <1>6
<1> QED
  BY <1>5, <1>7

\* Nobody has the name of the node that comes next.
LEMMA VolOrderHead ==
    ASSUME NEW q \in Seq(VolEvents), q # <<>>, NEW nodes, VolOrder(q, nodes), Head(q).op = "global"
    PROVE  \A i \in Audio!Ids \ {Head(q).id} : nodes[i] # Audio!NoNode => ~Same(nodes[i], Head(q))
<1>1. Len(q) \in Nat \ {0} /\ Head(q) = q[1]
  BY Shrinks
<1>2. 1 \in 1..Len(q) /\ \A c \in 1..Len(q) : ~(c < 1)
  BY <1>1
<1> QED
  BY <1>1, <1>2 DEF VolOrder

LEMMA VolOrderAlike ==
    ASSUME NEW q, NEW nodes, VolOrder(q, nodes), NEW new,
           \A i \in Audio!Ids : new[i] # Audio!NoNode => nodes[i] # Audio!NoNode /\ Same(new[i], nodes[i])
    PROVE  VolOrder(q, new)
  BY DEF VolOrder, Same

\* The node with a name of a kind, when names are unique.
LEMMA VolIdOf ==
    ASSUME NEW p \in VolCopies, Unique(p.nodes), NEW k \in Audio!Kinds, NEW n \in VolNames
    PROVE  LET x == Audio!IdOf(p, k, n)
           IN  /\ x \in Audio!Ids \union {0}
               /\ x = 0 => \A i \in Audio!Ids : ~(p.nodes[i].kind = k /\ p.nodes[i].name = n)
               /\ x # 0 => p.nodes[x].kind = k /\ p.nodes[x].name = n
               /\ \A i \in Audio!Ids : p.nodes[i].kind = k /\ p.nodes[i].name = n => x = i
<1> DEFINE S == Audio!NodeNamed(p.nodes, k, n)
<1>1. \A i \in Audio!Ids : p.nodes[i] \in VolNodes
  BY DEF VolCopies
<1>2. S = {i \in Audio!Ids : p.nodes[i].kind = k /\ p.nodes[i].name = n}
  <2>1. "none" \notin Audio!Kinds
    BY VolNumbers
  <2>2. \A i \in Audio!Ids : p.nodes[i].kind = k => p.nodes[i] # Audio!NoNode
    BY <1>1, <2>1, VolNodeCases
  <2> QED
    BY <2>2 DEF Audio!NodeNamed, Audio!Present
<1>3. \A i, j \in S : i = j
  <2>1. "none" \notin Audio!Kinds
    BY VolNumbers
  <2>2. \A i \in Audio!Ids : p.nodes[i].kind = k => p.nodes[i] # Audio!NoNode
    BY <1>1, <2>1, VolNodeCases
  <2> QED
    BY <1>2, <2>2 DEF Unique, Same
<1>4. Audio!IdOf(p, k, n) = IF S = {} THEN 0 ELSE CHOOSE i \in S : TRUE
  BY DEF Audio!IdOf
<1> HIDE DEF S
<1>5. S # {} => (CHOOSE i \in S : TRUE) \in S
  OBVIOUS
<1> DEFINE x == Audio!IdOf(p, k, n)
<1>6. IF S = {} THEN x = 0 ELSE x \in S
  BY <1>4, <1>5
<1> HIDE DEF x
<1>7. /\ x \in Audio!Ids \union {0}
      /\ x = 0 => \A i \in Audio!Ids : ~(p.nodes[i].kind = k /\ p.nodes[i].name = n)
      /\ x # 0 => p.nodes[x].kind = k /\ p.nodes[x].name = n
      /\ \A i \in Audio!Ids : p.nodes[i].kind = k /\ p.nodes[i].name = n => x = i
  BY <1>2, <1>3, <1>6, VolNumbers
<1> QED
  BY <1>7 DEF x

\* The level of a kind is the one of its node.
LEMMA VolLevelOf ==
    ASSUME NEW p \in VolCopies, NEW k \in Audio!Kinds
    PROVE  /\ Audio!LevelOf(p, k) \in {0, 1}
           /\ p.id[k] \in Audio!Ids \union {0} /\ (p.id[k] # 0 => p.nodes[p.id[k]] \in VolNodes)
           /\ p.id[k] = 0 => Audio!LevelOf(p, k) = 0
           /\ p.id[k] # 0 => Audio!LevelOf(p, k) = p.nodes[p.id[k]].level
<1>1. p.id[k] \in Audio!Ids \union {0} /\ p.nodes \in [Audio!Ids -> VolNodes]
  BY DEF VolCopies
<1>2. p.id[k] # 0 => p.nodes[p.id[k]] \in VolNodes /\ p.nodes[p.id[k]].level \in {0, 1}
  BY <1>1, VolNodeCases
<1> QED
  BY <1>1, <1>2 DEF Audio!LevelOf

\* What the shell makes of an event.
LEMMA VolHeardCome ==
    ASSUME NEW p \in VolCopies, NEW e \in VolEvents, e.op = "global"
    PROVE  LET u == Audio!Heard(p, e)
           IN  /\ u \in VolCopies /\ u.name = p.name /\ u.changed = p.changed
               /\ u.nodes[e.id] # Audio!NoNode /\ Same(u.nodes[e.id], e) /\ u.nodes[e.id].level = 0
               /\ \A i \in Audio!Ids \ {e.id} : u.nodes[i] = p.nodes[i]
               /\ \A k \in Audio!Kinds :
                     u.id[k] = IF k = e.kind /\ p.name[k] = e.name THEN e.id ELSE p.id[k]
<1> DEFINE u == Audio!Heard(p, e)
           m == [kind |-> e.kind, name |-> e.name, level |-> 0]
           nn == [p.nodes EXCEPT ![e.id] = m]
           ii == [k \in Audio!Kinds |-> IF k = e.kind /\ p.name[k] = e.name THEN e.id ELSE p.id[k]]
<1>1. u = [p EXCEPT !.nodes = nn, !.id = ii]
  BY DEF Audio!Heard, Audio!RegistryGlobal
<1>2. e.id \in Audio!Ids /\ e.kind \in AllKinds /\ e.name \in NodeNames /\ NamedRight(e)
  BY VolEventCases
<1>3. m \in VolNodes /\ m.kind \in AllKinds /\ m.level = 0 /\ Same(m, e)
  <2>1. m.kind = e.kind /\ m.name = e.name /\ m.level = 0
    OBVIOUS
  <2>2. m \in [kind : AllKinds, name : NodeNames, level : {0, 1}]
    BY <1>2
  <2> HIDE DEF m
  <2> QED
    BY <1>2, <2>1, <2>2 DEF VolNodes, NamedRight, Same
<1>4. m # Audio!NoNode
  <2>1. "none" \notin AllKinds
    BY VolNumbers
  <2> HIDE DEF m
  <2> QED
    BY <1>3, <2>1, VolNodeCases
<1> HIDE DEF m
<1>5. nn \in [Audio!Ids -> VolNodes] /\ nn[e.id] = m /\ \A i \in Audio!Ids \ {e.id} : nn[i] = p.nodes[i]
  BY <1>2, <1>3 DEF VolCopies
<1>6. ii \in [Audio!Kinds -> Audio!Ids \union {0}]
  BY <1>2 DEF VolCopies
<1>7. \A k \in Audio!Kinds : ii[k] = IF k = e.kind /\ p.name[k] = e.name THEN e.id ELSE p.id[k]
  OBVIOUS
<1> HIDE DEF u, nn, ii
<1>8. u \in VolCopies /\ u.name = p.name /\ u.changed = p.changed /\ u.nodes = nn /\ u.id = ii
  BY <1>1, <1>5, <1>6 DEF VolCopies
<1>9. /\ u \in VolCopies /\ u.name = p.name /\ u.changed = p.changed
      /\ u.nodes[e.id] # Audio!NoNode /\ Same(u.nodes[e.id], e) /\ u.nodes[e.id].level = 0
      /\ \A i \in Audio!Ids \ {e.id} : u.nodes[i] = p.nodes[i]
      /\ \A k \in Audio!Kinds :
            u.id[k] = IF k = e.kind /\ p.name[k] = e.name THEN e.id ELSE p.id[k]
  BY <1>3, <1>4, <1>5, <1>7, <1>8
<1> QED
  BY <1>9 DEF u

LEMMA VolHeardGo ==
    ASSUME NEW p \in VolCopies, NEW e \in VolEvents, e.op = "remove"
    PROVE  LET u == Audio!Heard(p, e)
           IN  /\ u \in VolCopies /\ u.name = p.name /\ u.changed = p.changed
               /\ u.nodes[e.id] = Audio!NoNode
               /\ \A i \in Audio!Ids \ {e.id} : u.nodes[i] = p.nodes[i]
               /\ \A k \in Audio!Kinds : u.id[k] = IF p.id[k] = e.id THEN 0 ELSE p.id[k]
<1> DEFINE u == Audio!Heard(p, e)
           nn == [p.nodes EXCEPT ![e.id] = Audio!NoNode]
           ii == [k \in Audio!Kinds |-> IF p.id[k] = e.id THEN 0 ELSE p.id[k]]
<1>1. u = [p EXCEPT !.nodes = nn, !.id = ii]
  BY DEF Audio!Heard, Audio!RegistryGlobalRemove
<1>2. e.id \in Audio!Ids
  BY VolEventCases
<1>3. Audio!NoNode \in VolNodes
  BY DEF VolNodes
<1>4. nn \in [Audio!Ids -> VolNodes] /\ nn[e.id] = Audio!NoNode
      /\ \A i \in Audio!Ids \ {e.id} : nn[i] = p.nodes[i]
  BY <1>2, <1>3 DEF VolCopies
<1>5. ii \in [Audio!Kinds -> Audio!Ids \union {0}]
      /\ \A k \in Audio!Kinds : ii[k] = IF p.id[k] = e.id THEN 0 ELSE p.id[k]
  BY DEF VolCopies
<1> HIDE DEF u, nn, ii
<1>6. u \in VolCopies /\ u.name = p.name /\ u.changed = p.changed /\ u.nodes = nn /\ u.id = ii
  BY <1>1, <1>4, <1>5 DEF VolCopies
<1> QED
  BY <1>4, <1>5, <1>6 DEF u

LEMMA VolHeardLevel ==
    ASSUME NEW p \in VolCopies, NEW e \in VolEvents, e.op = "param", p.nodes[e.id] # Audio!NoNode
    PROVE  LET u == Audio!Heard(p, e)
           IN  /\ u \in VolCopies /\ u.name = p.name /\ u.id = p.id
               /\ u.nodes[e.id] # Audio!NoNode /\ Same(u.nodes[e.id], p.nodes[e.id])
               /\ u.nodes[e.id].level = e.level
               /\ \A i \in Audio!Ids \ {e.id} : u.nodes[i] = p.nodes[i]
               /\ p.changed \subseteq u.changed
               /\ \A k \in Audio!Kinds :
                     p.id[k] = e.id /\ p.nodes[e.id].level # e.level => k \in u.changed
<1> DEFINE u == Audio!Heard(p, e)
           m == [p.nodes[e.id] EXCEPT !.level = e.level]
           nn == [p.nodes EXCEPT ![e.id] = m]
           cc == IF p.nodes[e.id].level = e.level THEN p.changed ELSE p.changed \union Audio!Reports(p, e.id)
<1>1. u = [p EXCEPT !.nodes = nn, !.changed = cc]
  BY DEF Audio!Heard, Audio!NodeParam
<1>2. e.id \in Audio!Ids /\ e.level \in {0, 1}
  BY VolEventCases
<1>3. p.nodes[e.id] \in VolNodes
  BY <1>2 DEF VolCopies
<1>4. m \in VolNodes /\ m # Audio!NoNode /\ m.kind = p.nodes[e.id].kind /\ m.name = p.nodes[e.id].name
      /\ m.level = e.level
  BY <1>2, <1>3, VolLevelSet
<1> HIDE DEF m
<1>5. nn \in [Audio!Ids -> VolNodes] /\ nn[e.id] = m /\ \A i \in Audio!Ids \ {e.id} : nn[i] = p.nodes[i]
  BY <1>2, <1>4 DEF VolCopies
<1>6. /\ cc \in SUBSET Audio!Kinds /\ p.changed \subseteq cc
      /\ \A k \in Audio!Kinds : p.id[k] = e.id /\ p.nodes[e.id].level # e.level => k \in cc
  BY DEF VolCopies, Audio!Reports
<1> HIDE DEF u, nn, cc
<1>7. u \in VolCopies /\ u.name = p.name /\ u.changed = cc /\ u.nodes = nn /\ u.id = p.id
  BY <1>1, <1>5, <1>6 DEF VolCopies
<1> QED
  BY <1>4, <1>5, <1>6, <1>7 DEF u, Same

LEMMA VolHeardMeta ==
    ASSUME NEW p \in VolCopies, NEW e \in VolEvents, e.op = "meta", Unique(p.nodes)
    PROVE  LET u == Audio!Heard(p, e)
               x == Audio!IdOf(p, e.kind, e.name)
           IN  /\ u \in VolCopies /\ u.nodes = p.nodes /\ u.changed = p.changed \union {e.kind}
               /\ u.name[e.kind] = e.name /\ u.id[e.kind] = x
               /\ \A k \in Audio!Kinds \ {e.kind} : u.name[k] = p.name[k] /\ u.id[k] = p.id[k]
<1> DEFINE u == Audio!Heard(p, e)
           x == Audio!IdOf(p, e.kind, e.name)
           mm == [p.name EXCEPT ![e.kind] = e.name]
           ii == [p.id EXCEPT ![e.kind] = x]
<1>1. u = [p EXCEPT !.name = mm, !.id = ii, !.changed = p.changed \union {e.kind}]
  BY DEF Audio!Heard, Audio!MetadataProperty
<1>2. e.kind \in Audio!Kinds /\ e.name \in VolNames
  BY VolEventCases
<1>3. x \in Audio!Ids \union {0}
  BY <1>2, VolIdOf
<1> HIDE DEF x
<1>4. /\ mm \in [Audio!Kinds -> VolNames] /\ ii \in [Audio!Kinds -> Audio!Ids \union {0}]
      /\ mm[e.kind] = e.name /\ ii[e.kind] = x
      /\ \A k \in Audio!Kinds \ {e.kind} : mm[k] = p.name[k] /\ ii[k] = p.id[k]
  BY <1>2, <1>3 DEF VolCopies
<1>5. p.changed \union {e.kind} \in SUBSET Audio!Kinds
  BY <1>2 DEF VolCopies
<1> HIDE DEF u, mm, ii
<1>6. /\ u \in VolCopies /\ u.nodes = p.nodes /\ u.changed = p.changed \union {e.kind}
      /\ u.name = mm /\ u.id = ii
  BY <1>1, <1>4, <1>5 DEF VolCopies
<1> QED
  BY <1>4, <1>6 DEF u, x

\* Requests after an event.
LEMMA VolBinds ==
    ASSUME NEW r \in Seq(VolRequests), NEW e \in VolEvents
    PROVE  /\ Audio!Binds(r, e) \in Seq(VolRequests)
           /\ e.op = "global" => \E x \in BindsOf(e.id) : Audio!Binds(r, e) = Append(r, x)
           /\ e.op # "global" => Audio!Binds(r, e) = r
<1>1. CASE e.op = "global"
  <2> DEFINE x == [op |-> "bind", id |-> e.id]
  <2>1. e.id \in Audio!Ids
    BY <1>1, VolEventCases
  <2>2. x \in BindsOf(e.id) /\ x \in VolRequests
    BY <2>1 DEF BindsOf, VolRequests
  <2>3. Audio!Binds(r, e) = Append(r, x)
    BY <1>1 DEF Audio!Binds
  <2> HIDE DEF x
  <2>4. Append(r, x) \in Seq(VolRequests)
    BY <2>2
  <2> QED
    BY <1>1, <2>2, <2>3, <2>4
<1>2. CASE e.op # "global"
  BY <1>2 DEF Audio!Binds
<1> QED
  BY <1>1, <1>2

\* One event more is heard: what is under way and what is known fit as before.
VolMicro(s, q, r, p, q2, r2, p2) ==
    /\ VolCore(s, q2, r2, p2)
    /\ \A k \in Audio!Kinds : \A l : Excused(k, l, q, r, p) => Excused(k, l, q2, r2, p2)

LEMMA VolCoreFacts ==
    ASSUME NEW s, NEW q, NEW r, NEW p, VolCore(s, q, r, p)
    PROVE  /\ s \in VolServers /\ q \in Seq(VolEvents) /\ r \in Seq(VolRequests) /\ p \in VolCopies
           /\ \A i \in Audio!Ids : VolNode(i, s.nodes[i], i \in s.bound, p.nodes[i], q, r)
           /\ \A i \in Audio!Ids : (i \in s.bound) \in BOOLEAN /\ p.nodes[i] \in VolNodes /\ s.nodes[i] \in VolNodes
           /\ VolOrder(q, p.nodes) /\ Unique(s.nodes) /\ Unique(p.nodes)
           /\ \A k \in Audio!Kinds : VolDefault(k, s, q, p)
  BY DEF VolCore, VolServers, VolCopies

\* The default's node is there.
VolServed(p) ==
    \A k \in Audio!Kinds : p.id[k] # 0 =>
       /\ p.id[k] \in Audio!Ids /\ p.nodes[p.id[k]] # Audio!NoNode
       /\ p.nodes[p.id[k]].kind = k /\ p.nodes[p.id[k]].name = p.name[k] /\ p.name[k] # ""

LEMMA VolDefaultNode ==
    ASSUME NEW s, NEW q, NEW r, NEW p, VolCore(s, q, r, p)
    PROVE  VolServed(p)
<1> SUFFICES ASSUME NEW k \in Audio!Kinds, p.id[k] # 0
             PROVE  /\ p.id[k] \in Audio!Ids /\ p.nodes[p.id[k]] # Audio!NoNode
                    /\ p.nodes[p.id[k]].kind = k /\ p.nodes[p.id[k]].name = p.name[k]
                    /\ p.name[k] # ""
  BY DEF VolServed
<1>1. p.id[k] \in Audio!Ids /\ p.nodes[p.id[k]] \in VolNodes
  BY VolCoreFacts, VolLevelOf DEF VolCopies
<1>2. p.nodes[p.id[k]].kind = k /\ p.nodes[p.id[k]].name = p.name[k]
  BY VolCoreFacts DEF VolDefault
<1>3. "none" \notin Audio!Kinds
  BY VolNumbers
<1> QED
  BY <1>1, <1>2, <1>3, VolNodeCases

LEMMA VolMicroCome ==
    ASSUME NEW s, NEW q, NEW r, NEW p, VolCore(s, q, r, p), q # <<>>, Head(q).op = "global"
    PROVE  VolMicro(s, q, r, p, Tail(q), Audio!Binds(r, Head(q)), Audio!Heard(p, Head(q)))
<1> DEFINE e == Head(q)
           t == Tail(q)
           u == Audio!Binds(r, e)
           w == Audio!Heard(p, e)
<1>1. /\ s \in VolServers /\ q \in Seq(VolEvents) /\ r \in Seq(VolRequests) /\ p \in VolCopies
      /\ VolOrder(q, p.nodes) /\ Unique(s.nodes) /\ Unique(p.nodes)
  BY VolCoreFacts
<1>2. e \in VolEvents /\ t \in Seq(VolEvents)
  BY <1>1, Shrinks
<1>3. e.id \in Audio!Ids /\ e \in Comes(e.id) /\ e.kind \in AllKinds /\ e.name \in NodeNames /\ NamedRight(e)
  BY <1>2, VolEventCases
<1>4. \A i : e \notin Goes(i) /\ e \notin Params(i) /\ e \notin Metas(i) /\ e \notin Louds(i)
             /\ (e \in Comes(i) => i = e.id)
  BY <1>2, VolSets
<1>5. /\ w \in VolCopies /\ w.name = p.name /\ w.changed = p.changed
      /\ w.nodes[e.id] # Audio!NoNode /\ Same(w.nodes[e.id], e) /\ w.nodes[e.id].level = 0
      /\ \A i \in Audio!Ids \ {e.id} : w.nodes[i] = p.nodes[i]
      /\ \A k \in Audio!Kinds :
            w.id[k] = IF k = e.kind /\ p.name[k] = e.name THEN e.id ELSE p.id[k]
  BY <1>1, <1>2, VolHeardCome
<1>6. u \in Seq(VolRequests) /\ \E x \in BindsOf(e.id) : u = Append(r, x)
  BY <1>1, <1>2, VolBinds
<1>7. PICK x \in BindsOf(e.id) : u = Append(r, x)
  BY <1>6
<1>8. x \in VolRequests /\ (\A i : x \in AsksOf(i) => i = e.id)
  BY <1>7, VolAskSets DEF BindsOf
<1>9. p.nodes[e.id] = Audio!NoNode
  <2>1. ~Without(q, Comes(e.id))
    BY <1>1, <1>3, WithoutTail
  <2>2. VolNode(e.id, s.nodes[e.id], e.id \in s.bound, p.nodes[e.id], q, r)
    BY <1>3, VolCoreFacts
  <2> QED
    BY <2>1, <2>2 DEF VolNode
<1>10. \A i \in Audio!Ids \ {e.id} : p.nodes[i] # Audio!NoNode => ~Same(p.nodes[i], e)
  BY <1>1, VolOrderHead
<1>17. \A k \in Audio!Kinds : p.id[k] # 0 =>
               /\ p.id[k] \in Audio!Ids /\ p.nodes[p.id[k]] # Audio!NoNode
               /\ p.nodes[p.id[k]].kind = k /\ p.nodes[p.id[k]].name = p.name[k] /\ p.name[k] # ""
  <2>1. VolServed(p)
    BY VolDefaultNode
  <2> QED
    BY <2>1 DEF VolServed
<1> HIDE DEF w, u, t, e
<1>11. ASSUME NEW i \in Audio!Ids PROVE VolNode(i, s.nodes[i], i \in s.bound, w.nodes[i], t, u)
  <2>1. VolNode(i, s.nodes[i], i \in s.bound, p.nodes[i], q, r) /\ (i \in s.bound) \in BOOLEAN
    BY VolCoreFacts
  <2>2. CASE i = e.id
    BY <1>1, <1>3, <1>5, <1>7, <2>1, <2>2, VolHearsCome DEF t, e
  <2>3. CASE i # e.id
    <3>1. VolNode(i, s.nodes[i], i \in s.bound, p.nodes[i], t, r)
      BY <1>1, <1>4, <2>1, <2>3, VolPassed DEF t, e
    <3> QED
      BY <1>1, <1>5, <1>7, <1>8, <2>3, <3>1, VolAskedAside
  <2> QED
    BY <2>2, <2>3
<1>12. VolOrder(t, w.nodes)
  <2>1. \A i \in Audio!Ids : w.nodes[i] # Audio!NoNode =>
              \/ p.nodes[i] # Audio!NoNode /\ Same(w.nodes[i], p.nodes[i])
              \/ e \in Comes(i) /\ Same(w.nodes[i], e)
    BY <1>3, <1>5 DEF Same
  <2> QED
    BY <1>1, <1>4, <2>1, VolOrderTail DEF t, e
<1>13. Unique(w.nodes)
  BY <1>1, <1>5, <1>10 DEF Unique, Same
<1>14. ASSUME NEW k \in Audio!Kinds PROVE VolDefault(k, s, t, w)
  <2>1. VolDefault(k, s, q, p)
    BY VolCoreFacts
  <2>2. /\ Without(t, Metas(k)) <=> Without(q, Metas(k))
        /\ LastFits(t, Metas(k), OfName(k, s.default[k]))
    BY <1>1, <1>4, <2>1, WithoutTail, LastFitsTail DEF VolDefault, t, e
  <2>3. CASE k = e.kind /\ p.name[k] = e.name
    <3>1. w.id[k] = e.id /\ w.nodes[w.id[k]].kind = k /\ w.nodes[w.id[k]].name = w.name[k] /\ w.id[k] # 0
      BY <1>3, <1>5, <2>3, VolNumbers DEF Same
    <3> QED
      BY <1>5, <2>1, <2>2, <3>1 DEF VolDefault
  <2>4. CASE ~(k = e.kind /\ p.name[k] = e.name)
    <3>1. w.id[k] = p.id[k]
      BY <1>5, <2>4
    <3>2. CASE p.id[k] = 0
      <4>1. ASSUME NEW i \in Audio!Ids PROVE ~(w.nodes[i].kind = k /\ w.nodes[i].name = w.name[k])
        BY <1>5, <2>1, <2>4, <3>2, <4>1 DEF VolDefault, Same
      <4> QED
        BY <1>5, <2>1, <2>2, <3>1, <3>2, <4>1 DEF VolDefault
    <3>3. CASE p.id[k] # 0
      <4>1. p.id[k] \in Audio!Ids /\ p.id[k] # e.id
        BY <1>9, <3>3, <1>17
      <4> QED
        BY <1>5, <2>1, <2>2, <3>1, <3>3, <4>1 DEF VolDefault
    <3> QED
      BY <3>2, <3>3
  <2> QED
    BY <2>3, <2>4
<1>15. ASSUME NEW k \in Audio!Kinds, NEW l, Excused(k, l, q, r, p) PROVE Excused(k, l, t, u, w)
  <2>1. /\ Without(t, Metas(k)) <=> Without(q, Metas(k))
        /\ \A i : Without(t, Louds(i)) <=> Without(q, Louds(i))
        /\ \A i : Without(t, Goes(i)) <=> Without(q, Goes(i))
    BY <1>1, <1>4, WithoutTail DEF t, e
  <2>2. /\ \A i : ~Without(r, BindsOf(i)) => ~Without(u, BindsOf(i))
        /\ ~Without(u, BindsOf(e.id))
    BY <1>1, <1>7, <1>8, WithoutAppend
  <2>3. \A i : Fresh(i, q, r) => Fresh(i, t, u)
    BY <2>1, <2>2 DEF Fresh
  <2>4. CASE k = e.kind /\ p.name[k] = e.name
    <3>1. w.id[k] = e.id /\ w.id[k] # 0 /\ w.nodes[w.id[k]].level = 0
      BY <1>3, <1>5, <2>4, VolNumbers
    <3> QED
      BY <1>15, <2>2, <3>1 DEF Excused, Fresh
  <2>5. CASE ~(k = e.kind /\ p.name[k] = e.name)
    <3>1. w.id[k] = p.id[k]
      BY <1>5, <2>5
    <3>2. CASE p.id[k] = 0
      <4>1. Audio!LevelOf(w, k) = 0 /\ Audio!LevelOf(p, k) = 0
        BY <1>1, <1>5, <3>1, <3>2, VolLevelOf
      <4> QED
        BY <1>15, <1>5, <2>1, <3>1, <3>2, <4>1 DEF Excused, Unserved
    <3>3. CASE p.id[k] # 0
      <4>1. p.id[k] \in Audio!Ids /\ p.id[k] # e.id
        BY <1>9, <3>3, <1>17
      <4>2. w.nodes[w.id[k]] = p.nodes[p.id[k]]
        BY <1>5, <3>1, <4>1
      <4>3. Audio!LevelOf(w, k) = Audio!LevelOf(p, k)
        BY <1>1, <1>5, <3>1, <3>3, <4>2, VolLevelOf
      <4> QED
        BY <1>15, <1>5, <2>1, <2>3, <3>1, <3>3, <4>2, <4>3 DEF Excused, Unserved
    <3> QED
      BY <3>2, <3>3
  <2> QED
    BY <2>4, <2>5
<1>16. VolCore(s, t, u, w)
  BY <1>1, <1>2, <1>5, <1>6, <1>11, <1>12, <1>13, <1>14 DEF VolCore, t
<1> QED
  BY <1>15, <1>16 DEF VolMicro, t, u, w, e

LEMMA VolMicroGo ==
    ASSUME NEW s, NEW q, NEW r, NEW p, VolCore(s, q, r, p), q # <<>>, Head(q).op = "remove"
    PROVE  VolMicro(s, q, r, p, Tail(q), Audio!Binds(r, Head(q)), Audio!Heard(p, Head(q)))
<1> DEFINE e == Head(q)
           t == Tail(q)
           w == Audio!Heard(p, e)
<1>1. /\ s \in VolServers /\ q \in Seq(VolEvents) /\ r \in Seq(VolRequests) /\ p \in VolCopies
      /\ VolOrder(q, p.nodes) /\ Unique(s.nodes) /\ Unique(p.nodes)
  BY VolCoreFacts
<1>2. e \in VolEvents /\ t \in Seq(VolEvents)
  BY <1>1, Shrinks
<1>3. e.id \in Audio!Ids /\ e \in Goes(e.id)
  BY <1>2, VolEventCases
<1>4. \A i : e \notin Comes(i) /\ e \notin Params(i) /\ e \notin Metas(i) /\ e \notin Louds(i)
             /\ (e \in Goes(i) => i = e.id)
  BY <1>2, VolSets
<1>5. /\ w \in VolCopies /\ w.name = p.name /\ w.changed = p.changed
      /\ w.nodes[e.id] = Audio!NoNode
      /\ \A i \in Audio!Ids \ {e.id} : w.nodes[i] = p.nodes[i]
      /\ \A k \in Audio!Kinds : w.id[k] = IF p.id[k] = e.id THEN 0 ELSE p.id[k]
  BY <1>1, <1>2, VolHeardGo
<1>6. Audio!Binds(r, e) = r
  BY <1>1, <1>2, VolBinds
<1>14. \A k \in Audio!Kinds : p.id[k] # 0 =>
               /\ p.id[k] \in Audio!Ids /\ p.nodes[p.id[k]] # Audio!NoNode
               /\ p.nodes[p.id[k]].kind = k /\ p.nodes[p.id[k]].name = p.name[k] /\ p.name[k] # ""
  <2>1. VolServed(p)
    BY VolDefaultNode
  <2> QED
    BY <2>1 DEF VolServed
<1> HIDE DEF w, t, e
<1>7. ASSUME NEW i \in Audio!Ids PROVE VolNode(i, s.nodes[i], i \in s.bound, w.nodes[i], t, r)
  <2>1. VolNode(i, s.nodes[i], i \in s.bound, p.nodes[i], q, r) /\ (i \in s.bound) \in BOOLEAN
    BY VolCoreFacts
  <2>2. CASE i = e.id
    BY <1>1, <1>3, <1>5, <2>1, <2>2, VolHearsGo DEF t, e
  <2>3. CASE i # e.id
    BY <1>1, <1>4, <1>5, <2>1, <2>3, VolPassed DEF t, e
  <2> QED
    BY <2>2, <2>3
<1>8. VolOrder(t, w.nodes)
  <2>1. \A i \in Audio!Ids : w.nodes[i] # Audio!NoNode =>
              p.nodes[i] # Audio!NoNode /\ Same(w.nodes[i], p.nodes[i])
    BY <1>5 DEF Same
  <2>2. Without(t, Comes(e.id))
    <3>1. Without(t, Comes(e.id) \union Params(e.id) \union Goes(e.id))
      BY <1>1, <1>3, VolCoreFacts, EndsTail DEF VolNode, t, e
    <3> QED
      BY <3>1 DEF Without
  <2>3. \A i \in Audio!Ids : e \in Goes(i) => w.nodes[i] = Audio!NoNode /\ Without(t, Comes(i))
    BY <1>4, <1>5, <2>2
  <2> QED
    BY <1>1, <2>1, <2>3, VolOrderTail DEF t, e
<1>9. Unique(w.nodes)
  BY <1>1, <1>5 DEF Unique, Same
<1>10. Audio!NoNode.kind \notin Audio!Kinds
  BY VolNumbers DEF Audio!NoNode
<1>11. ASSUME NEW k \in Audio!Kinds PROVE VolDefault(k, s, t, w)
  <2>1. VolDefault(k, s, q, p)
    BY VolCoreFacts
  <2>2. /\ Without(t, Metas(k)) <=> Without(q, Metas(k))
        /\ LastFits(t, Metas(k), OfName(k, s.default[k]))
    BY <1>1, <1>4, <2>1, WithoutTail, LastFitsTail DEF VolDefault, t, e
  <2>3. CASE p.id[k] = 0 \/ p.id[k] = e.id
    <3>1. w.id[k] = 0
      BY <1>5, <2>3
    <3>2. ASSUME NEW i \in Audio!Ids PROVE ~(w.nodes[i].kind = k /\ w.nodes[i].name = w.name[k])
      <4>1. CASE i = e.id
        BY <1>5, <1>10, <4>1
      <4>2. CASE i # e.id /\ p.id[k] = 0
        BY <1>5, <2>1, <4>2 DEF VolDefault
      <4>3. CASE i # e.id /\ p.id[k] = e.id
        <5>1. p.nodes[e.id] # Audio!NoNode /\ p.nodes[e.id].kind = k /\ p.nodes[e.id].name = p.name[k]
          BY <1>3, <4>3, <1>14, VolNumbers
        <5>2. ASSUME p.nodes[i].kind = k, p.nodes[i].name = p.name[k] PROVE FALSE
          <6>1. p.nodes[i] # Audio!NoNode
            BY <1>10, <5>2
          <6> QED
            BY <1>1, <1>3, <4>3, <5>1, <5>2, <6>1 DEF Unique, Same
        <5> QED
          BY <1>5, <4>3, <5>2
      <4> QED
        BY <2>3, <4>1, <4>2, <4>3
    <3> QED
      BY <1>5, <2>1, <2>2, <3>1, <3>2 DEF VolDefault
  <2>4. CASE p.id[k] # 0 /\ p.id[k] # e.id
    <3>1. w.id[k] = p.id[k] /\ w.nodes[w.id[k]] = p.nodes[p.id[k]]
      BY <1>5, <2>4, <1>14
    <3> QED
      BY <1>5, <2>1, <2>2, <2>4, <3>1 DEF VolDefault
  <2> QED
    BY <2>3, <2>4
<1>12. ASSUME NEW k \in Audio!Kinds, NEW l, Excused(k, l, q, r, p) PROVE Excused(k, l, t, r, w)
  <2>1. /\ Without(t, Metas(k)) <=> Without(q, Metas(k))
        /\ \A i : Without(t, Louds(i)) <=> Without(q, Louds(i))
        /\ \A i : i # e.id => (Without(t, Goes(i)) <=> Without(q, Goes(i)))
    BY <1>1, <1>4, WithoutTail DEF t, e
  <2>2. CASE p.id[k] = 0
    <3>1. w.id[k] = 0
      BY <1>5, <2>2
    <3>2. Audio!LevelOf(w, k) = 0 /\ Audio!LevelOf(p, k) = 0
      BY <1>1, <1>5, <2>2, <3>1, VolLevelOf
    <3> QED
      BY <1>12, <1>5, <2>1, <2>2, <3>1, <3>2 DEF Excused, Unserved
  <2>3. CASE p.id[k] # 0 /\ p.id[k] = e.id
    <3>1. w.id[k] = 0 /\ w.name[k] # ""
      BY <1>5, <2>3, <1>14
    <3> QED
      BY <1>12, <3>1 DEF Excused, Unserved
  <2>4. CASE p.id[k] # 0 /\ p.id[k] # e.id
    <3>1. w.id[k] = p.id[k] /\ w.nodes[w.id[k]] = p.nodes[p.id[k]]
      BY <1>5, <2>4, <1>14
    <3>2. Audio!LevelOf(w, k) = Audio!LevelOf(p, k)
      BY <1>1, <1>5, <2>4, <3>1, VolLevelOf
    <3>3. Fresh(p.id[k], q, r) => Fresh(p.id[k], t, r)
      BY <2>1, <2>4 DEF Fresh
    <3> QED
      BY <1>12, <1>5, <2>1, <2>4, <3>1, <3>2, <3>3 DEF Excused, Unserved
  <2> QED
    BY <2>2, <2>3, <2>4
<1>13. VolCore(s, t, r, w)
  BY <1>1, <1>2, <1>5, <1>7, <1>8, <1>9, <1>11 DEF VolCore, t
<1> QED
  BY <1>6, <1>12, <1>13 DEF VolMicro, t, w, e

LEMMA VolMicroLevel ==
    ASSUME NEW s, NEW q, NEW r, NEW p, VolCore(s, q, r, p), q # <<>>, Head(q).op = "param"
    PROVE  VolMicro(s, q, r, p, Tail(q), Audio!Binds(r, Head(q)), Audio!Heard(p, Head(q)))
<1> DEFINE e == Head(q)
           t == Tail(q)
           w == Audio!Heard(p, e)
<1>1. /\ s \in VolServers /\ q \in Seq(VolEvents) /\ r \in Seq(VolRequests) /\ p \in VolCopies
      /\ VolOrder(q, p.nodes) /\ Unique(s.nodes) /\ Unique(p.nodes)
  BY VolCoreFacts
<1>2. e \in VolEvents /\ t \in Seq(VolEvents)
  BY <1>1, Shrinks
<1>3. e.id \in Audio!Ids /\ e \in Params(e.id) /\ e.level \in {0, 1}
  BY <1>2, VolEventCases
<1>4. \A i : e \notin Comes(i) /\ e \notin Goes(i) /\ e \notin Metas(i)
             /\ (e \in Params(i) => i = e.id) /\ (e \in Louds(i) => i = e.id /\ e.level = 1)
  BY <1>2, VolSets
<1>5. p.nodes[e.id] # Audio!NoNode
  <2>1. ~Without(q, Params(e.id))
    BY <1>1, <1>3, WithoutTail
  <2>2. VolNode(e.id, s.nodes[e.id], e.id \in s.bound, p.nodes[e.id], q, r)
    BY <1>3, VolCoreFacts
  <2> QED
    BY <2>1, <2>2 DEF VolNode
<1>6. /\ w \in VolCopies /\ w.name = p.name /\ w.id = p.id
      /\ w.nodes[e.id] # Audio!NoNode /\ Same(w.nodes[e.id], p.nodes[e.id])
      /\ w.nodes[e.id].level = e.level
      /\ \A i \in Audio!Ids \ {e.id} : w.nodes[i] = p.nodes[i]
      /\ p.changed \subseteq w.changed
      /\ \A k \in Audio!Kinds :
            p.id[k] = e.id /\ p.nodes[e.id].level # e.level => k \in w.changed
  BY <1>1, <1>2, <1>5, VolHeardLevel
<1>7. Audio!Binds(r, e) = r
  BY <1>1, <1>2, VolBinds
<1>8. \A k \in Audio!Kinds : p.id[k] # 0 =>
          /\ p.id[k] \in Audio!Ids /\ p.nodes[p.id[k]] # Audio!NoNode
          /\ p.nodes[p.id[k]].kind = k /\ p.nodes[p.id[k]].name = p.name[k] /\ p.name[k] # ""
  <2>1. VolServed(p)
    BY VolDefaultNode
  <2> QED
    BY <2>1 DEF VolServed
<1> HIDE DEF w, t, e
<1>9. \A i \in Audio!Ids : (w.nodes[i] # Audio!NoNode <=> p.nodes[i] # Audio!NoNode)
                           /\ Same(w.nodes[i], p.nodes[i])
  BY <1>5, <1>6 DEF Same
<1>10. ASSUME NEW i \in Audio!Ids PROVE VolNode(i, s.nodes[i], i \in s.bound, w.nodes[i], t, r)
  <2>1. VolNode(i, s.nodes[i], i \in s.bound, p.nodes[i], q, r) /\ (i \in s.bound) \in BOOLEAN
    BY VolCoreFacts
  <2>2. CASE i = e.id
    BY <1>1, <1>3, <1>6, <2>1, <2>2, VolHearsLevel DEF t, e
  <2>3. CASE i # e.id
    BY <1>1, <1>4, <1>6, <2>1, <2>3, VolPassed DEF t, e
  <2> QED
    BY <2>2, <2>3
<1>11. VolOrder(t, w.nodes)
  BY <1>1, <1>4, <1>9, VolOrderTail DEF t, e
<1>12. Unique(w.nodes)
  BY <1>1, <1>9 DEF Unique, Same
<1>13. ASSUME NEW k \in Audio!Kinds PROVE VolDefault(k, s, t, w)
  <2>1. VolDefault(k, s, q, p)
    BY VolCoreFacts
  <2>2. /\ Without(t, Metas(k)) <=> Without(q, Metas(k))
        /\ LastFits(t, Metas(k), OfName(k, s.default[k]))
    BY <1>1, <1>4, <2>1, WithoutTail, LastFitsTail DEF VolDefault, t, e
  <2>3. w.id[k] = p.id[k] /\ w.name[k] = p.name[k]
    BY <1>6
  <2>4. CASE p.id[k] = 0
    <3>1. \A i \in Audio!Ids : ~(w.nodes[i].kind = k /\ w.nodes[i].name = w.name[k])
      BY <1>9, <2>1, <2>3, <2>4 DEF VolDefault, Same
    <3> QED
      BY <2>1, <2>2, <2>3, <2>4, <3>1 DEF VolDefault
  <2>5. CASE p.id[k] # 0
    <3>1. w.nodes[w.id[k]].kind = k /\ w.nodes[w.id[k]].name = w.name[k]
      BY <1>8, <1>9, <2>3, <2>5 DEF Same
    <3> QED
      BY <2>1, <2>2, <2>3, <2>5, <3>1 DEF VolDefault
  <2> QED
    BY <2>4, <2>5
<1>14. ASSUME NEW k \in Audio!Kinds, NEW l, Excused(k, l, q, r, p) PROVE Excused(k, l, t, r, w)
  <2>1. /\ Without(t, Metas(k)) <=> Without(q, Metas(k))
        /\ \A i : Without(t, Goes(i)) <=> Without(q, Goes(i))
        /\ \A i : i # e.id \/ e.level # 1 => (Without(t, Louds(i)) <=> Without(q, Louds(i)))
    BY <1>1, <1>4, WithoutTail DEF t, e
  <2>2. CASE p.id[k] = 0
    <3>1. Audio!LevelOf(w, k) = 0 /\ Audio!LevelOf(p, k) = 0
      BY <1>1, <1>6, <2>2, VolLevelOf
    <3> QED
      BY <1>6, <1>14, <2>1, <2>2, <3>1 DEF Excused, Unserved
  <2>3. CASE p.id[k] # 0 /\ (p.id[k] # e.id \/ p.nodes[e.id].level = e.level)
    <3>1. w.nodes[w.id[k]].level = p.nodes[p.id[k]].level
      BY <1>6, <1>8, <2>3
    <3>2. Audio!LevelOf(w, k) = Audio!LevelOf(p, k)
      BY <1>1, <1>6, <2>3, <3>1, VolLevelOf
    <3>3. p.nodes[p.id[k]].level = 0 /\ Fresh(p.id[k], q, r) => Fresh(p.id[k], t, r)
      BY <2>1, <2>3 DEF Fresh
    <3> QED
      BY <1>6, <1>14, <2>1, <2>3, <3>1, <3>2, <3>3 DEF Excused, Unserved
  <2>4. CASE p.id[k] = e.id /\ p.nodes[e.id].level # e.level
    BY <1>6, <2>4 DEF Excused
  <2> QED
    BY <2>2, <2>3, <2>4
<1>15. VolCore(s, t, r, w)
  BY <1>1, <1>2, <1>6, <1>10, <1>11, <1>12, <1>13 DEF VolCore, t
<1> QED
  BY <1>7, <1>14, <1>15 DEF VolMicro, t, w, e

LEMMA VolMicroMeta ==
    ASSUME NEW s, NEW q, NEW r, NEW p, VolCore(s, q, r, p), q # <<>>, Head(q).op = "meta"
    PROVE  VolMicro(s, q, r, p, Tail(q), Audio!Binds(r, Head(q)), Audio!Heard(p, Head(q)))
<1> DEFINE e == Head(q)
           t == Tail(q)
           w == Audio!Heard(p, e)
           x == Audio!IdOf(p, e.kind, e.name)
<1>1. /\ s \in VolServers /\ q \in Seq(VolEvents) /\ r \in Seq(VolRequests) /\ p \in VolCopies
      /\ VolOrder(q, p.nodes) /\ Unique(s.nodes) /\ Unique(p.nodes)
  BY VolCoreFacts
<1>2. e \in VolEvents /\ t \in Seq(VolEvents)
  BY <1>1, Shrinks
<1>3. e.kind \in Audio!Kinds /\ e \in Metas(e.kind) /\ e.name \in VolNames
  BY <1>2, VolEventCases
<1>4. \A i : e \notin Comes(i) /\ e \notin Goes(i) /\ e \notin Params(i) /\ e \notin Louds(i)
             /\ (e \in Metas(i) => i = e.kind)
  BY <1>2, VolSets
<1>5. /\ w \in VolCopies /\ w.nodes = p.nodes /\ w.changed = p.changed \union {e.kind}
      /\ w.name[e.kind] = e.name /\ w.id[e.kind] = x
      /\ \A k \in Audio!Kinds \ {e.kind} : w.name[k] = p.name[k] /\ w.id[k] = p.id[k]
  BY <1>1, <1>2, VolHeardMeta
<1>6. /\ x = 0 => \A i \in Audio!Ids : ~(p.nodes[i].kind = e.kind /\ p.nodes[i].name = e.name)
      /\ x # 0 => p.nodes[x].kind = e.kind /\ p.nodes[x].name = e.name
  BY <1>1, <1>3, VolIdOf
<1>7. Audio!Binds(r, e) = r
  BY <1>1, <1>2, VolBinds
<1> HIDE DEF w, t, e, x
<1>8. ASSUME NEW i \in Audio!Ids PROVE VolNode(i, s.nodes[i], i \in s.bound, w.nodes[i], t, r)
  <2>1. VolNode(i, s.nodes[i], i \in s.bound, p.nodes[i], q, r)
    BY VolCoreFacts
  <2> QED
    BY <1>1, <1>4, <1>5, <2>1, VolPassed DEF t, e
<1>9. VolOrder(t, w.nodes)
  <2>1. \A i \in Audio!Ids : w.nodes[i] # Audio!NoNode =>
              p.nodes[i] # Audio!NoNode /\ Same(w.nodes[i], p.nodes[i])
    BY <1>5 DEF Same
  <2> QED
    BY <1>1, <1>4, <2>1, VolOrderTail DEF t, e
<1>10. ASSUME NEW k \in Audio!Kinds PROVE VolDefault(k, s, t, w)
  <2>1. VolDefault(k, s, q, p)
    BY VolCoreFacts
  <2>2. LastFits(t, Metas(k), OfName(k, s.default[k]))
        /\ (e \in Metas(k) /\ Without(t, Metas(k)) => e \in OfName(k, s.default[k]))
    BY <1>1, <2>1, LastFitsTail DEF VolDefault, t, e
  <2>3. CASE k = e.kind
    <3>1. Without(t, Metas(k)) => w.name[k] = s.default[k]
      BY <1>3, <1>5, <2>2, <2>3 DEF OfName
    <3> QED
      BY <1>5, <1>6, <2>2, <2>3, <3>1 DEF VolDefault
  <2>4. CASE k # e.kind
    <3>1. Without(t, Metas(k)) <=> Without(q, Metas(k))
      BY <1>1, <1>4, <2>4, WithoutTail DEF t, e
    <3> QED
      BY <1>5, <2>1, <2>2, <2>4, <3>1 DEF VolDefault
  <2> QED
    BY <2>3, <2>4
<1>11. ASSUME NEW k \in Audio!Kinds, NEW l, Excused(k, l, q, r, p) PROVE Excused(k, l, t, r, w)
  <2>1. CASE k = e.kind
    BY <1>5, <2>1 DEF Excused
  <2>2. CASE k # e.kind
    <3>1. /\ Without(t, Metas(k)) <=> Without(q, Metas(k))
          /\ \A i : Without(t, Goes(i)) <=> Without(q, Goes(i))
          /\ \A i : Without(t, Louds(i)) <=> Without(q, Louds(i))
      BY <1>1, <1>4, <2>2, WithoutTail DEF t, e
    <3>2. w.id[k] = p.id[k] /\ w.name[k] = p.name[k] /\ w.nodes = p.nodes
      BY <1>5, <2>2
    <3>3. Audio!LevelOf(w, k) = Audio!LevelOf(p, k)
      BY <3>2 DEF Audio!LevelOf
    <3>4. \A i : Fresh(i, q, r) => Fresh(i, t, r)
      BY <3>1 DEF Fresh
    <3> QED
      BY <1>5, <1>11, <3>1, <3>2, <3>3, <3>4 DEF Excused, Unserved
  <2> QED
    BY <2>1, <2>2
<1>12. VolCore(s, t, r, w)
  BY <1>1, <1>2, <1>5, <1>8, <1>9, <1>10 DEF VolCore, t
<1> QED
  BY <1>7, <1>11, <1>12 DEF VolMicro, t, w, e

LEMMA VolMicroStep ==
    ASSUME NEW s, NEW q, NEW r, NEW p, VolCore(s, q, r, p), q # <<>>
    PROVE  VolMicro(s, q, r, p, Tail(q), Audio!Binds(r, Head(q)), Audio!Heard(p, Head(q)))
<1>1. Head(q) \in VolEvents
  BY VolCoreFacts, Shrinks
<1>2. Head(q).op \in {"global", "remove", "param", "meta"}
  BY <1>1, VolEventCases
<1> QED
  BY <1>2, VolMicroCome, VolMicroGo, VolMicroLevel, VolMicroMeta

\* The events are heard one after the other.
LEMMA VolTurnsExist ==
    ASSUME NEW evs \in Seq(VolEvents)
    PROVE  LET d == Audio!Dispatched(evs)
           IN  d = [n \in 0..Len(evs) |->
                      IF n = 0 THEN [pw |-> pw, toPw |-> toPw]
                      ELSE [pw |-> Audio!Heard(d[n - 1].pw, evs[n]),
                            toPw |-> Audio!Binds(d[n - 1].toPw, evs[n])]]
<1> DEFINE next(x, n) == [pw |-> Audio!Heard(x.pw, evs[n]), toPw |-> Audio!Binds(x.toPw, evs[n])]
           first == [pw |-> pw, toPw |-> toPw]
           Is(g, m) == g = [n \in 0..m |-> IF n = 0 THEN first ELSE next(g[n - 1], n)]
<1>1. Len(evs) \in Nat
  OBVIOUS
<1> HIDE DEF next, first
<1>2. ASSUME NEW m \in Nat PROVE \E g : Is(g, m)
  <2> DEFINE S == {j \in Nat : ~\E g : Is(g, j)}
  <2> SUFFICES ASSUME S # {} PROVE FALSE
    OBVIOUS
  <2>1. PICK j \in S : \A k \in S : j <= k
    <3>1. S \subseteq Nat
      OBVIOUS
    <3> HIDE DEF S
    <3> QED
      BY <3>1, Least
  <2>2. CASE j = 0
    <3> DEFINE g == [n \in 0..0 |-> first]
    <3>1. \A n \in 0..0 : n = 0
      OBVIOUS
    <3>2. g = [n \in 0..0 |-> IF n = 0 THEN first ELSE next(g[n - 1], n)]
      BY <3>1
    <3> QED
      BY <2>1, <2>2, <3>2
  <2>3. CASE j # 0
    <3>1. j \in Nat /\ j - 1 \in Nat /\ ~(j <= j - 1)
      BY <2>1, <2>3
    <3>2. PICK g : Is(g, j - 1)
      BY <2>1, <3>1
    <3> DEFINE f == [n \in 0..j |-> IF n = j THEN next(g[j - 1], j) ELSE g[n]]
               f2 == [n \in 0..j |-> IF n = 0 THEN first ELSE next(f[n - 1], n)]
    <3>3. \A n \in 0..(j - 1) : g[n] = IF n = 0 THEN first ELSE next(g[n - 1], n)
      BY <3>2
    <3>4. ASSUME NEW n \in 0..j PROVE f[n] = f2[n]
      <4>1. CASE n = j
        <5>1. j - 1 \in 0..j /\ j - 1 # j
          BY <3>1
        <5>2. f[j - 1] = g[j - 1]
          BY <5>1
        <5> QED
          BY <2>3, <4>1, <5>2
      <4>2. CASE n # j
        <5>1. n \in 0..(j - 1) /\ (n # 0 => n - 1 \in 0..j /\ n - 1 # j)
          BY <3>1, <4>2
        <5>2. n # 0 => f[n - 1] = g[n - 1]
          BY <5>1
        <5> QED
          BY <3>3, <4>2, <5>1, <5>2
      <4> QED
        BY <4>1, <4>2
    <3>5. f = f2
      BY <3>4
    <3>6. Is(f, j)
      BY <3>5
    <3> QED
      BY <2>1, <3>6
  <2> QED
    BY <2>2, <2>3
<1>3. Audio!Dispatched(evs) = CHOOSE g : Is(g, Len(evs))
  BY DEF Audio!Dispatched, next, first
<1>4. Is(Audio!Dispatched(evs), Len(evs))
  <2> HIDE DEF Is
  <2> QED
    BY <1>1, <1>2, <1>3
<1> QED
  BY <1>4 DEF next, first

\* So after any number of events.
LEMMA VolDispatched ==
    ASSUME VolInv, NEW n \in 0..Len(pwInbox)
    PROVE  VolMicro(pwServer, pwInbox, toPw, pw, SubSeq(pwInbox, n + 1, Len(pwInbox)),
                    Audio!Dispatched(pwInbox)[n].toPw, Audio!Dispatched(pwInbox)[n].pw)
<1> DEFINE d == Audio!Dispatched(pwInbox)
           Fits(m) == VolMicro(pwServer, pwInbox, toPw, pw, SubSeq(pwInbox, m + 1, Len(pwInbox)),
                               d[m].toPw, d[m].pw)
           S == {j \in 0..Len(pwInbox) : ~Fits(j)}
<1>1. pwInbox \in Seq(VolEvents) /\ VolCore(pwServer, pwInbox, toPw, pw)
  BY VolTypes
<1>2. Len(pwInbox) \in Nat
  BY <1>1
<1>3. d = [m \in 0..Len(pwInbox) |->
             IF m = 0 THEN [pw |-> pw, toPw |-> toPw]
             ELSE [pw |-> Audio!Heard(d[m - 1].pw, pwInbox[m]),
                   toPw |-> Audio!Binds(d[m - 1].toPw, pwInbox[m])]]
  BY <1>1, VolTurnsExist
<1> HIDE DEF d
<1>4. d[0].pw = pw /\ d[0].toPw = toPw
  BY <1>2, <1>3
<1>5. \A m \in 1..Len(pwInbox) : /\ d[m].pw = Audio!Heard(d[m - 1].pw, pwInbox[m])
                                 /\ d[m].toPw = Audio!Binds(d[m - 1].toPw, pwInbox[m])
  <2> TAKE m \in 1..Len(pwInbox)
  <2>1. m \in 0..Len(pwInbox) /\ m # 0
    BY <1>2
  <2>2. d[m] = [pw |-> Audio!Heard(d[m - 1].pw, pwInbox[m]),
                toPw |-> Audio!Binds(d[m - 1].toPw, pwInbox[m])]
    BY <1>3, <2>1
  <2> QED
    BY <2>2
<1>6. Fits(0)
  <2>1. SubSeq(pwInbox, 1, Len(pwInbox)) = pwInbox
    BY <1>1, SubSeqFull
  <2>2. VolMicro(pwServer, pwInbox, toPw, pw, pwInbox, toPw, pw)
    BY <1>1 DEF VolMicro
  <2>3. 0 + 1 = 1
    OBVIOUS
  <2> QED
    BY <1>4, <2>1, <2>2, <2>3
<1>7. ASSUME NEW m \in 1..Len(pwInbox), Fits(m - 1) PROVE Fits(m)
  <2> DEFINE q == SubSeq(pwInbox, m, Len(pwInbox))
  <2>1. m \in Nat /\ (m - 1) + 1 = m /\ Len(pwInbox) \in m..Len(pwInbox) /\ m <= Len(pwInbox)
    BY <1>2
  <2>2. Head(q) = pwInbox[m] /\ Tail(q) = SubSeq(pwInbox, m + 1, Len(pwInbox))
    BY <1>1, <2>1, HeadTailOfSubSeq
  <2>3. q # <<>>
    <3>1. \A i \in m..Len(pwInbox) : pwInbox[i] \in VolEvents
      BY <1>1, <1>2, <2>1
    <3>2. Len(q) = Len(pwInbox) - m + 1
      BY <1>2, <2>1, <3>1, SubSeqProperties
    <3>3. Len(q) # 0
      BY <1>2, <2>1, <3>2
    <3> HIDE DEF q
    <3> QED
      BY <3>3
  <2>4. VolMicro(pwServer, pwInbox, toPw, pw, q, d[m - 1].toPw, d[m - 1].pw)
    BY <1>7, <2>1
  <2> HIDE DEF q
  <2>5. VolMicro(pwServer, q, d[m - 1].toPw, d[m - 1].pw,
                 Tail(q), Audio!Binds(d[m - 1].toPw, Head(q)), Audio!Heard(d[m - 1].pw, Head(q)))
    BY <2>3, <2>4, VolMicroStep DEF VolMicro
  <2>6. VolMicro(pwServer, pwInbox, toPw, pw,
                 Tail(q), Audio!Binds(d[m - 1].toPw, Head(q)), Audio!Heard(d[m - 1].pw, Head(q)))
    BY <2>4, <2>5 DEF VolMicro
  <2> QED
    BY <1>5, <2>2, <2>6
<1> HIDE DEF Fits
<1>8. S = {}
  <2> SUFFICES ASSUME S # {} PROVE FALSE
    OBVIOUS
  <2>1. PICK j \in S : \A k \in S : j <= k
    <3>1. S \subseteq Nat
      BY <1>2
    <3> HIDE DEF S
    <3> QED
      BY <3>1, Least
  <2>2. j # 0 /\ j \in 1..Len(pwInbox) /\ j - 1 \in 0..Len(pwInbox) /\ ~(j <= j - 1)
    BY <1>2, <1>6, <2>1
  <2>3. Fits(j - 1)
    BY <2>1, <2>2
  <2> QED
    BY <1>7, <2>1, <2>2, <2>3
<1> QED
  BY <1>8 DEF Fits, d

\* Only the levels, the defaults and what is noted matter.
LEMMA VolCoreAlike ==
    ASSUME NEW s, NEW q, NEW r, NEW p, VolCore(s, q, r, p), NEW w \in VolCopies,
           w.nodes = p.nodes, w.name = p.name, w.id = p.id
    PROVE  VolCore(s, q, r, w)
  BY DEF VolCore, VolDefault

LEMMA VolPollKeeps == VolInv /\ Audio!PipewirePoll => VolInv'
<1> SUFFICES ASSUME VolInv, Audio!PipewirePoll PROVE VolInv'
  OBVIOUS
<1>1. pwInbox \in Seq(VolEvents) /\ pwInbox # <<>> /\ UNCHANGED <<pwServer, volPanel, volWork>>
  BY VolTypes DEF Audio!PipewirePoll
<1>2. PICK n \in {1, Len(pwInbox)} :
          /\ pwInbox' = SubSeq(pwInbox, n + 1, Len(pwInbox))
          /\ toPw' = Audio!Dispatched(pwInbox)[n].toPw
          /\ pw' = [Audio!Dispatched(pwInbox)[n].pw EXCEPT !.changed = {}]
          /\ osd' = Audio!Reported(osd, Audio!Dispatched(pwInbox)[n].pw)
          /\ volDirty' = (volDirty \/ Audio!Dispatched(pwInbox)[n].pw.changed # {})
  BY DEF Audio!PipewirePoll
<1> DEFINE w == Audio!Dispatched(pwInbox)[n].pw
<1>3. n \in 0..Len(pwInbox)
  <2>1. Len(pwInbox) \in Nat \ {0}
    BY <1>1, Shrinks
  <2> QED
    BY <2>1
<1>4. VolMicro(pwServer, pwInbox, toPw, pw, pwInbox', toPw', w)
  BY <1>2, <1>3, VolDispatched
<1>5. /\ pw' = [w EXCEPT !.changed = {}] /\ osd' = Audio!Reported(osd, w)
      /\ volDirty' = (volDirty \/ w.changed # {})
  BY <1>2
<1> HIDE DEF w
<1>6. VolCore(pwServer, pwInbox', toPw', w) /\ w \in VolCopies
  BY <1>4, VolCoreFacts DEF VolMicro
<1>7. /\ pw' \in VolCopies /\ pw'.nodes = w.nodes /\ pw'.name = w.name /\ pw'.id = w.id
      /\ pw'.changed = {}
  BY <1>5, <1>6 DEF VolCopies
<1>8. VolCore(pwServer', pwInbox', toPw', pw')
  BY <1>1, <1>6, <1>7, VolCoreAlike
<1>9. \A k \in Audio!Kinds : Audio!LevelOf(pw', k) = Audio!LevelOf(w, k)
  BY <1>7 DEF Audio!LevelOf
<1>10. ASSUME NEW k \in Audio!Kinds, NEW l, Excused(k, l, pwInbox, toPw, pw), w.changed = {}
       PROVE  Excused(k, l, pwInbox', toPw', pw')
  <2>1. Excused(k, l, pwInbox', toPw', w)
    BY <1>4, <1>10 DEF VolMicro
  <2> QED
    BY <1>7, <1>9, <1>10, <2>1 DEF Excused, Unserved
<1>11. ASSUME NEW k \in Audio!Kinds PROVE Excused(k, Audio!LevelOf(w, k), pwInbox', toPw', pw')
  BY <1>9, <1>11 DEF Excused
<1>12. volPanel \in VolPanels /\ volDirty \in BOOLEAN /\ osd \in VolOsds
       /\ VolExcused(pwInbox, toPw, pw, volPanel, volDirty, osd)
  BY VolTypes
<1>13. osd' \in VolOsds /\ (osd'.visible => Excused(osd'.kind, osd'.level, pwInbox', toPw', pw'))
  <2>1. CASE w.changed = {}
    <3>1. osd' = osd
      BY <1>5, <2>1 DEF Audio!Reported
    <3>2. osd.kind \in Audio!Kinds
      BY <1>12 DEF VolOsds
    <3>3. osd.visible => Excused(osd.kind, osd.level, pwInbox', toPw', pw')
      BY <1>10, <1>12, <2>1, <3>2 DEF VolExcused
    <3> QED
      BY <1>12, <3>1, <3>3
  <2>2. CASE w.changed # {}
    <3>1. PICK k \in Audio!Kinds : osd' = Audio!OsdShow(k, Audio!LevelOf(w, k))
      <4>1. w.changed \subseteq {"sink", "source"} /\ Audio!Kinds = {"sink", "source"}
        BY <1>6, VolNumbers DEF VolCopies
      <4> QED
        BY <1>5, <2>2, <4>1 DEF Audio!Reported
    <3>2. Audio!LevelOf(w, k) \in {0, 1}
      BY <1>6, VolLevelOf
    <3>3. osd' \in VolOsds /\ osd'.kind = k /\ osd'.level = Audio!LevelOf(w, k)
      BY <3>1, <3>2 DEF Audio!OsdShow, VolOsds
    <3> QED
      BY <1>11, <3>3
  <2> QED
    BY <2>1, <2>2
<1>14. volDirty' \in BOOLEAN
       /\ (volPanel'.open /\ ~volDirty' =>
             \A k \in Audio!Kinds : Excused(k, volPanel'.painted[k], pwInbox', toPw', pw'))
  <2>1. volDirty' \in BOOLEAN
    BY <1>5, <1>12
  <2>2. ASSUME volPanel.open, ~volDirty', NEW k \in Audio!Kinds
        PROVE  Excused(k, volPanel.painted[k], pwInbox', toPw', pw')
    <3>1. ~volDirty /\ w.changed = {}
      BY <1>5, <1>12, <2>2
    <3>2. Excused(k, volPanel.painted[k], pwInbox, toPw, pw)
      BY <1>12, <2>2, <3>1 DEF VolExcused
    <3> QED
      BY <1>10, <3>1, <3>2
  <2> QED
    BY <1>1, <2>1, <2>2
<1>15. VolExcused(pwInbox, toPw, pw, volPanel, volDirty, osd)'
  BY <1>13, <1>14 DEF VolExcused
<1>16. VolStirs'
  BY <1>7 DEF VolStirs, Stirs
<1>17. VolTyped'
  BY <1>1, <1>12, <1>13, <1>14 DEF VolTyped
<1> QED
  BY <1>8, <1>15, <1>16, <1>17 DEF VolInv

\* Of the messages of S in q one fits, when the last does.
LEMMA LastFitsSome ==
    ASSUME NEW M, NEW q \in Seq(M), NEW S, NEW R, LastFits(q, S, R), ~Without(q, S)
    PROVE  \E i \in 1..Len(q) : q[i] \in S /\ q[i] \in R
<1>1. Len(q) \in Nat
  OBVIOUS
<1> DEFINE T == {n \in 0..Len(q) : \E i \in 1..Len(q) : q[i] \in S /\ n = Len(q) - i}
<1>2. PICK i \in 1..Len(q) : q[i] \in S
  BY DEF Without
<1>3. T \subseteq Nat /\ T # {}
  <2>1. Len(q) - i \in 0..Len(q)
    BY <1>1
  <2>2. Len(q) - i \in T
    BY <1>2, <2>1
  <2>3. T \subseteq Nat
    BY <1>1
  <2> QED
    BY <2>2, <2>3
<1>4. PICK m \in T : \A n \in T : m <= n
  <2> HIDE DEF T
  <2> QED
    BY <1>3, Least
<1>5. PICK j \in 1..Len(q) : q[j] \in S /\ m = Len(q) - j
  BY <1>4
<1>6. ASSUME NEW l \in 1..Len(q), l > j PROVE q[l] \notin S
  <2> SUFFICES ASSUME q[l] \in S PROVE FALSE
    OBVIOUS
  <2>1. Len(q) - l \in 0..Len(q) /\ ~(Len(q) - j <= Len(q) - l)
    BY <1>1, <1>6
  <2>2. Len(q) - l \in T
    BY <2>1
  <2> QED
    BY <1>4, <1>5, <2>1, <2>2
<1> QED
  BY <1>5, <1>6 DEF LastFits

\* What is not about a node is not of its sets.
LEMMA VolNotAbout ==
    ASSUME NEW i \in Audio!Ids, NEW q \in Seq(VolEvents), NEW r \in Seq(VolRequests)
    PROVE  /\ ~Audio!About(i, q) => Without(q, Comes(i)) /\ Without(q, Goes(i)) /\ Without(q, Params(i))
           /\ ~Audio!About(i, r) => Without(r, AsksOf(i))
<1>1. ASSUME NEW e \in VolEvents, e.op # "meta" PROVE "id" \in DOMAIN e
  <2>1. CASE e \in [op : {"global"}, id : Audio!Ids, kind : AllKinds, name : NodeNames]
    BY <2>1
  <2>2. CASE e \in [op : {"remove"}, id : Audio!Ids]
    BY <2>2
  <2>3. CASE e \in [op : {"param"}, id : Audio!Ids, level : {0, 1}]
    BY <2>3
  <2> QED
    BY <1>1, <2>1, <2>2, <2>3 DEF VolEvents
<1>2. ASSUME NEW x \in VolRequests, x.op # "default" PROVE "id" \in DOMAIN x
  <2>1. CASE x \in [op : {"bind"}, id : Audio!Ids]
    BY <2>1
  <2>2. CASE x \in [op : {"level"}, id : Audio!Ids, level : {0, 1}]
    BY <2>2
  <2> QED
    BY <1>2, <2>1, <2>2 DEF VolRequests
<1>3. ASSUME ~Audio!About(i, q), NEW j \in 1..Len(q)
      PROVE  q[j] \notin Comes(i) /\ q[j] \notin Goes(i) /\ q[j] \notin Params(i)
  <2>1. j \in DOMAIN q /\ q[j] \in VolEvents
    OBVIOUS
  <2>2. ~("id" \in DOMAIN q[j] /\ q[j].id = i)
    BY <1>3, <2>1 DEF Audio!About
  <2> QED
    BY <1>1, <2>1, <2>2 DEF Comes, Goes, Params
<1>4. ASSUME ~Audio!About(i, r), NEW j \in 1..Len(r) PROVE r[j] \notin AsksOf(i)
  <2>1. j \in DOMAIN r /\ r[j] \in VolRequests
    OBVIOUS
  <2>2. ~("id" \in DOMAIN r[j] /\ r[j].id = i)
    BY <1>4, <2>1 DEF Audio!About
  <2> QED
    BY <1>2, <2>1, <2>2 DEF AsksOf, BindsOf, SetsOf
<1> QED
  BY <1>3, <1>4 DEF Without

\* A node the shell has is the server's, unless its end is under way.
LEMMA VolThere ==
    ASSUME NEW i, NEW h, NEW b, NEW n, NEW q, NEW r, VolNode(i, h, b, n, q, r), n # Audio!NoNode
    PROVE  h # Audio!NoNode \/ ~Without(q, Goes(i))
  BY DEF VolNode

\* A level set at once and asked for.
LEMMA VolSetNode ==
    ASSUME VolInv, NEW id \in Audio!Ids \union {0}, NEW l \in {0, 1}, Audio!SetNode(id, l)
    PROVE  /\ VolCore(pwServer, pwInbox, toPw', pw')
           /\ \A k \in Audio!Kinds : \A v :
                 Excused(k, v, pwInbox, toPw, pw) /\ Stirs(k, v, pwServer, pwInbox, toPw, pw) =>
                   Excused(k, v, pwInbox, toPw', pw') /\ Stirs(k, v, pwServer, pwInbox, toPw', pw')
<1>1. VolCore(pwServer, pwInbox, toPw, pw)
  BY VolTypes
<1>2. CASE UNCHANGED <<pw, toPw>>
  BY <1>1, <1>2
<1>3. CASE id # 0 /\ pw.nodes[id] # Audio!NoNode
  <2> DEFINE m == [pw.nodes[id] EXCEPT !.level = l]
             nn == [pw.nodes EXCEPT ![id] = m]
             cc == pw.changed \union Audio!Reports(pw, id)
             x == [op |-> "level", id |-> id, level |-> l]
  <2>1. pw' = [pw EXCEPT !.nodes = nn, !.changed = cc] /\ toPw' = Append(toPw, x)
    BY <1>3 DEF Audio!SetNode
  <2>2. /\ pwServer \in VolServers /\ pwInbox \in Seq(VolEvents) /\ toPw \in Seq(VolRequests)
        /\ pw \in VolCopies /\ id \in Audio!Ids
        /\ VolOrder(pwInbox, pw.nodes) /\ Unique(pwServer.nodes) /\ Unique(pw.nodes)
    BY <1>1, <1>3, VolCoreFacts
  <2>3. /\ m \in VolNodes /\ m # Audio!NoNode /\ m.kind = pw.nodes[id].kind
        /\ m.name = pw.nodes[id].name /\ m.level = l
    <3>1. pw.nodes[id] \in VolNodes
      BY <2>2 DEF VolCopies
    <3> QED
      BY <1>3, <3>1, VolLevelSet
  <2> HIDE DEF m
  <2>4. x \in VolRequests /\ x \in SetsOf(id) /\ x \in AtLevel(SetsOf(id), l)
        /\ x.op = "level" /\ x.id = id /\ x.level = l /\ (\A i : x \in AsksOf(i) => i = id)
        /\ (\A i : x \notin BindsOf(i))
    <3>1. x.op = "level" /\ x.id = id /\ x.level = l /\ x \in VolRequests
      BY <2>2 DEF VolRequests
    <3> HIDE DEF x
    <3> QED
      BY <3>1 DEF SetsOf, AtLevel, AsksOf, BindsOf
  <2> HIDE DEF x
  <2>5. nn \in [Audio!Ids -> VolNodes] /\ nn[id] = m /\ \A i \in Audio!Ids \ {id} : nn[i] = pw.nodes[i]
    BY <2>2, <2>3 DEF VolCopies
  <2>6. cc \in SUBSET Audio!Kinds /\ pw.changed \subseteq cc
        /\ \A k \in Audio!Kinds : pw.id[k] = id => k \in cc
    BY <2>2 DEF VolCopies, Audio!Reports
  <2> HIDE DEF nn, cc
  <2>7. pw' \in VolCopies /\ pw'.nodes = nn /\ pw'.changed = cc /\ pw'.name = pw.name /\ pw'.id = pw.id
    BY <2>1, <2>2, <2>5, <2>6 DEF VolCopies
  <2>8. \A i \in Audio!Ids : (pw'.nodes[i] # Audio!NoNode <=> pw.nodes[i] # Audio!NoNode)
                             /\ Same(pw'.nodes[i], pw.nodes[i])
    BY <1>3, <2>3, <2>5, <2>7 DEF Same
  <2>9. ASSUME NEW i \in Audio!Ids
        PROVE  VolNode(i, pwServer.nodes[i], i \in pwServer.bound, pw'.nodes[i], pwInbox, toPw')
    <3>1. VolNode(i, pwServer.nodes[i], i \in pwServer.bound, pw.nodes[i], pwInbox, toPw)
      BY <1>1, VolCoreFacts
    <3>2. CASE i = id
      <4>1. pw'.nodes[i] = m /\ Same(m, pw.nodes[i])
        BY <2>3, <2>5, <2>7, <3>2 DEF Same
      <4> QED
        BY <1>3, <2>1, <2>2, <2>3, <2>4, <3>1, <3>2, <4>1, VolSets1
    <3>3. CASE i # id
      BY <2>1, <2>2, <2>4, <2>5, <2>7, <3>1, <3>3, VolAskedAside
    <3> QED
      BY <3>2, <3>3
  <2>10. VolServed(pw)
    BY <1>1, VolDefaultNode
  <2>11. ASSUME NEW k \in Audio!Kinds PROVE VolDefault(k, pwServer, pwInbox, pw')
    <3>1. VolDefault(k, pwServer, pwInbox, pw) /\ pw'.id[k] = pw.id[k] /\ pw'.name[k] = pw.name[k]
      BY <1>1, <2>7, VolCoreFacts
    <3>2. CASE pw.id[k] = 0
      <4>1. \A i \in Audio!Ids : ~(pw'.nodes[i].kind = k /\ pw'.nodes[i].name = pw'.name[k])
        BY <2>8, <3>1, <3>2 DEF VolDefault, Same
      <4> QED
        BY <3>1, <3>2, <4>1 DEF VolDefault
    <3>3. CASE pw.id[k] # 0
      <4>1. pw'.nodes[pw'.id[k]].kind = k /\ pw'.nodes[pw'.id[k]].name = pw'.name[k]
        BY <2>8, <2>10, <3>1, <3>3 DEF Same, VolServed
      <4> QED
        BY <3>1, <3>3, <4>1 DEF VolDefault
    <3> QED
      BY <3>2, <3>3
  <2>12. VolCore(pwServer, pwInbox, toPw', pw')
    <3>1. toPw' \in Seq(VolRequests)
      BY <2>1, <2>2, <2>4
    <3>2. VolOrder(pwInbox, pw'.nodes)
      BY <2>2, <2>8, VolOrderAlike
    <3>3. Unique(pw'.nodes)
      BY <2>2, <2>8 DEF Unique, Same
    <3> QED
      BY <2>2, <2>7, <2>9, <2>11, <3>1, <3>2, <3>3 DEF VolCore
  <2>13. ASSUME NEW k \in Audio!Kinds, pw.id[k] # id
         PROVE  Audio!LevelOf(pw', k) = Audio!LevelOf(pw, k)
                /\ (pw.id[k] # 0 => pw'.nodes[pw.id[k]] = pw.nodes[pw.id[k]])
    <3>1. pw.id[k] # 0 => pw.id[k] \in Audio!Ids
      BY <2>10 DEF VolServed
    <3>2. pw.id[k] # 0 => pw'.nodes[pw.id[k]] = pw.nodes[pw.id[k]]
      BY <2>5, <2>7, <2>13, <3>1
    <3>3. pw'.id[k] = pw.id[k]
      BY <2>7
    <3> QED
      BY <3>2, <3>3 DEF Audio!LevelOf
  <2>14. \A S : ~Without(toPw, S) \/ x \in S => ~Without(toPw', S)
    BY <2>1, <2>2, <2>4, WithoutAppend
  <2>15. ASSUME NEW k \in Audio!Kinds, NEW v, Excused(k, v, pwInbox, toPw, pw)
         PROVE  Excused(k, v, pwInbox, toPw', pw')
    <3>1. CASE pw.id[k] = id
      BY <2>6, <2>7, <3>1 DEF Excused
    <3>2. CASE pw.id[k] # id
      <4>1. \A i : Fresh(i, pwInbox, toPw) => Fresh(i, pwInbox, toPw')
        BY <2>14 DEF Fresh
      <4> QED
        BY <2>6, <2>7, <2>13, <2>15, <3>2, <4>1 DEF Excused, Unserved
    <3> QED
      BY <3>1, <3>2
  <2>16. ASSUME NEW k \in Audio!Kinds, NEW v, Excused(k, v, pwInbox, toPw, pw),
                Stirs(k, v, pwServer, pwInbox, toPw, pw), v # Audio!LevelOf(pw', k),
                pwInbox = <<>>, ~Unserved(k, pw')
         PROVE  ~Without(toPw', Due(pwServer))
    <3>0. (\A S : Without(pwInbox, S)) /\ ~Unserved(k, pw)
      <4>1. 1..Len(<<>>) = {}
        OBVIOUS
      <4>2. \A S : Without(pwInbox, S)
        BY <2>16, <4>1 DEF Without
      <4>3. ~Unserved(k, pw)
        BY <2>7, <2>16 DEF Unserved
      <4> QED
        BY <4>2, <4>3
    <3>1. \A i \in Audio!Ids : pw.nodes[i] # Audio!NoNode =>
             /\ pwServer.nodes[i] # Audio!NoNode
             /\ ~Without(toPw, BindsOf(i)) => ~Without(toPw, Due(pwServer))
      <4> SUFFICES ASSUME NEW i \in Audio!Ids, pw.nodes[i] # Audio!NoNode
                   PROVE  /\ pwServer.nodes[i] # Audio!NoNode
                          /\ ~Without(toPw, BindsOf(i)) => ~Without(toPw, Due(pwServer))
        OBVIOUS
      <4>1. VolNode(i, pwServer.nodes[i], i \in pwServer.bound, pw.nodes[i], pwInbox, toPw)
        BY <1>1, VolCoreFacts
      <4>2. pwServer.nodes[i] # Audio!NoNode
        BY <3>0, <4>1, VolThere
      <4>3. BindsOf(i) \subseteq Due(pwServer)
        BY <4>2 DEF BindsOf, Due
      <4> QED
        BY <4>2, <4>3 DEF Without
    <3>2. CASE v # Audio!LevelOf(pw, k) /\ k \in pw.changed
      BY <2>14, <2>16, <3>0, <3>2 DEF Stirs
    <3>3. CASE v # Audio!LevelOf(pw, k) /\ k \notin pw.changed
      <4>1. pw.id[k] # 0 /\ Fresh(pw.id[k], pwInbox, toPw)
        BY <2>16, <3>0, <3>3 DEF Excused
      <4>2. ~Without(toPw, BindsOf(pw.id[k]))
        BY <3>0, <4>1 DEF Fresh
      <4>3. pw.id[k] \in Audio!Ids /\ pw.nodes[pw.id[k]] # Audio!NoNode
        BY <2>10, <4>1 DEF VolServed
      <4> QED
        BY <2>14, <3>1, <4>2, <4>3
    <3>4. CASE v = Audio!LevelOf(pw, k)
      <4>1. pw.id[k] = id /\ pw.nodes[id].level # l
        <5>1. pw.id[k] = id
          BY <2>13, <2>16, <3>4
        <5>2. Audio!LevelOf(pw, k) = pw.nodes[id].level /\ Audio!LevelOf(pw', k) = l
          BY <1>3, <2>2, <2>3, <2>5, <2>7, <5>1, VolLevelOf
        <5> QED
          BY <2>16, <3>4, <5>1, <5>2
      <4>2. VolNode(id, pwServer.nodes[id], id \in pwServer.bound, pw.nodes[id], pwInbox, toPw)
            /\ pwServer.nodes[id] # Audio!NoNode
        BY <1>1, <1>3, <2>2, <3>1, VolCoreFacts
      <4>3. CASE ~Without(toPw, BindsOf(id))
        BY <1>3, <2>2, <2>14, <3>1, <4>3
      <4>4. CASE Without(toPw, BindsOf(id)) /\ pw.nodes[id].level # pwServer.nodes[id].level
        <5>1. ~Without(toPw, SetsOf(id))
              /\ LastFits(toPw, SetsOf(id), AtLevel(SetsOf(id), pw.nodes[id].level))
          BY <1>3, <3>0, <4>2, <4>4 DEF VolNode
        <5>2. PICK j \in 1..Len(toPw) : toPw[j] \in AtLevel(SetsOf(id), pw.nodes[id].level)
          BY <2>2, <5>1, LastFitsSome
        <5>3. toPw[j] \in Due(pwServer)
          BY <4>2, <4>4, <5>2 DEF Due, AtLevel, SetsOf
        <5>4. ~Without(toPw, Due(pwServer))
          BY <5>3 DEF Without
        <5> QED
          BY <2>14, <5>4
      <4>5. CASE pw.nodes[id].level = pwServer.nodes[id].level
        <5>1. x \in Due(pwServer)
          BY <2>4, <4>1, <4>2, <4>5 DEF Due
        <5> QED
          BY <2>14, <5>1
      <4> QED
        BY <4>3, <4>4, <4>5
    <3> QED
      BY <3>2, <3>3, <3>4
  <2> QED
    BY <2>12, <2>15, <2>16 DEF Stirs
<1> QED
  BY <1>2, <1>3 DEF Audio!SetNode

\* What the user does: the server and its messages stay, and the panel is
\* painted again or stays too.
LEMMA VolUserKeeps ==
    ASSUME VolInv, UNCHANGED <<pwServer, pwInbox, osd>>,
           VolCore(pwServer, pwInbox, toPw', pw'),
           \A k \in Audio!Kinds : \A v :
              Excused(k, v, pwInbox, toPw, pw) /\ Stirs(k, v, pwServer, pwInbox, toPw, pw) =>
                Excused(k, v, pwInbox, toPw', pw') /\ Stirs(k, v, pwServer, pwInbox, toPw', pw'),
           volPanel' \in VolPanels, volDirty' = TRUE \/ UNCHANGED <<volPanel, volDirty>>
    PROVE  VolInv'
<1>1. /\ volDirty \in BOOLEAN /\ osd \in VolOsds /\ VolStirs
      /\ VolExcused(pwInbox, toPw, pw, volPanel, volDirty, osd)
  BY VolTypes
<1>2. VolTyped'
  BY <1>1 DEF VolTyped
<1>3. osd.kind \in Audio!Kinds
  BY <1>1 DEF VolOsds
<1>4. osd'.visible => /\ Excused(osd'.kind, osd'.level, pwInbox', toPw', pw')
                      /\ Stirs(osd'.kind, osd'.level, pwServer', pwInbox', toPw', pw')
  BY <1>1, <1>3 DEF VolExcused, VolStirs
<1>5. ASSUME volPanel'.open, ~volDirty', NEW k \in Audio!Kinds
      PROVE  /\ Excused(k, volPanel'.painted[k], pwInbox', toPw', pw')
             /\ Stirs(k, volPanel'.painted[k], pwServer', pwInbox', toPw', pw')
  <2>1. volPanel' = volPanel /\ volPanel.open /\ ~volDirty
    BY <1>5
  <2>2. /\ Excused(k, volPanel.painted[k], pwInbox, toPw, pw)
        /\ Stirs(k, volPanel.painted[k], pwServer, pwInbox, toPw, pw)
    BY <1>1, <2>1 DEF VolExcused, VolStirs
  <2> QED
    BY <2>1, <2>2
<1>6. VolExcused(pwInbox, toPw, pw, volPanel, volDirty, osd)' /\ VolStirs'
  BY <1>4, <1>5 DEF VolExcused, VolStirs
<1> QED
  BY <1>2, <1>6 DEF VolInv

\* The sliders' nodes.
LEMMA VolTagged ==
    ASSUME VolInv, NEW tag \in VolTags, tag # Audio!NoTag
    PROVE  Audio!TagId(tag) \in Audio!Ids \union {0}
<1>1. pw \in VolCopies
  BY VolTypes
<1>2. CASE tag \in [kind : Audio!Kinds, id : {0}]
  <2>1. tag.kind \in Audio!Kinds /\ tag.kind # "stream"
    BY <1>2, VolNumbers
  <2> QED
    BY <1>1, <2>1 DEF Audio!TagId, VolCopies
<1>3. CASE tag \in [kind : {"stream"}, id : Audio!Ids]
  BY <1>3 DEF Audio!TagId
<1> QED
  BY <1>2, <1>3 DEF VolTags

LEMMA VolSliders == Audio!Tags(pw) \subseteq VolTags /\ Audio!NoTag \notin Audio!Tags(pw)
<1>1. "none" \notin Audio!Kinds /\ Audio!NoTag.kind = "none"
  BY VolNumbers DEF Audio!NoTag
<1> QED
  BY <1>1 DEF Audio!Tags, VolTags

LEMMA VolToggleKeeps == VolInv /\ Audio!Toggle => VolInv'
<1> SUFFICES ASSUME VolInv, Audio!Toggle PROVE VolInv'
  OBVIOUS
<1>1. /\ volPanel \in VolPanels /\ VolCore(pwServer, pwInbox, toPw, pw)
      /\ UNCHANGED <<pwServer, pwInbox, toPw, pw, osd>> /\ volDirty' = TRUE
      /\ volPanel' = [volPanel EXCEPT !.open = ~@, !.selected = Audio!NoTag]
  BY VolTypes DEF Audio!Toggle
<1>2. Audio!NoTag \in VolTags
  BY DEF VolTags
<1>3. PICK b \in BOOLEAN : b = ~volPanel.open
  OBVIOUS
<1>4. volPanel' \in VolPanels
  BY <1>1, <1>2, <1>3 DEF VolPanels
<1> QED
  BY <1>1, <1>4, VolUserKeeps

LEMMA VolMovesKeep ==
    ASSUME VolInv, UNCHANGED <<pwServer, pwInbox, osd>>, NEW id \in Audio!Ids \union {0},
           NEW l \in {0, 1}, Audio!SetNode(id, l),
           volPanel' \in VolPanels, volDirty' = TRUE \/ UNCHANGED <<volPanel, volDirty>>
    PROVE  VolInv'
<1>1. /\ VolCore(pwServer, pwInbox, toPw', pw')
      /\ \A k \in Audio!Kinds : \A v :
            Excused(k, v, pwInbox, toPw, pw) /\ Stirs(k, v, pwServer, pwInbox, toPw, pw) =>
              Excused(k, v, pwInbox, toPw', pw') /\ Stirs(k, v, pwServer, pwInbox, toPw', pw')
  BY VolSetNode
<1> QED
  BY <1>1, VolUserKeeps

LEMMA VolDragKeeps ==
    ASSUME VolInv, NEW tag \in Audio!Tags(pw), NEW l \in Audio!Levels, Audio!DragSlider(tag, l)
    PROVE  VolInv'
<1>1. tag \in VolTags /\ tag # Audio!NoTag /\ l \in {0, 1}
  BY VolSliders, VolNumbers
<1>2. Audio!TagId(tag) \in Audio!Ids \union {0}
  BY <1>1, VolTagged
<1>3. /\ UNCHANGED <<pwServer, pwInbox, osd>> /\ Audio!SetNode(Audio!TagId(tag), l)
      /\ volDirty' = TRUE /\ volPanel' = [volPanel EXCEPT !.selected = tag]
  BY DEF Audio!DragSlider
<1>4. volPanel' \in VolPanels
  BY <1>1, <1>3, VolTypes DEF VolPanels
<1> QED
  BY <1>1, <1>2, <1>3, <1>4, VolMovesKeep

LEMMA VolMuteKeeps ==
    ASSUME VolInv, NEW tag \in Audio!Tags(pw), Audio!MuteToggle(tag)
    PROVE  VolInv'
<1> DEFINE id == Audio!TagId(tag)
           l == IF id = 0 THEN 0 ELSE 1 - pw.nodes[id].level
<1>1. id \in Audio!Ids \union {0}
  BY VolSliders, VolTagged
<1>2. /\ UNCHANGED <<pwServer, pwInbox, volPanel, osd>> /\ Audio!SetNode(id, l) /\ volDirty' = TRUE
  BY DEF Audio!MuteToggle
<1> HIDE DEF id
<1>3. l \in {0, 1}
  <2>1. CASE id = 0
    BY <2>1
  <2>2. CASE id # 0
    <3>1. pw.nodes[id] \in VolNodes
      BY <1>1, <2>2, VolTypes DEF VolCopies
    <3>2. pw.nodes[id].level \in {0, 1}
      BY <3>1, VolNodeCases
    <3> QED
      BY <2>2, <3>2
  <2> QED
    BY <2>1, <2>2
<1> HIDE DEF l
<1>4. volPanel' \in VolPanels
  BY <1>2, VolTypes
<1> QED
  BY <1>1, <1>2, <1>3, <1>4, VolMovesKeep

LEMMA VolArrowKeeps ==
    ASSUME VolInv, NEW l \in Audio!Levels, Audio!ArrowKey(l)
    PROVE  VolInv'
<1>1. volPanel \in VolPanels /\ l \in {0, 1}
  BY VolTypes, VolNumbers
<1>2. /\ UNCHANGED <<pwServer, pwInbox, volPanel, osd>> /\ volDirty' = TRUE
      /\ Audio!SetNode(Audio!TagId(volPanel.selected), l) /\ volPanel.selected # Audio!NoTag
  BY DEF Audio!ArrowKey
<1>3. Audio!TagId(volPanel.selected) \in Audio!Ids \union {0}
  BY <1>1, <1>2, VolTagged DEF VolPanels
<1> QED
  BY <1>1, <1>2, <1>3, VolMovesKeep

LEMMA VolWheelKeeps ==
    ASSUME VolInv, NEW l \in Audio!Levels, Audio!Wheel(l)
    PROVE  VolInv'
<1>1. volPanel \in VolPanels /\ l \in {0, 1}
  BY VolTypes, VolNumbers
<1>2. /\ UNCHANGED <<pwServer, pwInbox, volPanel, volDirty, osd>>
      /\ Audio!SetNode(pw.id["sink"], l)
  BY DEF Audio!Wheel
<1>3. pw.id["sink"] \in Audio!Ids \union {0}
  BY VolTypes, VolNumbers DEF VolCopies
<1> QED
  BY <1>1, <1>2, <1>3, VolMovesKeep

LEMMA VolSelectKeeps ==
    ASSUME VolInv, NEW id \in Audio!Ids, Audio!DeviceSelect(id)
    PROVE  VolInv'
<1>1. /\ volPanel \in VolPanels /\ VolCore(pwServer, pwInbox, toPw, pw)
      /\ toPw \in Seq(VolRequests) /\ pw \in VolCopies
  BY VolTypes
<1>2. UNCHANGED <<pwServer, pwInbox, pw, volPanel, osd>> /\ volDirty' = TRUE
  BY DEF Audio!DeviceSelect
<1> DEFINE x == [op |-> "default", kind |-> pw.nodes[id].kind, name |-> pw.nodes[id].name]
<1>3. CASE pw.nodes[id].kind \in Audio!Kinds
  <2>1. toPw' = Append(toPw, x)
    BY <1>3 DEF Audio!DeviceSelect
  <2>2. x \in VolRequests /\ x.op = "default"
    <3>1. pw.nodes[id] \in VolNodes
      BY <1>1 DEF VolCopies
    <3>2. pw.nodes[id] # Audio!NoNode
      <4>1. "none" \notin Audio!Kinds
        BY VolNumbers
      <4> QED
        BY <1>3, <3>1, <4>1, VolNodeCases
    <3>3. pw.nodes[id].name \in NodeNames
      BY <3>1, <3>2, VolNodeCases
    <3> QED
      BY <1>3, <3>3 DEF VolRequests
  <2> HIDE DEF x
  <2>3. \A i : x \notin BindsOf(i) /\ x \notin SetsOf(i) /\ x \notin AsksOf(i)
    BY <2>2 DEF BindsOf, SetsOf, AsksOf
  <2>4. toPw' \in Seq(VolRequests)
    BY <1>1, <2>1, <2>2
  <2>5. ASSUME NEW i \in Audio!Ids
        PROVE  VolNode(i, pwServer.nodes[i], i \in pwServer.bound, pw.nodes[i], pwInbox, toPw')
    <3>1. VolNode(i, pwServer.nodes[i], i \in pwServer.bound, pw.nodes[i], pwInbox, toPw)
      BY <1>1, VolCoreFacts
    <3> QED
      BY <1>1, <2>1, <2>2, <2>3, <3>1, VolAskedAside
  <2>6. VolCore(pwServer, pwInbox, toPw', pw')
    BY <1>1, <1>2, <2>4, <2>5 DEF VolCore
  <2>7. \A S : ~Without(toPw, S) => ~Without(toPw', S)
    BY <1>1, <2>1, <2>2, WithoutAppend
  <2>8. ASSUME NEW k \in Audio!Kinds, NEW v
        PROVE  /\ Excused(k, v, pwInbox, toPw, pw) => Excused(k, v, pwInbox, toPw', pw')
               /\ Stirs(k, v, pwServer, pwInbox, toPw, pw) => Stirs(k, v, pwServer, pwInbox, toPw', pw')
    BY <1>2, <2>7 DEF Excused, Stirs, Fresh
  <2> QED
    BY <1>1, <1>2, <2>6, <2>8, VolUserKeeps
<1>4. CASE pw.nodes[id].kind \notin Audio!Kinds
  <2>1. toPw' = toPw
    BY <1>4 DEF Audio!DeviceSelect
  <2> QED
    BY <1>1, <1>2, <2>1, VolUserKeeps
<1> QED
  BY <1>3, <1>4

LEMMA VolHideKeeps == VolInv /\ Audio!OsdHide => VolInv'
<1> SUFFICES ASSUME VolInv, Audio!OsdHide PROVE VolInv'
  OBVIOUS
<1>1. /\ volPanel \in VolPanels /\ volDirty \in BOOLEAN /\ osd \in VolOsds
      /\ VolCore(pwServer, pwInbox, toPw, pw) /\ VolStirs
      /\ VolExcused(pwInbox, toPw, pw, volPanel, volDirty, osd)
  BY VolTypes
<1>2. /\ osd' = [osd EXCEPT !.visible = FALSE]
      /\ UNCHANGED <<pwServer, pwInbox, toPw, pw, volPanel, volDirty, volWork>>
  BY DEF Audio!OsdHide
<1>3. PICK b \in BOOLEAN : b = FALSE
  OBVIOUS
<1>4. osd' \in VolOsds /\ ~osd'.visible
  BY <1>1, <1>2, <1>3 DEF VolOsds
<1>5. VolTyped'
  BY <1>1, <1>2, <1>4 DEF VolTyped
<1>6. VolExcused(pwInbox, toPw, pw, volPanel, volDirty, osd)' /\ VolStirs'
  BY <1>1, <1>2, <1>4 DEF VolExcused, VolStirs
<1> QED
  BY <1>1, <1>2, <1>5, <1>6 DEF VolInv

LEMMA VolPaintKeeps == VolInv /\ Audio!PaintPanel => VolInv'
<1> SUFFICES ASSUME VolInv, Audio!PaintPanel PROVE VolInv'
  OBVIOUS
<1>1. /\ volPanel \in VolPanels /\ volDirty \in BOOLEAN /\ osd \in VolOsds /\ pw \in VolCopies
      /\ VolCore(pwServer, pwInbox, toPw, pw) /\ VolStirs
      /\ VolExcused(pwInbox, toPw, pw, volPanel, volDirty, osd)
  BY VolTypes
<1>2. /\ volPanel' = IF volPanel.open THEN [volPanel EXCEPT !.painted = Audio!LevelsOf(pw)] ELSE volPanel
      /\ volDirty' = FALSE /\ UNCHANGED <<pwServer, pwInbox, toPw, pw, osd, volWork>>
  BY DEF Audio!PaintPanel
<1> DEFINE ls == Audio!LevelsOf(pw)
<1>3. ls \in [Audio!Kinds -> {0, 1}] /\ \A k \in Audio!Kinds : ls[k] = Audio!LevelOf(pw, k)
  BY <1>1, VolLevelOf DEF Audio!LevelsOf
<1> HIDE DEF ls
<1>4. volPanel' \in VolPanels /\ (volPanel'.open => \A k \in Audio!Kinds : volPanel'.painted[k] = Audio!LevelOf(pw, k))
  <2>1. CASE volPanel.open
    <3>1. volPanel' = [volPanel EXCEPT !.painted = ls]
      BY <1>2, <2>1 DEF ls
    <3>2. volPanel' \in VolPanels /\ volPanel'.painted = ls
      BY <1>1, <1>3, <3>1 DEF VolPanels
    <3> QED
      BY <1>3, <3>2
  <2>2. CASE ~volPanel.open
    BY <1>1, <1>2, <2>2
  <2> QED
    BY <2>1, <2>2
<1>5. volDirty' \in BOOLEAN
  BY <1>2
<1>6. VolTyped'
  BY <1>1, <1>2, <1>4, <1>5 DEF VolTyped
<1>7. VolExcused(pwInbox, toPw, pw, volPanel, volDirty, osd)'
  BY <1>1, <1>2, <1>4 DEF VolExcused, Excused
<1>8. VolStirs'
  BY <1>1, <1>2, <1>4 DEF VolStirs, Stirs
<1> QED
  BY <1>1, <1>2, <1>6, <1>7, <1>8 DEF VolInv

\* What the server says: the event joins those under way, and is heard later.
LEMMA VolCoreSaid ==
    ASSUME NEW s, NEW q, NEW r, NEW p, VolCore(s, q, r, p),
           NEW g \in VolServers, NEW e \in VolEvents, NEW u \in Seq(VolRequests),
           \A i \in Audio!Ids : VolNode(i, g.nodes[i], i \in g.bound, p.nodes[i], Append(q, e), u),
           Unique(g.nodes),
           \/ e.op # "meta" /\ g.default = s.default
           \/ e.op = "meta" /\ g.default = [s.default EXCEPT ![e.kind] = e.name],
           e.op = "global" =>
              \A i \in Audio!Ids \ {e.id} :
                 (p.nodes[i] # Audio!NoNode /\ Same(p.nodes[i], e)) \/ ~Without(q, Namesakes(Comes(i), e))
                   => ~Without(q, Goes(i))
    PROVE  VolCore(g, Append(q, e), u, p)
<1> DEFINE t == Append(q, e)
<1>1. /\ s \in VolServers /\ q \in Seq(VolEvents) /\ p \in VolCopies
      /\ VolOrder(q, p.nodes) /\ Unique(p.nodes)
  BY VolCoreFacts
<1>2. t \in Seq(VolEvents)
  BY <1>1
<1>3. VolOrder(t, p.nodes)
  BY <1>1, VolOrderPush
<1>4. ASSUME NEW k \in Audio!Kinds PROVE VolDefault(k, g, t, p)
  <2>1. VolDefault(k, s, q, p)
    BY VolCoreFacts
  <2>2. CASE e \notin Metas(k)
    <3>1. g.default[k] = s.default[k]
      <4>1. e.op # "meta" \/ e.kind # k
        BY <2>2 DEF Metas
      <4> QED
        BY <1>1, <4>1 DEF VolServers
    <3>2. LastFits(t, Metas(k), OfName(k, s.default[k]))
      BY <1>1, <2>1, <2>2, LastFitsAppend DEF VolDefault
    <3>3. Without(t, Metas(k)) => Without(q, Metas(k))
      BY <1>1, WithoutAppend
    <3> HIDE DEF t
    <3> QED
      BY <2>1, <3>1, <3>2, <3>3 DEF VolDefault
  <2>3. CASE e \in Metas(k)
    <3>1. e.op = "meta" /\ e.kind = k
      BY <2>3 DEF Metas
    <3>2. g.default[k] = e.name
      BY <1>1, <3>1 DEF VolServers
    <3>3. e \in OfName(k, g.default[k])
      BY <2>3, <3>2 DEF OfName
    <3>4. LastFits(t, Metas(k), OfName(k, g.default[k])) /\ ~Without(t, Metas(k))
      BY <1>1, <2>3, <3>3, LastFitsAppend, WithoutAppend
    <3> HIDE DEF t
    <3> QED
      BY <2>1, <3>4 DEF VolDefault
  <2> QED
    BY <2>2, <2>3
<1> HIDE DEF t
<1>5. \A i \in Audio!Ids : VolNode(i, g.nodes[i], i \in g.bound, p.nodes[i], t, u)
  BY DEF t
<1>6. VolCore(g, t, u, p)
  BY <1>1, <1>2, <1>3, <1>4, <1>5 DEF VolCore
<1> QED
  BY <1>6 DEF t

LEMMA VolSaid ==
    ASSUME VolInv, UNCHANGED <<pw, volPanel, volDirty, osd>>,
           NEW e \in VolEvents, pwInbox' = Append(pwInbox, e),
           VolCore(pwServer', pwInbox', toPw', pw),
           \A i \in Audio!Ids : ~Without(toPw, BindsOf(i)) => ~Without(toPw', BindsOf(i)) \/ e \in Louds(i)
    PROVE  VolInv'
<1>1. /\ pwInbox \in Seq(VolEvents) /\ volPanel \in VolPanels /\ volDirty \in BOOLEAN /\ osd \in VolOsds
      /\ VolCore(pwServer, pwInbox, toPw, pw)
      /\ VolExcused(pwInbox, toPw, pw, volPanel, volDirty, osd) /\ VolStirs
  BY VolTypes
<1>2. /\ pwInbox' # <<>>
      /\ \A S : ~Without(pwInbox, S) \/ e \in S => ~Without(pwInbox', S)
  <2>1. Len(pwInbox') = Len(pwInbox) + 1 /\ Len(pwInbox) \in Nat
    BY <1>1, Grows
  <2>2. Len(pwInbox') # 0
    BY <2>1
  <2>3. pwInbox' # <<>>
    BY <2>2
  <2> QED
    BY <1>1, <2>3, WithoutAppend
<1>3. VolServed(pw)
  BY <1>1, VolDefaultNode
<1>4. ASSUME NEW k \in Audio!Kinds, NEW v, Excused(k, v, pwInbox, toPw, pw)
      PROVE  Excused(k, v, pwInbox', toPw', pw')
  <2>1. \A i \in Audio!Ids : Fresh(i, pwInbox, toPw) => Fresh(i, pwInbox', toPw')
    BY <1>2 DEF Fresh
  <2>2. pw.id[k] # 0 => pw.id[k] \in Audio!Ids
    BY <1>3 DEF VolServed
  <2> QED
    BY <1>2, <1>4, <2>1, <2>2 DEF Excused
<1>5. osd.kind \in Audio!Kinds
  BY <1>1 DEF VolOsds
<1>6. VolExcused(pwInbox, toPw, pw, volPanel, volDirty, osd)'
  BY <1>1, <1>4, <1>5 DEF VolExcused
<1>7. VolStirs'
  BY <1>2 DEF VolStirs, Stirs
<1>8. VolTyped'
  BY <1>1 DEF VolTyped
<1>9. VolCore(pwServer, pwInbox, toPw, pw)'
  OBVIOUS
<1> QED
  BY <1>6, <1>7, <1>8, <1>9 DEF VolInv

\* A request the server drops was not due.
LEMMA VolDroppedKeeps ==
    ASSUME VolInv, UNCHANGED <<pwServer, pwInbox, pw, volPanel, volDirty, osd>>,
           toPw # <<>>, toPw' = Tail(toPw), Head(toPw) \notin Due(pwServer),
           VolCore(pwServer, pwInbox, toPw', pw)
    PROVE  VolInv'
<1>1. /\ toPw \in Seq(VolRequests) /\ volPanel \in VolPanels /\ volDirty \in BOOLEAN /\ osd \in VolOsds
      /\ VolCore(pwServer, pwInbox, toPw, pw)
      /\ VolExcused(pwInbox, toPw, pw, volPanel, volDirty, osd) /\ VolStirs
  BY VolTypes
<1>2. \A S : Head(toPw) \notin S /\ ~Without(toPw, S) => ~Without(toPw', S)
  BY <1>1, WithoutTail
<1>3. VolServed(pw)
  BY <1>1, VolDefaultNode
<1>4. ASSUME NEW i \in Audio!Ids, pw.nodes[i] # Audio!NoNode, Fresh(i, pwInbox, toPw)
      PROVE  Fresh(i, pwInbox, toPw')
  <2>1. CASE Head(toPw) \in BindsOf(i)
    <3>1. Head(toPw) \in VolRequests /\ Head(toPw).op = "bind" /\ Head(toPw).id = i
      BY <2>1 DEF BindsOf
    <3>2. pwServer.nodes[i] = Audio!NoNode
      BY <3>1 DEF Due
    <3>3. VolNode(i, pwServer.nodes[i], i \in pwServer.bound, pw.nodes[i], pwInbox, toPw)
      BY <1>1, VolCoreFacts
    <3>4. ~Without(pwInbox, Goes(i))
      BY <1>4, <3>2, <3>3, VolThere
    <3> QED
      BY <3>4 DEF Fresh
  <2>2. CASE Head(toPw) \notin BindsOf(i)
    BY <1>2, <1>4, <2>2 DEF Fresh
  <2> QED
    BY <2>1, <2>2
<1>5. ASSUME NEW k \in Audio!Kinds, NEW v
      PROVE  /\ Excused(k, v, pwInbox, toPw, pw) => Excused(k, v, pwInbox', toPw', pw')
             /\ Stirs(k, v, pwServer, pwInbox, toPw, pw) => Stirs(k, v, pwServer', pwInbox', toPw', pw')
  <2>1. pw.id[k] # 0 => pw.id[k] \in Audio!Ids /\ pw.nodes[pw.id[k]] # Audio!NoNode
    BY <1>3 DEF VolServed
  <2>2. pw.id[k] # 0 /\ Fresh(pw.id[k], pwInbox, toPw) => Fresh(pw.id[k], pwInbox, toPw')
    BY <1>4, <2>1
  <2>3. ~Without(toPw, Due(pwServer)) => ~Without(toPw', Due(pwServer))
    BY <1>2
  <2> QED
    BY <2>2, <2>3 DEF Excused, Stirs
<1>6. osd.kind \in Audio!Kinds
  BY <1>1 DEF VolOsds
<1>7. VolExcused(pwInbox, toPw, pw, volPanel, volDirty, osd)'
  BY <1>1, <1>5, <1>6 DEF VolExcused
<1>8. VolStirs'
  BY <1>1, <1>5, <1>6 DEF VolStirs
<1>9. VolTyped'
  BY <1>1 DEF VolTyped
<1>10. VolCore(pwServer, pwInbox, toPw, pw)'
  OBVIOUS
<1> QED
  BY <1>7, <1>8, <1>9, <1>10 DEF VolInv

\* A node of a name that no other node of its kind has.
LEMMA VolAlive ==
    ASSUME VolInv, NEW i \in Audio!Ids, NEW kind, NEW name, name \notin Audio!Alive(kind)
    PROVE  ~(pwServer.nodes[i].kind = kind /\ pwServer.nodes[i].name = name)
  BY DEF Audio!Alive

LEMMA VolAppearsKeeps ==
    ASSUME VolInv, NEW id \in Audio!Ids, NEW kind \in AllKinds, NEW name \in Audio!Named(kind),
           Audio!Appears(id, kind, name)
    PROVE  VolInv'
<1> DEFINE h == [kind |-> kind, name |-> name, level |-> 1]
           nn == [pwServer.nodes EXCEPT ![id] = h]
           g == [pwServer EXCEPT !.nodes = nn]
           e == [op |-> "global", id |-> id, kind |-> kind, name |-> name]
<1>1. /\ UNCHANGED <<toPw, pw, volPanel, volDirty, osd>> /\ name \notin Audio!Alive(kind)
      /\ pwServer.nodes[id] = Audio!NoNode
      /\ ~Audio!About(id, pwInbox) /\ ~Audio!About(id, toPw)
      /\ pwServer' = g /\ pwInbox' = Append(pwInbox, e)
  BY DEF Audio!Appears, Audio!Turn, Audio!Says
<1>2. /\ pwServer \in VolServers /\ pwInbox \in Seq(VolEvents) /\ toPw \in Seq(VolRequests)
      /\ pw \in VolCopies /\ VolCore(pwServer, pwInbox, toPw, pw) /\ Unique(pwServer.nodes)
      /\ \A i \in Audio!Ids : VolNode(i, pwServer.nodes[i], i \in pwServer.bound, pw.nodes[i], pwInbox, toPw)
  BY VolTypes, VolCoreFacts
<1>3. name \in NodeNames /\ (kind \in Audio!Kinds => name # "") /\ 1 \in {0, 1}
  BY VolNumbers DEF Audio!Named, NodeNames
<1>4. h \in VolNodes /\ h # Audio!NoNode /\ h.kind = kind /\ h.name = name /\ h.level = 1
  <2>1. PICK l \in {0, 1} : l = 1
    BY <1>3
  <2>2. h \in [kind : AllKinds, name : NodeNames, level : {0, 1}] /\ h.kind = kind /\ h.name = name /\ h.level = 1
    BY <1>3, <2>1
  <2>3. h.kind # "none"
    BY <2>2, VolNumbers
  <2> HIDE DEF h
  <2>4. h \in VolNodes
    BY <1>3, <2>2 DEF VolNodes, NamedRight
  <2> QED
    BY <2>2, <2>3, <2>4, VolNodeCases
<1> HIDE DEF h
<1>5. nn \in [Audio!Ids -> VolNodes] /\ nn[id] = h /\ \A i \in Audio!Ids \ {id} : nn[i] = pwServer.nodes[i]
  BY <1>2, <1>4 DEF VolServers
<1> HIDE DEF nn
<1>6. g \in VolServers /\ g.nodes = nn /\ g.bound = pwServer.bound /\ g.default = pwServer.default
  BY <1>2, <1>5 DEF VolServers
<1> HIDE DEF g
<1>7. e \in VolEvents /\ e.op = "global" /\ e.id = id /\ e.kind = kind /\ e.name = name
  <2>1. e.op = "global" /\ e.id = id /\ e.kind = kind /\ e.name = name
        /\ e \in [op : {"global"}, id : Audio!Ids, kind : AllKinds, name : NodeNames]
    BY <1>3
  <2> HIDE DEF e
  <2> QED
    BY <1>3, <2>1 DEF VolEvents, NamedRight
<1> HIDE DEF e
<1>8. e \in Comes(id) /\ Same(e, h) /\ \A i : e \notin Goes(i) /\ e \notin Params(i) /\ (e \in Comes(i) => i = id)
  BY <1>4, <1>7 DEF Comes, Goes, Params, Same
<1>9. Without(pwInbox, Goes(id)) /\ Without(toPw, AsksOf(id))
  BY <1>1, <1>2, VolNotAbout
<1>10. ASSUME NEW i \in Audio!Ids
       PROVE  VolNode(i, g.nodes[i], i \in g.bound, pw.nodes[i], Append(pwInbox, e), toPw)
  <2>1. CASE i = id
    <3>1. id \notin pwServer.bound
      BY <1>1, <1>2 DEF VolNode
    <3>2. VolNode(id, Audio!NoNode, FALSE, pw.nodes[id], pwInbox, toPw)
      <4>1. VolNode(id, pwServer.nodes[id], id \in pwServer.bound, pw.nodes[id], pwInbox, toPw)
        BY <1>2
      <4>2. (id \in pwServer.bound) = FALSE
        BY <3>1
      <4> QED
        BY <1>1, <4>1, <4>2
    <3>3. pw.nodes[id] \in VolNodes
      BY <1>2 DEF VolCopies
    <3>4. VolNode(id, h, FALSE, pw.nodes[id], Append(pwInbox, e), toPw)
      BY <1>2, <1>4, <1>8, <1>9, <3>2, <3>3, VolAppears
    <3>5. (id \in g.bound) = FALSE
      BY <1>6, <3>1
    <3> QED
      BY <1>5, <1>6, <2>1, <3>4, <3>5
  <2>2. CASE i # id
    BY <1>2, <1>5, <1>6, <1>7, <1>8, <2>2, VolAside
  <2> QED
    BY <2>1, <2>2
<1>11. ASSUME NEW i \in Audio!Ids \ {id} PROVE ~Same(pwServer.nodes[i], h)
  BY <1>1, <1>4, VolAlive DEF Same
<1>12. Unique(g.nodes)
  BY <1>2, <1>5, <1>6, <1>11 DEF Unique, Same
<1>13. ASSUME NEW i \in Audio!Ids \ {id}, Without(pwInbox, Goes(i)),
              (pw.nodes[i] # Audio!NoNode /\ Same(pw.nodes[i], e)) \/ ~Without(pwInbox, Namesakes(Comes(i), e))
       PROVE  FALSE
  <2>1. VolNode(i, pwServer.nodes[i], i \in pwServer.bound, pw.nodes[i], pwInbox, toPw)
    BY <1>2
  <2>2. CASE pw.nodes[i] # Audio!NoNode /\ Same(pw.nodes[i], e)
    <3>1. pwServer.nodes[i] # Audio!NoNode /\ Same(pw.nodes[i], pwServer.nodes[i])
      BY <1>13, <2>1, <2>2 DEF VolNode
    <3> QED
      BY <1>8, <1>11, <2>2, <3>1 DEF Same
  <2>3. CASE ~Without(pwInbox, Namesakes(Comes(i), e))
    <3>1. PICK j \in 1..Len(pwInbox) : pwInbox[j] \in Comes(i) /\ Same(pwInbox[j], e)
      BY <2>3 DEF Without, Namesakes
    <3>2. ~Without(pwInbox, Comes(i))
      BY <3>1 DEF Without
    <3>3. pwServer.nodes[i] # Audio!NoNode /\ Same(pwInbox[j], pwServer.nodes[i])
      BY <1>13, <2>1, <3>1, <3>2 DEF VolNode
    <3> QED
      BY <1>8, <1>11, <3>1, <3>3 DEF Same
  <2> QED
    BY <1>13, <2>2, <2>3
<1>14. VolCore(g, Append(pwInbox, e), toPw, pw)
  BY <1>2, <1>6, <1>7, <1>10, <1>12, <1>13, VolCoreSaid
<1> QED
  BY <1>1, <1>7, <1>14, VolSaid

LEMMA VolVanishesKeeps ==
    ASSUME VolInv, NEW id \in Audio!Ids, Audio!Vanishes(id)
    PROVE  VolInv'
<1> DEFINE nn == [pwServer.nodes EXCEPT ![id] = Audio!NoNode]
           g == [pwServer EXCEPT !.nodes = nn, !.bound = pwServer.bound \ {id}]
           e == [op |-> "remove", id |-> id]
<1>1. /\ UNCHANGED <<toPw, pw, volPanel, volDirty, osd>> /\ pwServer.nodes[id] # Audio!NoNode
      /\ pwServer' = g /\ pwInbox' = Append(pwInbox, e)
  BY DEF Audio!Vanishes, Audio!Turn, Audio!Says
<1>2. /\ pwServer \in VolServers /\ pwInbox \in Seq(VolEvents) /\ toPw \in Seq(VolRequests)
      /\ pw \in VolCopies /\ VolCore(pwServer, pwInbox, toPw, pw) /\ Unique(pwServer.nodes)
      /\ \A i \in Audio!Ids : VolNode(i, pwServer.nodes[i], i \in pwServer.bound, pw.nodes[i], pwInbox, toPw)
  BY VolTypes, VolCoreFacts
<1>3. nn \in [Audio!Ids -> VolNodes] /\ nn[id] = Audio!NoNode
      /\ \A i \in Audio!Ids \ {id} : nn[i] = pwServer.nodes[i]
  <2>1. Audio!NoNode \in VolNodes
    BY DEF VolNodes
  <2> QED
    BY <1>2, <2>1 DEF VolServers
<1> HIDE DEF nn
<1>4. g \in VolServers /\ g.nodes = nn /\ g.bound = pwServer.bound \ {id} /\ g.default = pwServer.default
  BY <1>2, <1>3 DEF VolServers
<1> HIDE DEF g
<1>5. e \in VolEvents /\ e.op = "remove" /\ e.id = id
  BY DEF VolEvents
<1> HIDE DEF e
<1>6. e \in Goes(id) /\ \A i : e \notin Comes(i) /\ e \notin Params(i) /\ (e \in Goes(i) => i = id)
  BY <1>5 DEF Comes, Goes, Params
<1>7. ASSUME NEW i \in Audio!Ids
      PROVE  VolNode(i, g.nodes[i], i \in g.bound, pw.nodes[i], Append(pwInbox, e), toPw)
  <2>1. CASE i = id
    <3>1. VolNode(i, Audio!NoNode, FALSE, pw.nodes[i], Append(pwInbox, e), toPw)
      BY <1>1, <1>2, <1>6, <2>1, VolVanishes
    <3>2. (i \in g.bound) = FALSE /\ g.nodes[i] = Audio!NoNode
      BY <1>3, <1>4, <2>1
    <3> QED
      BY <3>1, <3>2
  <2>2. CASE i # id
    <3>1. VolNode(i, pwServer.nodes[i], i \in pwServer.bound, pw.nodes[i], Append(pwInbox, e), toPw)
      BY <1>2, <1>5, <1>6, <2>2, VolAside
    <3>2. (i \in g.bound) = (i \in pwServer.bound) /\ g.nodes[i] = pwServer.nodes[i]
      BY <1>3, <1>4, <2>2
    <3> QED
      BY <3>1, <3>2
  <2> QED
    BY <2>1, <2>2
<1>8. Unique(g.nodes)
  BY <1>2, <1>3, <1>4 DEF Unique
<1>9. VolCore(g, Append(pwInbox, e), toPw, pw)
  BY <1>2, <1>4, <1>5, <1>7, <1>8, VolCoreSaid
<1> QED
  BY <1>1, <1>5, <1>9, VolSaid

\* The server sets a level of a node it has bound, and tells it.
LEMMA VolLevelTold ==
    ASSUME VolInv, NEW id \in Audio!Ids, pwServer.nodes[id] # Audio!NoNode, NEW l \in {0, 1},
           NEW g, g = [pwServer EXCEPT !.nodes[id].level = l],
           NEW e, e = [op |-> "param", id |-> id, level |-> l],
           id \in pwServer.bound, Without(toPw, BindsOf(id))
    PROVE  /\ e \in VolEvents /\ e.op = "param" /\ e.id = id /\ g.nodes[id].level = l
           /\ e \in AtLevel(Params(id), l)
           /\ g.nodes[id] # Audio!NoNode /\ g.bound = pwServer.bound
           /\ VolCore(g, Append(pwInbox, e), toPw, pw)
<1> DEFINE h == [pwServer.nodes[id] EXCEPT !.level = l]
           nn == [pwServer.nodes EXCEPT ![id] = h]
<1>1. g = [pwServer EXCEPT !.nodes = nn]
  OBVIOUS
<1>2. /\ pwServer \in VolServers /\ pwInbox \in Seq(VolEvents) /\ toPw \in Seq(VolRequests)
      /\ pw \in VolCopies /\ VolCore(pwServer, pwInbox, toPw, pw) /\ Unique(pwServer.nodes)
      /\ \A i \in Audio!Ids : VolNode(i, pwServer.nodes[i], i \in pwServer.bound, pw.nodes[i], pwInbox, toPw)
  BY VolTypes, VolCoreFacts
<1>3. h \in VolNodes /\ h # Audio!NoNode /\ Same(h, pwServer.nodes[id]) /\ h.level = l
  <2>1. pwServer.nodes[id] \in VolNodes
    BY <1>2 DEF VolServers
  <2>2. h \in VolNodes /\ h # Audio!NoNode /\ h.kind = pwServer.nodes[id].kind
        /\ h.name = pwServer.nodes[id].name /\ h.level = l
    BY <2>1, VolLevelSet
  <2> QED
    BY <2>2 DEF Same
<1> HIDE DEF h
<1>4. nn \in [Audio!Ids -> VolNodes] /\ nn[id] = h /\ \A i \in Audio!Ids \ {id} : nn[i] = pwServer.nodes[i]
  BY <1>2, <1>3 DEF VolServers
<1> HIDE DEF nn
<1>5. g \in VolServers /\ g.nodes = nn /\ g.bound = pwServer.bound /\ g.default = pwServer.default
  BY <1>1, <1>2, <1>4 DEF VolServers
<1>6. e \in VolEvents /\ e.op = "param" /\ e.id = id /\ e.level = l
  BY DEF VolEvents
<1>7. e \in AtLevel(Params(id), l)
      /\ \A i : e \notin Comes(i) /\ e \notin Goes(i) /\ (e \in Params(i) => i = id)
  BY <1>6 DEF Comes, Goes, Params, AtLevel
<1>8. ASSUME NEW i \in Audio!Ids
      PROVE  VolNode(i, g.nodes[i], i \in g.bound, pw.nodes[i], Append(pwInbox, e), toPw)
  <2>1. CASE i = id
    <3>1. pw.nodes[id] # Audio!NoNode
      BY <1>2 DEF VolNode
    <3>2. VolNode(id, h, TRUE, pw.nodes[id], Append(pwInbox, e), toPw)
      BY <1>2, <1>3, <1>7, <3>1, VolTells
    <3>3. (id \in g.bound) = TRUE
      BY <1>5
    <3> QED
      BY <1>4, <1>5, <2>1, <3>2, <3>3
  <2>2. CASE i # id
    BY <1>2, <1>4, <1>5, <1>6, <1>7, <2>2, VolAside
  <2> QED
    BY <2>1, <2>2
<1>9. Unique(g.nodes)
  <2>1. \A i \in Audio!Ids : g.nodes[i] # Audio!NoNode => pwServer.nodes[i] # Audio!NoNode
                             /\ Same(g.nodes[i], pwServer.nodes[i])
    BY <1>3, <1>4, <1>5 DEF Same
  <2> QED
    BY <1>2, <2>1 DEF Unique, Same
<1>10. VolCore(g, Append(pwInbox, e), toPw, pw)
  BY <1>2, <1>5, <1>6, <1>8, <1>9, VolCoreSaid
<1> QED
  BY <1>3, <1>4, <1>5, <1>6, <1>7, <1>10

LEMMA VolElsewhereKeeps ==
    ASSUME VolInv, NEW id \in Audio!Ids, Audio!ElsewhereSet(id)
    PROVE  VolInv'
<1> DEFINE l == 1 - pwServer.nodes[id].level
           e == [op |-> "param", id |-> id, level |-> l]
<1>1. /\ UNCHANGED <<toPw, pw, volPanel, volDirty, osd>> /\ id \in pwServer.bound
      /\ pwServer' = [pwServer EXCEPT !.nodes[id].level = l] /\ pwInbox' = Append(pwInbox, e)
  BY DEF Audio!ElsewhereSet, Audio!Turn, Audio!Says
<1>2. VolNode(id, pwServer.nodes[id], id \in pwServer.bound, pw.nodes[id], pwInbox, toPw)
      /\ pwServer.nodes[id] \in VolNodes
  BY VolTypes, VolCoreFacts
<1>3. pwServer.nodes[id] # Audio!NoNode /\ Without(toPw, BindsOf(id))
  BY <1>1, <1>2 DEF VolNode
<1>4. l \in {0, 1}
  <2>1. pwServer.nodes[id].level \in {0, 1}
    BY <1>2, VolNodeCases
  <2> QED
    BY <2>1, VolNumbers
<1> HIDE DEF l
<1>5. e \in VolEvents /\ VolCore(pwServer', Append(pwInbox, e), toPw, pw)
  BY <1>1, <1>3, <1>4, VolLevelTold
<1> HIDE DEF e
<1> QED
  BY <1>1, <1>5, VolSaid

\* The server elects a default, and says so.
LEMMA VolMetaSaid ==
    ASSUME NEW r, VolCore(pwServer, pwInbox, r, pw), NEW k \in Audio!Kinds, NEW name \in VolNames,
           NEW g, g = [pwServer EXCEPT !.default[k] = name],
           NEW e, e = [op |-> "meta", kind |-> k, name |-> name]
    PROVE  e \in VolEvents /\ VolCore(g, Append(pwInbox, e), r, pw)
<1>1. /\ pwServer \in VolServers /\ pwInbox \in Seq(VolEvents) /\ r \in Seq(VolRequests)
      /\ Unique(pwServer.nodes)
      /\ \A i \in Audio!Ids : VolNode(i, pwServer.nodes[i], i \in pwServer.bound, pw.nodes[i], pwInbox, r)
  BY VolCoreFacts
<1> DEFINE dd == [pwServer.default EXCEPT ![k] = name]
<1>2. g = [pwServer EXCEPT !.default = dd] /\ dd \in [Audio!Kinds -> VolNames]
  BY <1>1 DEF VolServers
<1>3. e \in VolEvents /\ e.op = "meta" /\ e.kind = k /\ e.name = name
  BY DEF VolEvents, VolNames
<1>4. dd = [pwServer.default EXCEPT ![e.kind] = e.name]
  BY <1>3
<1> HIDE DEF dd
<1>5. g \in VolServers /\ g.nodes = pwServer.nodes /\ g.bound = pwServer.bound /\ g.default = dd
  BY <1>1, <1>2 DEF VolServers
<1>6. \A i : e \notin Comes(i) /\ e \notin Goes(i) /\ e \notin Params(i)
  BY <1>3 DEF Comes, Goes, Params
<1>7. ASSUME NEW i \in Audio!Ids
      PROVE  VolNode(i, g.nodes[i], i \in g.bound, pw.nodes[i], Append(pwInbox, e), r)
  <2>1. VolNode(i, pwServer.nodes[i], i \in pwServer.bound, pw.nodes[i], pwInbox, r)
    BY <1>1
  <2>2. VolNode(i, pwServer.nodes[i], i \in pwServer.bound, pw.nodes[i], Append(pwInbox, e), r)
    BY <1>1, <1>3, <1>6, <2>1, VolAside
  <2> QED
    BY <1>5, <2>2
<1>8. VolCore(g, Append(pwInbox, e), r, pw)
  <2>1. Unique(g.nodes) /\ e.op # "global"
    BY <1>1, <1>3, <1>5
  <2>2. e.op = "meta" /\ g.default = [pwServer.default EXCEPT ![e.kind] = e.name]
    BY <1>3, <1>4, <1>5
  <2> QED
    BY <1>1, <1>3, <1>5, <1>7, <2>1, <2>2, VolCoreSaid
<1> QED
  BY <1>3, <1>8

LEMMA VolElectKeeps ==
    ASSUME VolInv, NEW k \in Audio!Kinds, Audio!Elect(k)
    PROVE  VolInv'
<1>1. UNCHANGED <<toPw, pw, volPanel, volDirty, osd>>
  BY DEF Audio!Elect
<1>2. PICK name \in IF Audio!Alive(k) = {} THEN {""} ELSE Audio!Alive(k) :
         Audio!Says([pwServer EXCEPT !.default[k] = name], [op |-> "meta", kind |-> k, name |-> name])
  BY DEF Audio!Elect
<1>3. name \in VolNames
  <2>1. \A i \in Audio!Ids : pwServer.nodes[i] \in VolNodes
    BY VolTypes DEF VolServers
  <2>2. \A i \in Audio!Ids : pwServer.nodes[i].name \in VolNames
    BY <2>1, VolNodeCases
  <2>3. Audio!Alive(k) \subseteq VolNames
    BY <2>2 DEF Audio!Alive
  <2> QED
    BY <1>2, <2>3 DEF VolNames
<1> DEFINE e == [op |-> "meta", kind |-> k, name |-> name]
<1>4. pwServer' = [pwServer EXCEPT !.default[k] = name] /\ pwInbox' = Append(pwInbox, e)
  BY <1>2 DEF Audio!Says
<1>5. VolCore(pwServer, pwInbox, toPw, pw)
  BY VolTypes
<1>6. e \in VolEvents /\ VolCore(pwServer', Append(pwInbox, e), toPw, pw)
  BY <1>3, <1>4, <1>5, VolMetaSaid
<1> HIDE DEF e
<1> QED
  BY <1>1, <1>4, <1>6, VolSaid

\* A request that asks for nothing more is dropped.
LEMMA VolCoreDropped ==
    ASSUME NEW s, NEW q, NEW r, NEW p, VolCore(s, q, r, p), r # <<>>,
           NEW x, x = Head(r),
           \/ x.op = "default"
           \/ x.op \in {"bind", "level"} /\ s.nodes[x.id] = Audio!NoNode
           \/ /\ x.op = "level" /\ s.nodes[x.id] # Audio!NoNode
              /\ ~Without(q, Params(x.id)) \/ x.level = s.nodes[x.id].level
    PROVE  VolCore(s, q, Tail(r), p)
<1>1. /\ r \in Seq(VolRequests) /\ s \in VolServers
      /\ \A i \in Audio!Ids : VolNode(i, s.nodes[i], i \in s.bound, p.nodes[i], q, r)
  BY VolCoreFacts
<1>2. x \in VolRequests /\ Tail(r) \in Seq(VolRequests)
  BY <1>1, Shrinks
<1>3. ASSUME NEW i \in Audio!Ids
      PROVE  VolNode(i, s.nodes[i], i \in s.bound, p.nodes[i], q, Tail(r))
  <2>1. VolNode(i, s.nodes[i], i \in s.bound, p.nodes[i], q, r)
    BY <1>1
  <2>2. CASE x \notin AsksOf(i)
    BY <1>1, <2>1, <2>2, VolServedAside
  <2>3. CASE x \in AsksOf(i) /\ s.nodes[i] = Audio!NoNode
    BY <1>1, <2>1, <2>3, VolDead
  <2>4. CASE x \in AsksOf(i) /\ s.nodes[i] # Audio!NoNode
    <3>1. x.op = "level" /\ x.id = i /\ x \in SetsOf(i)
      BY <1>2, <2>4 DEF AsksOf, BindsOf, SetsOf
    <3>2. i \in s.bound /\ p.nodes[i] # Audio!NoNode
      <4>1. (i \in s.bound) \in BOOLEAN
        BY VolCoreFacts
      <4>2. PICK b \in BOOLEAN : b = (i \in s.bound)
        BY <4>1
      <4>3. VolNode(i, s.nodes[i], b, p.nodes[i], q, r)
        BY <2>1, <4>2
      <4>4. b /\ p.nodes[i] # Audio!NoNode
        BY <1>1, <2>4, <3>1, <4>3, VolSetServed
      <4> QED
        BY <4>2, <4>4
    <3>3. (i \in s.bound) = TRUE
      BY <3>2
    <3>4. ~Without(q, Params(i)) \/ x.level = s.nodes[i].level
      BY <2>4, <3>1
    <3>5. VolNode(i, s.nodes[i], TRUE, p.nodes[i], q, r)
      BY <2>1, <3>3
    <3>6. VolNode(i, s.nodes[i], TRUE, p.nodes[i], q, Tail(r))
      BY <1>1, <2>4, <3>1, <3>2, <3>4, <3>5, VolDropped
    <3> QED
      BY <3>3, <3>6
  <2> QED
    BY <2>2, <2>3, <2>4
<1> QED
  BY <1>2, <1>3 DEF VolCore

\* A bind: the server tells the level, which is up.
LEMMA VolCoreBound ==
    ASSUME NEW s, NEW q, NEW r, NEW p, VolCore(s, q, r, p), r # <<>>,
           NEW id \in Audio!Ids, Head(r) \in BindsOf(id), s.nodes[id] # Audio!NoNode,
           NEW g, g = [s EXCEPT !.bound = s.bound \union {id}],
           NEW e, e = [op |-> "param", id |-> id, level |-> s.nodes[id].level]
    PROVE  e \in VolEvents /\ e \in Louds(id) /\ VolCore(g, Append(q, e), Tail(r), p)
<1>1. /\ r \in Seq(VolRequests) /\ s \in VolServers /\ q \in Seq(VolEvents) /\ Unique(s.nodes)
      /\ \A i \in Audio!Ids : VolNode(i, s.nodes[i], i \in s.bound, p.nodes[i], q, r)
  BY VolCoreFacts
<1>2. Tail(r) \in Seq(VolRequests)
  BY <1>1, Shrinks
<1>3. s.nodes[id].level \in {0, 1}
  <2>1. s.nodes[id] \in VolNodes
    BY <1>1 DEF VolServers
  <2> QED
    BY <2>1, VolNodeCases
<1>4. e \in VolEvents /\ e.op = "param" /\ e.id = id /\ e.level = s.nodes[id].level
  BY <1>3 DEF VolEvents
<1>5. /\ e \in AtLevel(Params(id), s.nodes[id].level) /\ e \in Params(id)
      /\ \A i : e \notin Comes(i) /\ e \notin Goes(i) /\ (e \in Params(i) => i = id)
  BY <1>4 DEF Comes, Goes, Params, AtLevel
<1>6. g \in VolServers /\ g.nodes = s.nodes /\ g.bound = s.bound \union {id} /\ g.default = s.default
  BY <1>1 DEF VolServers
<1>7. s.nodes[id].level = 1 /\ VolNode(id, s.nodes[id], TRUE, p.nodes[id], Append(q, e), Tail(r))
  <2>0. (id \in s.bound) \in BOOLEAN
    BY VolCoreFacts
  <2>1. PICK b \in BOOLEAN : b = (id \in s.bound)
    BY <2>0
  <2>2. VolNode(id, s.nodes[id], b, p.nodes[id], q, r)
    BY <1>1, <2>1
  <2> QED
    BY <1>1, <1>5, <2>2, VolBound
<1>8. ASSUME NEW i \in Audio!Ids
      PROVE  VolNode(i, g.nodes[i], i \in g.bound, p.nodes[i], Append(q, e), Tail(r))
  <2>1. CASE i = id
    <3>1. (i \in g.bound) = TRUE /\ g.nodes[i] = s.nodes[id]
      BY <1>6, <2>1
    <3> QED
      BY <1>7, <2>1, <3>1
  <2>2. CASE i # id
    <3>1. VolNode(i, s.nodes[i], i \in s.bound, p.nodes[i], Append(q, e), r)
      BY <1>1, <1>4, <1>5, <2>2, VolAside
    <3>2. Head(r) \notin AsksOf(i)
      BY <2>2 DEF AsksOf, BindsOf, SetsOf
    <3>3. VolNode(i, s.nodes[i], i \in s.bound, p.nodes[i], Append(q, e), Tail(r))
      BY <1>1, <3>1, <3>2, VolServedAside
    <3>4. (i \in g.bound) = (i \in s.bound) /\ g.nodes[i] = s.nodes[i]
      BY <1>6, <2>2
    <3> QED
      BY <3>3, <3>4
  <2> QED
    BY <2>1, <2>2
<1>9. VolCore(g, Append(q, e), Tail(r), p)
  BY <1>1, <1>2, <1>4, <1>6, <1>8, VolCoreSaid
<1> QED
  BY <1>4, <1>5, <1>7, <1>9 DEF Louds

LEMMA VolServeKeeps == VolInv /\ Audio!Serve => VolInv'
<1> SUFFICES ASSUME VolInv, Audio!Serve PROVE VolInv'
  OBVIOUS
<1> DEFINE x == Head(toPw)
<1>1. /\ toPw # <<>> /\ toPw' = Tail(toPw) /\ UNCHANGED <<pw, volPanel, volDirty, osd>>
  BY DEF Audio!Serve
<1>2. /\ toPw \in Seq(VolRequests) /\ pwServer \in VolServers /\ pwInbox \in Seq(VolEvents)
      /\ VolCore(pwServer, pwInbox, toPw, pw)
  BY VolTypes
<1>3. x \in VolRequests
  BY <1>1, <1>2, Shrinks
<1>4. \A S : x \notin S /\ ~Without(toPw, S) => ~Without(toPw', S)
  BY <1>1, <1>2, WithoutTail
<1>5. ASSUME x.op = "default"
      PROVE  VolInv'
  <2>1. VolCore(pwServer, pwInbox, Tail(toPw), pw)
    BY <1>1, <1>2, <1>5, VolCoreDropped
  <2>2. x \notin Due(pwServer) /\ \A i : x \notin BindsOf(i)
    BY <1>5 DEF Due, BindsOf
  <2>3. CASE x.name \in Audio!Alive(x.kind) /\ x.name # pwServer.default[x.kind]
    <3> DEFINE e == [op |-> "meta", kind |-> x.kind, name |-> x.name]
    <3>1. /\ pwServer' = [pwServer EXCEPT !.default[x.kind] = x.name]
          /\ pwInbox' = Append(pwInbox, e)
      BY <1>5, <2>3 DEF Audio!Serve, Audio!Says
    <3>2. x.kind \in Audio!Kinds /\ x.name \in VolNames
      BY <1>3, <1>5, VolAskSets DEF VolNames
    <3>3. e \in VolEvents /\ VolCore(pwServer', Append(pwInbox, e), Tail(toPw), pw)
      BY <2>1, <3>1, <3>2, VolMetaSaid
    <3> HIDE DEF e
    <3>4. \A i \in Audio!Ids : ~Without(toPw, BindsOf(i)) => ~Without(toPw', BindsOf(i))
      BY <1>4, <2>2
    <3> QED
      BY <1>1, <3>1, <3>3, <3>4, VolSaid
  <2>4. CASE ~(x.name \in Audio!Alive(x.kind) /\ x.name # pwServer.default[x.kind])
    <3>1. UNCHANGED <<pwServer, pwInbox>>
      BY <1>5, <2>4 DEF Audio!Serve
    <3> QED
      BY <1>1, <2>1, <2>2, <3>1, VolDroppedKeeps
  <2> QED
    BY <2>3, <2>4
<1>6. ASSUME x.op # "default", pwServer.nodes[x.id] = Audio!NoNode
      PROVE  VolInv'
  <2>1. UNCHANGED <<pwServer, pwInbox>>
    BY <1>6 DEF Audio!Serve
  <2>2. x.op \in {"bind", "level"} /\ x \notin Due(pwServer)
    BY <1>3, <1>6, VolAskSets DEF Due
  <2>3. VolCore(pwServer, pwInbox, Tail(toPw), pw)
    BY <1>1, <1>2, <1>6, <2>2, VolCoreDropped
  <2> QED
    BY <1>1, <2>1, <2>2, <2>3, VolDroppedKeeps
<1>7. ASSUME x.op = "bind", pwServer.nodes[x.id] # Audio!NoNode
      PROVE  VolInv'
  <2> DEFINE e == [op |-> "param", id |-> x.id, level |-> pwServer.nodes[x.id].level]
  <2>1. /\ pwServer' = [pwServer EXCEPT !.bound = @ \union {x.id}]
        /\ pwInbox' = Append(pwInbox, e)
    BY <1>7 DEF Audio!Serve, Audio!Says
  <2>2. x \in BindsOf(x.id) /\ x.id \in Audio!Ids /\ \A i : x \in BindsOf(i) => i = x.id
    BY <1>3, <1>7, VolAskSets DEF BindsOf
  <2>3. e \in VolEvents /\ e \in Louds(x.id) /\ VolCore(pwServer', Append(pwInbox, e), Tail(toPw), pw)
    BY <1>1, <1>2, <1>7, <2>1, <2>2, VolCoreBound
  <2> HIDE DEF e
  <2>4. \A i \in Audio!Ids : ~Without(toPw, BindsOf(i)) => ~Without(toPw', BindsOf(i)) \/ e \in Louds(i)
    BY <1>4, <2>2, <2>3
  <2> QED
    BY <1>1, <2>1, <2>3, <2>4, VolSaid
<1>8. ASSUME x.op = "level", pwServer.nodes[x.id] # Audio!NoNode
      PROVE  VolInv'
  <2>1. x \in SetsOf(x.id) /\ x.id \in Audio!Ids /\ x.level \in {0, 1} /\ \A i : x \notin BindsOf(i)
    BY <1>3, <1>8, VolAskSets DEF SetsOf, BindsOf
  <2>2. CASE pwServer.nodes[x.id].level = x.level
    <3>1. UNCHANGED <<pwServer, pwInbox>>
      BY <1>8, <2>2 DEF Audio!Serve
    <3>2. VolCore(pwServer, pwInbox, Tail(toPw), pw)
      BY <1>1, <1>2, <1>8, <2>2, VolCoreDropped
    <3>3. x \notin Due(pwServer)
      BY <1>8, <2>2 DEF Due
    <3> QED
      BY <1>1, <3>1, <3>2, <3>3, VolDroppedKeeps
  <2>3. CASE pwServer.nodes[x.id].level # x.level
    <3> DEFINE e == [op |-> "param", id |-> x.id, level |-> x.level]
    <3>1. /\ pwServer' = [pwServer EXCEPT !.nodes[x.id].level = x.level]
          /\ pwInbox' = Append(pwInbox, e)
      BY <1>8, <2>3 DEF Audio!Serve, Audio!Says
    <3>2. VolNode(x.id, pwServer.nodes[x.id], x.id \in pwServer.bound, pw.nodes[x.id], pwInbox, toPw)
      BY <1>2, <2>1, VolCoreFacts
    <3>3. x.id \in pwServer.bound /\ Without(toPw, BindsOf(x.id))
      <4>0. (x.id \in pwServer.bound) \in BOOLEAN
        BY <1>2, <2>1, VolCoreFacts
      <4>1. PICK b \in BOOLEAN : b = (x.id \in pwServer.bound)
        BY <4>0
      <4>2. VolNode(x.id, pwServer.nodes[x.id], b, pw.nodes[x.id], pwInbox, toPw)
        BY <3>2, <4>1
      <4> QED
        BY <1>1, <1>2, <1>8, <2>1, <4>1, <4>2, VolSetServed
    <3>4. /\ e \in VolEvents /\ e \in AtLevel(Params(x.id), x.level)
          /\ pwServer'.nodes[x.id] # Audio!NoNode
          /\ VolCore(pwServer', Append(pwInbox, e), toPw, pw)
      <4> HIDE DEF x
      <4>1. PICK l \in {0, 1} : l = x.level
        BY <2>1
      <4>2. PICK id \in Audio!Ids : id = x.id
        BY <2>1
      <4>3. /\ pwServer' = [pwServer EXCEPT !.nodes[id].level = l]
            /\ e = [op |-> "param", id |-> id, level |-> l]
        BY <3>1, <4>1, <4>2
      <4> HIDE DEF e
      <4>4. pwServer.nodes[id] # Audio!NoNode /\ id \in pwServer.bound /\ Without(toPw, BindsOf(id))
        BY <1>8, <3>3, <4>2
      <4>5. /\ e \in VolEvents /\ e \in AtLevel(Params(id), l)
            /\ pwServer'.nodes[id] # Audio!NoNode
            /\ VolCore(pwServer', Append(pwInbox, e), toPw, pw)
        BY <4>3, <4>4, VolLevelTold
      <4> QED
        BY <4>1, <4>2, <4>5
    <3> HIDE DEF e
    <3>5. ~Without(Append(pwInbox, e), Params(x.id))
      <4>1. e \in Params(x.id)
        BY <3>4 DEF AtLevel
      <4> QED
        BY <1>2, <3>4, <4>1, WithoutAppend
    <3>6. VolCore(pwServer', Append(pwInbox, e), Tail(toPw), pw)
      BY <1>1, <1>8, <3>4, <3>5, VolCoreDropped
    <3>7. \A i \in Audio!Ids : ~Without(toPw, BindsOf(i)) => ~Without(toPw', BindsOf(i))
      BY <1>4, <2>1
    <3> QED
      BY <1>1, <3>1, <3>4, <3>6, <3>7, VolSaid
  <2> QED
    BY <2>2, <2>3
<1>9. x.op \in {"default", "bind", "level"}
  BY <1>3, VolAskSets
<1> QED
  BY <1>5, <1>6, <1>7, <1>8, <1>9

LEMMA VolInitially == Audio!Init => VolInv
<1> SUFFICES ASSUME Audio!Init PROVE VolInv
  OBVIOUS
<1> DEFINE off == [i \in Audio!Ids |-> Audio!NoNode]
           z == [k \in Audio!Kinds |-> 0]
<1>1. /\ pwServer = [nodes |-> off, bound |-> {}, default |-> Audio!Unset]
      /\ pwInbox = <<>> /\ toPw = <<>>
      /\ pw = [nodes |-> off, name |-> Audio!Unset, id |-> z, changed |-> {}]
      /\ volDirty = FALSE /\ osd = [visible |-> FALSE, kind |-> "sink", level |-> 0]
  BY DEF Audio!Init
<1>2. PICK o \in BOOLEAN :
         volPanel = [open |-> o, selected |-> IF o THEN [Audio!NoTag EXCEPT !.kind = "sink"] ELSE Audio!NoTag,
                     painted |-> z]
  BY DEF Audio!Init
<1>3. off \in [Audio!Ids -> VolNodes] /\ \A i \in Audio!Ids : off[i] = Audio!NoNode
  BY DEF VolNodes
<1>4. z \in [Audio!Kinds -> {0, 1}] /\ z \in [Audio!Kinds -> Audio!Ids \union {0}]
      /\ \A k \in Audio!Kinds : z[k] = 0
  OBVIOUS
<1>5. Audio!Unset \in [Audio!Kinds -> VolNames] /\ \A k \in Audio!Kinds : Audio!Unset[k] = ""
  BY DEF Audio!Unset, VolNames
<1> HIDE DEF off, z
<1>6. /\ pwServer \in VolServers /\ pwServer.nodes = off /\ pwServer.default = Audio!Unset
      /\ \A i : (i \in pwServer.bound) = FALSE
  <2>1. pwServer.nodes = off /\ pwServer.default = Audio!Unset /\ pwServer.bound = {}
    BY <1>1
  <2>2. pwServer \in VolServers
    BY <1>1, <1>3, <1>5 DEF VolServers
  <2>3. \A i : (i \in pwServer.bound) = FALSE
    BY <2>1
  <2> QED
    BY <2>1, <2>2, <2>3
<1>7. /\ pw \in VolCopies /\ pw.nodes = off /\ pw.name = Audio!Unset /\ pw.id = z /\ pw.changed = {}
  BY <1>1, <1>3, <1>4, <1>5 DEF VolCopies
<1>8. 1..Len(<<>>) = {} /\ <<>> \in Seq(VolEvents) /\ <<>> \in Seq(VolRequests)
  OBVIOUS
<1>9. /\ \A S : Without(<<>>, S) /\ Once(<<>>, S)
      /\ \A S, T : LastFits(<<>>, S, T) /\ Ends(<<>>, S, T)
  BY <1>8 DEF Without, Once, LastFits, Ends
<1>10. ASSUME NEW i \in Audio!Ids
       PROVE  VolNode(i, pwServer.nodes[i], i \in pwServer.bound, pw.nodes[i], pwInbox, toPw)
  <2>1. VolNode(i, Audio!NoNode, FALSE, Audio!NoNode, <<>>, <<>>)
    BY <1>9 DEF VolNode
  <2> QED
    BY <1>1, <1>3, <1>6, <1>7, <2>1
<1>11. Unique(off)
  BY <1>3 DEF Unique
<1>12. VolOrder(pwInbox, pw.nodes)
  BY <1>1, <1>8 DEF VolOrder
<1>13. ASSUME NEW k \in Audio!Kinds PROVE VolDefault(k, pwServer, pwInbox, pw)
  <2>1. \A i \in Audio!Ids : pw.nodes[i].kind # k
    <3>1. "none" \notin Audio!Kinds /\ Audio!NoNode.kind = "none"
      BY VolNumbers DEF Audio!NoNode
    <3>2. \A i \in Audio!Ids : pw.nodes[i] = Audio!NoNode
      BY <1>3, <1>7
    <3> QED
      BY <3>1, <3>2
  <2> QED
    BY <1>1, <1>4, <1>5, <1>6, <1>7, <1>9, <2>1 DEF VolDefault
<1>14. VolCore(pwServer, pwInbox, toPw, pw)
  BY <1>1, <1>6, <1>7, <1>8, <1>10, <1>11, <1>12, <1>13 DEF VolCore
<1>15. volPanel \in VolPanels /\ volPanel.painted = z
  <2>1. PICK tag \in VolTags : tag = IF o THEN [Audio!NoTag EXCEPT !.kind = "sink"] ELSE Audio!NoTag
    <3>1. [Audio!NoTag EXCEPT !.kind = "sink"] = [kind |-> "sink", id |-> 0]
      BY DEF Audio!NoTag
    <3>2. [kind |-> "sink", id |-> 0] \in VolTags
      BY VolNumbers DEF VolTags
    <3>3. Audio!NoTag \in VolTags
      BY DEF VolTags
    <3>4. CASE o
      BY <3>1, <3>2, <3>4
    <3>5. CASE ~o
      BY <3>3, <3>5
    <3> QED
      BY <3>4, <3>5
  <2>2. volPanel = [open |-> o, selected |-> tag, painted |-> z]
    BY <1>2, <2>1
  <2> QED
    BY <1>4, <2>2 DEF VolPanels
<1>16. osd \in VolOsds /\ ~osd.visible
  <2>1. PICK b \in BOOLEAN : b = FALSE
    OBVIOUS
  <2>2. osd = [visible |-> b, kind |-> "sink", level |-> 0]
    BY <1>1, <2>1
  <2>3. "sink" \in Audio!Kinds
    BY VolNumbers
  <2> QED
    BY <2>1, <2>2, <2>3 DEF VolOsds
<1>17. \A k \in Audio!Kinds : volPanel.painted[k] = Audio!LevelOf(pw, k)
  BY <1>4, <1>7, <1>15 DEF Audio!LevelOf
<1>18. VolExcused(pwInbox, toPw, pw, volPanel, volDirty, osd) /\ VolStirs
  BY <1>16, <1>17 DEF VolExcused, VolStirs, Excused, Stirs
<1>19. VolTyped
  BY <1>1, <1>15, <1>16 DEF VolTyped
<1> QED
  BY <1>14, <1>18, <1>19 DEF VolInv

LEMMA VolStep == VolInv /\ Audio!Next => VolInv'
<1> SUFFICES ASSUME VolInv, Audio!Next PROVE VolInv'
  OBVIOUS
<1>1. AllKinds = Audio!Kinds \union {"stream"}
  BY DEF AllKinds
<1>2. CASE Audio!PipewirePoll \/ Audio!OsdHide \/ Audio!PaintPanel \/ Audio!Toggle \/ Audio!Serve
  BY <1>2, VolPollKeeps, VolHideKeeps, VolPaintKeeps, VolToggleKeeps, VolServeKeeps
<1>3. CASE \E tag \in Audio!Tags(pw) :
             Audio!MuteToggle(tag) \/ \E level \in Audio!Levels : Audio!DragSlider(tag, level)
  BY <1>3, VolMuteKeeps, VolDragKeeps
<1>4. CASE \E level \in Audio!Levels : Audio!ArrowKey(level) \/ Audio!Wheel(level)
  BY <1>4, VolArrowKeeps, VolWheelKeeps
<1>5. CASE \E id \in Audio!Ids : Audio!DeviceSelect(id) \/ Audio!Vanishes(id) \/ Audio!ElsewhereSet(id)
  BY <1>5, VolSelectKeeps, VolVanishesKeeps, VolElsewhereKeeps
<1>6. CASE \E id \in Audio!Ids, kind \in Audio!Kinds \union {"stream"} :
             \E name \in Audio!Named(kind) : Audio!Appears(id, kind, name)
  BY <1>1, <1>6, VolAppearsKeeps
<1>7. CASE \E k \in Audio!Kinds : Audio!Elect(k)
  BY <1>7, VolElectKeeps
<1> QED
  BY <1>2, <1>3, <1>4, <1>5, <1>6, <1>7 DEF Audio!Next

LEMMA VolStays == VolInv /\ UNCHANGED volVars => VolInv'
  BY DEF VolInv, VolTyped, VolStirs, volVars

LEMMA VolSettled == VolInv => Audio!TypeOK /\ Audio!DefaultResolved /\ Audio!Settles
<1> SUFFICES ASSUME VolInv PROVE Audio!TypeOK /\ Audio!DefaultResolved /\ Audio!Settles
  OBVIOUS
<1>1. /\ volPanel \in VolPanels /\ volDirty \in BOOLEAN /\ osd \in VolOsds /\ VolStirs
      /\ VolExcused(pwInbox, toPw, pw, volPanel, volDirty, osd)
      /\ VolCore(pwServer, pwInbox, toPw, pw)
  BY VolTypes
<1>2. /\ pwServer \in VolServers /\ pwInbox \in Seq(VolEvents) /\ toPw \in Seq(VolRequests)
      /\ pw \in VolCopies /\ Unique(pw.nodes)
      /\ \A i \in Audio!Ids : VolNode(i, pwServer.nodes[i], i \in pwServer.bound, pw.nodes[i], pwInbox, toPw)
      /\ \A i \in Audio!Ids : pw.nodes[i] \in VolNodes /\ pwServer.nodes[i] \in VolNodes
      /\ \A k \in Audio!Kinds : VolDefault(k, pwServer, pwInbox, pw)
  BY <1>1, VolCoreFacts
<1>3. VolServed(pw)
  BY <1>1, VolDefaultNode
<1>4. Audio!TypeOK
  <2>1. \A i \in Audio!Ids : pw.nodes[i].level \in Audio!Levels
    <3>1. \A i \in Audio!Ids : pw.nodes[i].level \in {0, 1}
      BY <1>2, VolNodeCases
    <3> QED
      BY <3>1, VolNumbers
  <2>2. pw.id \in [Audio!Kinds -> 0..MaxIds]
    <3>1. MaxIds \in Nat /\ Audio!Ids = 1..MaxIds
      BY VolNumbers
    <3>2. (1..MaxIds) \union {0} = 0..MaxIds
      BY ONLY <3>1
    <3> QED
      BY <1>2, <3>1, <3>2 DEF VolCopies
  <2>3. pw.changed \subseteq Audio!Kinds
    BY <1>2 DEF VolCopies
  <2>4. /\ volPanel.open \in BOOLEAN /\ volPanel.painted \in [Audio!Kinds -> Audio!Levels]
        /\ osd.visible \in BOOLEAN /\ osd.level \in Audio!Levels /\ osd.kind \in Audio!Kinds
    BY <1>1, VolNumbers DEF VolPanels, VolOsds
  <2>5. pwServer.bound \subseteq Audio!Present(pwServer.nodes)
    <3>1. \A i \in Audio!Ids : i \in pwServer.bound => pwServer.nodes[i] # Audio!NoNode
      BY <1>2 DEF VolNode
    <3>2. pwServer.bound \subseteq Audio!Ids
      BY <1>2 DEF VolServers
    <3> QED
      BY <3>1, <3>2 DEF Audio!Present
  <2> QED
    BY <1>1, <2>1, <2>2, <2>3, <2>4, <2>5 DEF Audio!TypeOK
<1>5. Audio!DefaultResolved
  <2> SUFFICES ASSUME NEW k \in Audio!Kinds
               PROVE  pw.id[k] = IF pw.name[k] = "" THEN 0 ELSE Audio!IdOf(pw, k, pw.name[k])
    BY DEF Audio!DefaultResolved
  <2> DEFINE n == pw.name[k]
             x == Audio!IdOf(pw, k, n)
  <2>1. n \in VolNames
    BY <1>2 DEF VolCopies
  <2>2. /\ x \in Audio!Ids \union {0}
        /\ x # 0 => pw.nodes[x].kind = k /\ pw.nodes[x].name = n
        /\ \A i \in Audio!Ids : pw.nodes[i].kind = k /\ pw.nodes[i].name = n => x = i
    <3> HIDE DEF n
    <3> QED
      BY <1>2, <2>1, VolIdOf
  <2> HIDE DEF x
  <2>3. CASE pw.id[k] # 0
    BY <1>3, <2>2, <2>3 DEF VolServed, x
  <2>4. CASE pw.id[k] = 0
    <3>1. \A i \in Audio!Ids : ~(pw.nodes[i].kind = k /\ pw.nodes[i].name = n)
      BY <1>2, <2>4 DEF VolDefault
    <3>2. x = 0
      BY <2>2, <3>1
    <3> QED
      BY <2>4, <3>2 DEF x
  <2> QED
    BY <2>3, <2>4
<1>6. ASSUME pwInbox = <<>>, toPw = <<>>, ~volDirty, \A k \in Audio!Kinds : Audio!Elected(k)
      PROVE  /\ pw.nodes = pwServer.nodes
             /\ pw.name = pwServer.default
             /\ volPanel.open => volPanel.painted = Audio!LevelsOf(pw)
             /\ osd.visible => osd.level = Audio!LevelOf(pw, osd.kind)
  <2>1. 1..Len(<<>>) = {}
    OBVIOUS
  <2>2. \A S : Without(pwInbox, S) /\ Without(toPw, S)
    BY <1>6, <2>1 DEF Without
  <2>3. ASSUME NEW i \in Audio!Ids PROVE pw.nodes[i] = pwServer.nodes[i]
    <3> DEFINE n == pw.nodes[i]
               h == pwServer.nodes[i]
    <3>1. VolNode(i, h, i \in pwServer.bound, n, pwInbox, toPw) /\ n \in VolNodes /\ h \in VolNodes
      BY <1>2
    <3> HIDE DEF n, h
    <3>2. CASE h = Audio!NoNode
      BY <2>2, <3>1, <3>2 DEF VolNode, n, h
    <3>3. CASE h # Audio!NoNode
      <4>1. n # Audio!NoNode /\ Same(n, h) /\ n.level = h.level
        BY <2>2, <3>1, <3>3 DEF VolNode
      <4>2. /\ n = [kind |-> n.kind, name |-> n.name, level |-> n.level]
            /\ h = [kind |-> h.kind, name |-> h.name, level |-> h.level]
        BY <3>1, VolNodeCases
      <4>3. n.kind = h.kind /\ n.name = h.name /\ n.level = h.level
        BY <4>1 DEF Same
      <4>4. n = h
        BY <4>2, <4>3
      <4> QED
        BY <4>4 DEF n, h
    <3> QED
      BY <3>2, <3>3
  <2>4. pw.nodes = pwServer.nodes
    BY <1>2, <2>3 DEF VolCopies, VolServers
  <2>5. \A k \in Audio!Kinds : pw.name[k] = pwServer.default[k]
    BY <1>2, <2>2 DEF VolDefault
  <2>6. pw.name = pwServer.default
    BY <1>2, <2>5 DEF VolCopies, VolServers
  <2>7. ASSUME NEW k \in Audio!Kinds PROVE ~Unserved(k, pw)
    <3> SUFFICES ASSUME pw.id[k] = 0, pw.name[k] # "" PROVE FALSE
      BY DEF Unserved
    <3>1. pwServer.default[k] \in Audio!Alive(k)
      BY <1>6, <2>5 DEF Audio!Elected
    <3>2. PICK i \in Audio!Ids : pwServer.nodes[i].kind = k /\ pwServer.nodes[i].name = pw.name[k]
      BY <2>5, <3>1 DEF Audio!Alive
    <3>3. VolDefault(k, pwServer, pwInbox, pw)
      BY <1>2
    <3>4. ~(pw.nodes[i].kind = k /\ pw.nodes[i].name = pw.name[k])
      BY <3>3 DEF VolDefault
    <3>5. pw.nodes[i] = pwServer.nodes[i]
      BY <2>3
    <3> QED
      BY <3>2, <3>4, <3>5
  <2>8. ASSUME NEW k \in Audio!Kinds, NEW v, Excused(k, v, pwInbox, toPw, pw),
               Stirs(k, v, pwServer, pwInbox, toPw, pw)
        PROVE  v = Audio!LevelOf(pw, k)
    BY <1>6, <2>2, <2>7, <2>8 DEF Excused, Stirs, Fresh
  <2>9. osd.visible => osd.level = Audio!LevelOf(pw, osd.kind)
    <3>1. osd.kind \in Audio!Kinds
      BY <1>1 DEF VolOsds
    <3> QED
      BY <1>1, <2>8, <3>1 DEF VolExcused, VolStirs
  <2>10. ASSUME volPanel.open PROVE volPanel.painted = Audio!LevelsOf(pw)
    <3>1. \A k \in Audio!Kinds : volPanel.painted[k] = Audio!LevelOf(pw, k)
      BY <1>1, <1>6, <2>8, <2>10 DEF VolExcused, VolStirs
    <3>2. volPanel.painted \in [Audio!Kinds -> {0, 1}]
      BY <1>1 DEF VolPanels
    <3> QED
      BY <3>1, <3>2 DEF Audio!LevelsOf
  <2> QED
    BY <2>4, <2>6, <2>9, <2>10
<1>7. Audio!Settles
  BY <1>6 DEF Audio!Settles
<1> QED
  BY <1>4, <1>5, <1>7

-----------------------------------------------------------------------------
(* The services together.  Each guest on its own satisfies what its part of *)
(* MCServices promises; MCSpec runs one of them, or the configuration, and  *)
(* leaves the others as they are.                                           *)

\* Bluetooth, by itself: at rest the shell shows what BlueZ exports, and the
\* adapter discovers while an open panel wants it.
THEOREM BluetoothFollows == BT!Spec => [](BT!Settles /\ BT!DiscoveryFollowsPanel)
<1>1. BtInv /\ UNCHANGED BT!vars => BtInv'
  BY BtStays DEF BT!vars, btVars
<1> QED
  BY <1>1, BtInitially, BtStep, BtSettled, PTL DEF BT!Spec

\* Media players, by themselves: at rest the shell has the players that are on
\* the bus and what each plays, and a poll of the one that stays is answered.
THEOREM MprisFollows == Player!Spec => [](Player!Settles /\ Player!PollAnswered)
<1>1. MpInv /\ UNCHANGED Player!vars => MpInv'
  BY MpStays DEF Player!vars, mpVars
<1> QED
  BY <1>1, MpInitially, MpStep, MpSettled, PTL DEF Player!Spec

\* The tray, by itself: an icon is a client of the bus or about to go, and an
\* open menu is that of an icon, at the size it was last asked to have.
THEOREM TrayFollows == Icons!Spec => [](Icons!ItemsFollowClients /\ Icons!MenuSettles)
<1>1. TrInv /\ UNCHANGED Icons!vars => TrInv'
  BY TrStays DEF Icons!vars, trVars
<1> QED
  BY <1>1, TrInitially, TrStep, TrSettled, PTL DEF Icons!Spec

\* Audio, by itself: the default is always the node with the default's name,
\* and at rest levels, defaults, panel and display are the server's.
THEOREM VolumeFollows == Audio!Spec => [](Audio!DefaultResolved /\ Audio!Settles)
<1>1. VolInv /\ UNCHANGED Audio!vars => VolInv'
  BY VolStays DEF Audio!vars, volVars
<1> QED
  BY <1>1, VolInitially, VolStep, VolSettled, PTL DEF Audio!Spec

\* The batteries, by themselves: at rest the shell has the devices UPower has,
\* with their charge.
THEOREM UPowerFollows == Power!Spec => []Power!Settles
<1>1. UpInv /\ UNCHANGED Power!vars => UpInv'
  BY UpStays DEF Power!vars, upVars
<1> QED
  BY <1>1, UpInitially, UpStep, UpSettled, PTL DEF Power!Spec

\* The text input, by itself: at rest the input method is on for the focused
\* field, and for no other.
THEOREM TextInputFollows == Ime!Spec => []Ime!ImeFollowsFocus
<1>1. ImeInv /\ UNCHANGED Ime!vars => ImeInv'
  BY ImeStays DEF Ime!vars, imeVars
<1> QED
  BY <1>1, ImeInitially, ImeStep, ImeSettled, PTL DEF Ime!Spec

\* What runs alone in a part runs there with its inductive invariant.
ServicesInv ==
    /\ part = "bluetooth" => BtInv
    /\ part = "mpris" => MpInv
    /\ part = "tray" => TrInv
    /\ part = "volume" => VolInv
    /\ part = "upower" => UpInv
    /\ part = "textinput" => ImeInv

LEMMA ServicesStart == MCInit => ServicesInv
<1> SUFFICES ASSUME MCInit PROVE ServicesInv
  OBVIOUS
<1>1. part = "bluetooth" => BtInv
  BY BtInitially DEF MCInit
<1>2. part = "mpris" => MpInv
  BY MpInitially DEF MCInit
<1>3. part = "tray" => TrInv
  BY TrInitially DEF MCInit
<1>4. part = "volume" => VolInv
  BY VolInitially DEF MCInit
<1>5. part = "upower" => UpInv
  BY UpInitially DEF MCInit
<1>6. part = "textinput" => ImeInv
  BY ImeInitially DEF MCInit
<1> QED
  BY <1>1, <1>2, <1>3, <1>4, <1>5, <1>6 DEF ServicesInv

LEMMA ServicesRest == ServicesInv /\ UNCHANGED <<part, guests>> => ServicesInv'
<1> SUFFICES ASSUME ServicesInv, UNCHANGED part, UNCHANGED guests PROVE ServicesInv'
  OBVIOUS
<1>1. /\ UNCHANGED btVars /\ UNCHANGED mpVars /\ UNCHANGED trVars
      /\ UNCHANGED volVars /\ UNCHANGED upVars /\ UNCHANGED imeVars
  BY DEF guests
<1> QED
  BY <1>1, BtStays, MpStays, TrStays, VolStays, UpStays, ImeStays DEF ServicesInv

LEMMA ServicesGuest == ServicesInv /\ Guest /\ UNCHANGED part => ServicesInv'
<1> SUFFICES ASSUME ServicesInv, Guest, UNCHANGED part PROVE ServicesInv'
  OBVIOUS
<1>1. part' = "bluetooth" => BtInv'
  BY BtStep DEF Guest, ServicesInv
<1>2. part' = "mpris" => MpInv'
  BY MpStep DEF Guest, ServicesInv
<1>3. part' = "tray" => TrInv'
  BY TrStep DEF Guest, ServicesInv
<1>4. part' = "volume" => VolInv'
  BY VolStep DEF Guest, ServicesInv
<1>5. part' = "upower" => UpInv'
  BY UpStep DEF Guest, ServicesInv
<1>6. part' = "textinput" => ImeInv'
  BY ImeStep DEF Guest, ServicesInv
<1> QED
  BY <1>1, <1>2, <1>3, <1>4, <1>5, <1>6 DEF ServicesInv

LEMMA ServicesStep == ServicesInv /\ [MCNext]_<<part, vars, guests>> => ServicesInv'
<1>1. Config /\ UNCHANGED part => UNCHANGED <<part, guests>>
  BY DEF Config
<1>2. UNCHANGED <<part, vars, guests>> => UNCHANGED <<part, guests>>
  OBVIOUS
<1> QED
  BY <1>1, <1>2, ServicesRest, ServicesGuest DEF MCNext

\* Whichever part runs, the configuration behaves as ConfigWatch says, so that
\* what is proved of its Spec holds of the services together.
THEOREM ConfigRuns == MCSpec => Spec
<1>1. MCInit => Init
  BY DEF MCInit
<1>2. [MCNext]_<<part, vars, guests>> => [Next]_vars
  BY DEF MCNext, Config, Guest
<1> QED
  BY <1>1, <1>2, PTL DEF MCSpec, Spec

\* Every part keeps the types of its variables.
THEOREM ServicesTypesCorrect == MCSpec => []TypesOK
<1>1. /\ BtInv => BT!TypeOK
      /\ MpInv => Player!TypeOK
      /\ TrInv => Icons!TypeOK
      /\ UpInv => Power!TypeOK
      /\ ImeInv => Ime!TypeOK
  BY DEF BtInv, MpInv, TrInv, UpInv, ImeInv
<1>2. ServicesInv /\ TypeOK => TypesOK
  BY <1>1, VolSettled DEF ServicesInv, TypesOK
<1>3. MCSpec => []TypeOK
  BY ConfigRuns, TypeCorrect, PTL
<1>4. MCSpec => []ServicesInv
  BY ServicesStart, ServicesStep, PTL DEF MCSpec
<1> QED
  BY <1>2, <1>3, <1>4, PTL

\* At rest every cache is what its service holds, in whatever order signals,
\* replies and requests crossed.
THEOREM CachesAlwaysFollow == MCSpec => []CachesFollow
<1>1. ServicesInv => CachesFollow
  BY BtSettled, MpSettled, TrSettled, VolSettled, UpSettled DEF ServicesInv, CachesFollow
<1> QED
  BY <1>1, ServicesStart, ServicesStep, PTL DEF MCSpec

\* Whatever the shell asked a service for is concluded: discovery, position
\* polls, the menu's size, the input method.
THEOREM RequestsAlwaysConclude == MCSpec => []RequestsConclude
<1>1. ServicesInv => RequestsConclude
  BY BtSettled, MpSettled, TrSettled, ImeSettled DEF ServicesInv, RequestsConclude
<1> QED
  BY <1>1, ServicesStart, ServicesStep, PTL DEF MCSpec
=============================================================================
