--------------------------- MODULE NetworkService ---------------------------
(***************************************************************************)
(* The network service (service/network_service.cpp, wired to the main     *)
(* loop by NetworkService in app/service_registry.cpp).  NetworkManager's  *)
(* property changes arrive as signals; everything else is asked of nmcli   *)
(* commands, each on a core/async_process handle.  A scan is a chain of    *)
(* three commands: the saved profiles, the cached list, a forced scan.     *)
(*                                                                         *)
(* A handle is seen as AsyncProcess guarantees it: the last run started is *)
(* the one that reports, a cancelled one never does, and "done" means the  *)
(* descriptor stays readable until it is polled.  Networks are numbered in *)
(* the order of the map that holds them; 0 is no network.  Left out: signal*)
(* strength, security, passwords, notifications and error texts, and the   *)
(* two commands on the side, device status and connectivity check, whose   *)
(* answers feed nothing modelled here.                                     *)
(***************************************************************************)
EXTENDS Naturals, Sequences, FiniteSets

CONSTANTS
    Networks,     \* numbers of the networks around, 0 excluded
    StartWorlds,  \* the states of the machine the service may start in
    MaxInputs,    \* bound: requests of the user, changes of the machine
    MaxFaults     \* bound: steps in which a command cannot be started

VARIABLES
    net,        \* NetworkState
    world,      \* the radio, access points, cable and profiles NetworkManager sees
    signals,    \* PropertiesChanged signals not yet dispatched
    inputs, faults

vars == <<net, world, signals, inputs, faults>>

Chain == {"profile", "quick", "scan"}
Requests == {"connect", "disconnect", "forget"}
Commands == Chain \union Requests
Ssids == Networks \union {0}

\* Who is on the air: a connection is to a network in range, with the radio on.
World ==
    {w \in [radio : BOOLEAN, active : Ssids, range : SUBSET Networks,
            profiles : SUBSET Networks] :
        /\ w.active \in w.range \union {0}
        /\ ~w.radio => w.range = {}}

List == [known : SUBSET Networks, connected : SUBSET Networks,
         existing : SUBSET Networks, range : SUBSET Networks]

EmptyList == [known |-> {}, connected |-> {}, existing |-> {}, range |-> {}]

Replies == {"none", "activated", "secrets", "failed"}

\* What a finished command wrote: the part of the world it shows, or a reply.
Answer == [active : Ssids, range : SUBSET Networks, profiles : SUBSET Networks,
           reply : Replies]

Blank == [active |-> 0, range |-> {}, profiles |-> {}, reply |-> "none"]

Signal == [radio : BOOLEAN, keys : SUBSET {"WirelessEnabled", "ActiveConnections"}]

NetworkState ==
    [cmd : [Commands -> {"idle", "running", "done"}],
     on : SUBSET Commands,              \* the x_running flags
     out : [Commands -> Answer],        \* the handles' buffers
     job : [Requests -> Ssids],         \* the network the command is about
     arg : [Requests -> Ssids],         \* connect_ssid, ..., while under way
     refused : SUBSET Commands,         \* history: the last start failed
     missed : BOOLEAN,                  \* history: the radio's last signal
                                        \* came before the first tick
     networks : List, profiles : SUBSET Networks,
     wifi : BOOLEAN, scanning : BOOLEAN, scanPending : BOOLEAN, rescan : BOOLEAN,
     debounce : BOOLEAN, connecting : BOOLEAN, initDone : BOOLEAN]

TypeOK ==
    /\ net \in NetworkState
    /\ world \in World
    /\ signals \in Seq(Signal)
    /\ inputs \in 0..MaxInputs
    /\ faults \in 0..MaxFaults
-----------------------------------------------------------------------------
\* async_process_start, flag included; F are the commands that cannot be
\* started now: such a start leaves the handle as it was.
Started(s, c, F) ==
    IF c \in F
    THEN [s EXCEPT !.on = @ \ {c}, !.refused = @ \union {c}]
    ELSE [s EXCEPT !.on = @ \union {c}, !.refused = @ \ {c},
                   !.cmd[c] = "running", !.out[c] = Blank]

StartIfIdle(s, c, F) == IF c \in s.on THEN s ELSE Started(s, c, F)

Requested(s, c, n, F) ==
    LET asked == [s EXCEPT !.arg[c] = n]
    IN  IF c \in F THEN Started(asked, c, F)
        ELSE [Started(asked, c, F) EXCEPT !.job[c] = n]

\* async_process_poll of a finished command, flag included; what the handle
\* held is not read again.
Polled(s, c) == [s EXCEPT !.on = @ \ {c}, !.cmd[c] = "idle", !.out[c] = Blank]

Busy(s) == Chain \intersect s.on # {}

\* network_scan.
Scan(s, F) ==
    IF ~s.wifi THEN s
    ELSE IF Busy(s) THEN [s EXCEPT !.scanPending = TRUE]
    ELSE [StartIfIdle(s, "profile", F) EXCEPT !.scanning = TRUE]

ScheduleRescan(s) == [s EXCEPT !.rescan = TRUE]

\* network_init.
Fresh(w) ==
    [cmd |-> [c \in Commands |-> "idle"], on |-> {},
     out |-> [c \in Commands |-> Blank],
     job |-> [c \in Requests |-> 0], arg |-> [c \in Requests |-> 0],
     refused |-> {}, missed |-> FALSE,
     networks |-> EmptyList, profiles |-> {},
     wifi |-> w.radio, scanning |-> FALSE, scanPending |-> FALSE,
     rescan |-> FALSE, debounce |-> FALSE, connecting |-> FALSE,
     initDone |-> FALSE]

Init ==
    /\ world \in StartWorlds
    /\ net = Fresh(world)
    /\ signals = <<>>
    /\ inputs = MaxInputs
    /\ faults = MaxFaults

\* A step of the service: what it does when the starts of F fail.
Step(Handler(_)) ==
    \/ net' = Handler({}) /\ UNCHANGED faults
    \/ /\ faults > 0
       /\ faults' = faults - 1
       /\ \E c \in Commands :
             net' = Handler({c}) /\ net'.refused # Handler({}).refused
-----------------------------------------------------------------------------
\* Mutant of Parsed: no access point in use counts as a network.
ParsedKeepsNone(a, profiles) ==
    [known |-> a.range \union profiles,
     connected |-> {a.active},
     existing |-> profiles,
     range |-> a.range]

\* network_parse_networks: the access points listed, then the saved profiles.
Parsed(a, profiles) ==
    [known |-> a.range \union profiles,
     connected |-> {a.active} \ {0},
     existing |-> profiles,
     range |-> a.range]

Visible(l) ==
    {n \in l.known : n \in l.connected \/ n \notin l.existing \/ n \in l.range}

\* network_scan_would_collapse.
WouldCollapse(s, parsed) ==
    /\ Cardinality(parsed.range) = 1
    /\ parsed.range \subseteq parsed.connected
    /\ Cardinality(Visible(s.networks)) > 1

\* network_poll_profile.
PollProfile(F) ==
    LET names == net.out["profile"].profiles
        s == [Polled(net, "profile") EXCEPT !.profiles = names]
        filled == IF s.networks.known = {}
                  THEN [s EXCEPT !.networks =
                          [EmptyList EXCEPT !.known = names, !.existing = names]]
                  ELSE s
    IN  IF ~s.wifi THEN [s EXCEPT !.scanning = FALSE]
        ELSE StartIfIdle(filled, "quick", F)

\* network_poll_quick_scan.
PollQuick(F) ==
    LET s == Polled(net, "quick")
        quick == Parsed(net.out["quick"], s.profiles)
    IN  IF ~s.wifi THEN [s EXCEPT !.scanning = FALSE]
        ELSE StartIfIdle(IF quick.range # {} THEN [s EXCEPT !.networks = quick]
                         ELSE s, "scan", F)

\* Mutant of PollScan: the collapsed list of a forced scan is taken.
PollScanCollapses(F) ==
    LET s == Polled(net, "scan")
        parsed == Parsed(net.out["scan"], s.profiles)
        listed == [s EXCEPT !.networks = parsed]
        next == IF s.scanPending
                THEN [listed EXCEPT !.scanPending = FALSE, !.scanning = FALSE]
                ELSE IF s.wifi /\ listed.networks.range = {} THEN listed
                ELSE [listed EXCEPT !.scanning = FALSE]
    IN  ScheduleRescan(next)

\* Mutant of PollScan: a pending scan is not scheduled.
PollScanForgets(F) ==
    LET s == Polled(net, "scan")
        parsed == Parsed(net.out["scan"], s.profiles)
        listed == IF WouldCollapse(s, parsed) THEN s
                  ELSE [s EXCEPT !.networks = parsed]
    IN  IF s.scanPending
        THEN [listed EXCEPT !.scanPending = FALSE, !.scanning = FALSE]
        ELSE ScheduleRescan([listed EXCEPT !.scanning = FALSE])

\* network_poll_scan.
PollScan(F) ==
    LET s == Polled(net, "scan")
        parsed == Parsed(net.out["scan"], s.profiles)
        listed == IF WouldCollapse(s, parsed) THEN s
                  ELSE [s EXCEPT !.networks = parsed]
        next == IF s.scanPending
                THEN [listed EXCEPT !.scanPending = FALSE, !.scanning = FALSE]
                ELSE IF s.wifi /\ listed.networks.range = {} THEN listed
                ELSE [listed EXCEPT !.scanning = FALSE]
    IN  ScheduleRescan(next)

\* Mutant of PollConnect: connecting is reset by a success only.
PollConnectOnSuccess(F) ==
    LET s == [Polled(net, "connect") EXCEPT !.arg["connect"] = 0]
        n == net.arg["connect"]
    IN  IF net.out["connect"].reply = "activated" /\ n \in s.networks.known
        THEN ScheduleRescan([s EXCEPT !.networks.connected = @ \union {n},
                                      !.networks.existing = @ \union {n},
                                      !.connecting = FALSE])
        ELSE ScheduleRescan(s)

\* network_poll_connect.
PollConnect(F) ==
    LET s == [Polled(net, "connect") EXCEPT !.arg["connect"] = 0]
        n == net.arg["connect"]
        answered ==
            CASE net.out["connect"].reply = "activated" /\ n \in s.networks.known ->
                     [s EXCEPT !.networks.connected = @ \union {n},
                               !.networks.existing = @ \union {n}]
              [] net.out["connect"].reply = "secrets" -> Requested(s, "forget", n, F)
              [] OTHER -> s
    IN  ScheduleRescan([answered EXCEPT !.connecting = FALSE])

\* network_poll_disconnect.
PollDisconnect(F) ==
    ScheduleRescan([Polled(net, "disconnect") EXCEPT
                        !.networks.connected = @ \ {net.arg["disconnect"]},
                        !.arg["disconnect"] = 0])

\* network_poll_forget.
PollForget(F) ==
    ScheduleRescan([Polled(net, "forget") EXCEPT
                        !.networks.existing = @ \ {net.arg["forget"]},
                        !.arg["forget"] = 0])

\* A descriptor is readable: the handler of its command runs.  With its flag
\* down the handler returns before it has read anything.
Poll(c) ==
    /\ net.cmd[c] = "done" /\ c \in net.on
    /\ \/ c = "profile" /\ Step(PollProfile)
       \/ c = "quick" /\ Step(PollQuick)
       \/ c = "scan" /\ Step(PollScan)
       \/ c = "connect" /\ Step(PollConnect)
       \/ c = "disconnect" /\ Step(PollDisconnect)
       \/ c = "forget" /\ Step(PollForget)
    /\ UNCHANGED <<world, signals, inputs>>
-----------------------------------------------------------------------------
Input == inputs > 0 /\ inputs' = inputs - 1

\* The refresh button, the bar's pill opening the panel.
ScanNow(F) == Scan(net, F)

\* network_connect.
Connect(n, F) ==
    IF net.connecting THEN net
    ELSE Requested([net EXCEPT !.connecting = TRUE], "connect", n, F)

\* network_disconnect, network_forget: over whatever command still runs.
Disconnect(n, F) == Requested(net, "disconnect", n, F)
Forget(n, F) == Requested(net, "forget", n, F)

\* The panel: its dialogs may outlive the row they were opened on.
User ==
    /\ Input
    /\ \/ Step(ScanNow)
       \/ \E n \in Networks :
             \/ Step(LAMBDA F : Connect(n, F))
             \/ Step(LAMBDA F : Disconnect(n, F))
             \/ Step(LAMBDA F : Forget(n, F))
    /\ UNCHANGED <<world, signals>>

\* What changes on the machine is told by a signal, the access points in range
\* and the saved profiles excepted.
Becomes(w) ==
    /\ world' = w
    /\ signals' =
        LET keys == (IF w.radio # world.radio THEN {"WirelessEnabled"} ELSE {})
                    \union (IF w.active # world.active THEN {"ActiveConnections"} ELSE {})
        IN  IF keys = {} THEN signals
            ELSE Append(signals, [radio |-> w.radio, keys |-> keys])

Radio(on) ==
    IF on THEN [world EXCEPT !.radio = TRUE]
    ELSE [world EXCEPT !.radio = FALSE, !.active = 0, !.range = {}]

\* network_set_wifi_enabled, from the panel's toggle; NetworkManager obeys.
SetWifiEnabled ==
    /\ Input
    /\ Becomes(Radio(~net.wifi))
    /\ UNCHANGED <<net, faults>>

\* The radio's switch, other programs, the cable, access points: also what an
\* nmcli command does whose handle was given to a later one.
WorldChanges ==
    /\ Input
    /\ \E w \in World :
          /\ \/ w = Radio(~world.radio)
             \/ w = [world EXCEPT !.active = w.active]
             \/ w = [world EXCEPT !.range = w.range, !.active = w.active]
                  /\ w.active \in {0, world.active}
             \/ w = [world EXCEPT !.profiles = w.profiles]
          /\ w # world
          /\ Becomes(w)
    /\ UNCHANGED <<net, faults>>

\* What nmcli answers, and does.  A forced scan may list nothing but the access
\* point in use.
Results(c) ==
    CASE c = "profile" -> {[w |-> world, a |-> [Blank EXCEPT !.profiles = world.profiles]]}
      [] c = "quick" -> {[w |-> world, a |-> [Blank EXCEPT !.active = world.active,
                                                          !.range = world.range]]}
      [] c = "scan" ->
            {[w |-> world, a |-> [Blank EXCEPT !.active = world.active, !.range = r]] :
                r \in {world.range} \union
                        (IF world.active = 0 THEN {} ELSE {{world.active}})}
      [] c = "connect" ->
            LET n == net.job[c]
            IN  {[w |-> world, a |-> [Blank EXCEPT !.reply = r]] :
                    r \in {"secrets", "failed"}}
                \union
                (IF n \in world.range
                 THEN {[w |-> [world EXCEPT !.active = n, !.profiles = @ \union {n}],
                        a |-> [Blank EXCEPT !.reply = "activated"]]}
                 ELSE {})
      [] c \in {"disconnect", "forget"} ->
            LET n == net.job[c]
                gone == IF world.active = n THEN [world EXCEPT !.active = 0] ELSE world
            IN  {[w |-> IF c = "forget" THEN [gone EXCEPT !.profiles = @ \ {n}]
                        ELSE gone,
                  a |-> Blank]}

CommandEnds(c) ==
    /\ net.cmd[c] = "running"
    /\ \E r \in Results(c) :
          /\ net' = IF c \in Chain
                    THEN [net EXCEPT !.cmd[c] = "done", !.out[c] = r.a]
                    ELSE [net EXCEPT !.cmd[c] = "done", !.out[c] = r.a,
                                     !.job[c] = 0]
          /\ Becomes(r.w)
    /\ UNCHANGED <<inputs, faults>>

\* Mutant of RadioChanged: the forced scan is left running.
RadioChangedKeepsScan(s, enabled) ==
    IF ~s.initDone THEN [s EXCEPT !.missed = enabled # s.wifi]
    ELSE IF enabled = s.wifi THEN [s EXCEPT !.missed = FALSE]
    ELSE IF enabled THEN [s EXCEPT !.missed = FALSE, !.wifi = TRUE, !.scanning = TRUE, !.debounce = TRUE]
    ELSE [s EXCEPT !.missed = FALSE, !.wifi = FALSE, !.scanning = FALSE, !.networks = EmptyList,
                   !.on = @ \ {"profile", "quick"},
                   !.cmd = [c \in Commands |-> IF c \in {"profile", "quick"} THEN "idle"
                                               ELSE s.cmd[c]],
                   !.out = [c \in Commands |-> IF c \in {"profile", "quick"} THEN Blank
                                               ELSE s.out[c]]]

\* Mutant of RadioChanged: the flags are cleared, the commands not cancelled.
RadioChangedFlagsOnly(s, enabled) ==
    IF ~s.initDone THEN [s EXCEPT !.missed = enabled # s.wifi]
    ELSE IF enabled = s.wifi THEN [s EXCEPT !.missed = FALSE]
    ELSE IF enabled THEN [s EXCEPT !.missed = FALSE, !.wifi = TRUE, !.scanning = TRUE, !.debounce = TRUE]
    ELSE [s EXCEPT !.missed = FALSE, !.wifi = FALSE, !.scanning = FALSE,
                   !.networks = EmptyList, !.on = @ \ Chain]

\* The WirelessEnabled part of the PropertiesChanged handler.
RadioChanged(s, enabled) ==
    IF ~s.initDone THEN [s EXCEPT !.missed = enabled # s.wifi]
    ELSE IF enabled = s.wifi THEN [s EXCEPT !.missed = FALSE]
    ELSE IF enabled THEN [s EXCEPT !.missed = FALSE, !.wifi = TRUE, !.scanning = TRUE, !.debounce = TRUE]
    ELSE [s EXCEPT !.missed = FALSE, !.wifi = FALSE, !.scanning = FALSE, !.networks = EmptyList,
                   !.on = @ \ Chain,
                   !.cmd = [c \in Commands |-> IF c \in Chain THEN "idle" ELSE s.cmd[c]],
                   !.out = [c \in Commands |-> IF c \in Chain THEN Blank ELSE s.out[c]]]

\* The handler network_init registers for PropertiesChanged.
PropertiesChanged(sig, F) ==
    LET s == IF "WirelessEnabled" \in sig.keys THEN RadioChanged(net, sig.radio)
             ELSE net
    IN  IF "ActiveConnections" \in sig.keys THEN ScheduleRescan(s) ELSE s

Dispatch ==
    /\ signals # <<>>
    /\ Step(LAMBDA F : PropertiesChanged(Head(signals), F))
    /\ signals' = Tail(signals)
    /\ UNCHANGED <<world, inputs>>

\* network_tick, once 500 ms have passed since network_init ...
FirstTick(F) == Scan([net EXCEPT !.initDone = TRUE], F)

\* ... and afterwards, due when the time of the next scan has come.
Ticked(due, F) ==
    LET enabled == IF net.debounce THEN Scan([net EXCEPT !.debounce = FALSE], F)
                   ELSE net
    IN  IF net.rescan /\ due THEN Scan([enabled EXCEPT !.rescan = FALSE], F)
        ELSE enabled

Tick(due) ==
    /\ IF net.initDone THEN Step(LAMBDA F : Ticked(due, F)) ELSE Step(FirstTick)
    /\ UNCHANGED <<world, signals, inputs>>

Next ==
    \/ User \/ SetWifiEnabled \/ WorldChanges
    \/ Dispatch
    \/ \E due \in BOOLEAN : Tick(due)
    \/ \E c \in Commands : Poll(c) \/ CommandEnds(c)

\* The main loop ticks, serves descriptors and the bus; nmcli commands end.
Fairness ==
    /\ WF_vars(Dispatch) /\ WF_vars(Tick(TRUE))
    /\ \A c \in Commands : WF_vars(Poll(c)) /\ WF_vars(CommandEnds(c))

Spec == Init /\ [][Next]_vars /\ Fairness
-----------------------------------------------------------------------------
\* Turning the radio off wins over every answer still under way: no stage of a
\* scan is left that could fill the list again, and the list stays empty.
WifiOffIsEmpty ==
    ~net.wifi => /\ net.networks.known = {} /\ ~Busy(net)
                 /\ \A c \in Chain : net.cmd[c] = "idle"

\* The chain never runs two stages at once, and while the radio is on another
\* scan is always under way or scheduled, unless a stage could not be started.
ScanKeepsComing ==
    /\ \A c, d \in Chain \intersect net.on : c = d
    /\ net.initDone /\ net.wifi /\ Chain \intersect net.refused = {}
         => Busy(net) \/ net.rescan \/ net.debounce

\* The main loop does not spin: the descriptor of a finished command is read by
\* its handler, unless that command's restart was refused while it ran.
ReadableIsRead ==
    \A c \in Commands :
        net.cmd[c] = "done" => c \in net.on \/ c \in net.refused

\* A connection attempt that was started is over some day, and with it the
\* spinner and the ban on the next one.
ConnectAnswered ==
    (net.connecting /\ "connect" \notin net.refused) ~> ~net.connecting

Agrees ==
    /\ net.wifi = world.radio
    /\ net.networks = IF net.wifi
                       THEN Parsed([active |-> world.active, range |-> world.range],
                                   world.profiles)
                       ELSE EmptyList

\* Once the machine is left alone the list ends up showing it, however the
\* answers of scans, connects and disconnects crossed before; unless the radio
\* changed before the first tick, or a stage could not be started.
ListSettles ==
    <>[](Agrees \/ net.missed \/ Chain \intersect net.refused # {})
=============================================================================
