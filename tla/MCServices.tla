----------------------------- MODULE MCServices -----------------------------
(* The services, one at a time: `part' says which of them runs.  They share  *)
(* the main loop but no state, so that each is checked against every order   *)
(* of its own events; the variables of the others are `Off'.  While another  *)
(* part runs the configuration rests in one of its initial states, where     *)
(* none of its fair actions is enabled.                                      *)
EXTENDS ConfigWatch, FiniteSets

CONSTANTS
    Adapters, Devices, MaxChanges, MaxClicks, MaxTraffic,     \* of Bluetooth
    Players, MaxOwners, MaxToggles,                           \* of Mpris
    Clients, MaxLayout, MaxMenuClicks,                        \* of Tray
    Sinks, Sources, Streams, MaxIds, MaxTurns, MaxInputs,     \* of Volume
    SystemBatteries, Peripherals, MaxPowerChanges,            \* of UPower
    Surfaces, NoSurface, MaxFocusMoves, MaxImeEdits           \* of TextInput

VARIABLES
    part,
    bluez, asked, told, bt, btPanel, stale, btWork,
    owner, playing, calls, inbox, mp, mpWork,
    client, trCalls, trInbox, tray, menu, owed, trClicks,
    pwServer, pwInbox, toPw, pw, volPanel, volDirty, osd, volWork,
    upowerd, upCalls, upInbox, upower, battery, upWork,
    ime, imeServer, imeEvents, imeRequests, imeWork

BT == INSTANCE Bluetooth
Player == INSTANCE Mpris
Icons == INSTANCE Tray WITH MaxClicks <- MaxMenuClicks, ConfigureFirst <- TRUE
Audio == INSTANCE Volume
Power == INSTANCE UPower
Ime == INSTANCE TextInput WITH MaxEdits <- MaxImeEdits

btVars == <<bluez, asked, told, bt, btPanel, stale, btWork>>
mpVars == <<owner, playing, calls, inbox, mp, mpWork>>
trVars == <<client, trCalls, trInbox, tray, menu, owed, trClicks>>
volVars == <<pwServer, pwInbox, toPw, pw, volPanel, volDirty, osd, volWork>>
upVars == <<upowerd, upCalls, upInbox, upower, battery, upWork>>
imeVars == <<ime, imeServer, imeEvents, imeRequests, imeWork>>
guests == <<btVars, mpVars, trVars, volVars, upVars, imeVars>>

\* The bounds are numbers, the things a service has are finitely many, no name
\* is that of something else, and adapters have an order.
ASSUME ServicesAssumption ==
    /\ {MaxOwners, MaxToggles, MaxPowerChanges, MaxFocusMoves, MaxImeEdits,
        MaxTraffic, MaxIds} \subseteq Nat
    /\ MaxLayout \in Nat \ {0}
    /\ Adapters \subseteq Nat \ {0}
    /\ IsFiniteSet(Players) /\ {"none", "bus"} \intersect Players = {}
    /\ IsFiniteSet(SystemBatteries \union Peripherals)
    /\ {"display", "manager", "nobody"} \intersect (SystemBatteries \union Peripherals) = {}
    /\ "" \notin Sinks \union Sources
    /\ NoSurface \notin Surfaces

Off == "off"

MCInit ==
    /\ part \in {"config", "bluetooth", "mpris", "tray", "volume", "upower", "textinput"}
    /\ Init /\ (part = "config" \/ file = Missing)
    /\ IF part = "bluetooth" THEN BT!Init
       ELSE /\ bluez = Off /\ asked = Off /\ told = Off /\ bt = Off
            /\ btPanel = Off /\ stale = Off /\ btWork = Off
    /\ IF part = "mpris" THEN Player!Init
       ELSE /\ owner = Off /\ playing = Off /\ calls = Off
            /\ inbox = Off /\ mp = Off /\ mpWork = Off
    /\ IF part = "tray" THEN Icons!Init
       ELSE /\ client = Off /\ trCalls = Off /\ trInbox = Off /\ tray = Off
            /\ menu = Off /\ owed = Off /\ trClicks = Off
    /\ IF part = "volume" THEN Audio!Init
       ELSE /\ pwServer = Off /\ pwInbox = Off /\ toPw = Off /\ pw = Off
            /\ volPanel = Off /\ volDirty = Off /\ osd = Off /\ volWork = Off
    /\ IF part = "upower" THEN Power!Init
       ELSE /\ upowerd = Off /\ upCalls = Off /\ upInbox = Off
            /\ upower = Off /\ battery = Off /\ upWork = Off
    /\ IF part = "textinput" THEN Ime!Init
       ELSE /\ ime = Off /\ imeServer = Off /\ imeEvents = Off
            /\ imeRequests = Off /\ imeWork = Off

Config == part = "config" /\ Next /\ UNCHANGED guests
Guest ==
    /\ part # "config" /\ UNCHANGED vars
    /\ IF part = "bluetooth" THEN BT!Next ELSE UNCHANGED btVars
    /\ IF part = "mpris" THEN Player!Next ELSE UNCHANGED mpVars
    /\ IF part = "tray" THEN Icons!Next ELSE UNCHANGED trVars
    /\ IF part = "volume" THEN Audio!Next ELSE UNCHANGED volVars
    /\ IF part = "upower" THEN Power!Next ELSE UNCHANGED upVars
    /\ IF part = "textinput" THEN Ime!Next ELSE UNCHANGED imeVars

MCNext == (Config \/ Guest) /\ UNCHANGED part

MCSpec == MCInit /\ [][MCNext]_<<part, vars, guests>> /\ Fairness

(* Every part keeps the types of its variables. *)
TypesOK ==
    /\ TypeOK
    /\ part = "bluetooth" => BT!TypeOK
    /\ part = "mpris" => Player!TypeOK
    /\ part = "tray" => Icons!TypeOK
    /\ part = "volume" => Audio!TypeOK
    /\ part = "upower" => Power!TypeOK
    /\ part = "textinput" => Ime!TypeOK

(* At rest the shell shows what the services hold, although each cache is    *)
(* patched by signals and replaced by replies that cross them: bluetooth     *)
(* (BT!Settles) against refreshes older than a connect, the player           *)
(* (Player!Settles) against overlapping scans, the tray                      *)
(* (Icons!ItemsFollowClients) against names lost before their properties     *)
(* came, the sinks (Audio!DefaultResolved, Audio!Settles) against defaults   *)
(* named before their node, the batteries (Power!Settles) against devices    *)
(* that go while they are read.                                              *)
CachesFollow ==
    /\ part = "bluetooth" => BT!Settles
    /\ part = "mpris" => Player!Settles
    /\ part = "tray" => Icons!ItemsFollowClients
    /\ part = "volume" => Audio!DefaultResolved /\ Audio!Settles
    /\ part = "upower" => Power!Settles

(* Whatever the shell asked for is concluded: discovery runs while the       *)
(* bluetooth panel wants it (BT!DiscoveryFollowsPanel), a position poll of   *)
(* the player that stays is answered (Player!PollAnswered), an open tray     *)
(* menu takes its last size and is painted (Icons!MenuSettles), and the      *)
(* input method is enabled for the focused field (Ime!ImeFollowsFocus).      *)
RequestsConclude ==
    /\ part = "bluetooth" => BT!DiscoveryFollowsPanel
    /\ part = "mpris" => Player!PollAnswered
    /\ part = "tray" => Icons!MenuSettles
    /\ part = "textinput" => Ime!ImeFollowsFocus
=============================================================================
