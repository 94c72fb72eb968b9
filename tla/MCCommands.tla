---------------------------- MODULE MCCommands -----------------------------
(* The handles of core/async_process, and the service that runs most of      *)
(* them: `part' says which of the two moves.  The other rests where none of  *)
(* its fair actions is enabled: a handle that was never started, and a       *)
(* network service whose radio is off and which has nothing to do.           *)
EXTENDS AsyncProcess

CONSTANTS Networks, StartWorlds, MaxInputs, MaxFaults

VARIABLES part, net, world, signals, inputs, faults

Wifi == INSTANCE NetworkService

ASSUME CommandsAssumption ==
    /\ StartWorlds \subseteq Wifi!World
    /\ MaxInputs \in Nat /\ MaxFaults \in Nat

\* Every network around is in range or none is, one of them is saved; the radio
\* may be off, the machine connected.
FirstSaved ==
    {w \in [radio : BOOLEAN, active : {0, 1}, range : {{}, Networks}, profiles : {{1}}] :
        /\ w.active \in w.range \union {0}
        /\ ~w.radio => w.range = {}}

networkVars == <<net, world, signals, inputs, faults>>

MCInit ==
    /\ part \in {"handles", "network"} /\ Init
    /\ IF part = "network" THEN Wifi!Init
       ELSE LET off == [radio |-> FALSE, active |-> 0, range |-> {}, profiles |-> {}]
            IN  /\ world = off /\ net = [Wifi!Fresh(off) EXCEPT !.initDone = TRUE]
                /\ signals = <<>> /\ inputs = 0 /\ faults = 0

MCNext ==
    /\ UNCHANGED part
    /\ \/ part = "handles" /\ Next /\ UNCHANGED networkVars
       \/ part = "network" /\ Wifi!Next /\ UNCHANGED vars

MCSpec ==
    MCInit /\ [][MCNext]_<<part, vars, networkVars>> /\ Fairness /\ Wifi!Fairness

(* The service keeps the types of its variables. *)
TypesOK == Wifi!TypeOK

(* Turning the radio off wins over every answer under way (RadioChanged).    *)
WifiOffIsEmpty == Wifi!WifiOffIsEmpty

(* No stage of the scan and no descriptor is left lying: while the radio is  *)
(* on another scan comes, and the main loop never spins on a finished        *)
(* command (PollScan, RadioChanged).                                         *)
NothingStuck == Wifi!ScanKeepsComing /\ Wifi!ReadableIsRead

(* What is asked of a command is concluded: its exit is noticed by the       *)
(* caller (Deliver), a connect is over some day, and the list ends up        *)
(* showing the machine (PollConnect, PollScan).                              *)
RequestsConclude == ExitIsNoticed /\ Wifi!ConnectAnswered /\ Wifi!ListSettles
=============================================================================
