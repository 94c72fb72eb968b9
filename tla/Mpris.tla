------------------------------- MODULE Mpris -------------------------------
(* The MPRIS service: it finds the media players on the session bus, picks *)
(* one and follows it.  A scan lists the bus names and asks every player   *)
(* for its status; a new scan starts whenever a player comes or goes, so   *)
(* answers of older scans are still on their way.  A player answers its    *)
(* calls in order, different players in any order; what it sends before it *)
(* exits arrives before the notice that its name has no owner.             *)
EXTENDS Naturals, Sequences, FiniteSets

CONSTANTS
    Players,       \* bus names of media players
    MaxOwners,     \* processes that take or leave a name
    MaxToggles     \* changes of a playback status

VARIABLES
    owner,     \* the process that owns each name, 0 for none
    playing,   \* whether each player is playing
    calls,     \* calls on their way to the bus daemon and to the players
    inbox,     \* replies and signals on their way to the shell, in order
    mp,        \* MprisState
    mpWork     \* owner changes and toggles so far

vars == <<owner, playing, calls, inbox, mp, mpWork>>

NoPlayer == "none"
Bus == "bus"
Names == {p \in Players : owner[p] # 0}

(* proxy counts the replacements of state.player: a reply to a call made   *)
(* through an older proxy is never delivered.  since is the owner of the   *)
(* selected name when it was subscribed; no code reads it.                 *)
Blank == [player |-> NoPlayer, proxy |-> 0, since |-> 0, playing |-> FALSE,
          gen |-> 0, expected |-> 0, candidates |-> <<>>,
          inflight |-> FALSE, polled |-> 0]

\* The mark of a call is the scan, or the proxy, it was made for.
Call(op, mark) == [op |-> op, mark |-> mark]
Reply(call, from, err, on, names) ==
    [op |-> call.op, mark |-> call.mark, from |-> from, err |-> err, playing |-> on,
     names |-> names]
Notice(op, from, on) == Reply(Call(op, 0), from, FALSE, on, {})

BeginScan(m) == [m EXCEPT !.gen = @ + 1, !.expected = 0, !.candidates = <<>>]

Init ==
    /\ owner \in [Players -> {0, 1}]
    /\ playing \in [Players -> BOOLEAN]
    /\ \A p \in Players : playing[p] => owner[p] # 0
    /\ mp = BeginScan(Blank)
    /\ calls = [c \in Players \union {Bus} |-> IF c = Bus THEN <<Call("list", 1)>> ELSE <<>>]
    /\ inbox = <<>>
    /\ mpWork = [owners |-> 0, toggles |-> 0]

-----------------------------------------------------------------------------
(* The shell.                                                              *)
SelectPlayer(candidates) ==
    LET on == {i \in DOMAIN candidates : candidates[i].playing}
    IN  IF on = {} THEN candidates[1].name
        ELSE candidates[CHOOSE i \in on : \A j \in on : i <= j].name

CallPlayer(c, p, call) == [c EXCEPT ![p] = Append(@, call)]

SubscribePlayer(m, name) ==
    /\ mp' = [m EXCEPT !.player = name, !.proxy = @ + 1, !.since = owner[name]]
    /\ calls' = CallPlayer(calls, name, Call("status", m.proxy + 1))

FinishScan(m) ==
    IF m.candidates = <<>>
    THEN /\ mp' = [m EXCEPT !.player = NoPlayer, !.proxy = @ + 1, !.since = 0,
                            !.playing = FALSE]
         /\ UNCHANGED calls
    ELSE LET pick == SelectPlayer(m.candidates)
         IN  IF pick # m.player THEN SubscribePlayer(m, pick)
             ELSE mp' = m /\ UNCHANGED calls

NameOwnerChanged ==
    /\ mp' = BeginScan(mp)
    /\ calls' = CallPlayer(calls, Bus, Call("list", mp.gen + 1))

HearNames(msg) ==
    IF msg.mark # mp.gen THEN UNCHANGED <<mp, calls>>
    ELSE IF msg.names = {} THEN FinishScan([mp EXCEPT !.expected = 0])
    ELSE /\ mp' = [mp EXCEPT !.expected = Cardinality(msg.names)]
         /\ calls' = [c \in DOMAIN calls |->
                IF c \in msg.names THEN Append(calls[c], Call("scan", msg.mark))
                ELSE calls[c]]

ScanCollectAny(msg) ==            \* mutant: answers of an older scan count too
    LET m == [mp EXCEPT !.candidates =
                  Append(@, [name |-> msg.from, playing |-> ~msg.err /\ msg.playing])]
    IN  IF m.expected > 0 /\ Len(m.candidates) >= m.expected THEN FinishScan(m)
        ELSE mp' = m /\ UNCHANGED calls
(* A failed answer counts as a stopped player.                             *)
ScanCollect(msg) ==
    LET m == [mp EXCEPT !.candidates =
                  Append(@, [name |-> msg.from, playing |-> ~msg.err /\ msg.playing])]
    IN  IF msg.mark # mp.gen THEN UNCHANGED <<mp, calls>>
        ELSE IF m.expected > 0 /\ Len(m.candidates) >= m.expected THEN FinishScan(m)
        ELSE mp' = m /\ UNCHANGED calls

HearStatus(msg) ==
    /\ mp' = IF msg.mark = mp.proxy /\ ~msg.err THEN [mp EXCEPT !.playing = msg.playing]
             ELSE mp
    /\ UNCHANGED calls

PropertiesChanged(msg) ==
    /\ mp' = IF msg.from = mp.player THEN [mp EXCEPT !.playing = msg.playing] ELSE mp
    /\ UNCHANGED calls

HearPositionHolds(msg) ==         \* mutant: a failed reply keeps the poll in flight
    /\ mp' = IF msg.mark = mp.proxy /\ ~msg.err THEN [mp EXCEPT !.inflight = FALSE] ELSE mp
    /\ UNCHANGED calls
HearPosition(msg) ==
    /\ mp' = IF msg.mark = mp.proxy THEN [mp EXCEPT !.inflight = FALSE] ELSE mp
    /\ UNCHANGED calls

Hear ==
    /\ inbox # <<>>
    /\ LET msg == Head(inbox)
       IN  \/ msg.op = "owner" /\ NameOwnerChanged
           \/ msg.op = "list" /\ HearNames(msg)
           \/ msg.op = "scan" /\ ScanCollect(msg)
           \/ msg.op = "status" /\ HearStatus(msg)
           \/ msg.op = "changed" /\ PropertiesChanged(msg)
           \/ msg.op = "position" /\ HearPosition(msg)
           \/ msg.op = "toggle" /\ UNCHANGED <<mp, calls>>
    /\ inbox' = Tail(inbox)
    /\ UNCHANGED <<owner, playing, mpWork>>

PollPosition ==
    /\ mp.player # NoPlayer /\ ~mp.inflight
    /\ mp' = [mp EXCEPT !.inflight = TRUE, !.polled = mp.proxy]
    /\ calls' = CallPlayer(calls, mp.player, Call("position", mp.proxy))
    /\ UNCHANGED <<owner, playing, inbox, mpWork>>

PlayPause ==
    /\ mp.player # NoPlayer /\ mpWork.toggles < MaxToggles
    /\ mpWork' = [mpWork EXCEPT !.toggles = @ + 1]
    /\ calls' = CallPlayer(calls, mp.player, Call("toggle", mp.proxy))
    /\ UNCHANGED <<owner, playing, inbox, mp>>

-----------------------------------------------------------------------------
(* The bus and the players.                                                *)
(* A status that changes is told to the shell, if it is subscribed.         *)
Toggle(p) ==
    /\ playing' = [playing EXCEPT ![p] = ~@]
    /\ inbox' = IF mp.player = p THEN Append(inbox, Notice("changed", p, ~playing[p])) ELSE inbox

BusAnswers ==
    /\ calls[Bus] # <<>>
    /\ inbox' = Append(inbox, Reply(Head(calls[Bus]), Bus, FALSE, FALSE, Names))
    /\ calls' = [calls EXCEPT ![Bus] = Tail(@)]
    /\ UNCHANGED <<owner, playing, mp, mpWork>>

(* Nothing is read from the answer to PlayPause, and its error is logged.   *)
PlayerAnswers(p) ==
    /\ calls[p] # <<>>
    /\ IF Head(calls[p]).op = "toggle"
       THEN IF owner[p] # 0 THEN Toggle(p) ELSE UNCHANGED <<playing, inbox>>
       ELSE /\ inbox' = Append(inbox, Reply(Head(calls[p]), p, owner[p] = 0, playing[p], {}))
            /\ UNCHANGED playing
    /\ calls' = [calls EXCEPT ![p] = Tail(@)]
    /\ UNCHANGED <<owner, mp, mpWork>>

PlayerToggles(p) ==
    /\ owner[p] # 0 /\ mpWork.toggles < MaxToggles
    /\ mpWork' = [mpWork EXCEPT !.toggles = @ + 1]
    /\ Toggle(p)
    /\ UNCHANGED <<owner, calls, mp>>

OwnerChange ==
    /\ mpWork.owners < MaxOwners
    /\ mpWork' = [mpWork EXCEPT !.owners = @ + 1]
    /\ UNCHANGED mp

PlayerStarts(p) ==
    /\ OwnerChange /\ owner[p] = 0
    /\ owner' = [owner EXCEPT ![p] = mpWork.owners + 2]
    /\ inbox' = Append(inbox, Notice("owner", Bus, FALSE))
    /\ UNCHANGED <<playing, calls>>

(* The calls it did not answer fail.                                       *)
PlayerExits(p) ==
    /\ OwnerChange /\ owner[p] # 0
    /\ owner' = [owner EXCEPT ![p] = 0]
    /\ playing' = [playing EXCEPT ![p] = FALSE]
    /\ LET failed == [i \in DOMAIN calls[p] |-> Reply(calls[p][i], p, TRUE, FALSE, {})]
       IN  inbox' = Append(inbox \o failed, Notice("owner", Bus, FALSE))
    /\ calls' = [calls EXCEPT ![p] = <<>>]

Next ==
    \/ Hear \/ PollPosition \/ PlayPause \/ BusAnswers
    \/ \E p \in Players : PlayerAnswers(p) \/ PlayerToggles(p)
                          \/ PlayerStarts(p) \/ PlayerExits(p)

Spec == Init /\ [][Next]_vars

-----------------------------------------------------------------------------
Called == {"list", "scan", "status", "position", "toggle"}
Calls == [op : Called, mark : Nat]
Messages == [op : Called \union {"owner", "changed"}, mark : Nat, from : Players \union {Bus},
             err : BOOLEAN, playing : BOOLEAN, names : SUBSET Players]

TypeOK ==
    /\ owner \in [Players -> 0..(MaxOwners + 1)] /\ playing \in [Players -> BOOLEAN]
    /\ calls \in [Players \union {Bus} -> Seq(Calls)] /\ inbox \in Seq(Messages)
    /\ mp \in [player : Players \union {NoPlayer}, proxy : Nat, since : 0..(MaxOwners + 1),
               playing : BOOLEAN, gen : Nat, expected : 0..Cardinality(Players),
               candidates : Seq([name : Players, playing : BOOLEAN]),
               inflight : BOOLEAN, polled : Nat]
    /\ Len(mp.candidates) <= Cardinality(Players)
    /\ mpWork \in [owners : 0..MaxOwners, toggles : 0..MaxToggles]

(* When nothing is under way the shell follows a player that is there, if  *)
(* one is, and shows its status; only a name taken over by a new process   *)
(* between two scans may still show the old one's.                         *)
Quiet == inbox = <<>> /\ \A c \in DOMAIN calls : calls[c] = <<>>
Settles ==
    Quiet =>
        /\ IF Names = {} THEN mp.player = NoPlayer /\ ~mp.playing
           ELSE mp.player \in Names
        /\ mp.player # NoPlayer /\ mp.since = owner[mp.player]
              => mp.playing = playing[mp.player]

(* A position request that was made to the current player is answered or   *)
(* still under way: polling never stops while the player stays selected.   *)
PollAnswered ==
    mp.inflight /\ mp.polled = mp.proxy =>
        \/ \E i \in DOMAIN inbox : inbox[i].op = "position" /\ inbox[i].mark = mp.proxy
        \/ \E i \in DOMAIN calls[mp.player] :
              LET c == calls[mp.player][i] IN c.op = "position" /\ c.mark = mp.proxy
=============================================================================
