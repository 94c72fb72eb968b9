--------------------------- MODULE MCWorkersProofs ---------------------------
(***************************************************************************)
(* Proofs about the deferred calls, and about the guests of MCWorkers one  *)
(* at a time: the ids and the cards of the notifications, the life of the  *)
(* monitors, the screensavers, the windows of rain and visualizer, the     *)
(* wallpaper grid and the wallpaper itself.  Each guest has an inductive   *)
(* invariant of its own, a lemma for its start and one for its steps; the  *)
(* theorems about MCSpec join them, since a step of one part leaves the    *)
(* variables of the others as they are.                                    *)
(***************************************************************************)
EXTENDS WallpaperProofs

\* The type invariant of the call_later / drain machine.
THEOREM TypeCorrect == Spec => []TypeOK
<1> USE DeferredCallAssumption DEF Posters, MainPC, TypeOK
<1>1. Init => TypeOK
  BY DEF Init
<1>2. TypeOK /\ [Next]_vars => TypeOK'
  <2> SUFFICES ASSUME TypeOK, [Next]_vars
               PROVE  TypeOK'
    OBVIOUS
  <2>1. ASSUME NEW w \in Workers, WorkerPush(w)
        PROVE  TypeOK'
    BY <2>1 DEF WorkerPush, Push
  <2>2. ASSUME NEW w \in Workers, WorkerWrite(w)
        PROVE  TypeOK'
    BY <2>2 DEF WorkerWrite, WriteByte
  <2>3. CASE Wake
    BY <2>3 DEF Wake
  <2>4. CASE Stop
    BY <2>4 DEF Stop
  <2>5. CASE ReadPipe
    BY <2>5 DEF ReadPipe
  <2>6. CASE SwapPending
    BY <2>6 DEF SwapPending
  <2>7. CASE RunCall
    BY <2>7 DEF RunCall
  <2>8. CASE CallPush
    BY <2>8 DEF CallPush, Push
  <2>9. CASE CallWrite
    BY <2>9 DEF CallWrite, WriteByte
  <2>10. CASE CallReturn
    BY <2>10 DEF CallReturn
  <2>11. CASE DrainDone
    BY <2>11 DEF DrainDone
  <2>12. CASE UNCHANGED vars
    BY <2>12 DEF vars
  <2> QED
    BY <2>1, <2>2, <2>3, <2>4, <2>5, <2>6, <2>7, <2>8, <2>9, <2>10, <2>11,
       <2>12 DEF Next, MainStep
<1> QED
  BY <1>1, <1>2, PTL DEF Spec

-----------------------------------------------------------------------------
\* No interleaving of call_later and drain leaves a callback waiting behind
\* an empty pipe that nobody is about to write to.
THEOREM NeverLosesWakeup == Spec => []NoLostWakeup
<1> USE DeferredCallAssumption
<1>1. Init => NoLostWakeup
  BY DEF Init, NoLostWakeup
<1>2. TypeOK /\ NoLostWakeup /\ [Next]_vars => NoLostWakeup'
  <2> SUFFICES ASSUME TypeOK, NoLostWakeup, [Next]_vars
               PROVE  NoLostWakeup'
    OBVIOUS
  <2> USE DEF TypeOK, NoLostWakeup
  <2>1. ASSUME NEW w \in Workers, WorkerPush(w)
        PROVE  NoLostWakeup'
    <3>1. w \in Workers /\ wpc'[w] = "pushed"
      BY <2>1 DEF WorkerPush
    <3> QED
      BY <3>1
  <2>2. ASSUME NEW w \in Workers, WorkerWrite(w)
        PROVE  NoLostWakeup'
    <3>1. fd_ok => pipe' > 0
      BY <2>2 DEF WorkerWrite, WriteByte
    <3> QED
      BY <2>2, <3>1 DEF WorkerWrite
  <2>3. CASE Wake
    BY <2>3 DEF Wake
  <2>4. CASE Stop
    BY <2>4 DEF Stop
  <2>5. CASE ReadPipe
    BY <2>5 DEF ReadPipe
  <2>6. CASE SwapPending
    BY <2>6 DEF SwapPending
  <2>7. CASE RunCall
    BY <2>7 DEF RunCall
  <2>8. CASE CallPush
    BY <2>8 DEF CallPush, Push
  <2>9. CASE CallWrite
    <3>1. fd_ok => pipe' > 0
      BY <2>9 DEF CallWrite, WriteByte
    <3> QED
      BY <2>9, <3>1 DEF CallWrite
  <2>10. CASE CallReturn
    BY <2>10 DEF CallReturn
  <2>11. CASE DrainDone
    BY <2>11 DEF DrainDone
  <2>12. CASE UNCHANGED vars
    BY <2>12 DEF vars
  <2> QED
    BY <2>1, <2>2, <2>3, <2>4, <2>5, <2>6, <2>7, <2>8, <2>9, <2>10, <2>11,
       <2>12 DEF Next, MainStep
<1> QED
  BY <1>1, <1>2, TypeCorrect, PTL DEF Spec

-----------------------------------------------------------------------------
\* Appending to the second of two sequences appends to their concatenation.
LEMMA AppendConcat ==
  ASSUME NEW S, NEW s \in Seq(S), NEW t \in Seq(S), NEW e \in S
  PROVE  s \o Append(t, e) = Append(s \o t, e)
<1>1. Append(t, e) = t \o <<e>> /\ Append(s \o t, e) = (s \o t) \o <<e>>
  BY AppendIsConcat, ConcatProperties
<1>2. (s \o t) \o <<e>> = s \o (t \o <<e>>)
  BY ConcatAssociative
<1> QED
  BY <1>1, <1>2

\* Taking the head of a non-empty first sequence takes the head of the
\* concatenation.
LEMMA TailConcat ==
  ASSUME NEW S, NEW s \in Seq(S), NEW t \in Seq(S), s # <<>>
  PROVE  s \o t # <<>> /\ Tail(s \o t) = Tail(s) \o t
<1>1. s \o t # <<>>
  BY ConcatEqualIffEmpty
<1>2. /\ Tail(s \o t) \in Seq(S)
      /\ Tail(s) \o t \in Seq(S)
  BY <1>1
<1>3. Len(Tail(s \o t)) = Len(Tail(s) \o t)
  BY <1>1
<1>4. \A i \in 1..Len(Tail(s \o t)) : Tail(s \o t)[i] = (Tail(s) \o t)[i]
  BY <1>1
<1> QED
  BY <1>1, <1>2, <1>3, <1>4, SeqEqual

\* Where the main thread is tells what the local vector of drain holds.
LEMMA DrainLocalHolds == Spec => []DrainLocal
<1>1. Init => DrainLocal
  BY DEF Init, DrainLocal
<1>2. TypeOK /\ DrainLocal /\ [Next]_vars => DrainLocal'
  BY DEF TypeOK, DrainLocal, Next, MainStep, WorkerPush, WorkerWrite, Push,
     Wake, Stop, ReadPipe, SwapPending, RunCall, CallPush, CallWrite,
     CallReturn, DrainDone, vars
<1> QED
  BY <1>1, <1>2, TypeCorrect, PTL DEF Spec

\* Safety of the refinement: each step of the pipe-and-mutex machine is a
\* Post, a Run or the Close of the abstract mailbox, or leaves it alone; so
\* callbacks run once each and in the order of their pushes.
THEOREM RefinesMailbox == Spec => Queue!Init /\ [][Queue!Next]_(Queue!vars)
<1> USE DeferredCallAssumption
<1>1. Init => Queue!Init
  BY DEF Init, Queue!Init, Posters
<1>2. TypeOK /\ DrainLocal /\ [Next]_vars => [Queue!Next]_(Queue!vars)
  <2> SUFFICES ASSUME TypeOK, DrainLocal, [Next]_vars
               PROVE  [Queue!Next]_(Queue!vars)
    OBVIOUS
  <2> DEFINE C == Posters \X Nat
  <2>0. /\ fns \in Seq(C) /\ pending \in Seq(C)
        /\ \A p \in Posters : <<p, sent[p] + 1>> \in C
    BY DEF TypeOK
  <2>1. ASSUME NEW p \in Posters, Push(p), UNCHANGED <<fd_ok, fns>>,
               (pc' = "exit") <=> (pc = "exit")
        PROVE  Queue!Next
    <3>1. fns \o Append(pending, <<p, sent[p] + 1>>)
            = Append(fns \o pending, <<p, sent[p] + 1>>)
      BY <2>0, AppendConcat
    <3>2. Queue!Post(p)
      BY <2>1, <3>1 DEF Push, Queue!Post
    <3> QED
      BY <3>2 DEF Queue!Next
  <2>2. ASSUME UNCHANGED <<fns, pending, sent, fd_ok>>,
               (pc' = "exit") <=> (pc = "exit")
        PROVE  UNCHANGED Queue!vars
    BY <2>2 DEF Queue!vars
  <2>3. ASSUME UNCHANGED <<fns, pending, sent, fd_ok>>,
               pc' = "exit", pc # "exit"
        PROVE  [Queue!Next]_(Queue!vars)
    <3>1. CASE fd_ok
      <4>1. Queue!Close
        BY <2>3, <3>1 DEF Queue!Close
      <4> QED
        BY <4>1 DEF Queue!Next
    <3>2. CASE ~fd_ok
      <4>1. UNCHANGED <<fns \o pending, sent, fd_ok /\ pc # "exit">>
        BY <2>3, <3>2
      <4> QED
        BY <4>1 DEF Queue!vars
    <3> QED
      BY <3>1, <3>2
  <2>4. ASSUME NEW w \in Workers, WorkerPush(w)
        PROVE  Queue!Next
    BY <2>1, <2>4 DEF WorkerPush, Posters
  <2>5. ASSUME NEW w \in Workers, WorkerWrite(w)
        PROVE  UNCHANGED Queue!vars
    BY <2>2, <2>5 DEF WorkerWrite
  <2>6. CASE Wake
    BY <2>2, <2>6 DEF Wake
  <2>7. CASE Stop
    BY <2>2, <2>3, <2>7 DEF Stop
  <2>8. CASE ReadPipe
    BY <2>2, <2>8 DEF ReadPipe
  <2>9. CASE SwapPending
    <3>1. fns = <<>>
      BY <2>9 DEF SwapPending, DrainLocal
    <3>2. fns \o pending = pending /\ pending \o <<>> = pending
      BY <2>0, <3>1, ConcatEmptySeq
    <3>3. UNCHANGED <<fns \o pending, sent, fd_ok /\ pc # "exit">>
      BY <2>9, <3>2 DEF SwapPending
    <3> QED
      BY <3>3 DEF Queue!vars
  <2>10. CASE RunCall
    <3>1. /\ fns \o pending # <<>>
          /\ Tail(fns \o pending) = Tail(fns) \o pending
      BY <2>0, <2>10, TailConcat DEF RunCall
    <3>2. fd_ok
      BY <2>10 DEF RunCall, DrainLocal
    <3>3. Queue!Run
      BY <2>10, <3>1, <3>2 DEF RunCall, Queue!Run
    <3> QED
      BY <3>3 DEF Queue!Next
  <2>11. CASE CallPush
    BY <2>1, <2>11 DEF CallPush, Posters
  <2>12. CASE CallWrite
    BY <2>2, <2>12 DEF CallWrite
  <2>13. CASE CallReturn
    BY <2>2, <2>13 DEF CallReturn
  <2>14. CASE DrainDone
    BY <2>2, <2>3, <2>14 DEF DrainDone
  <2>15. CASE UNCHANGED vars
    BY <2>2, <2>15 DEF vars
  <2> QED
    BY <2>4, <2>5, <2>6, <2>7, <2>8, <2>9, <2>10, <2>11, <2>12, <2>13, <2>14,
       <2>15 DEF Next, MainStep
<1> QED
  BY <1>1, <1>2, TypeCorrect, DrainLocalHolds, PTL DEF Spec
-----------------------------------------------------------------------------
(* The ids of notifications.                                               *)

(* Until next_id has overflowed it is above every id in use, so an id that *)
(* is given out is free: s is NotificationService.                         *)
IdsAbove(s) ==
    /\ s = [records |-> s.records, nextId |-> s.nextId, wrapped |-> s.wrapped,
            clash |-> s.clash]
    /\ s.wrapped \in BOOLEAN /\ s.clash \in BOOLEAN
    /\ s.clash => s.wrapped
    /\ ~s.wrapped => /\ s.nextId \in 1..MaxId
                     /\ \A i \in DOMAIN s.records : i < s.nextId /\ i \in Nat

(* Below its divisor a number is its own remainder.                        *)
LEMMA SmallRemainder ==
    ASSUME NEW n \in Nat, NEW m \in Nat, n < m
    PROVE  n % m = n
OBVIOUS

(* notification_service_push, with an id that is named or given out.       *)
LEMMA PushKeepsIds ==
    ASSUME NEW s, IdsAbove(s), NEW id \in Cards!Ids, NEW text, NEW timeout
    PROVE  IdsAbove(Cards!Push(s, id, text, timeout))
<1> DEFINE n == IF id = 0 THEN s.nextId ELSE id
           counted == id = 0 \/ id >= s.nextId
           t == Cards!Push(s, id, text, timeout)
<1>1. /\ DOMAIN t.records = {n} \union DOMAIN s.records
      /\ t.nextId = IF counted THEN (n + 1) % (MaxId + 1) ELSE s.nextId
      /\ t.wrapped = (s.wrapped \/ (counted /\ n = MaxId))
      /\ t.clash = (s.clash \/ (id = 0 /\ n \in DOMAIN s.records))
      /\ t = [records |-> t.records, nextId |-> t.nextId, wrapped |-> t.wrapped,
              clash |-> t.clash]
  BY DEF Cards!Push
<1> SUFFICES IdsAbove(t)
  OBVIOUS
<1> HIDE DEF t
<1>2. MaxId \in Nat /\ id \in 0..MaxId
  BY WorkersAssumption DEF WorkersAssumption, Cards!Ids
<1>3. CASE s.wrapped
  BY <1>1, <1>3 DEF IdsAbove
<1>4. CASE ~s.wrapped
  <2>1. /\ s.nextId \in 1..MaxId /\ ~s.clash
        /\ \A i \in DOMAIN s.records : i < s.nextId /\ i \in Nat
    BY <1>4 DEF IdsAbove
  <2>2. n \in 1..MaxId
    BY <1>2, <2>1
  <2>3. t.clash = FALSE
    <3>1. ~(id = 0 /\ n \in DOMAIN s.records)
      BY <1>2, <2>1, <2>2
    <3>2. s.clash = FALSE
      BY <2>1 DEF IdsAbove
    <3> QED
      BY ONLY <1>1, <3>1, <3>2
  <2>4. CASE counted /\ n = MaxId
    BY <1>1, <2>3, <2>4 DEF IdsAbove
  <2>5. CASE counted /\ n # MaxId
    <3>1. t.nextId = n + 1 /\ n + 1 \in 1..MaxId
      <4>1. n + 1 \in Nat /\ MaxId + 1 \in Nat /\ n + 1 < MaxId + 1 /\ n + 1 \in 1..MaxId
        BY <1>2, <2>2, <2>5
      <4> QED
        BY ONLY <1>1, <2>5, <4>1, SmallRemainder
    <3>2. \A i \in DOMAIN t.records : i < n + 1 /\ i \in Nat
      BY <1>1, <2>1, <2>2, <2>5
    <3>3. t.wrapped = FALSE
      BY <1>1, <1>4, <2>5
    <3> QED
      BY <1>1, <2>3, <3>1, <3>2, <3>3 DEF IdsAbove
  <2>6. CASE ~counted
    <3>1. \A i \in DOMAIN t.records : i < s.nextId /\ i \in Nat
      BY <1>1, <1>2, <2>1, <2>2, <2>6
    <3>2. t.wrapped = FALSE /\ t.nextId = s.nextId
      BY <1>1, <1>4, <2>6
    <3> QED
      BY <1>1, <2>1, <2>3, <3>1, <3>2 DEF IdsAbove
  <2> QED
    BY <2>4, <2>5, <2>6
<1> QED
  BY <1>3, <1>4

(* Records that go leave next_id where it is.                              *)
LEMMA WithoutKeepsIds ==
    ASSUME NEW s, IdsAbove(s), NEW ids
    PROVE  IdsAbove(Cards!Without(s, ids))
<1> DEFINE t == Cards!Without(s, ids)
<1>1. /\ DOMAIN t.records \subseteq DOMAIN s.records
      /\ t.nextId = s.nextId /\ t.wrapped = s.wrapped /\ t.clash = s.clash
      /\ t = [records |-> t.records, nextId |-> t.nextId, wrapped |-> t.wrapped,
              clash |-> t.clash]
  BY DEF Cards!Without, IdsAbove
<1> HIDE DEF t
<1> QED
  BY <1>1 DEF IdsAbove, t

(* A message of the bus.                                                   *)
LEMMA HandledKeepsIds ==
    ASSUME NEW s, IdsAbove(s), NEW msg \in Cards!Message
    PROVE  IdsAbove(Cards!Handled(s, msg))
<1>1. CASE msg.kind = "notify"
  <2>1. msg.id \in Cards!Ids
    BY <1>1 DEF Cards!Message
  <2> QED
    BY <1>1, <2>1, PushKeepsIds DEF Cards!Handled
<1>2. CASE msg.kind # "notify"
  BY <1>2, WithoutKeepsIds DEF Cards!Handled, Cards!Close
<1> QED
  BY <1>1, <1>2

LEMMA IdsInitially == Cards!Init => IdsAbove(service)
<1> SUFFICES ASSUME Cards!Init PROVE IdsAbove(service)
  OBVIOUS
<1>1. service = [records |-> <<>>, nextId |-> 1, wrapped |-> FALSE, clash |-> FALSE]
  BY DEF Cards!Init
<1>2. MaxId \in Nat \ {0} /\ DOMAIN <<>> = {}
  BY WorkersAssumption DEF WorkersAssumption
<1> QED
  BY <1>1, <1>2 DEF IdsAbove

LEMMA IdsStep == IdsAbove(service) /\ Cards!Next => IdsAbove(service')
<1> SUFFICES ASSUME IdsAbove(service), Cards!Next PROVE IdsAbove(service')
  OBVIOUS
<1>1. CASE Cards!BusReady
  <2>1. PICK first \in Cards!Message :
          \/ service' = Cards!Handled(service, first)
          \/ \E second \in Cards!Message :
                service' = Cards!Handled(Cards!Handled(service, first), second)
    BY <1>1 DEF Cards!BusReady, Cards!Refresh
  <2>2. IdsAbove(Cards!Handled(service, first))
    BY HandledKeepsIds
  <2> QED
    BY <2>1, <2>2, HandledKeepsIds
<1>2. CASE Cards!OwnNotification
  <2>1. 0 \in Cards!Ids
    BY WorkersAssumption DEF WorkersAssumption, Cards!Ids
  <2>2. PICK text \in Texts : service' = Cards!Push(service, 0, text, Cards!MaxTimeout)
    BY <1>2 DEF Cards!OwnNotification, Cards!Refresh
  <2> QED
    BY <2>1, <2>2, PushKeepsIds
<1>3. CASE Cards!Sweep
  BY <1>3, WithoutKeepsIds DEF Cards!Sweep, Cards!Refresh
<1>4. CASE Cards!TimePasses
  <2>1. /\ DOMAIN service'.records = DOMAIN service.records
        /\ service'.nextId = service.nextId /\ service'.wrapped = service.wrapped
        /\ service'.clash = service.clash
        /\ service' = [records |-> service'.records, nextId |-> service'.nextId,
                       wrapped |-> service'.wrapped, clash |-> service'.clash]
    BY <1>4 DEF Cards!TimePasses, IdsAbove
  <2> QED
    BY <2>1 DEF IdsAbove
<1>5. CASE service' = service
  BY <1>5
<1>6. CASE Cards!RedrawAll \/ Cards!ApplyConfig
  BY <1>5, <1>6 DEF Cards!RedrawAll, Cards!ApplyConfig
<1>7. ASSUME NEW m \in Monitors,
             Cards!Frame(m) \/ Cards!CloseClick(m) \/ Cards!Plug(m) \/ Cards!Unplug(m)
      PROVE  IdsAbove(service')
  BY <1>5, <1>7 DEF Cards!Frame, Cards!CloseClick, Cards!Plug, Cards!Unplug
<1> QED
  BY <1>1, <1>2, <1>3, <1>4, <1>6, <1>7 DEF Cards!Next

(* FreshIdIsFree, with IdsAbove: only the notifications change the service.  *)
THEOREM FreshIdAlwaysFree == MCSpec => []FreshIdIsFree
<1> DEFINE Inv == part = "notifications" => IdsAbove(service)
<1>1. MCInit => Inv
  BY IdsInitially DEF MCInit
<1>2. Inv /\ [MCNext]_<<part, vars, guests>> => Inv'
  <2> SUFFICES ASSUME Inv, [MCNext]_<<part, vars, guests>>, part = "notifications"
               PROVE  Inv'
    BY DEF MCNext, guests
  <2>1. CASE Cards!Next
    <3>1. IdsAbove(service')
      BY <2>1, IdsStep
    <3> QED
      BY <3>1 DEF IdsAbove
  <2>2. CASE service' = service
    BY <2>2 DEF IdsAbove
  <2>3. Cards!Next \/ service' = service
    BY DEF MCNext, Calls, Guest, guests, cardVars
  <2> QED
    BY <2>1, <2>2, <2>3
<1>3. Inv => FreshIdIsFree
  BY DEF IdsAbove, FreshIdIsFree, Cards!FreshIdIsFree
<1> QED
  BY <1>1, <1>2, <1>3, PTL DEF MCSpec

-----------------------------------------------------------------------------
(* The outputs, each in one of seven phases.                               *)

(* The events about an output that are still to be read.  There are two     *)
(* only while it is being announced.                                        *)
WireEvent == [ev : {"global", "done", "configure", "remove"}, o : Connectors]
About(w, o) == {w[i].ev : i \in {j \in DOMAIN w : w[j].o = o}}
Ordered(w) ==
    \A i, j \in DOMAIN w :
        i < j /\ w[i].o = w[j].o => w[i].ev = "global" /\ w[j].ev = "done"

(* MonitorOutput as an activation takes it along.                           *)
Monitor == [done : BOOLEAN, activated : BOOLEAN, asked : BOOLEAN, configured : BOOLEAN,
            created : {0, 1}, inited : {0, 1}]
Untouched(m) ==
    ~m.activated /\ ~m.asked /\ ~m.configured /\ m.created = 0 /\ m.inited = 0
Begun(m) == m.done /\ ~m.activated /\ m.created = 1 /\ m.inited = 0
Ready(m) ==
    m.done /\ m.activated /\ ~m.asked /\ m.configured /\ m.created = 1 /\ m.inited = 1

(* The phase of output o, given boot, the outputs of the compositor, those  *)
(* in app.outputs, those a wait is for, MonitorOutput and the events to be  *)
(* read.                                                                    *)
InPhase(o, b, there, listed, awaited, m, events) ==
    \/ /\ o \notin there /\ o \notin listed /\ o \notin awaited
       /\ ~m.done /\ Untouched(m) /\ events = {}
    \/ /\ o \in there /\ o \notin listed /\ o \notin awaited
       /\ ~m.done /\ Untouched(m) /\ events = {"global", "done"} /\ b \in {"bind", "run"}
    \/ /\ o \in there /\ o \in listed /\ o \notin awaited
       /\ ~m.done /\ Untouched(m) /\ events = {"done"} /\ b \in {"bind", "run"}
    \/ /\ o \in there /\ o \in listed /\ o \notin awaited
       /\ m.done /\ Untouched(m) /\ events = {} /\ b # "run"
    \/ /\ o \in there /\ o \in listed /\ o \in awaited /\ Begun(m) /\ b # "bind"
       /\ \/ m.asked /\ ~m.configured /\ events = {}
          \/ ~m.asked /\ ~m.configured /\ events = {"configure"}
          \/ ~m.asked /\ m.configured /\ events = {}
    \/ /\ o \in there /\ o \in listed /\ o \notin awaited
       /\ Ready(m) /\ events \in {{}, {"done"}} /\ b # "bind"
    \/ /\ o \notin there /\ o \in listed /\ o \notin awaited
       /\ Ready(m) /\ events = {"remove"} /\ b = "run"

Members(s) == Outputs!ToSet(s)
Distinct(s) == \A i, j \in DOMAIN s : s[i] = s[j] => i = j

PhasesHold ==
    \A o \in Connectors :
        InPhase(o, boot, world, Members(mons), Members(waits), mon[o], About(wire, o))

References ==
    [bound : [Panels -> Connectors \union {Outputs!NoOutput}], open : SUBSET Panels,
     pointer : Connectors \union {Outputs!NoOutput}, lock : SUBSET Connectors]

(* What other parts hold of outputs is listed.                              *)
HeldAreListed(r, listed) ==
    /\ \A p \in Panels : r.bound[p] # Outputs!NoOutput => r.bound[p] \in listed
    /\ r.pointer # Outputs!NoOutput => r.pointer \in listed
    /\ r.lock \subseteq listed
    /\ \A p \in r.open : r.bound[p] # Outputs!NoOutput

OutputsInv ==
    /\ wire \in Seq(WireEvent) /\ Ordered(wire)
    /\ world \subseteq Connectors
    /\ mons \in Seq(Connectors) /\ Distinct(mons)
    /\ waits \in Seq(Connectors) /\ Distinct(waits)
    /\ mon \in [Connectors -> Monitor]
    /\ boot \in {"bind", "first", "overlays", "rest", "run"}
    /\ boot = "bind" => world # {}
    /\ boot \in {"first", "overlays", "rest"} => mons # <<>>
    /\ PhasesHold
    /\ refs \in References /\ HeldAreListed(refs, Members(mons))

(* Lists of outputs.                                                        *)
LEMMA Appended ==
    ASSUME NEW S, NEW s \in Seq(S), NEW e \in S
    PROVE  LET t == Append(s, e)
           IN  /\ t \in Seq(S) /\ Members(t) = Members(s) \union {e}
               /\ Distinct(s) /\ e \notin Members(s) => Distinct(t)
<1> DEFINE t == Append(s, e)
<1>1. /\ t \in Seq(S) /\ Len(t) = Len(s) + 1 /\ Len(s) \in Nat
      /\ DOMAIN s = 1..Len(s) /\ DOMAIN t = 1..Len(t)
      /\ t[Len(s) + 1] = e /\ \A i \in 1..Len(s) : t[i] = s[i]
  OBVIOUS
<1> HIDE DEF t
<1>2. Members(t) = Members(s) \union {e}
  BY <1>1 DEF Members, Outputs!ToSet
<1>3. ASSUME Distinct(s), e \notin Members(s) PROVE Distinct(t)
  <2> SUFFICES ASSUME NEW i \in DOMAIN t, NEW j \in DOMAIN t, t[i] = t[j]
               PROVE  i = j
    BY DEF Distinct
  <2>1. \A k \in 1..Len(s) : s[k] # e
    BY <1>1, <1>3 DEF Members, Outputs!ToSet
  <2> QED
    BY <1>1, <1>3, <2>1 DEF Distinct
<1> QED
  BY <1>1, <1>2, <1>3 DEF t

LEMMA Shortened ==
    ASSUME NEW S, NEW s \in Seq(S), Distinct(s), NEW k \in DOMAIN s
    PROVE  LET t == Outputs!RemoveAt(s, k)
           IN  t \in Seq(S) /\ Members(t) = Members(s) \ {s[k]} /\ Distinct(t)
<1> DEFINE t == Outputs!RemoveAt(s, k)
<1>1. /\ Len(s) \in Nat /\ DOMAIN s = 1..Len(s) /\ k \in 1..Len(s)
      /\ \A i \in 1..Len(s) : s[i] \in S
  OBVIOUS
<1>2. /\ t \in Seq(S) /\ Len(t) = Len(s) - 1
      /\ \A i \in 1..Len(t) : t[i] = IF i < k THEN s[i] ELSE s[i + 1]
  <2> DEFINE f == SubSeq(s, 1, k - 1)
             g == SubSeq(s, k + 1, Len(s))
  <2>1. /\ f \in Seq(S) /\ Len(f) = k - 1 /\ \A i \in 1..(k - 1) : f[i] = s[i]
    BY <1>1, SubSeqProperties
  <2>2. /\ g \in Seq(S) /\ Len(g) = Len(s) - k
        /\ \A i \in 1..(Len(s) - k) : g[i] = s[k + i]
    <3>1. /\ k + 1 \in Int /\ Len(s) \in Int /\ \A i \in (k + 1)..Len(s) : s[i] \in S
      BY <1>1
    <3>2. /\ g \in Seq(S)
          /\ Len(g) = IF k + 1 <= Len(s) THEN Len(s) - (k + 1) + 1 ELSE 0
          /\ \A i \in 1..(Len(s) - (k + 1) + 1) : g[i] = s[(k + 1) + i - 1]
      BY <3>1, SubSeqProperties
    <3> HIDE DEF g
    <3>3. Len(g) = Len(s) - k
      BY <1>1, <3>2
    <3>4. ASSUME NEW i \in 1..(Len(s) - k) PROVE g[i] = s[k + i]
      <4>1. (k + 1) + i - 1 = k + i /\ i \in 1..(Len(s) - (k + 1) + 1)
        BY <1>1
      <4> QED
        BY <3>2, <4>1
    <3> QED
      BY <3>2, <3>3, <3>4
  <2> HIDE DEF f, g
  <2>3. /\ f \o g \in Seq(S) /\ Len(f \o g) = Len(f) + Len(g)
        /\ \A i \in 1..(Len(f) + Len(g)) :
              (f \o g)[i] = IF i <= Len(f) THEN f[i] ELSE g[i - Len(f)]
    BY <2>1, <2>2, ConcatProperties
  <2>4. t = f \o g
    BY DEF f, g, Outputs!RemoveAt
  <2>5. Len(f) + Len(g) = Len(s) - 1
    BY <1>1, <2>1, <2>2
  <2>6. ASSUME NEW i \in 1..(Len(s) - 1)
        PROVE  (f \o g)[i] = IF i < k THEN s[i] ELSE s[i + 1]
    <3>1. CASE i < k
      BY <1>1, <2>1, <2>3, <2>5, <3>1
    <3>2. CASE ~(i < k)
      <4>1. i - Len(f) \in 1..(Len(s) - k) /\ k + (i - Len(f)) = i + 1 /\ ~(i <= Len(f))
        BY <1>1, <2>1, <3>2
      <4> QED
        BY <2>2, <2>3, <2>5, <3>2, <4>1
    <3> QED
      BY <3>1, <3>2
  <2> QED
    BY <2>3, <2>4, <2>5, <2>6
<1> HIDE DEF t
<1>3. DOMAIN t = 1..(Len(s) - 1)
  BY <1>2
<1>4. Members(t) = Members(s) \ {s[k]}
  <2>1. ASSUME NEW i \in DOMAIN t PROVE t[i] \in Members(s) /\ t[i] # s[k]
    BY <1>1, <1>2, <1>3 DEF Distinct, Members, Outputs!ToSet
  <2>2. ASSUME NEW i \in DOMAIN s, s[i] # s[k] PROVE s[i] \in Members(t)
    <3>1. CASE i < k
      BY <1>1, <1>2, <1>3, <3>1 DEF Members, Outputs!ToSet
    <3>2. CASE i > k
      <4>1. i - 1 \in 1..(Len(s) - 1) /\ ~(i - 1 < k) /\ (i - 1) + 1 = i
        BY <1>1, <3>2
      <4> QED
        BY <1>2, <1>3, <4>1 DEF Members, Outputs!ToSet
    <3> QED
      BY <1>1, <2>2, <3>1, <3>2
  <2> QED
    BY <2>1, <2>2 DEF Members, Outputs!ToSet
<1>5. Distinct(t)
  BY <1>1, <1>2, <1>3 DEF Distinct
<1> QED
  BY <1>2, <1>4, <1>5 DEF t

(* The innermost wait is the last one.                                      *)
LEMMA Popped ==
    ASSUME NEW S, NEW s \in Seq(S), Distinct(s), s # <<>>
    PROVE  LET t == Outputs!Front(s)
           IN  /\ t \in Seq(S) /\ Members(t) = Members(s) \ {Outputs!Last(s)} /\ Distinct(t)
               /\ Outputs!Last(s) \in Members(s)
<1> DEFINE t == Outputs!Front(s)
<1>1. /\ Len(s) \in Nat \ {0} /\ DOMAIN s = 1..Len(s) /\ Len(s) \in DOMAIN s
      /\ \A i \in 1..Len(s) : s[i] \in S
  BY EmptySeq
<1>2. /\ t \in Seq(S) /\ Len(t) = Len(s) - 1 /\ \A i \in 1..(Len(s) - 1) : t[i] = s[i]
  BY <1>1, SubSeqProperties DEF Outputs!Front
<1> HIDE DEF t
<1>3. DOMAIN t = 1..(Len(s) - 1)
  BY <1>2
<1>4. Outputs!Last(s) = s[Len(s)]
  BY DEF Outputs!Last
<1>5. Members(t) = Members(s) \ {s[Len(s)]}
  BY <1>1, <1>2, <1>3 DEF Distinct, Members, Outputs!ToSet
<1>6. Distinct(t)
  BY <1>1, <1>2, <1>3 DEF Distinct
<1>7. s[Len(s)] \in Members(s)
  BY <1>1 DEF Members, Outputs!ToSet
<1> QED
  BY <1>2, <1>4, <1>5, <1>6, <1>7 DEF t

(* An event that is sent when none but perhaps its announcement is on the   *)
(* wire, and the first one, which is read.                                  *)
LEMMA Sent ==
    ASSUME NEW w \in Seq(WireEvent), Ordered(w), NEW e \in WireEvent,
           About(w, e.o) \subseteq IF e.ev = "done" THEN {"global"} ELSE {}
    PROVE  LET t == Append(w, e)
           IN  /\ t \in Seq(WireEvent) /\ Ordered(t)
               /\ \A o \in Connectors :
                     About(t, o) = IF o = e.o THEN About(w, o) \union {e.ev}
                                   ELSE About(w, o)
<1> DEFINE t == Append(w, e)
<1>1. /\ t \in Seq(WireEvent) /\ Len(t) = Len(w) + 1 /\ Len(w) \in Nat
      /\ DOMAIN w = 1..Len(w) /\ DOMAIN t = 1..Len(t)
      /\ t[Len(w) + 1] = e /\ \A i \in 1..Len(w) : t[i] = w[i]
  OBVIOUS
<1> HIDE DEF t
<1>2. ASSUME NEW o \in Connectors
      PROVE  About(t, o) = IF o = e.o THEN About(w, o) \union {e.ev} ELSE About(w, o)
  <2>1. \A i \in DOMAIN t : i \in DOMAIN w \/ i = Len(w) + 1
    BY <1>1
  <2>2. \A i \in DOMAIN w : i \in DOMAIN t /\ t[i] = w[i]
    BY <1>1
  <2>3. Len(w) + 1 \in DOMAIN t
    BY <1>1
  <2> QED
    BY <1>1, <2>1, <2>2, <2>3 DEF About
<1>3. Ordered(t)
  <2> SUFFICES ASSUME NEW i \in DOMAIN t, NEW j \in DOMAIN t, i < j, t[i].o = t[j].o
               PROVE  t[i].ev = "global" /\ t[j].ev = "done"
    BY DEF Ordered
  <2>1. i \in DOMAIN w /\ t[i] = w[i]
    BY <1>1
  <2>2. CASE j \in DOMAIN w
    BY <1>1, <2>1, <2>2 DEF Ordered
  <2>3. CASE j = Len(w) + 1
    <3>1. w[i].ev \in About(w, e.o)
      BY <1>1, <2>1, <2>3 DEF About
    <3> QED
      BY <1>1, <2>1, <2>3, <3>1
  <2> QED
    BY <1>1, <2>2, <2>3
<1> QED
  BY <1>1, <1>2, <1>3 DEF t

LEMMA Read ==
    ASSUME NEW w \in Seq(WireEvent), Ordered(w), w # <<>>
    PROVE  LET t == Tail(w)
               e == Head(w)
           IN  /\ t \in Seq(WireEvent) /\ Ordered(t) /\ e \in WireEvent
               /\ e.ev \in About(w, e.o)
               /\ "global" \in About(w, e.o) => e.ev = "global"
               /\ \A o \in Connectors :
                     About(t, o) = IF o = e.o THEN About(w, o) \ {e.ev} ELSE About(w, o)
<1> DEFINE t == Tail(w)
           e == Head(w)
<1>1. /\ t \in Seq(WireEvent) /\ Len(w) \in Nat \ {0} /\ Len(t) = Len(w) - 1
      /\ DOMAIN w = 1..Len(w) /\ e = w[1] /\ e \in WireEvent
      /\ \A i \in 1..Len(t) : t[i] = w[i + 1]
  BY HeadTailProperties, EmptySeq
<1>2. DOMAIN t = 1..(Len(w) - 1)
  BY <1>1
<1> HIDE DEF t, e
<1>3. 1 \in DOMAIN w
  BY <1>1
<1>4. \A i \in DOMAIN t : i + 1 \in DOMAIN w /\ i + 1 # 1 /\ 1 < i + 1 /\ t[i] = w[i + 1]
  BY <1>1, <1>2
<1>5. \A i \in DOMAIN w : i = 1 \/ (i - 1 \in DOMAIN t /\ t[i - 1] = w[i] /\ 1 < i)
  BY <1>1, <1>2
<1>6. Ordered(t)
  <2> SUFFICES ASSUME NEW i \in DOMAIN t, NEW j \in DOMAIN t, i < j, t[i].o = t[j].o
               PROVE  t[i].ev = "global" /\ t[j].ev = "done"
    BY DEF Ordered
  <2>1. i + 1 < j + 1
    BY <1>2
  <2> QED
    BY <1>4, <2>1 DEF Ordered
<1>7. e.ev \in About(w, e.o)
  BY <1>1, <1>3 DEF About
<1>8. ASSUME "global" \in About(w, e.o) PROVE e.ev = "global"
  <2>1. PICK i \in DOMAIN w : w[i].o = e.o /\ w[i].ev = "global"
    BY <1>8 DEF About
  <2>2. CASE i = 1
    BY <1>1, <2>1, <2>2
  <2>3. CASE 1 < i
    BY <1>1, <1>3, <2>1, <2>3 DEF Ordered
  <2> QED
    BY <1>5, <2>2, <2>3
<1>9. ASSUME NEW o \in Connectors
      PROVE  About(t, o) = IF o = e.o THEN About(w, o) \ {e.ev} ELSE About(w, o)
  <2>1. ASSUME NEW i \in DOMAIN t, t[i].o = o
        PROVE  t[i].ev \in About(w, o) /\ (o = e.o => t[i].ev # e.ev)
    <3>1. t[i].ev \in About(w, o)
      BY <1>4, <2>1 DEF About
    <3>2. ASSUME o = e.o PROVE t[i].ev # e.ev
      <4>1. w[1].ev = "global" /\ w[i + 1].ev = "done"
        BY <1>1, <1>3, <1>4, <2>1, <3>2 DEF Ordered
      <4> QED
        BY <1>1, <1>4, <4>1
    <3> QED
      BY <3>1, <3>2
  <2>2. ASSUME NEW i \in DOMAIN w, w[i].o = o, o # e.o \/ w[i].ev # e.ev
        PROVE  w[i].ev \in About(t, o)
    <3>1. i # 1
      BY <1>1, <2>2
    <3>2. i - 1 \in DOMAIN t /\ t[i - 1] = w[i]
      BY <1>5, <3>1
    <3> QED
      BY <2>2, <3>2 DEF About
  <2>3. \A k \in About(t, o) : k \in About(w, o) /\ (o = e.o => k # e.ev)
    BY <2>1 DEF About
  <2>4. \A k \in About(w, o) : o # e.o \/ k # e.ev => k \in About(t, o)
    BY <2>2 DEF About
  <2> QED
    BY <2>3, <2>4
<1> QED
  BY <1>1, <1>6, <1>7, <1>8, <1>9 DEF t, e

LEMMA SameCardinality == \A S : Outputs!Cardinality(S) = Cardinality(S)
BY DEF Outputs!Cardinality, Cardinality

LEMMA Enumerated ==
    ASSUME NEW S, IsFiniteSet(S)
    PROVE  LET q == Outputs!SetToSeq(S)
               n == Cardinality(S)
           IN  /\ n \in Nat /\ q \in [1..n -> S]
               /\ \A i, j \in 1..n : q[i] = q[j] => i = j
               /\ \A x \in S : \E i \in 1..n : q[i] = x
<1> DEFINE n == Cardinality(S)
           q == Outputs!SetToSeq(S)
<1>1. n \in Nat /\ ExistsBijection(1..n, S)
  BY FS_CardinalityType
<1>2. PICK f : f \in Bijection(1..n, S)
  BY <1>1 DEF ExistsBijection
<1>3. f \in [1..n -> S] /\ Outputs!IsInjective(f)
  BY <1>2 DEF Bijection, Injection, IsInjective, Outputs!IsInjective
<1>4. q \in [1..n -> S] /\ Outputs!IsInjective(q)
  BY <1>3, SameCardinality DEF Outputs!SetToSeq
<1> HIDE DEF q
<1>5. q \in Injection(1..n, S)
  BY <1>4 DEF Injection, IsInjective, Outputs!IsInjective
<1>6. IsFiniteSet(1..n) /\ Cardinality(1..n) = n
  BY <1>1, FS_Interval
<1>7. q \in Surjection(1..n, S)
  BY <1>5, <1>6, FS_Injection
<1> QED
  BY <1>1, <1>4, <1>7 DEF q, Outputs!IsInjective, Surjection

LEMMA OutputsInitially == Outputs!Init => OutputsInv
<1> SUFFICES ASSUME Outputs!Init PROVE OutputsInv
  OBVIOUS
<1> DEFINE n == Cardinality(world)
           order == Outputs!SetToSeq(world)
           first == [i \in 1..n |-> [ev |-> "global", o |-> order[i]]]
           second == [i \in 1..n |-> [ev |-> "done", o |-> order[i]]]
<1>1. /\ world \subseteq Connectors /\ world # {} /\ IsFiniteSet(world)
      /\ Outputs!NoOutput \notin Connectors
  BY WorkersAssumption, FS_Subset DEF WorkersAssumption, Outputs!Init
<1>2. /\ wire = first \o second
      /\ mons = <<>> /\ waits = <<>> /\ boot = "bind"
      /\ mon = [o \in Connectors |-> Outputs!Blank]
      /\ refs = [bound |-> [p \in Panels |-> Outputs!NoOutput], open |-> {},
                 pointer |-> Outputs!NoOutput, lock |-> {}]
  BY SameCardinality DEF Outputs!Init, Outputs!InitMonitor
<1>3. /\ n \in Nat /\ order \in [1..n -> world]
      /\ \A i, j \in 1..n : order[i] = order[j] => i = j
      /\ \A x \in world : \E i \in 1..n : order[i] = x
  BY <1>1, Enumerated
<1> HIDE DEF n, order
<1>4. /\ first \in Seq(WireEvent) /\ Len(first) = n
      /\ second \in Seq(WireEvent) /\ Len(second) = n
      /\ \A i \in 1..n : /\ first[i] = [ev |-> "global", o |-> order[i]]
                        /\ second[i] = [ev |-> "done", o |-> order[i]]
  <2>1. \A i \in 1..n : order[i] \in Connectors
    BY <1>1, <1>3
  <2>2. /\ \A i \in 1..n : [ev |-> "global", o |-> order[i]] \in WireEvent
        /\ \A i \in 1..n : [ev |-> "done", o |-> order[i]] \in WireEvent
    BY <2>1 DEF WireEvent
  <2>3. first \in [1..n -> WireEvent] /\ second \in [1..n -> WireEvent]
    BY <2>2
  <2>4. \A i \in 1..n : /\ first[i] = [ev |-> "global", o |-> order[i]]
                       /\ second[i] = [ev |-> "done", o |-> order[i]]
    OBVIOUS
  <2> HIDE DEF first, second
  <2> QED
    BY <1>3, <2>3, <2>4
<1> HIDE DEF first, second
<1>5. /\ wire \in Seq(WireEvent) /\ Len(wire) = n + n
      /\ \A i \in 1..(n + n) :
            wire[i] = IF i <= n THEN first[i] ELSE second[i - n]
  <2>1. /\ wire \in Seq(WireEvent) /\ Len(wire) = Len(first) + Len(second)
        /\ \A i \in 1..(Len(first) + Len(second)) :
              wire[i] = IF i <= Len(first) THEN first[i] ELSE second[i - Len(first)]
    BY <1>2, <1>4, ConcatProperties
  <2> QED
    BY <1>4, <2>1
<1>6. DOMAIN wire = 1..(n + n)
  BY <1>5
<1>7. ASSUME NEW i \in 1..(n + n), i <= n
      PROVE  i \in 1..n /\ wire[i].ev = "global" /\ wire[i].o = order[i]
  <2>1. i \in 1..n
    BY <1>3, <1>7
  <2>2. wire[i] = [ev |-> "global", o |-> order[i]]
    BY <1>4, <1>5, <1>7, <2>1
  <2> QED
    BY <2>1, <2>2
<1>8. ASSUME NEW i \in 1..(n + n), ~(i <= n)
      PROVE  i - n \in 1..n /\ wire[i].ev = "done" /\ wire[i].o = order[i - n]
  <2>1. i - n \in 1..n
    BY <1>3, <1>8
  <2>2. wire[i] = [ev |-> "done", o |-> order[i - n]]
    BY <1>4, <1>5, <1>8, <2>1
  <2> QED
    BY <2>1, <2>2
<1>9. \A i \in 1..n : /\ n + i \in 1..(n + n) /\ ~(n + i <= n) /\ (n + i) - n = i
  BY <1>3
<1>10. Ordered(wire)
  <2> SUFFICES ASSUME NEW i \in 1..(n + n), NEW j \in 1..(n + n), i < j,
                      wire[i].o = wire[j].o
               PROVE  wire[i].ev = "global" /\ wire[j].ev = "done"
    BY <1>6 DEF Ordered
  <2>1. CASE i <= n /\ j <= n
    BY <1>3, <1>7, <2>1
  <2>2. CASE i <= n /\ ~(j <= n)
    BY <1>3, <1>7, <1>8, <2>2
  <2>3. CASE ~(i <= n)
    <3>1. ~(j <= n)
      BY <1>3, <2>3
    <3>2. order[i - n] = order[j - n] /\ i - n \in 1..n /\ j - n \in 1..n
      BY <1>8, <2>3, <3>1
    <3>3. i - n = j - n
      BY <1>3, <3>2
    <3> QED
      BY <1>3, <3>3
  <2> QED
    BY <2>1, <2>2, <2>3
<1>11. ASSUME NEW o \in Connectors
       PROVE  About(wire, o) = IF o \in world THEN {"global", "done"} ELSE {}
  <2>1. \A i \in DOMAIN wire : wire[i].o \in world /\ wire[i].ev \in {"global", "done"}
    <3> SUFFICES ASSUME NEW i \in 1..(n + n)
                 PROVE  wire[i].o \in world /\ wire[i].ev \in {"global", "done"}
      BY <1>6
    <3>1. CASE i <= n
      BY <1>3, <1>7, <3>1
    <3>2. CASE ~(i <= n)
      BY <1>3, <1>8, <3>2
    <3> QED
      BY <3>1, <3>2
  <2>2. ASSUME o \in world PROVE "global" \in About(wire, o) /\ "done" \in About(wire, o)
    <3>1. PICK i \in 1..n : order[i] = o
      BY <1>3, <2>2
    <3>2. i \in DOMAIN wire /\ n + i \in DOMAIN wire
      BY <1>3, <1>6
    <3>3. wire[i].ev = "global" /\ wire[i].o = o
      <4>1. i \in 1..(n + n) /\ i <= n
        BY <1>3
      <4> QED
        BY <1>7, <3>1, <4>1
    <3>4. wire[n + i].ev = "done" /\ wire[n + i].o = o
      BY <1>8, <1>9, <3>1
    <3> QED
      BY <3>2, <3>3, <3>4 DEF About
  <2> QED
    BY <2>1, <2>2 DEF About
<1>12. Members(<<>>) = {} /\ Distinct(<<>>) /\ <<>> \in Seq(Connectors)
  BY DEF Members, Outputs!ToSet, Distinct
<1>13. PhasesHold
  BY <1>1, <1>2, <1>11, <1>12 DEF PhasesHold, InPhase, Untouched, Outputs!Blank
<1>14. mon \in [Connectors -> Monitor]
  BY <1>2 DEF Monitor, Outputs!Blank
<1>15. refs \in References /\ HeldAreListed(refs, Members(mons))
  BY <1>2 DEF References, HeldAreListed
<1> QED
  BY <1>1, <1>2, <1>5, <1>10, <1>12, <1>13, <1>14, <1>15 DEF OutputsInv

(* What the steps of an activation make of MonitorOutput.                   *)
LEMMA ActivationSteps ==
    /\ Outputs!Blank \in Monitor /\ ~Outputs!Blank.done /\ Untouched(Outputs!Blank)
    /\ \A m \in Monitor :
          /\ LET t == [m EXCEPT !.done = TRUE]
             IN  /\ t \in Monitor /\ t.done
                 /\ Untouched(m) => Untouched(t)
                 /\ Ready(m) => Ready(t)
          /\ m.done /\ Untouched(m) =>
                LET t == Outputs!CreateSurfaces(m)
                IN  t \in Monitor /\ Begun(t) /\ t.asked /\ ~t.configured
          /\ Begun(m) => LET t == [m EXCEPT !.asked = FALSE]
                         IN  /\ t \in Monitor /\ Begun(t) /\ ~t.asked
                             /\ t.configured = m.configured
          /\ Begun(m) => LET t == [m EXCEPT !.configured = TRUE]
                         IN  t \in Monitor /\ Begun(t) /\ t.configured /\ t.asked = m.asked
          /\ Begun(m) /\ ~m.asked /\ m.configured =>
                LET t == Outputs!FinishEgl(m) IN t \in Monitor /\ Ready(t)
<1>1. Outputs!Blank \in Monitor /\ ~Outputs!Blank.done /\ Untouched(Outputs!Blank)
  BY DEF Monitor, Untouched, Outputs!Blank
<1>2. ASSUME NEW m \in Monitor
      PROVE  LET t == [m EXCEPT !.done = TRUE]
             IN  t \in Monitor /\ t.done /\ (Untouched(m) => Untouched(t))
                 /\ (Ready(m) => Ready(t))
  BY DEF Monitor, Untouched, Ready
<1>3. ASSUME NEW m \in Monitor, m.done, Untouched(m)
      PROVE  LET t == Outputs!CreateSurfaces(m)
             IN  t \in Monitor /\ Begun(t) /\ t.asked /\ ~t.configured
  <2>1. m.created + 1 = 1
    BY <1>3 DEF Untouched
  <2>2. Outputs!CreateSurfaces(m)
          = [m EXCEPT !.created = 1, !.asked = TRUE, !.configured = FALSE]
    BY <2>1 DEF Outputs!CreateSurfaces
  <2>3. LET t == [m EXCEPT !.created = 1, !.asked = TRUE, !.configured = FALSE]
        IN  t \in Monitor /\ Begun(t) /\ t.asked /\ ~t.configured
    BY <1>3 DEF Monitor, Untouched, Begun
  <2> QED
    BY <2>2, <2>3
<1>4. ASSUME NEW m \in Monitor, Begun(m)
      PROVE  LET t == [m EXCEPT !.asked = FALSE]
             IN  t \in Monitor /\ Begun(t) /\ ~t.asked /\ t.configured = m.configured
  BY <1>4 DEF Monitor, Begun
<1>5. ASSUME NEW m \in Monitor, Begun(m)
      PROVE  LET t == [m EXCEPT !.configured = TRUE]
             IN  t \in Monitor /\ Begun(t) /\ t.configured /\ t.asked = m.asked
  BY <1>5 DEF Monitor, Begun
<1>6. ASSUME NEW m \in Monitor, Begun(m), ~m.asked, m.configured
      PROVE  LET t == Outputs!FinishEgl(m) IN t \in Monitor /\ Ready(t)
  <2>1. m.inited + 1 = 1
    BY <1>6 DEF Begun
  <2>2. Outputs!FinishEgl(m) = [m EXCEPT !.inited = 1, !.activated = TRUE]
    BY <2>1 DEF Outputs!FinishEgl
  <2>3. LET t == [m EXCEPT !.inited = 1, !.activated = TRUE]
        IN  t \in Monitor /\ Ready(t)
    BY <1>6 DEF Monitor, Begun, Ready
  <2> QED
    BY <2>2, <2>3
<1> QED
  BY <1>1, <1>2, <1>3, <1>4, <1>5, <1>6

(* A step that is about one output leaves the others in their phases.       *)
LEMMA OthersStay ==
    ASSUME PhasesHold, NEW o \in Connectors,
           boot' = boot \/ {boot, boot'} \subseteq {"first", "overlays", "rest"},
           \A x \in Connectors \ {o} :
              /\ x \in world' <=> x \in world
              /\ x \in Members(mons') <=> x \in Members(mons)
              /\ x \in Members(waits') <=> x \in Members(waits)
              /\ mon'[x] = mon[x] /\ About(wire', x) = About(wire, x),
           InPhase(o, boot', world', Members(mons'), Members(waits'), mon'[o],
                   About(wire', o))
    PROVE  PhasesHold'
<1> SUFFICES ASSUME NEW x \in Connectors
             PROVE  InPhase(x, boot', world', Members(mons'), Members(waits'), mon'[x],
                            About(wire', x))
  BY DEF PhasesHold
<1>1. CASE x = o
  BY <1>1
<1>2. CASE x # o
  <2>1. InPhase(x, boot, world, Members(mons), Members(waits), mon[x], About(wire, x))
    BY DEF PhasesHold
  <2>2. /\ x \in world' <=> x \in world
        /\ x \in Members(mons') <=> x \in Members(mons)
        /\ x \in Members(waits') <=> x \in Members(waits)
        /\ mon'[x] = mon[x] /\ About(wire', x) = About(wire, x)
    BY <1>2
  <2>3. InPhase(x, boot, world', Members(mons'), Members(waits'), mon'[x], About(wire', x))
    BY <2>1, <2>2 DEF InPhase
  <2> QED
    BY <2>3 DEF InPhase
<1> QED
  BY <1>1, <1>2

LEMMA ConfiguresKeepsPhases == OutputsInv /\ Outputs!Configures => OutputsInv'
<1> SUFFICES ASSUME OutputsInv, Outputs!Configures PROVE OutputsInv'
  OBVIOUS
<1>1. PICK o \in Connectors :
         /\ mon[o].asked
         /\ mon' = [mon EXCEPT ![o].asked = FALSE]
         /\ wire' = Append(wire, [ev |-> "configure", o |-> o])
         /\ UNCHANGED <<world, mons, waits, boot, refs>>
  BY DEF Outputs!Configures
<1>2. /\ wire \in Seq(WireEvent) /\ Ordered(wire) /\ mon \in [Connectors -> Monitor] /\ PhasesHold
      /\ mon[o] \in Monitor
  BY DEF OutputsInv
<1>3. /\ Begun(mon[o]) /\ ~mon[o].configured /\ About(wire, o) = {}
      /\ o \in world /\ o \in Members(mons) /\ o \in Members(waits) /\ boot # "bind"
  BY <1>1, <1>2 DEF PhasesHold, InPhase, Untouched, Ready
<1>4. /\ mon' \in [Connectors -> Monitor] /\ Begun(mon'[o])
      /\ ~mon'[o].asked /\ mon'[o].configured = mon[o].configured
      /\ \A x \in Connectors \ {o} : mon'[x] = mon[x]
  <2> DEFINE t == [mon[o] EXCEPT !.asked = FALSE]
  <2>1. t \in Monitor /\ Begun(t) /\ ~t.asked /\ t.configured = mon[o].configured
    BY <1>2, <1>3, ActivationSteps
  <2>2. mon' = [mon EXCEPT ![o] = t]
    BY <1>1
  <2> HIDE DEF t
  <2> QED
    BY <1>2, <2>1, <2>2
<1>5. /\ wire' \in Seq(WireEvent) /\ Ordered(wire') /\ About(wire', o) = {"configure"}
      /\ \A x \in Connectors \ {o} : About(wire', x) = About(wire, x)
  <2> DEFINE e == [ev |-> "configure", o |-> o]
  <2>1. e \in WireEvent /\ e.o = o /\ e.ev = "configure"
    BY DEF WireEvent
  <2>2. wire' = Append(wire, e)
    BY <1>1
  <2> HIDE DEF e
  <2> QED
    BY <1>2, <1>3, <2>1, <2>2, Sent
<1>6. InPhase(o, boot', world', Members(mons'), Members(waits'), mon'[o], About(wire', o))
  BY <1>1, <1>3, <1>4, <1>5 DEF InPhase
<1>7. PhasesHold'
  BY <1>1, <1>2, <1>4, <1>5, <1>6, OthersStay
<1> QED
  BY <1>1, <1>4, <1>5, <1>7 DEF OutputsInv

(* The first event is read: what each kind of it finds.                     *)
LEMMA EventRead ==
    ASSUME OutputsInv, wire # <<>>, wire' = Tail(wire)
    PROVE  LET o == Head(wire).o
               ev == Head(wire).ev
           IN  /\ Head(wire) \in WireEvent /\ o \in Connectors /\ mon[o] \in Monitor
               /\ wire' \in Seq(WireEvent) /\ Ordered(wire')
               /\ About(wire', o) = About(wire, o) \ {ev}
               /\ \A x \in Connectors \ {o} : About(wire', x) = About(wire, x)
               /\ ev \in About(wire, o) /\ ("global" \in About(wire, o) => ev = "global")
               /\ InPhase(o, boot, world, Members(mons), Members(waits), mon[o],
                          About(wire, o))
<1> DEFINE e == Head(wire)
<1>1. /\ wire \in Seq(WireEvent) /\ Ordered(wire) /\ mon \in [Connectors -> Monitor] /\ PhasesHold
  BY DEF OutputsInv
<1>2. /\ e \in WireEvent /\ wire' \in Seq(WireEvent) /\ Ordered(wire')
      /\ e.ev \in About(wire, e.o)
      /\ "global" \in About(wire, e.o) => e.ev = "global"
      /\ \A x \in Connectors :
            About(wire', x) = IF x = e.o THEN About(wire, x) \ {e.ev} ELSE About(wire, x)
  BY <1>1, Read
<1> HIDE DEF e
<1>3. e.o \in Connectors
  BY <1>2 DEF WireEvent
<1>4. /\ About(wire', e.o) = About(wire, e.o) \ {e.ev}
      /\ \A x \in Connectors \ {e.o} : About(wire', x) = About(wire, x)
  BY <1>2, <1>3
<1>5. InPhase(e.o, boot, world, Members(mons), Members(waits), mon[e.o], About(wire, e.o))
  BY <1>1, <1>3 DEF PhasesHold
<1>6. mon[e.o] \in Monitor
  BY <1>1, <1>3
<1> QED
  BY <1>2, <1>3, <1>4, <1>5, <1>6 DEF e

LEMMA GlobalKeepsPhases ==
    ASSUME OutputsInv, wire # <<>>, wire' = Tail(wire), Head(wire).ev = "global",
           Outputs!RegistryGlobal(Head(wire).o), UNCHANGED <<world, boot>>
    PROVE  OutputsInv'
<1> DEFINE o == Head(wire).o
<1>1. /\ o \in Connectors /\ wire' \in Seq(WireEvent) /\ Ordered(wire')
      /\ About(wire', o) = About(wire, o) \ {"global"}
      /\ \A x \in Connectors \ {o} : About(wire', x) = About(wire, x)
      /\ "global" \in About(wire, o)
      /\ InPhase(o, boot, world, Members(mons), Members(waits), mon[o], About(wire, o))
  BY EventRead
<1>2. /\ mons' = Append(mons, o) /\ mon' = [mon EXCEPT ![o] = Outputs!Blank]
      /\ UNCHANGED <<waits, refs, world, boot>>
  BY DEF Outputs!RegistryGlobal
<1> HIDE DEF o
<1>3. /\ mon \in [Connectors -> Monitor] /\ PhasesHold
      /\ mons \in Seq(Connectors) /\ Distinct(mons)
  BY DEF OutputsInv
<1>4. /\ About(wire, o) = {"global", "done"} /\ boot \in {"bind", "run"}
      /\ o \in world /\ o \notin Members(mons) /\ o \notin Members(waits)
  BY <1>1 DEF InPhase
<1>5. /\ mons' \in Seq(Connectors) /\ Members(mons') = Members(mons) \union {o}
      /\ Distinct(mons')
  BY <1>1, <1>2, <1>3, <1>4, Appended
<1>6. /\ mon' \in [Connectors -> Monitor] /\ ~mon'[o].done /\ Untouched(mon'[o])
      /\ \A x \in Connectors \ {o} : mon'[x] = mon[x]
  BY <1>1, <1>2, <1>3, ActivationSteps
<1>7. About(wire', o) = {"done"}
  BY <1>1, <1>4
<1>8. InPhase(o, boot', world', Members(mons'), Members(waits'), mon'[o], About(wire', o))
  BY <1>2, <1>4, <1>5, <1>6, <1>7 DEF InPhase
<1>9. PhasesHold'
  BY <1>1, <1>2, <1>3, <1>5, <1>6, <1>8, OthersStay
<1>10. /\ refs' = refs
       /\ HeldAreListed(refs, Members(mons')) /\ refs \in References
  BY <1>2, <1>5 DEF OutputsInv, HeldAreListed
<1>11. mons' # <<>>
  BY <1>1, <1>2, <1>3
<1> QED
  BY <1>1, <1>2, <1>5, <1>6, <1>9, <1>10, <1>11 DEF OutputsInv

LEMMA DoneKeepsPhases ==
    ASSUME OutputsInv, wire # <<>>, wire' = Tail(wire), Head(wire).ev = "done",
           Outputs!Done(Head(wire).o), UNCHANGED <<world, boot>>
    PROVE  OutputsInv'
<1> DEFINE o == Head(wire).o
<1>1. /\ o \in Connectors /\ wire' \in Seq(WireEvent) /\ Ordered(wire')
      /\ About(wire', o) = About(wire, o) \ {"done"}
      /\ \A x \in Connectors \ {o} : About(wire', x) = About(wire, x)
      /\ "done" \in About(wire, o) /\ "global" \notin About(wire, o)
      /\ InPhase(o, boot, world, Members(mons), Members(waits), mon[o], About(wire, o))
      /\ mon[o] \in Monitor
  BY EventRead
<1>2. Outputs!Done(o)
  OBVIOUS
<1> HIDE DEF o
<1>3. /\ mon \in [Connectors -> Monitor] /\ PhasesHold
      /\ waits \in Seq(Connectors) /\ Distinct(waits)
      /\ refs \in References /\ HeldAreListed(refs, Members(mons))
  BY DEF OutputsInv
<1> DEFINE t == [mon[o] EXCEPT !.done = TRUE]
<1>4. /\ t \in Monitor /\ t.done /\ (Untouched(mon[o]) => Untouched(t))
      /\ Ready(mon[o]) => Ready(t)
  BY <1>1, ActivationSteps
<1>5. mons' = mons /\ world' = world /\ boot' = boot
  BY <1>2 DEF Outputs!Done
<1>6. /\ o \in world /\ o \in Members(mons) /\ o \notin Members(waits)
      /\ About(wire, o) = {"done"}
      /\ \/ ~mon[o].done /\ Untouched(mon[o]) /\ boot \in {"bind", "run"}
         \/ Ready(mon[o]) /\ boot # "bind"
  BY <1>1 DEF InPhase
<1>7. About(wire', o) = {}
  BY <1>1, <1>6
<1>8. CASE ~mon[o].activated /\ boot # "bind"
  <2>1. /\ mon' = [mon EXCEPT ![o] = Outputs!CreateSurfaces(t)]
        /\ waits' = Append(waits, o) /\ refs' = refs
    BY <1>2, <1>8 DEF Outputs!Done, Outputs!Activates
  <2>2. Untouched(mon[o]) /\ boot = "run"
    BY <1>6, <1>8 DEF Ready
  <2> DEFINE u == Outputs!CreateSurfaces(t)
  <2>3. u \in Monitor /\ Begun(u) /\ u.asked /\ ~u.configured
    BY <1>4, <2>2, ActivationSteps
  <2> HIDE DEF t, u
  <2>4. /\ mon' \in [Connectors -> Monitor] /\ mon'[o] = u
        /\ \A x \in Connectors \ {o} : mon'[x] = mon[x]
    BY <1>1, <1>3, <2>1, <2>3 DEF u
  <2>5. /\ waits' \in Seq(Connectors) /\ Members(waits') = Members(waits) \union {o}
        /\ Distinct(waits')
    BY <1>1, <1>3, <1>6, <2>1, Appended
  <2>6. InPhase(o, boot', world', Members(mons'), Members(waits'), mon'[o], About(wire', o))
    BY <1>5, <1>6, <1>7, <2>2, <2>3, <2>4, <2>5 DEF InPhase
  <2>7. PhasesHold'
    BY <1>1, <1>3, <1>5, <2>4, <2>5, <2>6, OthersStay
  <2> QED
    BY <1>1, <1>3, <1>5, <2>1, <2>4, <2>5, <2>7 DEF OutputsInv
<1>9. CASE ~(~mon[o].activated /\ boot # "bind")
  <2>1. /\ mon' = [mon EXCEPT ![o] = t] /\ waits' = waits
        /\ refs' = IF mon[o].done \/ boot \notin {"rest", "run"} THEN refs
                   ELSE [refs EXCEPT !.lock = @ \union {o}]
    BY <1>2, <1>9 DEF Outputs!Done, Outputs!Activates
  <2>2. \/ Ready(mon[o]) /\ boot # "bind"
        \/ Untouched(mon[o]) /\ boot = "bind"
    BY <1>6, <1>9 DEF Untouched
  <2>3. refs' = refs
    BY <2>1, <2>2 DEF Ready
  <2> HIDE DEF t
  <2>4. /\ mon' \in [Connectors -> Monitor] /\ mon'[o] = t
        /\ \A x \in Connectors \ {o} : mon'[x] = mon[x]
    BY <1>1, <1>3, <1>4, <2>1
  <2>5. InPhase(o, boot', world', Members(mons'), Members(waits'), mon'[o], About(wire', o))
    BY <1>4, <1>5, <1>6, <1>7, <2>1, <2>2, <2>4 DEF InPhase
  <2>6. PhasesHold'
    BY <1>1, <1>3, <1>5, <2>1, <2>4, <2>5, OthersStay
  <2> QED
    BY <1>1, <1>3, <1>5, <2>1, <2>3, <2>4, <2>6 DEF OutputsInv
<1> QED
  BY <1>8, <1>9

LEMMA ConfiguredKeepsPhases ==
    ASSUME OutputsInv, wire # <<>>, wire' = Tail(wire), Head(wire).ev = "configure",
           Outputs!Configured(Head(wire).o), UNCHANGED <<world, boot>>
    PROVE  OutputsInv'
<1> DEFINE o == Head(wire).o
<1>1. /\ o \in Connectors /\ wire' \in Seq(WireEvent) /\ Ordered(wire')
      /\ About(wire', o) = About(wire, o) \ {"configure"}
      /\ \A x \in Connectors \ {o} : About(wire', x) = About(wire, x)
      /\ "configure" \in About(wire, o)
      /\ InPhase(o, boot, world, Members(mons), Members(waits), mon[o], About(wire, o))
      /\ mon[o] \in Monitor
  BY EventRead
<1>2. Outputs!Configured(o)
  OBVIOUS
<1> HIDE DEF o
<1>3. /\ o \in world /\ o \in Members(mons) /\ o \in Members(waits) /\ boot # "bind"
      /\ About(wire, o) = {"configure"} /\ Begun(mon[o]) /\ ~mon[o].asked
  BY <1>1 DEF InPhase
<1> DEFINE t == [mon[o] EXCEPT !.configured = TRUE]
<1>4. t \in Monitor /\ Begun(t) /\ t.configured /\ ~t.asked
  BY <1>1, <1>3, ActivationSteps
<1>5. mon' = [mon EXCEPT ![o] = t] /\ UNCHANGED <<mons, waits, refs, world, boot>>
  BY <1>2, <1>3 DEF Outputs!Configured, Outputs!Has, Members
<1> HIDE DEF t
<1>6. mon \in [Connectors -> Monitor] /\ PhasesHold
  BY DEF OutputsInv
<1>7. /\ mon' \in [Connectors -> Monitor] /\ mon'[o] = t
      /\ \A x \in Connectors \ {o} : mon'[x] = mon[x]
  BY <1>1, <1>4, <1>5, <1>6
<1>8. About(wire', o) = {}
  BY <1>1, <1>3
<1>9. InPhase(o, boot', world', Members(mons'), Members(waits'), mon'[o], About(wire', o))
  BY <1>3, <1>4, <1>5, <1>7, <1>8 DEF InPhase
<1>10. PhasesHold'
  BY <1>1, <1>5, <1>6, <1>7, <1>9, OthersStay
<1> QED
  BY <1>1, <1>5, <1>7, <1>10 DEF OutputsInv

LEMMA RemoveKeepsPhases ==
    ASSUME OutputsInv, wire # <<>>, wire' = Tail(wire), Head(wire).ev = "remove",
           Outputs!RegistryGlobalRemove(Head(wire).o), UNCHANGED <<world, boot>>
    PROVE  OutputsInv'
<1> DEFINE o == Head(wire).o
<1>1. /\ o \in Connectors /\ wire' \in Seq(WireEvent) /\ Ordered(wire')
      /\ About(wire', o) = About(wire, o) \ {"remove"}
      /\ \A x \in Connectors \ {o} : About(wire', x) = About(wire, x)
      /\ "remove" \in About(wire, o)
      /\ InPhase(o, boot, world, Members(mons), Members(waits), mon[o], About(wire, o))
  BY EventRead
<1>2. Outputs!RegistryGlobalRemove(o)
  OBVIOUS
<1> HIDE DEF o
<1>3. /\ mon \in [Connectors -> Monitor] /\ PhasesHold
      /\ mons \in Seq(Connectors) /\ Distinct(mons)
      /\ refs \in References /\ HeldAreListed(refs, Members(mons))
  BY DEF OutputsInv
<1>4. /\ o \notin world /\ o \in Members(mons) /\ o \notin Members(waits)
      /\ About(wire, o) = {"remove"} /\ boot = "run"
  BY <1>1 DEF InPhase
<1>5. /\ refs' = Outputs!Released(refs, o)
      /\ mon' = [mon EXCEPT ![o] = Outputs!Blank]
      /\ UNCHANGED <<waits, world, boot>>
      /\ \E i \in DOMAIN mons : mons[i] = o /\ mons' = Outputs!RemoveAt(mons, i)
  BY <1>2, <1>4 DEF Outputs!RegistryGlobalRemove, Outputs!Has, Members
<1>6. /\ mons' \in Seq(Connectors) /\ Members(mons') = Members(mons) \ {o}
      /\ Distinct(mons')
  <2>1. PICK i \in DOMAIN mons : mons[i] = o /\ mons' = Outputs!RemoveAt(mons, i)
    BY <1>5
  <2> QED
    BY <1>3, <2>1, Shortened
<1>7. /\ mon' \in [Connectors -> Monitor] /\ ~mon'[o].done /\ Untouched(mon'[o])
      /\ \A x \in Connectors \ {o} : mon'[x] = mon[x]
  BY <1>1, <1>3, <1>5, ActivationSteps
<1>8. About(wire', o) = {}
  BY <1>1, <1>4
<1>9. InPhase(o, boot', world', Members(mons'), Members(waits'), mon'[o], About(wire', o))
  BY <1>4, <1>5, <1>6, <1>7, <1>8 DEF InPhase
<1>10. PhasesHold'
  BY <1>1, <1>3, <1>5, <1>6, <1>7, <1>9, OthersStay
<1>11. refs' \in References /\ HeldAreListed(refs', Members(mons'))
  <2> DEFINE bound == [p \in Panels |-> IF refs.bound[p] = o THEN Outputs!NoOutput
                                        ELSE refs.bound[p]]
             open == {p \in refs.open : refs.bound[p] # o}
             pointer == IF refs.pointer = o THEN Outputs!NoOutput ELSE refs.pointer
  <2>1. /\ refs' = [refs EXCEPT !.lock = refs.lock \ {o}, !.bound = bound, !.open = open,
                                !.pointer = pointer]
    BY <1>5 DEF Outputs!Released
  <2>2. /\ bound \in [Panels -> Connectors \union {Outputs!NoOutput}]
        /\ open \in SUBSET Panels /\ pointer \in Connectors \union {Outputs!NoOutput}
        /\ refs.lock \ {o} \in SUBSET Connectors
    BY <1>3 DEF References
  <2>3. /\ \A p \in Panels : bound[p] # Outputs!NoOutput =>
                               bound[p] \in Members(mons) \ {o}
        /\ pointer # Outputs!NoOutput => pointer \in Members(mons) \ {o}
        /\ refs.lock \ {o} \subseteq Members(mons) \ {o}
        /\ \A p \in open : bound[p] # Outputs!NoOutput
    BY <1>3 DEF HeldAreListed, References
  <2> HIDE DEF bound, open, pointer
  <2>4. /\ refs' \in References
        /\ refs'.bound = bound /\ refs'.open = open /\ refs'.pointer = pointer
        /\ refs'.lock = refs.lock \ {o}
    BY <1>3, <2>1, <2>2 DEF References
  <2> QED
    BY <1>6, <2>3, <2>4 DEF HeldAreListed
<1> QED
  BY <1>1, <1>3, <1>4, <1>5, <1>6, <1>7, <1>10, <1>11 DEF OutputsInv

LEMMA DispatchKeepsPhases == OutputsInv /\ Outputs!Dispatch => OutputsInv'
<1> SUFFICES ASSUME OutputsInv, Outputs!Dispatch PROVE OutputsInv'
  OBVIOUS
<1> DEFINE e == Head(wire)
<1>1. /\ wire # <<>> /\ wire' = Tail(wire) /\ UNCHANGED <<world, boot>>
      /\ e.ev = "global" => Outputs!RegistryGlobal(e.o)
      /\ e.ev = "done" => Outputs!Done(e.o)
      /\ e.ev = "configure" => Outputs!Configured(e.o)
      /\ e.ev = "remove" => Outputs!RegistryGlobalRemove(e.o)
  BY DEF Outputs!Dispatch
<1>2. e.ev \in {"global", "done", "configure", "remove"}
  <2>1. e \in WireEvent
    BY <1>1, EventRead
  <2> HIDE DEF e
  <2> QED
    BY <2>1 DEF WireEvent
<1>3. CASE e.ev = "global"
  BY <1>1, <1>3, GlobalKeepsPhases
<1>4. CASE e.ev = "done"
  BY <1>1, <1>4, DoneKeepsPhases
<1>5. CASE e.ev = "configure"
  BY <1>1, <1>5, ConfiguredKeepsPhases
<1>6. CASE e.ev = "remove"
  BY <1>1, <1>6, RemoveKeepsPhases
<1> QED
  BY <1>2, <1>3, <1>4, <1>5, <1>6

LEMMA WaitEndsKeepsPhases == OutputsInv /\ Outputs!WaitEnds => OutputsInv'
<1> SUFFICES ASSUME OutputsInv, Outputs!WaitEnds PROVE OutputsInv'
  OBVIOUS
<1> DEFINE o == Outputs!Last(waits)
<1>1. /\ waits # <<>> /\ mon[o].configured
      /\ mon' = [mon EXCEPT ![o] = Outputs!FinishEgl(mon[o])]
      /\ waits' = Outputs!Front(waits)
      /\ boot' = IF boot = "first" /\ Len(waits) = 1 THEN "overlays" ELSE boot
      /\ refs' = refs \/ refs' = [refs EXCEPT !.lock = @ \union {o}]
      /\ UNCHANGED <<wire, world, mons>>
  BY DEF Outputs!WaitEnds
<1>2. /\ wire \in Seq(WireEvent) /\ Ordered(wire) /\ mon \in [Connectors -> Monitor] /\ PhasesHold
      /\ waits \in Seq(Connectors) /\ Distinct(waits)
      /\ refs \in References /\ HeldAreListed(refs, Members(mons))
  BY DEF OutputsInv
<1>3. /\ waits' \in Seq(Connectors) /\ Members(waits') = Members(waits) \ {o}
      /\ Distinct(waits') /\ o \in Members(waits) /\ o \in Connectors
  <2>1. /\ waits' \in Seq(Connectors) /\ Members(waits') = Members(waits) \ {o}
        /\ Distinct(waits') /\ o \in Members(waits)
    BY <1>1, <1>2, Popped
  <2>2. \A i \in DOMAIN waits : waits[i] \in Connectors
    BY <1>2
  <2> HIDE DEF o
  <2> QED
    BY <2>1, <2>2 DEF Members, Outputs!ToSet
<1> HIDE DEF o
<1>4. mon[o] \in Monitor
  BY <1>2, <1>3
<1>5. /\ Begun(mon[o]) /\ ~mon[o].asked /\ About(wire, o) = {} /\ boot # "bind"
      /\ o \in world /\ o \in Members(mons)
  BY <1>1, <1>2, <1>3 DEF PhasesHold, InPhase
<1> DEFINE t == Outputs!FinishEgl(mon[o])
<1>6. t \in Monitor /\ Ready(t)
  BY <1>1, <1>4, <1>5, ActivationSteps
<1> HIDE DEF t
<1>7. /\ mon' \in [Connectors -> Monitor] /\ mon'[o] = t
      /\ \A x \in Connectors \ {o} : mon'[x] = mon[x]
  BY <1>1, <1>2, <1>3, <1>6 DEF t
<1>8. boot' = boot \/ {boot, boot'} \subseteq {"first", "overlays", "rest"}
  BY <1>1
<1>9. boot' # "bind"
  BY <1>1, <1>5
<1>10. InPhase(o, boot', world', Members(mons'), Members(waits'), mon'[o], About(wire', o))
  BY <1>1, <1>3, <1>5, <1>6, <1>7, <1>9 DEF InPhase
<1>11. PhasesHold'
  BY <1>1, <1>2, <1>3, <1>7, <1>8, <1>10, OthersStay
<1>12. refs' \in References /\ HeldAreListed(refs', Members(mons'))
  <2>1. CASE refs' = refs
    BY <1>1, <1>2, <2>1
  <2>2. CASE refs' = [refs EXCEPT !.lock = refs.lock \union {o}]
    <3>1. /\ refs' \in References /\ refs'.lock = refs.lock \union {o}
          /\ refs'.bound = refs.bound /\ refs'.open = refs.open
          /\ refs'.pointer = refs.pointer
      BY <1>2, <1>3, <2>2 DEF References
    <3> QED
      BY <1>1, <1>2, <1>5, <3>1 DEF HeldAreListed
  <2> QED
    BY <1>1, <2>1, <2>2
<1>13. /\ boot' \in {"first", "overlays", "rest", "run"}
       /\ boot' \in {"first", "overlays", "rest"} => mons' # <<>>
  BY <1>1, <1>5 DEF OutputsInv
<1> QED
  BY <1>1, <1>3, <1>7, <1>9, <1>11, <1>12, <1>13 DEF OutputsInv

(* The first of a list, and the list of one output.                         *)
LEMMA Single ==
    ASSUME NEW o \in Connectors
    PROVE  <<o>> \in Seq(Connectors) /\ Members(<<o>>) = {o} /\ Distinct(<<o>>)
<1>1. /\ <<o>> \in Seq(Connectors) /\ Len(<<o>>) = 1 /\ <<o>>[1] = o
      /\ DOMAIN <<o>> = 1..1
  OBVIOUS
<1> QED
  BY <1>1 DEF Members, Outputs!ToSet, Distinct

LEMMA HeadListed ==
    ASSUME mons \in Seq(Connectors), mons # <<>>
    PROVE  Head(mons) \in Connectors /\ Head(mons) \in Members(mons)
<1>1. Len(mons) \in Nat \ {0} /\ DOMAIN mons = 1..Len(mons) /\ Head(mons) = mons[1]
  BY EmptySeq
<1>2. 1 \in DOMAIN mons
  BY <1>1
<1> QED
  BY <1>1, <1>2 DEF Members, Outputs!ToSet

LEMMA NobodyAwaited == ASSUME waits = <<>> PROVE Members(waits) = {}
BY DEF Members, Outputs!ToSet

LEMMA StartFirstKeepsPhases == OutputsInv /\ Outputs!StartFirst => OutputsInv'
<1> SUFFICES ASSUME OutputsInv, Outputs!StartFirst PROVE OutputsInv'
  OBVIOUS
<1> DEFINE o == Head(mons)
<1>1. /\ boot = "bind" /\ wire = <<>> /\ boot' = "first"
      /\ mon' = [mon EXCEPT ![o] = Outputs!CreateSurfaces(mon[o])]
      /\ waits' = <<o>>
      /\ UNCHANGED <<wire, world, mons, refs>>
  BY DEF Outputs!StartFirst
<1>2. /\ mon \in [Connectors -> Monitor] /\ PhasesHold /\ mons \in Seq(Connectors)
      /\ world # {} /\ world \subseteq Connectors
  BY <1>1 DEF OutputsInv
<1>3. \A x : About(wire, x) = {}
  BY <1>1 DEF About
<1>4. ASSUME NEW x \in Connectors
      PROVE  \/ /\ x \in world /\ x \in Members(mons) /\ mon[x].done /\ Untouched(mon[x])
             \/ /\ x \notin world /\ x \notin Members(mons)
                /\ ~mon[x].done /\ Untouched(mon[x])
  <2>1. InPhase(x, boot, world, Members(mons), Members(waits), mon[x], {})
    BY <1>2, <1>3 DEF PhasesHold
  <2> QED
    BY <1>1, <2>1 DEF InPhase
<1>5. mons # <<>>
  <2>1. PICK x \in world : TRUE
    BY <1>2
  <2>2. x \in Members(mons)
    BY <1>2, <1>4
  <2> QED
    BY <2>2 DEF Members, Outputs!ToSet
<1>6. o \in Connectors /\ o \in Members(mons)
  BY <1>2, <1>5, HeadListed
<1> HIDE DEF o
<1>7. o \in world /\ mon[o].done /\ Untouched(mon[o]) /\ mon[o] \in Monitor
  BY <1>2, <1>4, <1>6
<1> DEFINE t == Outputs!CreateSurfaces(mon[o])
<1>8. t \in Monitor /\ Begun(t) /\ t.asked /\ ~t.configured
  BY <1>7, ActivationSteps
<1> HIDE DEF t
<1>9. /\ mon' \in [Connectors -> Monitor] /\ mon'[o] = t
      /\ \A x \in Connectors \ {o} : mon'[x] = mon[x]
  BY <1>1, <1>2, <1>6, <1>8 DEF t
<1>10. waits' \in Seq(Connectors) /\ Members(waits') = {o} /\ Distinct(waits')
  BY <1>1, <1>6, Single
<1>11. ASSUME NEW x \in Connectors
       PROVE  InPhase(x, boot', world', Members(mons'), Members(waits'), mon'[x],
                      About(wire', x))
  <2>1. About(wire', x) = {}
    BY <1>1, <1>3
  <2>2. CASE x = o
    BY <1>1, <1>6, <1>7, <1>8, <1>9, <1>10, <2>1, <2>2 DEF InPhase
  <2>3. CASE x # o
    BY <1>1, <1>4, <1>9, <1>10, <2>1, <2>3 DEF InPhase
  <2> QED
    BY <2>2, <2>3
<1>12. PhasesHold'
  BY <1>11 DEF PhasesHold
<1> QED
  BY <1>1, <1>5, <1>9, <1>10, <1>12 DEF OutputsInv

LEMMA CreateOverlaysKeepsPhases == OutputsInv /\ Outputs!CreateOverlays => OutputsInv'
<1> SUFFICES ASSUME OutputsInv, Outputs!CreateOverlays PROVE OutputsInv'
  OBVIOUS
<1> DEFINE o == Head(mons)
           bound == [p \in Panels |-> o]
<1>1. /\ boot = "overlays" /\ boot' = "rest" /\ refs' = [refs EXCEPT !.bound = bound]
      /\ UNCHANGED <<wire, world, mons, mon, waits>>
  BY DEF Outputs!CreateOverlays
<1>2. /\ mons \in Seq(Connectors) /\ mons # <<>> /\ PhasesHold
      /\ refs \in References /\ HeldAreListed(refs, Members(mons))
  BY <1>1 DEF OutputsInv
<1>3. o \in Connectors /\ o \in Members(mons) /\ o # Outputs!NoOutput
  <2>1. o \in Connectors /\ o \in Members(mons)
    BY <1>2, HeadListed
  <2>2. Outputs!NoOutput \notin Connectors
    BY WorkersAssumption DEF WorkersAssumption
  <2> QED
    BY <2>1, <2>2
<1> HIDE DEF o
<1>4. bound \in [Panels -> Connectors \union {Outputs!NoOutput}] /\ \A p \in Panels : bound[p] = o
  BY <1>3
<1> HIDE DEF bound
<1>5. /\ refs' \in References /\ refs'.bound = bound /\ refs'.open = refs.open
      /\ refs'.pointer = refs.pointer /\ refs'.lock = refs.lock
  BY <1>1, <1>2, <1>4 DEF References
<1>6. refs.open \subseteq Panels
  BY <1>2 DEF References
<1>7. HeldAreListed(refs', Members(mons'))
  BY <1>1, <1>2, <1>3, <1>4, <1>5, <1>6 DEF HeldAreListed
<1>8. PhasesHold'
  <2> SUFFICES ASSUME NEW x \in Connectors
               PROVE  InPhase(x, boot', world', Members(mons'), Members(waits'), mon'[x],
                              About(wire', x))
    BY DEF PhasesHold
  <2>1. InPhase(x, boot, world, Members(mons), Members(waits), mon[x], About(wire, x))
    BY <1>2 DEF PhasesHold
  <2> QED
    BY <1>1, <2>1 DEF InPhase
<1> QED
  BY <1>1, <1>2, <1>5, <1>7, <1>8 DEF OutputsInv

LEMMA StartRestKeepsPhases == OutputsInv /\ Outputs!StartRest => OutputsInv'
<1> SUFFICES ASSUME OutputsInv, Outputs!StartRest PROVE OutputsInv'
  OBVIOUS
<1>1. /\ boot = "rest" /\ waits = <<>> /\ UNCHANGED <<wire, world, mons, refs>>
  BY DEF Outputs!StartRest
<1>2. /\ mon \in [Connectors -> Monitor] /\ PhasesHold /\ mons \in Seq(Connectors)
  BY DEF OutputsInv
<1>3. CASE Outputs!Inactive = {}
  <2>1. boot' = "run" /\ UNCHANGED <<mon, waits>>
    BY <1>3 DEF Outputs!StartRest
  <2>2. PhasesHold'
    <3> SUFFICES ASSUME NEW x \in Connectors
                 PROVE  InPhase(x, boot', world', Members(mons'), Members(waits'), mon'[x],
                                About(wire', x))
      BY DEF PhasesHold
    <3>1. InPhase(x, boot, world, Members(mons), Members(waits), mon[x], About(wire, x))
      BY <1>2 DEF PhasesHold
    <3>2. x \in Members(mons) => mon[x].activated
      BY <1>3 DEF Outputs!Inactive, Members
    <3> QED
      BY <1>1, <2>1, <3>1, <3>2 DEF InPhase, Untouched
  <2> QED
    BY <1>1, <2>1, <2>2 DEF OutputsInv
<1>4. CASE Outputs!Inactive # {}
  <2>1. PICK i \in DOMAIN mons :
           /\ mons[i] \in Outputs!Inactive
           /\ mon' = [mon EXCEPT ![mons[i]] = Outputs!CreateSurfaces(mon[mons[i]])]
           /\ waits' = <<mons[i]>> /\ boot' = boot
    BY <1>4 DEF Outputs!StartRest
  <2> DEFINE o == mons[i]
             t == Outputs!CreateSurfaces(mon[o])
  <2>2. /\ o \in Connectors /\ o \in Members(mons) /\ ~mon[o].activated
    BY <1>2, <2>1 DEF Outputs!Inactive, Members, Outputs!ToSet
  <2> HIDE DEF o
  <2>3. Members(waits) = {}
    BY <1>1, NobodyAwaited
  <2>4. /\ o \in world /\ mon[o].done /\ Untouched(mon[o]) /\ About(wire, o) = {}
    BY <1>1, <1>2, <2>2, <2>3 DEF PhasesHold, InPhase, Ready
  <2>5. t \in Monitor /\ Begun(t) /\ t.asked /\ ~t.configured
    BY <1>2, <2>2, <2>4, ActivationSteps
  <2> HIDE DEF t
  <2>6. /\ mon' \in [Connectors -> Monitor] /\ mon'[o] = t
        /\ \A x \in Connectors \ {o} : mon'[x] = mon[x]
    BY <1>2, <2>1, <2>2, <2>5 DEF o, t
  <2>7. waits' \in Seq(Connectors) /\ Members(waits') = {o} /\ Distinct(waits')
    BY <2>1, <2>2, Single DEF o
  <2>8. InPhase(o, boot', world', Members(mons'), Members(waits'), mon'[o], About(wire', o))
    BY <1>1, <2>1, <2>2, <2>4, <2>5, <2>6, <2>7 DEF InPhase
  <2>9. PhasesHold'
    BY <1>1, <1>2, <2>1, <2>2, <2>3, <2>6, <2>7, <2>8, OthersStay
  <2> QED
    BY <1>1, <2>1, <2>6, <2>7, <2>9 DEF OutputsInv
<1> QED
  BY <1>3, <1>4

(* The pointer moves and overlays open on monitors that are listed.         *)
LEMMA UseKeepsPhases ==
    ASSUME OutputsInv,
           \/ \E o \in Connectors : Outputs!MovePointer(o)
           \/ \E p \in Panels : Outputs!TogglePanel(p)
    PROVE  OutputsInv'
<1>1. UNCHANGED <<wire, world, mons, mon, waits, boot>>
  BY DEF Outputs!MovePointer, Outputs!TogglePanel
<1>2. /\ mons \in Seq(Connectors) /\ PhasesHold
      /\ refs \in References /\ HeldAreListed(refs, Members(mons))
  BY DEF OutputsInv
<1>3. refs' \in References /\ HeldAreListed(refs', Members(mons))
  <2>1. ASSUME NEW o \in Connectors, Outputs!MovePointer(o)
        PROVE  refs' \in References /\ HeldAreListed(refs', Members(mons))
    <3>1. refs' = [refs EXCEPT !.pointer = o] /\ o \in Members(mons)
      BY <2>1 DEF Outputs!MovePointer, Outputs!Has, Members
    <3>2. /\ refs' \in References /\ refs'.pointer = o /\ refs'.bound = refs.bound
          /\ refs'.open = refs.open /\ refs'.lock = refs.lock
      BY <1>2, <3>1 DEF References
    <3> QED
      BY <1>2, <3>1, <3>2 DEF HeldAreListed
  <2>2. ASSUME NEW p \in Panels, Outputs!TogglePanel(p)
        PROVE  refs' \in References /\ HeldAreListed(refs', Members(mons))
    <3> DEFINE target == IF refs.pointer # Outputs!NoOutput THEN refs.pointer ELSE Head(mons)
    <3>1. target \in Connectors /\ target \in Members(mons) /\ target # Outputs!NoOutput
      <4>1. CASE refs.pointer # Outputs!NoOutput
        BY <1>2, <4>1 DEF References, HeldAreListed
      <4>2. CASE refs.pointer = Outputs!NoOutput
        <5>1. mons # <<>>
          BY <2>2 DEF Outputs!TogglePanel
        <5>2. Head(mons) \in Connectors /\ Head(mons) \in Members(mons)
          BY <1>2, <5>1, HeadListed
        <5>3. Outputs!NoOutput \notin Connectors
          BY WorkersAssumption DEF WorkersAssumption
        <5> QED
          BY <4>2, <5>2, <5>3
      <4> QED
        BY <4>1, <4>2
    <3>2. refs' = IF p \in refs.open THEN [refs EXCEPT !.open = refs.open \ {p}]
                  ELSE [refs EXCEPT !.open = refs.open \union {p}, !.bound[p] = target]
      BY <2>2 DEF Outputs!TogglePanel
    <3> HIDE DEF target
    <3>3. CASE p \in refs.open
      <4>1. /\ refs' \in References /\ refs'.pointer = refs.pointer
            /\ refs'.bound = refs.bound /\ refs'.open = refs.open \ {p}
            /\ refs'.lock = refs.lock
        BY <1>2, <3>2, <3>3 DEF References
      <4> QED
        BY <1>2, <4>1 DEF HeldAreListed
    <3>4. CASE p \notin refs.open
      <4> DEFINE bound == [refs.bound EXCEPT ![p] = target]
      <4>1. /\ bound \in [Panels -> Connectors \union {Outputs!NoOutput}] /\ bound[p] = target
            /\ \A q \in Panels \ {p} : bound[q] = refs.bound[q]
        BY <1>2, <3>1 DEF References
      <4>2. refs' = [refs EXCEPT !.open = refs.open \union {p}, !.bound = bound]
        BY <3>2, <3>4
      <4> HIDE DEF bound
      <4>3. /\ refs' \in References /\ refs'.pointer = refs.pointer
            /\ refs'.bound = bound /\ refs'.open = refs.open \union {p}
            /\ refs'.lock = refs.lock
        BY <1>2, <4>1, <4>2 DEF References
      <4>4. refs.open \subseteq Panels
        BY <1>2 DEF References
      <4> QED
        BY <1>2, <3>1, <4>1, <4>3, <4>4 DEF HeldAreListed
    <3> QED
      BY <3>3, <3>4
  <2> QED
    BY <2>1, <2>2
<1>4. PhasesHold'
  BY <1>1, <1>2 DEF PhasesHold
<1> QED
  BY <1>1, <1>2, <1>3, <1>4 DEF OutputsInv

(* The compositor speaks of an output about which nothing is to be read.    *)
LEMMA CompositorKeepsPhases ==
    ASSUME OutputsInv, NEW o \in Connectors,
           Outputs!PlugIn(o) \/ Outputs!Unplug(o) \/ Outputs!Changes(o)
    PROVE  OutputsInv'
<1>1. UNCHANGED <<mons, mon, waits, boot, refs>>
  BY DEF Outputs!PlugIn, Outputs!Unplug, Outputs!Changes, Outputs!Silent
<1>2. /\ wire \in Seq(WireEvent) /\ Ordered(wire) /\ PhasesHold /\ mon[o] \in Monitor
      /\ world \subseteq Connectors
      /\ InPhase(o, boot, world, Members(mons), Members(waits), mon[o], About(wire, o))
  BY DEF OutputsInv, PhasesHold
<1>3. /\ boot = "run" /\ About(wire, o) = {}
      /\ Outputs!PlugIn(o) \/ o \notin Members(waits)
  BY DEF Outputs!PlugIn, Outputs!Unplug, Outputs!Changes, Outputs!Booted, Outputs!Settled,
         Outputs!Waiting, Members, About
<1> DEFINE e(kind) == [ev |-> kind, o |-> o]
<1>4. \A k \in {"global", "done", "remove"} :
         e(k) \in WireEvent /\ e(k).o = o /\ e(k).ev = k
  BY DEF WireEvent
<1>5. ASSUME NEW k \in {"global", "done", "remove"}
      PROVE  LET t == Append(wire, e(k))
             IN  /\ t \in Seq(WireEvent) /\ Ordered(t) /\ About(t, o) = {k}
                 /\ \A x \in Connectors \ {o} : About(t, x) = About(wire, x)
  <2> DEFINE ek == e(k)
  <2>1. ek \in WireEvent /\ ek.o = o /\ ek.ev = k
    BY <1>4
  <2> HIDE DEF e, ek
  <2>2. LET t == Append(wire, ek)
        IN  /\ t \in Seq(WireEvent) /\ Ordered(t) /\ About(t, o) = {k}
            /\ \A x \in Connectors \ {o} : About(t, x) = About(wire, x)
    BY <1>2, <1>3, <2>1, Sent
  <2> QED
    BY <2>2 DEF ek
<1>6. CASE Outputs!PlugIn(o)
  <2>1. /\ o \notin world /\ world' = world \union {o}
        /\ wire' = wire \o <<e("global"), e("done")>> /\ o \notin Members(mons)
    BY <1>6 DEF Outputs!PlugIn, Outputs!Emit, Outputs!Has, Members
  <2> DEFINE w == Append(wire, e("global"))
             g == e("global")
             d == e("done")
  <2>2. /\ w \in Seq(WireEvent) /\ Ordered(w) /\ About(w, o) = {"global"}
        /\ \A x \in Connectors \ {o} : About(w, x) = About(wire, x)
    BY <1>5
  <2>3. /\ g \in WireEvent /\ d \in WireEvent /\ d.o = o /\ d.ev = "done"
        /\ w = Append(wire, g) /\ wire' = wire \o <<g, d>>
    BY <1>4, <2>1
  <2> HIDE DEF e, w, g, d
  <2>4. wire' = Append(w, d)
    BY <1>2, <2>3
  <2>5. /\ wire' \in Seq(WireEvent) /\ Ordered(wire') /\ About(wire', o) = {"global", "done"}
        /\ \A x \in Connectors \ {o} : About(wire', x) = About(wire, x)
    <3>1. About(w, d.o) \subseteq IF d.ev = "done" THEN {"global"} ELSE {}
      BY <2>2, <2>3
    <3>2. LET t == Append(w, d)
          IN  /\ t \in Seq(WireEvent) /\ Ordered(t)
              /\ \A x \in Connectors :
                    About(t, x) = IF x = d.o THEN About(w, x) \union {d.ev} ELSE About(w, x)
      BY <2>2, <2>3, <3>1, Sent
    <3>3. {"global"} \union {"done"} = {"global", "done"}
      OBVIOUS
    <3> QED
      BY <2>2, <2>3, <2>4, <3>2, <3>3
  <2>6. InPhase(o, boot', world', Members(mons'), Members(waits'), mon'[o], About(wire', o))
    BY <1>1, <1>2, <1>3, <2>1, <2>5 DEF InPhase
  <2>7. PhasesHold'
    BY <1>1, <1>2, <2>1, <2>5, <2>6, OthersStay
  <2> QED
    BY <1>1, <1>2, <2>1, <2>5, <2>7 DEF OutputsInv
<1>7. CASE Outputs!Unplug(o)
  <2>1. /\ o \in world /\ world' = world \ {o} /\ wire' = wire \o <<e("remove")>>
    BY <1>7 DEF Outputs!Unplug, Outputs!Emit
  <2>2. wire' = Append(wire, e("remove"))
    BY <1>2, <1>4, <2>1
  <2>3. /\ wire' \in Seq(WireEvent) /\ Ordered(wire') /\ About(wire', o) = {"remove"}
        /\ \A x \in Connectors \ {o} : About(wire', x) = About(wire, x)
    BY <1>5, <2>2
  <2> HIDE DEF e
  <2>4. InPhase(o, boot', world', Members(mons'), Members(waits'), mon'[o], About(wire', o))
    <3>1. o \notin Members(waits)
      BY <1>3, <2>1 DEF Outputs!PlugIn
    <3> QED
      BY <1>1, <1>2, <1>3, <2>1, <2>3, <3>1 DEF InPhase
  <2>5. PhasesHold'
    BY <1>1, <1>2, <2>1, <2>3, <2>4, OthersStay
  <2> QED
    BY <1>1, <1>2, <1>3, <2>1, <2>3, <2>5 DEF OutputsInv
<1>8. CASE Outputs!Changes(o)
  <2>1. /\ o \in world /\ world' = world /\ wire' = wire \o <<e("done")>>
    BY <1>8 DEF Outputs!Changes, Outputs!Emit
  <2>2. wire' = Append(wire, e("done"))
    BY <1>2, <1>4, <2>1
  <2>3. /\ wire' \in Seq(WireEvent) /\ Ordered(wire') /\ About(wire', o) = {"done"}
        /\ \A x \in Connectors \ {o} : About(wire', x) = About(wire, x)
    BY <1>5, <2>2
  <2> HIDE DEF e
  <2>4. InPhase(o, boot', world', Members(mons'), Members(waits'), mon'[o], About(wire', o))
    <3>1. o \notin Members(waits)
      BY <1>3, <2>1 DEF Outputs!PlugIn
    <3> QED
      BY <1>1, <1>2, <1>3, <2>1, <2>3, <3>1 DEF InPhase
  <2>5. PhasesHold'
    BY <1>1, <1>2, <2>1, <2>3, <2>4, OthersStay
  <2> QED
    BY <1>1, <1>2, <1>3, <2>1, <2>3, <2>5 DEF OutputsInv
<1> QED
  BY <1>6, <1>7, <1>8

LEMMA PhasesStep == OutputsInv /\ Outputs!Next => OutputsInv'
<1> SUFFICES ASSUME OutputsInv, Outputs!Next PROVE OutputsInv'
  OBVIOUS
<1>1. CASE Outputs!Configures \/ Outputs!Dispatch \/ Outputs!WaitEnds
  BY <1>1, ConfiguresKeepsPhases, DispatchKeepsPhases, WaitEndsKeepsPhases
<1>2. CASE Outputs!StartFirst \/ Outputs!CreateOverlays \/ Outputs!StartRest
  BY <1>2, StartFirstKeepsPhases, CreateOverlaysKeepsPhases, StartRestKeepsPhases
<1>3. CASE \/ \E o \in Connectors : Outputs!MovePointer(o)
           \/ \E p \in Panels : Outputs!TogglePanel(p)
  BY <1>3, UseKeepsPhases
<1>4. ASSUME NEW o \in Connectors,
             Outputs!PlugIn(o) \/ Outputs!Unplug(o) \/ Outputs!Changes(o)
      PROVE  OutputsInv'
  BY <1>4, CompositorKeepsPhases
<1> QED
  BY <1>1, <1>2, <1>3, <1>4 DEF Outputs!Next

(* The phases say what the run checks of the outputs.                       *)
LEMMA PhasesSuffice ==
    OutputsInv => Outputs!CreatedOnce /\ Outputs!NoneDangling /\ Outputs!OutputsReady
<1> SUFFICES ASSUME OutputsInv
             PROVE  Outputs!CreatedOnce /\ Outputs!NoneDangling /\ Outputs!OutputsReady
  OBVIOUS
<1>1. ASSUME NEW o \in Connectors
      PROVE  InPhase(o, boot, world, Members(mons), Members(waits), mon[o], About(wire, o))
  BY DEF OutputsInv, PhasesHold
<1>2. Outputs!CreatedOnce
  <2> SUFFICES ASSUME NEW o \in Connectors
               PROVE  mon[o].created <= 1 /\ mon[o].inited <= mon[o].created
    BY DEF Outputs!CreatedOnce
  <2>1. \/ mon[o].created = 0 /\ mon[o].inited = 0
        \/ mon[o].created = 1 /\ mon[o].inited \in {0, 1}
    BY <1>1 DEF InPhase, Untouched, Begun, Ready
  <2> QED
    BY <2>1
<1>3. Outputs!NoneDangling
  <2>1. /\ refs \in References /\ HeldAreListed(refs, Members(mons))
        /\ waits \in Seq(Connectors)
    BY DEF OutputsInv
  <2>2. ASSUME NEW i \in DOMAIN waits PROVE waits[i] \in Members(mons)
    <3>1. waits[i] \in Connectors /\ waits[i] \in Members(waits)
      BY <2>1 DEF Members, Outputs!ToSet
    <3> QED
      BY <1>1, <3>1 DEF InPhase
  <2> QED
    BY <2>1, <2>2 DEF Outputs!NoneDangling, HeldAreListed, Outputs!Has, Members
<1>4. ASSUME boot = "run", waits = <<>>, wire = <<>>
      PROVE  /\ Outputs!ToSet(mons) = world
             /\ \A o \in world : mon[o].activated /\ mon[o].inited = 1 /\ mon[o].configured
  <2>1. \A o \in Connectors : About(wire, o) = {} /\ o \notin Members(waits)
    BY <1>4, NobodyAwaited DEF About
  <2>2. ASSUME NEW o \in Connectors
        PROVE  /\ o \in Members(mons) <=> o \in world
               /\ o \in world => Ready(mon[o])
    BY <1>1, <1>4, <2>1 DEF InPhase
  <2>3. world \subseteq Connectors /\ Members(mons) \subseteq Connectors
    <3>1. mons \in Seq(Connectors) /\ world \subseteq Connectors
      BY DEF OutputsInv
    <3> QED
      BY <3>1 DEF Members, Outputs!ToSet
  <2>4. Members(mons) = world
    BY <2>2, <2>3
  <2>5. \A o \in world : Ready(mon[o])
    BY <2>2, <2>3
  <2> QED
    BY <2>4, <2>5 DEF Members, Ready
<1> QED
  BY <1>2, <1>3, <1>4 DEF Outputs!OutputsReady

(* MonitorsOnce, with the phases: only the outputs' own steps move them.     *)
THEOREM MonitorsCreatedOnce == MCSpec => []MonitorsOnce
<1> DEFINE Inv == part = "monitors" => OutputsInv
<1>1. MCInit => Inv
  BY OutputsInitially DEF MCInit
<1>2. Inv /\ [MCNext]_<<part, vars, guests>> => Inv'
  <2> SUFFICES ASSUME OutputsInv, [MCNext]_<<part, vars, guests>>, part = "monitors"
               PROVE  OutputsInv'
    BY DEF MCNext, guests
  <2>1. CASE Outputs!Next
    BY <2>1, PhasesStep
  <2>2. CASE UNCHANGED outputVars
    BY <2>2 DEF outputVars, OutputsInv, PhasesHold
  <2>3. Outputs!Next \/ UNCHANGED outputVars
    BY DEF MCNext, Calls, Guest, guests
  <2> QED
    BY <2>1, <2>2, <2>3
<1>3. Inv => MonitorsOnce
  BY PhasesSuffice DEF MonitorsOnce
<1> QED
  BY <1>1, <1>2, <1>3, PTL DEF MCSpec

-----------------------------------------------------------------------------
(* The screensaver.                                                        *)

(* A monitor found in use was used within the second, and one that was so   *)
(* twice shows nothing.                                                     *)
IdleInv ==
    /\ focused \in Monitors /\ timeouts \in Settings
    /\ DOMAIN since = Monitors /\ DOMAIN used = Monitors
    /\ screens = [m \in Monitors |-> screens[m]]
    /\ \A m \in Monitors :
          /\ "on" \in DOMAIN screens[m] /\ used[m] \in {0, 1, 2}
          /\ used[m] # 0 => since[m] = 0
          /\ used[m] = 2 /\ Screens!There(m) => \A k \in Screens!Kinds : ~screens[m].on[k]

(* What an overlay shows is not touched by its frames and its logo.         *)
SameOn(s, t) == DOMAIN t = DOMAIN s /\ t.on = s.on /\ t.there = s.there

LEMMA PaintedKeepsOn ==
    ASSUME NEW s, NEW ends
    PROVE  SameOn(s, Screens!Painted(s, ends))
BY DEF SameOn, Screens!Painted, Screens!Ticked

LEMMA RequestedKeepsOn ==
    ASSUME NEW s
    PROVE  SameOn(s, Screens!Requested(s))
<1>1. SameOn([s EXCEPT !.clock = Screens!FirstDraw(@)],
             Screens!Painted([s EXCEPT !.clock = Screens!FirstDraw(@)], {}))
  BY PaintedKeepsOn
<1>2. \A c : SameOn(s, [s EXCEPT !.clock = c])
  BY DEF SameOn
<1> QED
  BY <1>1, <1>2 DEF SameOn, Screens!Requested

(* idle_overlay_set_active turns off what it is told to.                    *)
LEMMA SetActiveTurns ==
    ASSUME NEW s, "on" \in DOMAIN s, NEW ambient, NEW saver
    PROVE  LET t == Screens!SetActive(s, ambient, saver)
           IN  /\ "on" \in DOMAIN t /\ t.there = s.there
               /\ ~ambient /\ ~saver => \A k \in Screens!Kinds : ~t.on[k]
<1> DEFINE want == [k \in Screens!Kinds |-> IF k = "saver" THEN saver ELSE ambient /\ ~saver]
           turned == {k \in Screens!Kinds : want[k] # s.on[k]}
           lit == IF "saver" \in turned /\ saver THEN Screens!Lit(s) ELSE s
           told == [lit EXCEPT !.on = want, !.moving = @ \union turned]
           t == Screens!SetActive(s, ambient, saver)
<1>1. t = IF turned = {} THEN s ELSE Screens!Requested(told)
  BY DEF Screens!SetActive
<1>2. ~ambient /\ ~saver => \A k \in Screens!Kinds : ~want[k]
  BY DEF Screens!Kinds
<1>3. "on" \in DOMAIN told /\ told.there = s.there /\ told.on = want
  <2>1. DOMAIN lit = DOMAIN s /\ lit.there = s.there
    BY DEF Screens!Lit
  <2> HIDE DEF lit, want, turned
  <2> QED
    BY <2>1
<1>4. turned = {} => \A k \in Screens!Kinds : want[k] = s.on[k]
  OBVIOUS
<1> SUFFICES /\ "on" \in DOMAIN t /\ t.there = s.there
             /\ ~ambient /\ ~saver => \A k \in Screens!Kinds : ~t.on[k]
  OBVIOUS
<1> HIDE DEF t, told, turned, want
<1>5. CASE turned = {}
  BY <1>1, <1>2, <1>4, <1>5
<1>6. CASE turned # {}
  BY <1>1, <1>2, <1>3, <1>6, RequestedKeepsOn DEF SameOn
<1> QED
  BY <1>5, <1>6

LEMMA IdleInitially == Screens!Init => IdleInv
<1> SUFFICES ASSUME Screens!Init PROVE IdleInv
  OBVIOUS
<1>1. screens = [m \in Monitors |-> Screens!Fresh(0)] /\ used = [m \in Monitors |-> 0]
  BY DEF Screens!Init
<1>2. \A m \in Monitors : "on" \in DOMAIN screens[m]
  BY <1>1 DEF Screens!Fresh
<1> QED
  BY <1>1, <1>2 DEF IdleInv, Screens!Init

(* A timeout of zero, which the settings accept, ends within the second in  *)
(* which a monitor is used.                                                 *)
TimeoutsLast == \A c \in Settings : c.ambient > 0 /\ c.saver > 0

LEMMA TickKeepsAwake ==
    ASSUME TimeoutsLast, IdleInv, Screens!TimerTick
    PROVE  IdleInv'
<1> DEFINE now == [m \in Monitors |->
               IF Screens!There(m) /\ since[m] = Screens!Never THEN 0
               ELSE Screens!Older(since[m])]
<1>1. /\ screens' = [m \in Monitors |->
             IF Screens!There(m)
             THEN Screens!SetActive(screens[m], Screens!IsIdle(now[m], timeouts.ambient),
                                    Screens!IsIdle(now[m], timeouts.saver))
             ELSE screens[m]]
      /\ since' = IF seatIdle THEN now ELSE [now EXCEPT ![focused] = 0]
      /\ used' = [m \in Monitors |->
             IF seatIdle \/ m # focused THEN 0 ELSE IF used[m] = 2 THEN 2 ELSE used[m] + 1]
      /\ UNCHANGED <<focused, timeouts>>
  BY DEF Screens!TimerTick, Screens!IdleTick
<1>2. Far \in Nat /\ Settings \subseteq [ambient : Nat, saver : Nat]
  BY WorkersAssumption DEF WorkersAssumption
<1>3. timeouts.ambient \in Nat \ {0} /\ timeouts.saver \in Nat \ {0}
  BY <1>2 DEF IdleInv, TimeoutsLast
<1>4. \A m \in Monitors : since[m] = 0 => now[m] \in {0, 1}
  BY <1>2 DEF Screens!Older, Screens!Never
<1>5. \A m \in Monitors : since[m] = 0 =>
          /\ ~Screens!IsIdle(now[m], timeouts.ambient)
          /\ ~Screens!IsIdle(now[m], timeouts.saver)
  BY <1>3, <1>4 DEF Screens!IsIdle
<1>6. \A m \in Monitors : used'[m] # 0 => since'[m] = 0
  BY <1>1 DEF IdleInv
<1>7. \A m \in Monitors : used'[m] \in {0, 1, 2} /\ (used'[m] = 2 => since[m] = 0)
  <2> SUFFICES ASSUME NEW m \in Monitors
               PROVE  used'[m] \in {0, 1, 2} /\ (used'[m] = 2 => since[m] = 0)
    OBVIOUS
  <2>1. used[m] \in {0, 1, 2} /\ (used[m] # 0 => since[m] = 0)
    BY DEF IdleInv
  <2>2. used'[m] = IF seatIdle \/ m # focused THEN 0 ELSE IF used[m] = 2 THEN 2 ELSE used[m] + 1
    BY <1>1
  <2> QED
    BY ONLY <2>1, <2>2
<1> HIDE DEF now
<1>8. ASSUME NEW m \in Monitors
      PROVE  /\ "on" \in DOMAIN screens'[m]
             /\ used'[m] = 2 /\ Screens!There(m)' => \A k \in Screens!Kinds : ~screens'[m].on[k]
  <2>1. CASE Screens!There(m)
    <3> DEFINE ambient == Screens!IsIdle(now[m], timeouts.ambient)
               saver == Screens!IsIdle(now[m], timeouts.saver)
               t == Screens!SetActive(screens[m], ambient, saver)
    <3>1. screens'[m] = t
      BY <1>1, <2>1
    <3>2. "on" \in DOMAIN screens[m]
      BY DEF IdleInv
    <3>3. used'[m] = 2 => ~ambient /\ ~saver
      BY <1>5, <1>7
    <3> HIDE DEF ambient, saver
    <3>4. /\ "on" \in DOMAIN t
          /\ ~ambient /\ ~saver => \A k \in Screens!Kinds : ~t.on[k]
      BY <3>2, SetActiveTurns
    <3> HIDE DEF t
    <3> QED
      BY <3>1, <3>3, <3>4
  <2>2. CASE ~Screens!There(m)
    BY <1>1, <2>2 DEF IdleInv, Screens!There
  <2> QED
    BY <2>1, <2>2
<1>9. DOMAIN since' = Monitors /\ DOMAIN used' = Monitors
      /\ screens' = [m \in Monitors |-> screens'[m]]
  BY <1>1 DEF now
<1> QED
  BY <1>1, <1>6, <1>7, <1>8, <1>9 DEF IdleInv

(* One overlay changes, not what it shows, or it is made anew.              *)
LEMMA SetKeepsAwake ==
    ASSUME IdleInv, NEW m \in Monitors, NEW s, Screens!Set(m, s), "on" \in DOMAIN s,
           \/ SameOn(screens[m], s)
           \/ ~s.there
           \/ \A k \in Screens!Kinds : ~s.on[k],
           UNCHANGED <<focused, since, timeouts, used>>
    PROVE  IdleInv'
<1>1. /\ screens' = [n \in Monitors |-> screens'[n]] /\ screens'[m] = s
      /\ \A n \in Monitors \ {m} : screens'[n] = screens[n]
  BY DEF Screens!Set, IdleInv
<1> QED
  BY <1>1 DEF IdleInv, Screens!There, SameOn

LEMMA IdleStep ==
    ASSUME TimeoutsLast, IdleInv, Screens!Next
    PROVE  IdleInv'
<1> USE DEF Screens!Rest
<1>1. CASE Screens!TimerTick
  BY <1>1, TickKeepsAwake
<1>2. CASE Screens!SeatTurns
  BY <1>2 DEF Screens!SeatTurns, IdleInv, Screens!There
<1>3. CASE Screens!RunsPosted
  <2> DEFINE c == Head(closures)
             s == [screens[c.m] EXCEPT !.job = "ready"]
  <2>1. CASE screens' = screens
    BY <1>3, <2>1 DEF Screens!RunsPosted, IdleInv, Screens!There
  <2>2. CASE screens' # screens
    <3>1. Screens!Set(c.m, Screens!Requested(s))
      BY <1>3, <2>2 DEF Screens!RunsPosted
    <3>2. c.m \in Monitors
      BY <2>2, <3>1 DEF Screens!Set, IdleInv
    <3>3. SameOn(screens[c.m], s)
      BY DEF SameOn
    <3>4. SameOn(screens[c.m], Screens!Requested(s)) /\ "on" \in DOMAIN Screens!Requested(s)
      <4>1. SameOn(s, Screens!Requested(s))
        BY RequestedKeepsOn
      <4> HIDE DEF s
      <4> QED
        BY <3>2, <3>3, <4>1 DEF SameOn, IdleInv
    <3> QED
      BY <1>3, <3>1, <3>2, <3>4, SetKeepsAwake DEF Screens!RunsPosted
  <2> QED
    BY <2>1, <2>2
<1>4. ASSUME NEW c \in Settings, Screens!ApplyConfigUpdate(c)
      PROVE  IdleInv'
  <2>1. /\ DOMAIN since' = Monitors
        /\ \A m \in Monitors : since'[m] = 0 \/ since'[m] = since[m]
    BY <1>4 DEF Screens!ApplyConfigUpdate, Screens!IdleReset
  <2> QED
    BY <1>4, <2>1 DEF Screens!ApplyConfigUpdate, IdleInv, Screens!There
<1>5. ASSUME NEW m \in Monitors, Screens!FocusMoves(m)
      PROVE  IdleInv'
  BY <1>5 DEF Screens!FocusMoves, IdleInv, Screens!There
<1>6. ASSUME NEW m \in Monitors, Screens!FrameDone(m)
      PROVE  IdleInv'
  <2>1. PICK s : Screens!Set(m, s) /\ SameOn(screens[m], s)
    <3> DEFINE drawn == [screens[m] EXCEPT !.clock = Screens!DoneForDraw(@)]
               idle == [screens[m] EXCEPT !.clock = Screens!DoneIdle(@)]
    <3>1. SameOn(screens[m], idle) /\ SameOn(screens[m], drawn)
      BY DEF SameOn
    <3>2. CASE Screens!Set(m, idle)
      BY <3>1, <3>2
    <3>3. ASSUME NEW ends, Screens!Set(m, Screens!Painted(drawn, ends))
          PROVE  \E s : Screens!Set(m, s) /\ SameOn(screens[m], s)
      <4>1. SameOn(drawn, Screens!Painted(drawn, ends))
        BY PaintedKeepsOn
      <4> HIDE DEF drawn
      <4> QED
        BY <3>1, <3>3, <4>1 DEF SameOn
    <3> QED
      BY <1>6, <3>2, <3>3 DEF Screens!FrameDone
  <2>2. "on" \in DOMAIN s
    BY <2>1 DEF IdleInv, SameOn
  <2> QED
    BY <1>6, <2>1, <2>2, SetKeepsAwake DEF Screens!FrameDone
<1>7. ASSUME NEW m \in Monitors, Screens!ThreadDecodes(m)
      PROVE  IdleInv'
  <2>1. PICK job : Screens!Set(m, [screens[m] EXCEPT !.job = job])
    BY <1>7 DEF Screens!ThreadDecodes
  <2> DEFINE s == [screens[m] EXCEPT !.job = job]
  <2>2. SameOn(screens[m], s) /\ "on" \in DOMAIN s
    BY DEF SameOn, IdleInv
  <2> HIDE DEF s
  <2> QED
    BY <1>7, <2>1, <2>2, SetKeepsAwake DEF Screens!ThreadDecodes, s
<1>8. ASSUME NEW m \in Monitors, Screens!Unplug(m)
      PROVE  IdleInv'
  <2> DEFINE s == [Screens!Fresh(screens[m].life) EXCEPT !.there = FALSE]
  <2>1. "on" \in DOMAIN s /\ ~s.there
    BY DEF Screens!Fresh
  <2>2. Screens!Set(m, s) /\ UNCHANGED <<focused, since, timeouts, used>>
    BY <1>8 DEF Screens!Unplug
  <2> HIDE DEF s
  <2> QED
    BY <2>1, <2>2, SetKeepsAwake
<1>9. ASSUME NEW m \in Monitors, Screens!Plug(m)
      PROVE  IdleInv'
  <2> DEFINE s == Screens!Fresh(screens[m].life + 1)
  <2>1. "on" \in DOMAIN s /\ \A k \in Screens!Kinds : ~s.on[k]
    BY DEF Screens!Fresh
  <2>2. Screens!Set(m, s) /\ UNCHANGED <<focused, since, timeouts, used>>
    BY <1>9 DEF Screens!Plug
  <2> HIDE DEF s
  <2> QED
    BY <2>1, <2>2, SetKeepsAwake
<1> QED
  BY <1>1, <1>2, <1>3, <1>4, <1>5, <1>6, <1>7, <1>8, <1>9 DEF Screens!Next

(* ScreensWait: a screensaver waits for its timeout, whatever the seat, the *)
(* focus, the settings and the plugs do, if no timeout is zero.             *)
THEOREM ScreensaversWait == TimeoutsLast => (MCSpec => ScreensWait)
<1> SUFFICES ASSUME TimeoutsLast PROVE MCSpec => ScreensWait
  OBVIOUS
<1> DEFINE Inv == part = "idle" => IdleInv
           Waits == part = "idle" => Screens!ChangeWaits
<1>1. MCInit => Inv
  BY IdleInitially DEF MCInit
<1>2. ASSUME [MCNext]_<<part, vars, guests>>, part' = "idle"
      PROVE  part = "idle" /\ (Screens!Next \/ UNCHANGED screenVars)
  BY <1>2 DEF MCNext, Calls, Guest, guests
<1>3. Inv /\ [MCNext]_<<part, vars, guests>> => Inv'
  <2> SUFFICES ASSUME Inv, [MCNext]_<<part, vars, guests>>, part' = "idle"
               PROVE  IdleInv'
    OBVIOUS
  <2>1. part = "idle" /\ (Screens!Next \/ UNCHANGED screenVars)
    BY <1>2
  <2>2. CASE Screens!Next
    BY <2>1, <2>2, IdleStep
  <2>3. CASE UNCHANGED screenVars
    BY <2>1, <2>3 DEF screenVars, IdleInv, Screens!There
  <2> QED
    BY <2>1, <2>2, <2>3
<1>4. [MCNext]_<<part, vars, guests>> => [Waits]_screenVars
  <2> SUFFICES ASSUME [MCNext]_<<part, vars, guests>>, part = "idle", ~UNCHANGED screenVars,
                      timeouts' # timeouts, NEW m \in Monitors, Screens!There(m)
               PROVE  ~Screens!IsIdle(since'[m], timeouts'.saver)
    BY DEF Screens!ChangeWaits
  <2>1. Screens!Next
    BY <1>2 DEF MCNext, guests
  <2>2. PICK c \in Settings : Screens!ApplyConfigUpdate(c)
    BY <2>1 DEF Screens!Next, Screens!TimerTick, Screens!SeatTurns, Screens!RunsPosted,
       Screens!FocusMoves, Screens!FrameDone, Screens!ThreadDecodes, Screens!Unplug,
       Screens!Plug, Screens!Rest
  <2>3. timeouts' = c /\ since'[m] = 0
    BY <2>2 DEF Screens!ApplyConfigUpdate, Screens!IdleReset
  <2>4. c.saver \in Nat
    BY WorkersAssumption DEF WorkersAssumption
  <2> QED
    BY <2>3, <2>4 DEF Screens!IsIdle
<1>5. Inv => (part = "idle" => Screens!InUseIsAwake)
  BY DEF IdleInv, Screens!InUseIsAwake
<1> QED
  BY <1>1, <1>3, <1>4, <1>5, PTL DEF MCSpec, ScreensWait

-----------------------------------------------------------------------------
(* The cards of the notifications.                                         *)

(* The cards c have tweens that end: what leaves has its exit, what stays   *)
(* its progress.                                                            *)
CardsOK(c) ==
    /\ DOMAIN c = {"entries", "progress", "exits"}
    /\ \A i \in DOMAIN c.entries :
          /\ DOMAIN c.entries[i] = {"text", "exiting"} /\ c.entries[i].exiting \in BOOLEAN
          /\ c.entries[i].exiting => i \in DOMAIN c.exits
          /\ ~c.entries[i].exiting => i \in DOMAIN c.progress

(* A card shows the text of its record, or leaves.                          *)
Follow(c, records) ==
    \A i \in DOMAIN c.entries :
        /\ i \in DOMAIN records => c.entries[i].text = records[i].text
        /\ i \notin DOMAIN records => c.entries[i].exiting

(* A view is painted only on a surface, and no request for a frame waits    *)
(* for a commit between the handlers.                                       *)
ViewOK(v) ==
    /\ DOMAIN v = {"plugged", "egl", "drawn", "clock", "hitboxes", "dismissed", "fades", "faded"}
    /\ v.drawn \in BOOLEAN /\ v.egl \in BOOLEAN /\ (v.drawn => v.egl)
    /\ v.clock \in Cards!Clock /\ v.clock.callback # "armed"

(* A view that shows a tween of the cards c, or fades, is painted again.    *)
DrivenView(c, v) ==
    v.drawn /\ (Cards!Active(c) \/ v.fades # {})
        => v.clock.callback = "committed" /\ v.clock.redraw

CardsInv ==
    /\ CardsOK(cards) /\ Follow(cards, service.records)
    /\ "records" \in DOMAIN service
    /\ \A i \in DOMAIN service.records : "text" \in DOMAIN service.records[i]
    /\ views = [m \in Monitors |-> views[m]]
    /\ \A m \in Monitors : ViewOK(views[m]) /\ DrivenView(cards, views[m])

(* notification_start_exit: exactly the named cards leave beside those that *)
(* do.                                                                      *)
LEMMA ExitStarts ==
    ASSUME NEW c, NEW ids, \A i \in DOMAIN c.entries :
               DOMAIN c.entries[i] = {"text", "exiting"} /\ c.entries[i].exiting \in BOOLEAN
    PROVE  LET leaving == {i \in ids \intersect DOMAIN c.entries : ~c.entries[i].exiting}
               t == Cards!StartExit(c, ids)
           IN  /\ DOMAIN t = {"entries", "progress", "exits"}
               /\ DOMAIN t.entries = DOMAIN c.entries
               /\ DOMAIN t.progress = DOMAIN c.progress \ leaving
               /\ DOMAIN t.exits = leaving \union DOMAIN c.exits
               /\ \A i \in DOMAIN c.entries :
                     /\ DOMAIN t.entries[i] = {"text", "exiting"}
                     /\ t.entries[i].text = c.entries[i].text
                     /\ t.entries[i].exiting \in BOOLEAN
                     /\ t.entries[i].exiting <=> (c.entries[i].exiting \/ i \in leaving)
<1> DEFINE leaving == {i \in ids \intersect DOMAIN c.entries : ~c.entries[i].exiting}
           t == Cards!StartExit(c, ids)
<1>1. /\ t.entries = [i \in DOMAIN c.entries |->
                         [c.entries[i] EXCEPT !.exiting = @ \/ i \in leaving]]
      /\ DOMAIN t = {"entries", "progress", "exits"}
      /\ DOMAIN t.progress = DOMAIN c.progress \ leaving
      /\ DOMAIN t.exits = leaving \union DOMAIN c.exits
  BY DEF Cards!StartExit
<1> SUFFICES /\ DOMAIN t = {"entries", "progress", "exits"}
             /\ DOMAIN t.entries = DOMAIN c.entries
             /\ DOMAIN t.progress = DOMAIN c.progress \ leaving
             /\ DOMAIN t.exits = leaving \union DOMAIN c.exits
             /\ \A i \in DOMAIN c.entries :
                   /\ DOMAIN t.entries[i] = {"text", "exiting"}
                   /\ t.entries[i].text = c.entries[i].text
                   /\ t.entries[i].exiting \in BOOLEAN
                   /\ t.entries[i].exiting <=> (c.entries[i].exiting \/ i \in leaving)
  OBVIOUS
<1> HIDE DEF t, leaving
<1>2. ASSUME NEW i \in DOMAIN c.entries
      PROVE  /\ DOMAIN t.entries[i] = {"text", "exiting"}
             /\ t.entries[i].text = c.entries[i].text
             /\ t.entries[i].exiting \in BOOLEAN
             /\ t.entries[i].exiting <=> (c.entries[i].exiting \/ i \in leaving)
  <2>1. PICK b \in BOOLEAN : b = (c.entries[i].exiting \/ i \in leaving)
    OBVIOUS
  <2>2. t.entries[i] = [c.entries[i] EXCEPT !.exiting = b]
    BY <1>1, <2>1
  <2> QED
    BY <2>1, <2>2
<1> QED
  BY <1>1, <1>2

(* AnimationManager::tick: only what a tween has ended goes or leaves.      *)
LEMMA TickKeepsCards ==
    ASSUME NEW c, NEW records, CardsOK(c), Follow(c, records)
    PROVE  LET t == Cards!Ticked(c)
           IN  /\ CardsOK(t) /\ Follow(t, records)
               /\ Cards!Active(t) => Cards!Active(c)
<1> DEFINE late == {i \in DOMAIN c.progress : c.progress[i] = 0}
           ended == {i \in DOMAIN c.exits : c.exits[i] = 0}
           run == [entries |-> [i \in DOMAIN c.entries \ ended |-> c.entries[i]],
                   progress |-> [i \in DOMAIN c.progress \ late |-> c.progress[i]],
                   exits |-> [i \in DOMAIN c.exits \ ended |-> c.exits[i]]]
           leaving == {i \in late \intersect DOMAIN run.entries : ~run.entries[i].exiting}
           t == Cards!StartExit(run, late)
<1>1. Cards!Ticked(c) = t
  BY DEF Cards!Ticked
<1>2. /\ DOMAIN run.entries = DOMAIN c.entries \ ended
      /\ DOMAIN run.progress = DOMAIN c.progress \ late
      /\ DOMAIN run.exits = DOMAIN c.exits \ ended
      /\ \A i \in DOMAIN run.entries : run.entries[i] = c.entries[i]
  OBVIOUS
<1>3. late \subseteq DOMAIN c.progress /\ ended \subseteq DOMAIN c.exits
  OBVIOUS
<1> HIDE DEF run, late, ended
<1>4. \A i \in DOMAIN run.entries :
          DOMAIN run.entries[i] = {"text", "exiting"} /\ run.entries[i].exiting \in BOOLEAN
  BY <1>2 DEF CardsOK
<1>5. /\ DOMAIN t = {"entries", "progress", "exits"}
      /\ DOMAIN t.entries = DOMAIN run.entries
      /\ DOMAIN t.progress = DOMAIN run.progress \ leaving
      /\ DOMAIN t.exits = leaving \union DOMAIN run.exits
      /\ \A i \in DOMAIN run.entries :
            /\ DOMAIN t.entries[i] = {"text", "exiting"}
            /\ t.entries[i].text = run.entries[i].text
            /\ t.entries[i].exiting \in BOOLEAN
            /\ t.entries[i].exiting <=> (run.entries[i].exiting \/ i \in leaving)
  BY <1>4, ExitStarts
<1>6. leaving \subseteq late /\ \A i \in late \intersect DOMAIN run.entries :
          run.entries[i].exiting \/ i \in leaving
  OBVIOUS
<1> SUFFICES CardsOK(t) /\ Follow(t, records) /\ (Cards!Active(t) => Cards!Active(c))
  BY <1>1
<1> HIDE DEF t, leaving
<1>7. CardsOK(t)
  BY <1>2, <1>3, <1>5, <1>6 DEF CardsOK
<1>8. Follow(t, records)
  BY <1>2, <1>5 DEF Follow
<1>9. Cards!Active(t) => Cards!Active(c)
  BY <1>2, <1>3, <1>5, <1>6 DEF Cards!Active
<1> QED
  BY <1>7, <1>8, <1>9

(* notification_sync, from any cards with their tweens.                     *)
LEMMA SyncFollows ==
    ASSUME NEW c, NEW records, CardsOK(c)
    PROVE  LET t == Cards!Sync(c, records)
           IN  CardsOK(t) /\ Follow(t, records)
<1> DEFINE fresh == {i \in DOMAIN records : i \notin DOMAIN c.entries}
           loaded == {i \in DOMAIN records \ fresh : c.entries[i].text # records[i].text}
           shown == [i \in DOMAIN c.entries \union fresh |->
                       IF i \in fresh
                       THEN [text |-> records[i].text, exiting |-> FALSE]
                       ELSE IF i \in loaded
                       THEN [c.entries[i] EXCEPT !.text = records[i].text]
                       ELSE c.entries[i]]
           run == [entries |-> shown,
                   progress |-> [i \in fresh \union loaded \union DOMAIN c.progress |->
                                    IF i \in fresh \union loaded THEN records[i].timeout
                                    ELSE c.progress[i]],
                   exits |-> c.exits]
           gone == DOMAIN shown \ DOMAIN records
           leaving == {i \in gone \intersect DOMAIN run.entries : ~run.entries[i].exiting}
           t == Cards!StartExit(run, gone)
<1>1. Cards!Sync(c, records) = t
  BY DEF Cards!Sync
<1>2. /\ run.entries = shown /\ run.exits = c.exits
      /\ DOMAIN run.progress = fresh \union loaded \union DOMAIN c.progress
      /\ DOMAIN shown = DOMAIN c.entries \union fresh
      /\ gone = DOMAIN shown \ DOMAIN records
  OBVIOUS
<1>3. /\ fresh = {i \in DOMAIN records : i \notin DOMAIN c.entries}
      /\ loaded = {i \in DOMAIN records \ fresh : c.entries[i].text # records[i].text}
  OBVIOUS
<1>4. \A i \in fresh : shown[i] = [text |-> records[i].text, exiting |-> FALSE]
  OBVIOUS
<1>5. \A i \in loaded : shown[i] = [c.entries[i] EXCEPT !.text = records[i].text]
  OBVIOUS
<1>6. \A i \in DOMAIN c.entries \ loaded : shown[i] = c.entries[i]
  OBVIOUS
<1> HIDE DEF run, gone, shown, fresh, loaded
<1>7. \A i \in DOMAIN shown :
          /\ DOMAIN shown[i] = {"text", "exiting"} /\ shown[i].exiting \in BOOLEAN
          /\ i \in DOMAIN records => shown[i].text = records[i].text
          /\ shown[i].exiting => i \in DOMAIN c.exits
          /\ ~shown[i].exiting => i \in fresh \union loaded \union DOMAIN c.progress
  <2> SUFFICES ASSUME NEW i \in DOMAIN shown
               PROVE  /\ DOMAIN shown[i] = {"text", "exiting"} /\ shown[i].exiting \in BOOLEAN
                      /\ i \in DOMAIN records => shown[i].text = records[i].text
                      /\ shown[i].exiting => i \in DOMAIN c.exits
                      /\ ~shown[i].exiting => i \in fresh \union loaded \union DOMAIN c.progress
    OBVIOUS
  <2>1. CASE i \in fresh
    <3>1. shown[i] = [text |-> records[i].text, exiting |-> FALSE]
      BY <1>4, <2>1
    <3>2. DOMAIN shown[i] = {"text", "exiting"} /\ shown[i].text = records[i].text
      BY ONLY <3>1
    <3>3. shown[i].exiting \in BOOLEAN /\ ~shown[i].exiting
      BY ONLY <3>1
    <3> QED
      BY ONLY <2>1, <3>2, <3>3
  <2>2. CASE i \in loaded
    <3>1. i \in DOMAIN c.entries /\ i \in DOMAIN records
      BY <1>3, <2>2
    <3>2. DOMAIN c.entries[i] = {"text", "exiting"} /\ c.entries[i].exiting \in BOOLEAN
      BY <3>1 DEF CardsOK
    <3>3. /\ DOMAIN shown[i] = {"text", "exiting"} /\ shown[i].text = records[i].text
          /\ shown[i].exiting = c.entries[i].exiting
      BY <1>5, <2>2, <3>2
    <3> QED
      BY <2>2, <3>1, <3>3 DEF CardsOK
  <2>3. CASE i \in DOMAIN c.entries \ loaded
    BY <1>3, <1>6, <2>3 DEF CardsOK
  <2> QED
    BY <1>2, <2>1, <2>2, <2>3
<1>8. /\ DOMAIN t = {"entries", "progress", "exits"}
      /\ DOMAIN t.entries = DOMAIN run.entries
      /\ DOMAIN t.progress = DOMAIN run.progress \ leaving
      /\ DOMAIN t.exits = leaving \union DOMAIN run.exits
      /\ \A i \in DOMAIN run.entries :
            /\ DOMAIN t.entries[i] = {"text", "exiting"}
            /\ t.entries[i].text = run.entries[i].text
            /\ t.entries[i].exiting \in BOOLEAN
            /\ t.entries[i].exiting <=> (run.entries[i].exiting \/ i \in leaving)
  <2>1. \A i \in DOMAIN run.entries :
            DOMAIN run.entries[i] = {"text", "exiting"} /\ run.entries[i].exiting \in BOOLEAN
    BY <1>2, <1>7
  <2> QED
    BY <2>1, ExitStarts
<1>9. leaving \subseteq gone /\ \A i \in gone \intersect DOMAIN run.entries :
          run.entries[i].exiting \/ i \in leaving
  OBVIOUS
<1> SUFFICES CardsOK(t) /\ Follow(t, records)
  BY <1>1
<1> HIDE DEF t, leaving
<1>10. CardsOK(t)
  BY <1>2, <1>7, <1>8, <1>9 DEF CardsOK
<1>11. Follow(t, records)
  BY <1>2, <1>7, <1>8, <1>9 DEF Follow
<1> QED
  BY <1>10, <1>11

(* notification_paint, in a frame callback of its own.                      *)
LEMMA PaintDrives ==
    ASSUME NEW c, NEW vs, vs = [n \in Monitors |-> vs[n]], NEW m \in Monitors,
           ViewOK(vs[m]), vs[m].egl, NEW k \in Cards!Clock, k.callback = "armed"
    PROVE  LET t == Cards!Painted(Cards!WithClock(Cards!State(c, vs), m, k), m)
           IN  /\ DOMAIN t = {"cards", "views"} /\ t.cards = Cards!Ticked(c)
               /\ t.views = [vs EXCEPT ![m] = t.views[m]]
               /\ ViewOK(t.views[m]) /\ DrivenView(t.cards, t.views[m])
<1> DEFINE s == Cards!WithClock(Cards!State(c, vs), m, k)
           v == [vs[m] EXCEPT !.clock = k]
           d == Cards!Ticked(c)
           fading == v.fades \ v.faded
           painted == [v EXCEPT !.drawn = TRUE, !.fades = fading, !.faded = {},
                                !.hitboxes = DOMAIN d.entries \ v.dismissed,
                                !.dismissed = @ \intersect DOMAIN d.entries,
                                !.clock = Cards!Committed(@)]
           asked == [painted EXCEPT !.clock = Cards!Deferred(@)]
           u == IF Cards!Active(d) \/ fading # {} THEN asked ELSE painted
           t == Cards!Painted(s, m)
<1> USE DEF Cards!Clock, Cards!Callbacks
<1>1. s.cards = c /\ s.views = [vs EXCEPT ![m] = v] /\ s.views[m] = v
  BY DEF Cards!WithClock, Cards!State
<1>2. DOMAIN t = {"cards", "views"} /\ t.cards = d /\ t.views = [s.views EXCEPT ![m] = u]
  <2> HIDE DEF s, d, v
  <2> QED
    BY <1>1 DEF Cards!Painted, Cards!State, d
<1>3. t.views = [vs EXCEPT ![m] = u] /\ t.views[m] = u
  <2> HIDE DEF t, u, s
  <2> QED
    BY <1>1, <1>2
<1>4. DOMAIN v = {"plugged", "egl", "drawn", "clock", "hitboxes", "dismissed", "fades", "faded"}
      /\ v.clock = k /\ v.egl = vs[m].egl /\ v.egl \in BOOLEAN
  BY DEF ViewOK
<1> DEFINE done == Cards!Committed(k)
<1>5. done \in Cards!Clock /\ done.callback = "committed"
  BY DEF Cards!Committed
<1>6. /\ ViewOK(painted) /\ painted.fades = fading /\ painted.clock = done
      /\ DOMAIN painted = DOMAIN v /\ painted.egl = v.egl /\ painted.drawn
  <2> HIDE DEF v, d, fading, done
  <2>1. /\ DOMAIN painted = DOMAIN v /\ painted.fades = fading
        /\ painted.egl = v.egl /\ painted.clock = Cards!Committed(v.clock)
    BY <1>4
  <2>2. painted.drawn = TRUE
    BY <1>4
  <2> HIDE DEF painted
  <2> QED
    BY <1>4, <1>5, <2>1, <2>2 DEF ViewOK, done
<1>7. ViewOK(asked) /\ asked.clock.callback = "committed" /\ asked.clock.redraw
  <2> HIDE DEF painted, done, v
  <2>1. /\ DOMAIN asked = DOMAIN painted /\ asked.clock = Cards!Deferred(done)
        /\ asked.egl = painted.egl /\ asked.drawn = painted.drawn
    BY <1>4, <1>6
  <2>2. Cards!Deferred(done) \in Cards!Clock /\ Cards!Deferred(done).callback = "committed"
        /\ Cards!Deferred(done).redraw
    BY <1>5 DEF Cards!Deferred
  <2> HIDE DEF asked
  <2> QED
    BY <1>4, <1>6, <2>1, <2>2 DEF ViewOK
<1>8. ViewOK(u) /\ DrivenView(d, u)
  <2> HIDE DEF asked, painted, d, fading, v
  <2> QED
    BY <1>6, <1>7 DEF DrivenView
<1> SUFFICES /\ DOMAIN t = {"cards", "views"} /\ t.cards = d
             /\ t.views = [vs EXCEPT ![m] = t.views[m]]
             /\ ViewOK(t.views[m]) /\ DrivenView(t.cards, t.views[m])
  OBVIOUS
<1> HIDE DEF t, u, d
<1> QED
  BY <1>2, <1>3, <1>8

(* notification_view_request_frame: the view m is behind a committed frame  *)
(* callback that repaints it, or has no surface.                            *)
Paints(v) == v.egl /\ v.clock.callback = "none" /\ ~v.clock.mapped

LEMMA RequestDrives ==
    ASSUME NEW c, NEW vs, vs = [n \in Monitors |-> vs[n]], NEW m \in Monitors, ViewOK(vs[m])
    PROVE  LET s == Cards!State(c, vs)
               t == Cards!Requested(s, m)
           IN  /\ DOMAIN t = {"cards", "views"}
               /\ t.cards = IF Paints(vs[m]) THEN Cards!Ticked(c) ELSE c
               /\ t.views = [vs EXCEPT ![m] = t.views[m]]
               /\ ViewOK(t.views[m]) /\ DrivenView(t.cards, t.views[m])
               /\ ~Paints(vs[m]) => \A d : DrivenView(d, t.views[m])
<1> DEFINE s == Cards!State(c, vs)
           t == Cards!Requested(s, m)
           v == vs[m]
<1> USE DEF Cards!Clock, Cards!Callbacks
<1>1. s.cards = c /\ s.views = vs /\ DOMAIN s = {"cards", "views"}
  BY DEF Cards!State
<1>2. ASSUME NEW k \in Cards!Clock
      PROVE  LET r == Cards!WithClock(s, m, k)
             IN  /\ DOMAIN r = {"cards", "views"} /\ r.cards = c
                 /\ r.views = [vs EXCEPT ![m] = [v EXCEPT !.clock = k]]
  BY <1>1 DEF Cards!WithClock
<1>3. ASSUME NEW k \in Cards!Clock, k.callback # "armed"
      PROVE  LET u == [v EXCEPT !.clock = k]
             IN  /\ ViewOK(u) /\ u.clock = k /\ u.drawn = v.drawn
                 /\ u.fades = v.fades
  BY <1>3 DEF ViewOK
<1>4. DOMAIN v = {"plugged", "egl", "drawn", "clock", "hitboxes", "dismissed", "fades", "faded"}
      /\ v.clock \in Cards!Clock /\ v.clock.callback # "armed"
  BY DEF ViewOK
<1> SUFFICES /\ DOMAIN t = {"cards", "views"}
             /\ t.cards = IF Paints(v) THEN Cards!Ticked(c) ELSE c
             /\ t.views = [vs EXCEPT ![m] = t.views[m]]
             /\ ViewOK(t.views[m]) /\ DrivenView(t.cards, t.views[m])
             /\ ~Paints(v) => \A d : DrivenView(d, t.views[m])
  OBVIOUS
<1> HIDE DEF s
<1>5. CASE ~v.egl
  <2>1. t = s
    BY <1>1, <1>5 DEF Cards!Requested
  <2>2. ~v.drawn
    BY <1>5 DEF ViewOK
  <2> HIDE DEF t
  <2> QED
    BY <1>1, <1>5, <2>1, <2>2 DEF DrivenView, Paints
<1>6. ASSUME NEW k \in Cards!Clock, k.callback = "committed", k.redraw,
             t = Cards!WithClock(s, m, k), ~Paints(v)
      PROVE  /\ DOMAIN t = {"cards", "views"} /\ t.cards = c
             /\ t.views = [vs EXCEPT ![m] = t.views[m]]
             /\ ViewOK(t.views[m]) /\ \A d : DrivenView(d, t.views[m])
  <2> DEFINE u == [v EXCEPT !.clock = k]
  <2>1. ViewOK(u) /\ u.clock = k
    BY <1>3, <1>6
  <2> HIDE DEF u
  <2>2. /\ DOMAIN t = {"cards", "views"} /\ t.cards = c
        /\ t.views = [vs EXCEPT ![m] = u]
    BY <1>2, <1>6 DEF u
  <2>3. t.views[m] = u
    BY <2>2
  <2> HIDE DEF t
  <2> QED
    BY <1>6, <2>1, <2>2, <2>3 DEF DrivenView
<1>7. CASE v.egl /\ v.clock.callback # "none"
  <2> DEFINE k == Cards!Deferred(v.clock)
  <2>1. k \in Cards!Clock /\ k.callback = "committed" /\ k.redraw
    BY <1>4, <1>7 DEF Cards!Deferred
  <2>2. t = Cards!WithClock(s, m, k) /\ ~Paints(v)
    BY <1>1, <1>7 DEF Cards!Requested, Paints
  <2> HIDE DEF k, t
  <2> QED
    BY <1>6, <2>1, <2>2
<1>8. CASE v.egl /\ v.clock.callback = "none" /\ v.clock.mapped
  <2> DEFINE k == Cards!Scheduled(v.clock)
  <2>1. k \in Cards!Clock /\ k.callback = "committed" /\ k.redraw
    BY <1>4, <1>8 DEF Cards!Scheduled, Cards!Armed, Cards!Committed
  <2>2. t = Cards!WithClock(s, m, k) /\ ~Paints(v)
    BY <1>1, <1>8 DEF Cards!Requested, Paints
  <2> HIDE DEF k, t
  <2> QED
    BY <1>6, <2>1, <2>2
<1>9. CASE Paints(v)
  <2> DEFINE k == Cards!FirstDraw(v.clock)
             r == Cards!Painted(Cards!WithClock(Cards!State(c, vs), m, k), m)
  <2>1. k \in Cards!Clock /\ k.callback = "armed"
    BY <1>4 DEF Cards!FirstDraw, Cards!Armed
  <2>2. t = r
    BY <1>1, <1>9 DEF Cards!Requested, Paints, s
  <2>3. v.egl
    BY <1>9 DEF Paints
  <2> HIDE DEF k
  <2>4. /\ DOMAIN r = {"cards", "views"} /\ r.cards = Cards!Ticked(c)
        /\ r.views = [vs EXCEPT ![m] = r.views[m]]
        /\ ViewOK(r.views[m]) /\ DrivenView(r.cards, r.views[m])
    BY <2>1, <2>3, PaintDrives
  <2> HIDE DEF r, t
  <2> QED
    BY <1>9, <2>2, <2>4
<1> QED
  BY <1>5, <1>7, <1>8, <1>9 DEF Paints

(* All views are asked, and what they were does not matter.                 *)
LEMMA AllDriven ==
    ASSUME NEW c, NEW vs, vs = [n \in Monitors |-> vs[n]],
           \A n \in Monitors : ViewOK(vs[n]),
           NEW records, CardsOK(c), Follow(c, records)
    PROVE  LET t == Cards!AllRequested(Cards!State(c, vs))
           IN  /\ CardsOK(t.cards) /\ Follow(t.cards, records)
               /\ t.views = [n \in Monitors |-> t.views[n]]
               /\ \A n \in Monitors : ViewOK(t.views[n]) /\ DrivenView(t.cards, t.views[n])
<1> DEFINE s == Cards!State(c, vs)
           r(n) == Cards!Requested(s, n)
           d == Cards!Ticked(c)
           paints == {n \in Monitors : Paints(vs[n])}
           t == Cards!AllRequested(s)
<1>1. s.cards = c /\ s.views = vs
  BY DEF Cards!State
<1>2. /\ t.cards = IF paints = {} THEN c ELSE d
      /\ t.views = [n \in Monitors |-> r(n).views[n]]
  <2> HIDE DEF s
  <2> QED
    BY <1>1 DEF Cards!AllRequested, Cards!State, Paints
<1>3. CardsOK(d) /\ Follow(d, records) /\ (Cards!Active(d) => Cards!Active(c))
  BY TickKeepsCards
<1>4. ASSUME NEW n \in Monitors
      PROVE  /\ r(n).cards = IF Paints(vs[n]) THEN d ELSE c
             /\ ViewOK(r(n).views[n]) /\ DrivenView(r(n).cards, r(n).views[n])
             /\ ~Paints(vs[n]) => \A x : DrivenView(x, r(n).views[n])
  BY RequestDrives
<1> HIDE DEF r, d
<1>5. ASSUME NEW n \in Monitors
      PROVE  ViewOK(t.views[n]) /\ DrivenView(t.cards, t.views[n])
  <2>1. t.views[n] = r(n).views[n]
    BY <1>2
  <2>2. CASE Paints(vs[n])
    <3>1. t.cards = r(n).cards
      BY <1>2, <1>4, <2>2
    <3> QED
      BY <1>4, <2>1, <3>1
  <2>3. CASE ~Paints(vs[n])
    BY <1>4, <2>1, <2>3
  <2> QED
    BY <2>2, <2>3
<1> SUFFICES /\ CardsOK(t.cards) /\ Follow(t.cards, records)
             /\ t.views = [n \in Monitors |-> t.views[n]]
             /\ \A n \in Monitors : ViewOK(t.views[n]) /\ DrivenView(t.cards, t.views[n])
  OBVIOUS
<1> HIDE DEF t
<1> QED
  BY <1>2, <1>3, <1>5

(* notification_refresh, after the records have become those of s.          *)
LEMMA RefreshFollows ==
    ASSUME CardsInv, NEW s, Cards!Refresh(s), "records" \in DOMAIN s,
           \A i \in DOMAIN s.records : "text" \in DOMAIN s.records[i]
    PROVE  CardsInv'
<1> DEFINE c == Cards!Sync(cards, s.records)
           t == Cards!AllRequested(Cards!State(c, views))
<1>1. CardsOK(c) /\ Follow(c, s.records)
  BY SyncFollows DEF CardsInv
<1>2. service' = s /\ cards' = t.cards /\ views' = t.views
  BY DEF Cards!Refresh, Cards!Becomes
<1> HIDE DEF c
<1>3. /\ CardsOK(t.cards) /\ Follow(t.cards, s.records)
      /\ t.views = [n \in Monitors |-> t.views[n]]
      /\ \A n \in Monitors : ViewOK(t.views[n]) /\ DrivenView(t.cards, t.views[n])
  BY <1>1, AllDriven DEF CardsInv
<1> HIDE DEF t
<1> QED
  BY <1>2, <1>3 DEF CardsInv

(* The records a message leaves.                                            *)
Texted(s) ==
    "records" \in DOMAIN s /\ \A i \in DOMAIN s.records : "text" \in DOMAIN s.records[i]

LEMMA HandledTexted ==
    ASSUME NEW s, Texted(s), NEW msg
    PROVE  Texted(Cards!Handled(s, msg))
<1>1. ASSUME NEW id, NEW text, NEW timeout
      PROVE  Texted(Cards!Push(s, id, text, timeout))
  <2> DEFINE n == IF id = 0 THEN s.nextId ELSE id
             record == [text |-> text, timeout |-> timeout, left |-> timeout]
             t == Cards!Push(s, id, text, timeout)
  <2>1. /\ "records" \in DOMAIN t
        /\ t.records = [i \in DOMAIN s.records \union {n} |->
                           IF i = n THEN record ELSE s.records[i]]
    BY DEF Cards!Push
  <2>2. "text" \in DOMAIN record
    OBVIOUS
  <2> HIDE DEF record, t, n
  <2>3. Texted(t)
    BY <2>1, <2>2 DEF Texted
  <2> QED
    BY <2>3 DEF t
<1>2. ASSUME NEW ids
      PROVE  Texted(Cards!Without(s, ids))
  BY DEF Texted, Cards!Without
<1> QED
  BY <1>1, <1>2 DEF Cards!Handled, Cards!Close

LEMMA CardsInitially == Cards!Init => CardsInv
<1> SUFFICES ASSUME Cards!Init PROVE CardsInv
  OBVIOUS
<1>1. DOMAIN <<>> = {} /\ service.records = <<>> /\ "records" \in DOMAIN service
  BY DEF Cards!Init
<1>2. /\ DOMAIN cards = {"entries", "progress", "exits"} /\ cards.entries = <<>>
      /\ cards.progress = <<>> /\ cards.exits = <<>>
  BY DEF Cards!Init
<1>3. ~Cards!Active(cards)
  BY <1>1, <1>2 DEF Cards!Active
<1>4. PICK first \in Monitors :
          views = [m \in Monitors |-> IF m = first THEN Cards!FirstView(m \in enabled)
                                      ELSE Cards!NoView]
  BY DEF Cards!Init
<1>5. \A m \in Monitors : /\ ViewOK(Cards!FirstView(m \in enabled))
                           /\ DrivenView(cards, Cards!FirstView(m \in enabled))
  BY <1>3 DEF ViewOK, DrivenView, Cards!FirstView, Cards!NoView, Cards!Committed,
     Cards!FirstDraw, Cards!Armed, Cards!IdleClock, Cards!Clock, Cards!Callbacks
<1>6. ViewOK(Cards!NoView) /\ DrivenView(cards, Cards!NoView)
  BY <1>3 DEF ViewOK, DrivenView, Cards!NoView, Cards!IdleClock, Cards!Clock, Cards!Callbacks
<1>7. ASSUME NEW m \in Monitors
      PROVE  ViewOK(views[m]) /\ DrivenView(cards, views[m])
  BY <1>4, <1>5, <1>6
<1> QED
  BY <1>1, <1>2, <1>4, <1>7 DEF CardsInv, CardsOK, Follow

(* One view changes, and the cards only as a paint lets them.               *)
LEMMA OneDriven ==
    ASSUME CardsInv, NEW m \in Monitors, NEW t, Cards!Becomes(t),
           t.cards \in {cards, Cards!Ticked(cards)},
           t.views = [views EXCEPT ![m] = t.views[m]],
           ViewOK(t.views[m]), DrivenView(t.cards, t.views[m]), service' = service
    PROVE  CardsInv'
<1> DEFINE d == Cards!Ticked(cards)
<1>1. CardsOK(d) /\ Follow(d, service.records) /\ (Cards!Active(d) => Cards!Active(cards))
  BY TickKeepsCards DEF CardsInv
<1> HIDE DEF d
<1>2. /\ CardsOK(t.cards) /\ Follow(t.cards, service.records)
      /\ Cards!Active(t.cards) => Cards!Active(cards)
  BY <1>1 DEF CardsInv, d
<1>3. ASSUME NEW n \in Monitors
      PROVE  ViewOK(t.views[n]) /\ DrivenView(t.cards, t.views[n])
  <2>1. CASE n = m
    BY <2>1
  <2>2. CASE n # m
    <3>1. t.views[n] = views[n]
      BY <2>2 DEF CardsInv
    <3> QED
      BY <1>2, <3>1 DEF CardsInv, DrivenView
  <2> QED
    BY <2>1, <2>2
<1>4. t.views = [n \in Monitors |-> t.views[n]]
  BY DEF CardsInv
<1>5. cards' = t.cards /\ views' = t.views
  BY DEF Cards!Becomes
<1> QED
  BY <1>2, <1>3, <1>4, <1>5 DEF CardsInv

LEMMA FrameDrives ==
    ASSUME CardsInv, NEW m \in Monitors, Cards!Frame(m)
    PROVE  CardsInv'
<1> DEFINE s == Cards!State(cards, views)
           k == views[m].clock
           t == Cards!FrameDone(s, m)
<1> USE DEF Cards!Clock, Cards!Callbacks
<1>1. /\ ViewOK(views[m]) /\ DrivenView(cards, views[m])
      /\ views = [n \in Monitors |-> views[n]]
  BY DEF CardsInv
<1>2. s.cards = cards /\ s.views = views /\ DOMAIN s = {"cards", "views"}
  BY DEF Cards!State
<1>3. views[m].drawn /\ views[m].egl /\ k.callback = "committed" /\ k \in Cards!Clock
  BY <1>1 DEF Cards!Frame, ViewOK
<1>4. Cards!Becomes(t) /\ service' = service
  BY DEF Cards!Frame
<1>5. CASE k.redraw
  <2> DEFINE j == Cards!DoneForDraw(k)
             r == Cards!Painted(Cards!WithClock(s, m, j), m)
  <2>1. t = r
    BY <1>2, <1>5 DEF Cards!FrameDone
  <2>2. j \in Cards!Clock /\ j.callback = "armed"
    BY <1>3 DEF Cards!DoneForDraw, Cards!Armed
  <2> HIDE DEF j
  <2>3. /\ DOMAIN r = {"cards", "views"} /\ r.cards = Cards!Ticked(cards)
        /\ r.views = [views EXCEPT ![m] = r.views[m]]
        /\ ViewOK(r.views[m]) /\ DrivenView(r.cards, r.views[m])
    BY <1>1, <1>3, <2>2, PaintDrives
  <2> HIDE DEF r, t
  <2> QED
    BY <1>4, <2>1, <2>3, OneDriven
<1>6. CASE ~k.redraw
  <2> DEFINE j == Cards!DoneIdle(k)
             u == [views[m] EXCEPT !.clock = j]
  <2>1. t = Cards!WithClock(s, m, j)
    BY <1>2, <1>6 DEF Cards!FrameDone
  <2>2. t.cards = cards /\ t.views = [views EXCEPT ![m] = u] /\ t.views[m] = u
    <3> HIDE DEF j, s, t
    <3> QED
      BY <1>1, <1>2, <2>1 DEF Cards!WithClock
  <2>3. j \in Cards!Clock /\ j.callback # "armed"
    BY <1>3 DEF Cards!DoneIdle
  <2> HIDE DEF j
  <2>4. ViewOK(u) /\ u.drawn = views[m].drawn /\ u.fades = views[m].fades
    BY <1>1, <2>3 DEF ViewOK
  <2>5. ~Cards!Active(cards) /\ views[m].fades = {}
    BY <1>1, <1>3, <1>6 DEF DrivenView
  <2> HIDE DEF u, t
  <2>6. DrivenView(cards, u)
    BY <2>4, <2>5 DEF DrivenView
  <2> QED
    BY <1>4, <2>2, <2>4, <2>6, OneDriven
<1> QED
  BY <1>5, <1>6

LEMMA ClickDrives ==
    ASSUME CardsInv, NEW m \in Monitors, Cards!CloseClick(m)
    PROVE  CardsInv'
<1>1. PICK id : Cards!Becomes(Cards!Requested(
              Cards!State(cards, [views EXCEPT ![m].dismissed = @ \union {id},
                                               ![m].fades = @ \union {id},
                                               ![m].faded = @ \ {id}]), m))
  BY DEF Cards!CloseClick
<1> DEFINE vs == [views EXCEPT ![m].dismissed = @ \union {id},
                               ![m].fades = @ \union {id},
                               ![m].faded = @ \ {id}]
           t == Cards!Requested(Cards!State(cards, vs), m)
<1>2. ViewOK(views[m]) /\ views = [n \in Monitors |-> views[n]]
  BY DEF CardsInv
<1>3. /\ vs = [n \in Monitors |-> vs[n]]
      /\ \A n \in Monitors \ {m} : vs[n] = views[n]
  BY <1>2
<1>4. ViewOK(vs[m])
  <2>1. /\ DOMAIN vs[m] = DOMAIN views[m] /\ vs[m].clock = views[m].clock
        /\ vs[m].egl = views[m].egl /\ vs[m].drawn = views[m].drawn
    BY <1>2 DEF ViewOK
  <2> HIDE DEF vs
  <2> QED
    BY <1>2, <2>1 DEF ViewOK
<1> HIDE DEF vs
<1>5. /\ t.cards = IF Paints(vs[m]) THEN Cards!Ticked(cards) ELSE cards
      /\ t.views = [vs EXCEPT ![m] = t.views[m]]
      /\ ViewOK(t.views[m]) /\ DrivenView(t.cards, t.views[m])
  BY <1>3, <1>4, RequestDrives
<1>6. Cards!Becomes(t) /\ service' = service
  BY <1>1 DEF Cards!CloseClick, vs
<1> HIDE DEF t
<1>7. t.views = [views EXCEPT ![m] = t.views[m]]
  BY <1>2, <1>3, <1>5
<1> QED
  BY <1>5, <1>6, <1>7, OneDriven

(* NotificationViewPerMonitorModule::resync                                 *)
LEMMA ResyncedOK ==
    ASSUME NEW v, ViewOK(v), NEW want
    PROVE  ViewOK(Cards!Resynced(v, want))
<1> USE DEF Cards!Clock, Cards!Callbacks
<1>1. ViewOK(Cards!Created(v))
  BY DEF ViewOK, Cards!Created
<1>2. ViewOK(Cards!Destroyed(v))
  <2> DEFINE u == Cards!Destroyed(v)
  <2>1. /\ DOMAIN u = DOMAIN v /\ ~u.egl /\ ~u.drawn /\ u.egl \in BOOLEAN /\ u.drawn \in BOOLEAN
        /\ u.clock = [v.clock EXCEPT !.callback = "none", !.redraw = FALSE]
    BY DEF ViewOK, Cards!Destroyed
  <2>2. u.clock \in Cards!Clock /\ u.clock.callback = "none"
    BY <2>1 DEF ViewOK
  <2> HIDE DEF u
  <2>3. ViewOK(u)
    BY <2>1, <2>2 DEF ViewOK
  <2> QED
    BY <2>3 DEF u
<1> QED
  BY <1>1, <1>2 DEF Cards!Resynced

LEMMA CardsStep == CardsInv /\ Cards!Next => CardsInv'
<1> SUFFICES ASSUME CardsInv, Cards!Next PROVE CardsInv'
  OBVIOUS
<1>1. Texted(service)
  BY DEF CardsInv, Texted
<1>2. ASSUME NEW s, Texted(s), Cards!Refresh(s)
      PROVE  CardsInv'
  BY <1>2, RefreshFollows DEF Texted
<1>3. CASE Cards!BusReady
  <2>1. PICK first \in Cards!Message :
          \/ Cards!Refresh(Cards!Handled(service, first))
          \/ \E second \in Cards!Message :
                Cards!Refresh(Cards!Handled(Cards!Handled(service, first), second))
    BY <1>3 DEF Cards!BusReady
  <2>2. Texted(Cards!Handled(service, first))
    BY <1>1, HandledTexted
  <2> QED
    BY <1>2, <2>1, <2>2, HandledTexted
<1>4. CASE Cards!OwnNotification
  <2>1. PICK text \in Texts : Cards!Refresh(Cards!Push(service, 0, text, Cards!MaxTimeout))
    BY <1>4 DEF Cards!OwnNotification
  <2> DEFINE msg == [kind |-> "notify", id |-> 0, text |-> text, timeout |-> Cards!MaxTimeout]
  <2>2. Cards!Handled(service, msg) = Cards!Push(service, 0, text, Cards!MaxTimeout)
    BY DEF Cards!Handled
  <2>3. Texted(Cards!Handled(service, msg))
    BY <1>1, HandledTexted
  <2> QED
    BY <1>2, <2>1, <2>2, <2>3
<1>5. CASE Cards!Sweep
  <2>1. Cards!Refresh(Cards!Without(service, Cards!Expired(service)))
    BY <1>5 DEF Cards!Sweep
  <2>2. Texted(Cards!Without(service, Cards!Expired(service)))
    BY <1>1 DEF Texted, Cards!Without
  <2> QED
    BY <1>2, <2>1, <2>2
<1>6. CASE Cards!TimePasses
  <2>1. /\ DOMAIN cards' = DOMAIN cards /\ cards'.entries = cards.entries
        /\ DOMAIN cards'.progress = DOMAIN cards.progress
        /\ DOMAIN cards'.exits = DOMAIN cards.exits
    BY <1>6 DEF Cards!TimePasses, Cards!Less, CardsInv, CardsOK
  <2>2. /\ "records" \in DOMAIN service'
        /\ DOMAIN service'.records = DOMAIN service.records
        /\ \A i \in DOMAIN service.records :
              "text" \in DOMAIN service'.records[i]
              /\ service'.records[i].text = service.records[i].text
    BY <1>6 DEF Cards!TimePasses, CardsInv
  <2>3. views' = [m \in Monitors |-> [views[m] EXCEPT !.faded = views[m].fades]]
    BY <1>6 DEF Cards!TimePasses
  <2>4. ASSUME NEW m \in Monitors
        PROVE  ViewOK(views'[m]) /\ DrivenView(cards', views'[m])
    <3>1. ViewOK(views[m]) /\ DrivenView(cards, views[m])
      BY DEF CardsInv
    <3>2. /\ DOMAIN views'[m] = DOMAIN views[m] /\ views'[m].drawn = views[m].drawn
          /\ views'[m].egl = views[m].egl /\ views'[m].clock = views[m].clock
          /\ views'[m].fades = views[m].fades
      BY <2>3, <3>1 DEF ViewOK
    <3>3. Cards!Active(cards') <=> Cards!Active(cards)
      BY <2>1 DEF Cards!Active
    <3> QED
      BY <3>1, <3>2, <3>3 DEF ViewOK, DrivenView
  <2>5. CardsOK(cards)' /\ Follow(cards, service.records)'
    BY <2>1, <2>2 DEF CardsInv, CardsOK, Follow
  <2> QED
    BY <2>2, <2>3, <2>4, <2>5 DEF CardsInv
<1>7. ASSUME NEW vs, vs = [n \in Monitors |-> vs[n]], \A n \in Monitors : ViewOK(vs[n]),
             Cards!Becomes(Cards!AllRequested(Cards!State(cards, vs))), service' = service
      PROVE  CardsInv'
  <2> DEFINE t == Cards!AllRequested(Cards!State(cards, vs))
  <2>1. CardsOK(cards) /\ Follow(cards, service.records)
    BY DEF CardsInv
  <2>2. /\ CardsOK(t.cards) /\ Follow(t.cards, service.records)
        /\ t.views = [n \in Monitors |-> t.views[n]]
        /\ \A n \in Monitors : ViewOK(t.views[n]) /\ DrivenView(t.cards, t.views[n])
    BY <1>7, <2>1, AllDriven
  <2>3. cards' = t.cards /\ views' = t.views
    BY <1>7 DEF Cards!Becomes
  <2> HIDE DEF t
  <2> QED
    BY <1>7, <2>2, <2>3 DEF CardsInv
<1>8. CASE Cards!RedrawAll
  BY <1>7, <1>8 DEF Cards!RedrawAll, CardsInv
<1>9. CASE Cards!ApplyConfig
  <2> DEFINE vs == [m \in Monitors |-> Cards!Resynced(views[m], m \in enabled)]
  <2>1. \A n \in Monitors : ViewOK(vs[n])
    BY ResyncedOK DEF CardsInv
  <2>2. vs = [n \in Monitors |-> vs[n]]
    OBVIOUS
  <2>3. Cards!Becomes(Cards!AllRequested(Cards!State(cards, vs))) /\ service' = service
    BY <1>9 DEF Cards!ApplyConfig
  <2> HIDE DEF vs
  <2> QED
    BY <1>7, <2>1, <2>2, <2>3
<1>10. ASSUME NEW m \in Monitors, NEW v, ViewOK(v), ~v.drawn, views' = [views EXCEPT ![m] = v],
              cards' = cards, service' = service
       PROVE  CardsInv'
  <2>1. DrivenView(cards, v)
    BY <1>10 DEF DrivenView
  <2> QED
    BY <1>10, <2>1 DEF CardsInv
<1>11. ASSUME NEW m \in Monitors, Cards!Plug(m)
       PROVE  CardsInv'
  <2> DEFINE blank == [Cards!NoView EXCEPT !.plugged = TRUE]
             v == IF m \in enabled THEN Cards!Created(blank) ELSE blank
  <2>1. /\ ViewOK(blank) /\ ~blank.drawn
        /\ ViewOK(Cards!Created(blank)) /\ ~Cards!Created(blank).drawn
    BY DEF ViewOK, Cards!Created, Cards!NoView, Cards!IdleClock, Cards!Clock, Cards!Callbacks
  <2>2. views' = [views EXCEPT ![m] = v] /\ cards' = cards /\ service' = service
    BY <1>11 DEF Cards!Plug
  <2> HIDE DEF blank
  <2>3. ViewOK(v) /\ ~v.drawn
    BY <2>1
  <2> HIDE DEF v
  <2> QED
    BY <1>10, <2>2, <2>3
<1>12. ASSUME NEW m \in Monitors, Cards!Unplug(m)
       PROVE  CardsInv'
  <2>1. ViewOK(Cards!NoView) /\ ~Cards!NoView.drawn
    BY DEF ViewOK, Cards!NoView, Cards!IdleClock, Cards!Clock, Cards!Callbacks
  <2>2. views' = [views EXCEPT ![m] = Cards!NoView] /\ cards' = cards /\ service' = service
    BY <1>12 DEF Cards!Unplug
  <2> QED
    BY <1>10, <2>1, <2>2
<1> QED
  BY <1>3, <1>4, <1>5, <1>6, <1>8, <1>9, <1>11, <1>12, FrameDrives, ClickDrives DEF Cards!Next

(* CardsFollowRecords, whatever comes over the bus, in which order the      *)
(* views paint and the tweens end.                                          *)
THEOREM CardsKeepUp == MCSpec => []CardsFollowRecords
<1> DEFINE Inv == part = "notifications" => CardsInv
<1>1. MCInit => Inv
  BY CardsInitially DEF MCInit
<1>2. Inv /\ [MCNext]_<<part, vars, guests>> => Inv'
  <2> SUFFICES ASSUME Inv, [MCNext]_<<part, vars, guests>>, part' = "notifications"
               PROVE  CardsInv'
    OBVIOUS
  <2>1. part = "notifications" /\ (Cards!Next \/ UNCHANGED cardVars)
    BY DEF MCNext, Calls, Guest, guests
  <2>2. CASE Cards!Next
    BY <2>1, <2>2, CardsStep
  <2>3. CASE UNCHANGED cardVars
    BY <2>1, <2>3 DEF cardVars, CardsInv
  <2> QED
    BY <2>1, <2>2, <2>3
<1>3. Inv => CardsFollowRecords
  <2> SUFFICES ASSUME CardsInv
               PROVE  Cards!CardsFollowRecords /\ Cards!CardsAreDriven
    BY DEF CardsFollowRecords
  <2>1. Cards!CardsFollowRecords
    BY DEF CardsInv, Follow, Cards!CardsFollowRecords
  <2>2. Cards!CardsAreDriven
    BY DEF CardsInv, CardsOK, ViewOK, DrivenView, Cards!CardsAreDriven
  <2> QED
    BY <2>1, <2>2
<1> QED
  BY <1>1, <1>2, <1>3, PTL DEF MCSpec

-----------------------------------------------------------------------------
(* The windows of the rain and the visualizer.                             *)

WindowFields ==
    {"surface", "configured", "egl", "open", "size", "clocked", "clock", "shown"}

(* RainState of a window that its frame callbacks can paint, whatever its   *)
(* clock awaits.                                                            *)
RainUp(r) ==
    /\ DOMAIN r = {"win", "look", "built", "fading"} /\ DOMAIN r.win = WindowFields
    /\ r.win.open = TRUE /\ r.win.egl = TRUE /\ r.win.clock \in Toplevels!Clock
    /\ r.built.look = r.look

(* The rain is closed and awaits nothing, or open and awaits its next frame.*)
RainOK(r) ==
    \/ /\ DOMAIN r = {"win", "look", "built", "fading"} /\ DOMAIN r.win = WindowFields
       /\ r.win.open = FALSE /\ r.win.egl = FALSE /\ r.win.clocked = FALSE
       /\ r.win.clock = Toplevels!IdleClock
    \/ RainUp(r) /\ r.win.clock.callback = "committed" /\ r.win.clock.redraw

LEMMA RainPaintsOn ==
    ASSUME NEW r, RainUp(r), r.win.clock.callback # "none"
    PROVE  RainOK(Toplevels!RainPainted(r)) /\ Toplevels!RainPainted(r).look = r.look
<1> DEFINE b == IF r.built.size = r.win.size THEN r.built ELSE Toplevels!Rebuilt(r)
           c == Toplevels!Committed(r.win.clock)
           k == Toplevels!Deferred(c)
           t == [r EXCEPT !.built = b, !.win.shown = b, !.win.clock = k]
<1>1. k \in Toplevels!Clock /\ k.callback = "committed" /\ k.redraw
  BY DEF RainUp, Toplevels!Committed, Toplevels!Deferred, Toplevels!Clock, Toplevels!Callbacks
<1>2. b.look = r.look
  BY DEF RainUp, Toplevels!Rebuilt
<1>3. Toplevels!RainPainted(r) = t
  BY DEF Toplevels!RainPainted, RainUp
<1> HIDE DEF b, k
<1>4. RainOK(t) /\ t.look = r.look
  BY <1>1, <1>2 DEF RainOK, RainUp, WindowFields
<1> QED
  BY <1>3, <1>4

LEMMA RainRequests ==
    ASSUME NEW r, RainUp(r), r.win.clock.callback # "armed"
    PROVE  RainOK(Toplevels!RainRequested(r)) /\ Toplevels!RainRequested(r).look = r.look
<1> DEFINE c == r.win.clock
<1> USE DEF Toplevels!Clock, Toplevels!Callbacks
<1>1. c \in Toplevels!Clock
  BY DEF RainUp
<1>2. ASSUME NEW k \in Toplevels!Clock
      PROVE  LET t == [r EXCEPT !.win.clock = k]
             IN  /\ RainUp(t) /\ t.look = r.look /\ t.win.clock = k
                 /\ k.callback = "committed" /\ k.redraw => RainOK(t)
  BY DEF RainUp, RainOK, WindowFields
<1>3. CASE c.callback # "none"
  <2> DEFINE k == Toplevels!Deferred(c)
  <2>1. k \in Toplevels!Clock /\ k.callback = "committed" /\ k.redraw
    BY <1>1, <1>3 DEF Toplevels!Deferred
  <2>2. Toplevels!RainRequested(r) = [r EXCEPT !.win.clock = k]
    BY <1>3 DEF Toplevels!RainRequested, RainUp
  <2> HIDE DEF k
  <2> QED
    BY <1>2, <2>1, <2>2
<1>4. CASE c.callback = "none" /\ c.mapped
  <2> DEFINE k == Toplevels!Scheduled(c)
  <2>1. k \in Toplevels!Clock /\ k.callback = "committed" /\ k.redraw
    BY <1>1, <1>4 DEF Toplevels!Scheduled, Toplevels!Armed, Toplevels!Committed
  <2>2. Toplevels!RainRequested(r) = [r EXCEPT !.win.clock = k]
    BY <1>4 DEF Toplevels!RainRequested, RainUp
  <2> HIDE DEF k
  <2> QED
    BY <1>2, <2>1, <2>2
<1>5. CASE c.callback = "none" /\ ~c.mapped
  <2> DEFINE k == Toplevels!FirstDraw(c)
             t == [r EXCEPT !.win.clock = k]
  <2>1. k \in Toplevels!Clock /\ k.callback = "armed"
    BY <1>1, <1>5 DEF Toplevels!FirstDraw, Toplevels!Armed
  <2>2. Toplevels!RainRequested(r) = Toplevels!RainPainted(t)
    BY <1>5 DEF Toplevels!RainRequested, RainUp
  <2> HIDE DEF k
  <2>3. RainUp(t) /\ t.look = r.look /\ t.win.clock = k
    BY <1>2, <2>1
  <2> HIDE DEF t
  <2> QED
    BY <2>1, <2>2, <2>3, RainPaintsOn
<1> QED
  BY <1>3, <1>4, <1>5

(* VisualizerState and its thread, given where the main thread is, what its *)
(* context is current on and the configured parameters.  What a frame was   *)
(* begun with is still so, unless it was changed since.                     *)
VizShape(v) ==
    /\ DOMAIN v = {"win", "context", "state", "bare"} /\ DOMAIN v.win = WindowFields
    /\ DOMAIN v.state = {"there", "shutdown", "look"}
    /\ v.win.clocked = FALSE /\ v.win.clock = Toplevels!IdleClock
    /\ v.win.size \in Nat \X Nat /\ v.state.there \in BOOLEAN
    /\ v.win.egl \in BOOLEAN

ThreadFields == {"step", "look", "width", "refused", "fresh"}

VizInv ==
    /\ VizShape(viz) /\ DOMAIN thread = ThreadFields
    /\ viz.state.there => viz.win.egl /\ viz.context /\ viz.state.look = cfg.viz
    /\ thread.step \in Toplevels!Alive => viz.state.there
    /\ viz.state.there /\ ~viz.state.shutdown /\ ~thread.refused /\ ~viz.bare =>
          thread.step \in Toplevels!Alive
    /\ thread.step = "started" /\ ~viz.bare => current # "viz"
    /\ at \in {"joining", "quitting"} /\ thread.step \in Toplevels!Alive => viz.state.shutdown
    /\ at = "gone" => thread.step \notin Toplevels!Alive
    /\ at = "viz" => ~viz.win.egl
    /\ thread.fresh =>
          /\ thread.step # "started"
          /\ thread.step \in {"reads", "draws"} => thread.look = viz.state.look
          /\ thread.step = "draws" => thread.width = viz.win.size[1]
          /\ thread.step = "waits" =>
                viz.win.shown = [look |-> viz.state.look, size |-> viz.win.size]

RainInv == RainOK(rain) /\ rain.look = cfg.rain

LEMMA WindowsInitially == Toplevels!Init => RainInv /\ VizInv
<1> SUFFICES ASSUME Toplevels!Init PROVE RainInv /\ VizInv
  OBVIOUS
<1>1. RainInv
  BY DEF RainInv, RainOK, Toplevels!Init, Toplevels!NoWindow, WindowFields
<1>2. VizInv
  BY DEF VizInv, VizShape, Toplevels!Init, Toplevels!NoWindow, Toplevels!NoState,
     Toplevels!NoThread, Toplevels!NoSize, Toplevels!Alive, WindowFields, ThreadFields
<1> QED
  BY <1>1, <1>2

LEMMA RainStep ==
    ASSUME RainInv, Toplevels!Next
    PROVE  RainInv'
<1> USE DEF RainInv
<1>1. CASE Toplevels!RainOpens
  <2> DEFINE w == Toplevels!Created(rain.win)
             r == [rain EXCEPT !.win = w]
  <2>1. rain' = r /\ cfg' = cfg /\ ~rain.win.open
    BY <1>1 DEF Toplevels!RainOpens
  <2>2. /\ DOMAIN rain = {"win", "look", "built", "fading"} /\ DOMAIN rain.win = WindowFields
        /\ rain.win.open = FALSE /\ rain.win.egl = FALSE /\ rain.win.clocked = FALSE
        /\ rain.win.clock = Toplevels!IdleClock
    BY <2>1 DEF RainOK, RainUp
  <2>3. /\ DOMAIN w = WindowFields /\ w.open = FALSE /\ w.egl = FALSE
        /\ w.clocked = FALSE /\ w.clock = Toplevels!IdleClock
    BY <2>2 DEF Toplevels!Created, WindowFields
  <2> HIDE DEF w
  <2> QED
    BY <2>1, <2>2, <2>3 DEF RainOK
<1>2. CASE Toplevels!RainResumes
  <2>1. CASE rain' = [rain EXCEPT !.win = Toplevels!Destroyed]
    BY <1>2, <2>1 DEF Toplevels!RainResumes, RainOK, RainUp, Toplevels!Destroyed,
       Toplevels!NoWindow, WindowFields
  <2>2. CASE rain' # [rain EXCEPT !.win = Toplevels!Destroyed]
    <3> DEFINE r == [rain EXCEPT !.win.egl = TRUE, !.win.clocked = TRUE, !.win.open = TRUE,
                                 !.built = Toplevels!Rebuilt(rain), !.fading = TRUE]
    <3>1. rain' = Toplevels!RainRequested(r) /\ cfg' = cfg
      BY <1>2, <2>2 DEF Toplevels!RainResumes
    <3>2. rain.win.clock \in Toplevels!Clock /\ rain.win.clock.callback # "armed"
      <4>1. Toplevels!IdleClock \in Toplevels!Clock /\ Toplevels!IdleClock.callback # "armed"
        BY DEF Toplevels!IdleClock, Toplevels!Clock, Toplevels!Callbacks
      <4> QED
        BY <4>1 DEF RainOK, RainUp
    <3>3. DOMAIN rain = {"win", "look", "built", "fading"} /\ DOMAIN rain.win = WindowFields
      BY DEF RainOK, RainUp
    <3>4. RainUp(r) /\ r.win.clock = rain.win.clock /\ r.look = rain.look
      <4>1. /\ DOMAIN r = DOMAIN rain /\ DOMAIN r.win = DOMAIN rain.win
            /\ r.win.clock = rain.win.clock /\ r.look = rain.look
            /\ r.built = Toplevels!Rebuilt(rain)
        BY <3>3 DEF WindowFields
      <4>2. r.win.open = TRUE /\ r.win.egl = TRUE
        BY <3>3 DEF WindowFields
      <4> HIDE DEF r
      <4> QED
        BY <3>2, <3>3, <4>1, <4>2 DEF RainUp, Toplevels!Rebuilt
    <3> HIDE DEF r
    <3> QED
      BY <3>1, <3>2, <3>4, RainRequests
  <2> QED
    BY <2>1, <2>2
<1>3. CASE Toplevels!RainCloses
  <2>1. rain' = [rain EXCEPT !.win = Toplevels!Destroyed, !.fading = FALSE] /\ cfg' = cfg
    BY <1>3 DEF Toplevels!RainCloses
  <2> QED
    BY <2>1 DEF RainOK, RainUp, Toplevels!Destroyed, Toplevels!NoWindow, WindowFields
<1>4. CASE Toplevels!RainFrameDone
  <2>1. rain.win.clock.callback = "committed" /\ cfg' = cfg
    BY <1>4 DEF Toplevels!RainFrameDone
  <2>2. RainUp(rain) /\ rain.win.clock.redraw
    BY <2>1 DEF RainOK, Toplevels!IdleClock
  <2>3. PICK fading : rain' = Toplevels!RainPainted(
                [rain EXCEPT !.win.clock = Toplevels!DoneForDraw(@), !.fading = fading])
    BY <1>4, <2>2 DEF Toplevels!RainFrameDone
  <2> DEFINE k == Toplevels!DoneForDraw(rain.win.clock)
             r == [rain EXCEPT !.win.clock = k, !.fading = fading]
  <2>4. k \in Toplevels!Clock /\ k.callback = "armed"
    BY <2>2 DEF RainUp, Toplevels!DoneForDraw, Toplevels!Armed, Toplevels!Clock,
       Toplevels!Callbacks
  <2>5. rain' = Toplevels!RainPainted(r)
    BY <2>3
  <2> HIDE DEF k
  <2>6. RainUp(r) /\ r.win.clock = k /\ r.look = rain.look
    BY <2>2, <2>4 DEF RainUp, WindowFields
  <2> HIDE DEF r
  <2> QED
    BY <2>1, <2>4, <2>5, <2>6, RainPaintsOn
<1>5. ASSUME NEW size \in Sizes, Toplevels!Configure(size)
      PROVE  RainInv'
  <2> DEFINE r == [rain EXCEPT !.win = Toplevels!ConfiguredAs(@, size)]
  <2>1. rain' \in {rain, r} /\ cfg' = cfg
    BY <1>5 DEF Toplevels!Configure
  <2>2. /\ DOMAIN r = DOMAIN rain /\ DOMAIN r.win = DOMAIN rain.win
        /\ r.look = rain.look /\ r.built = rain.built /\ r.win.clock = rain.win.clock
        /\ r.win.open = rain.win.open /\ r.win.egl = rain.win.egl
        /\ r.win.clocked = rain.win.clocked
    BY DEF RainOK, RainUp, Toplevels!ConfiguredAs, WindowFields
  <2> HIDE DEF r
  <2> QED
    BY <2>1, <2>2 DEF RainOK, RainUp
<1>6. CASE Toplevels!ScaleChange
  <2>1. CASE rain' = rain
    BY <1>6, <2>1 DEF Toplevels!ScaleChange
  <2>2. CASE rain' # rain
    <3>1. rain.win.clocked /\ rain' = Toplevels!RainRequested(rain) /\ cfg' = cfg
      BY <1>6, <2>2 DEF Toplevels!ScaleChange
    <3>2. RainUp(rain) /\ rain.win.clock.callback # "armed"
      BY <3>1 DEF RainOK
    <3> QED
      BY <3>1, <3>2, RainRequests
  <2> QED
    BY <2>1, <2>2
<1>7. ASSUME NEW c \in [rain : Looks, viz : Looks], Toplevels!ApplyConfig(c)
      PROVE  RainInv'
  <2> DEFINE q == [rain EXCEPT !.look = c.rain]
             r == [q EXCEPT !.built = Toplevels!Rebuilt(q)]
  <2>1. cfg' = c /\ rain' = Toplevels!RainApplied(c.rain)
    BY <1>7 DEF Toplevels!ApplyConfig
  <2>2. /\ DOMAIN q = DOMAIN rain /\ q.win = rain.win /\ q.look = c.rain
        /\ q.built = rain.built
    BY DEF RainOK, RainUp
  <2>3. /\ DOMAIN r = DOMAIN rain /\ r.win = rain.win /\ r.look = c.rain
        /\ r.built = Toplevels!Rebuilt(q)
    BY <2>2 DEF RainOK, RainUp
  <2>4. CASE c.rain # rain.look /\ rain.win.open
    <3>1. rain' = Toplevels!RainRequested(r)
      BY <2>1, <2>4 DEF Toplevels!RainApplied
    <3>2. RainUp(rain) /\ rain.win.clock.callback # "armed"
      BY <2>4 DEF RainOK
    <3> HIDE DEF r, q
    <3>3. RainUp(r) /\ r.win.clock = rain.win.clock
      BY <2>2, <2>3, <3>2 DEF RainUp, Toplevels!Rebuilt
    <3> QED
      BY <2>1, <2>3, <3>1, <3>2, <3>3, RainRequests
  <2>5. CASE ~(c.rain # rain.look /\ rain.win.open)
    <3>1. rain' = q
      BY <2>1, <2>5 DEF Toplevels!RainApplied
    <3> HIDE DEF r, q
    <3> QED
      BY <2>1, <2>2, <2>5, <3>1 DEF RainOK, RainUp
  <2> QED
    BY <2>4, <2>5
<1>8. CASE rain' = rain /\ cfg' = cfg
  BY <1>8
<1>9. CASE Toplevels!VizOpens \/ Toplevels!VizResumes \/ Toplevels!VizCloses \/ Toplevels!Quit
           \/ Toplevels!Joined \/ Toplevels!ThreadTakesWindow \/ Toplevels!ThreadWakes
           \/ Toplevels!ThreadReads \/ Toplevels!ThreadDraws \/ Toplevels!Plugs
  BY <1>8, <1>9 DEF Toplevels!VizOpens, Toplevels!VizResumes, Toplevels!VizCloses,
     Toplevels!Quit, Toplevels!Joined, Toplevels!ThreadTakesWindow, Toplevels!ThreadWakes,
     Toplevels!ThreadReads, Toplevels!ThreadDraws, Toplevels!Plugs, Toplevels!OnlyThread
<1> QED
  BY <1>1, <1>2, <1>3, <1>4, <1>5, <1>6, <1>7, <1>9 DEF Toplevels!Next

(* What the render thread and the visualizer are is left alone, and the     *)
(* context goes to the visualizer's window by nobody else.                  *)
LEMMA VizUntouched ==
    ASSUME VizInv, UNCHANGED <<cfg, viz, thread>>,
           at' \in {"loop", "rain"} \/ at' = at,
           current' # "viz" \/ current' = current
    PROVE  VizInv'
BY DEF VizInv, VizShape

(* The render thread takes a step, and finds the window its own.            *)
LEMMA ThreadStep ==
    ASSUME VizInv, \/ Toplevels!ThreadTakesWindow \/ Toplevels!ThreadWakes
                   \/ Toplevels!ThreadReads \/ Toplevels!ThreadDraws
    PROVE  VizInv'
<1> USE DEF Toplevels!OnlyThread, Toplevels!Goes, ThreadFields, Toplevels!Alive
<1>1. CASE Toplevels!ThreadTakesWindow
  <2>1. viz' = viz /\ UNCHANGED <<at, current, cfg>> /\ thread.step = "started"
    BY <1>1 DEF Toplevels!ThreadTakesWindow
  <2>2. CASE thread' = [thread EXCEPT !.step = "waits"]
    <3>1. /\ DOMAIN thread' = DOMAIN thread /\ thread'.step = "waits"
          /\ thread'.refused = thread.refused /\ thread'.fresh = thread.fresh
      BY <2>2 DEF VizInv
    <3>2. ~thread.fresh
      BY <2>1 DEF VizInv
    <3> QED
      BY <2>1, <3>1, <3>2 DEF VizInv, VizShape
  <2>3. CASE thread' = [thread EXCEPT !.step = "ended"] /\ current = "viz"
    <3>1. /\ DOMAIN thread' = DOMAIN thread /\ thread'.step = "ended"
      BY <2>3 DEF VizInv
    <3> QED
      BY <2>1, <2>3, <3>1 DEF VizInv, VizShape
  <2>4. CASE thread' = [thread EXCEPT !.step = "ended", !.refused = TRUE]
    <3>1. /\ DOMAIN thread' = DOMAIN thread /\ thread'.step = "ended" /\ thread'.refused = TRUE
      BY <2>4 DEF VizInv
    <3> QED
      BY <2>1, <3>1 DEF VizInv, VizShape
  <2> QED
    BY <1>1, <2>2, <2>3, <2>4 DEF Toplevels!ThreadTakesWindow
<1>2. CASE Toplevels!ThreadWakes
  <2>1. viz' = viz /\ UNCHANGED <<at, current, cfg>> /\ thread.step = "waits"
    BY <1>2 DEF Toplevels!ThreadWakes
  <2>2. CASE viz.state.shutdown
    <3>1. /\ DOMAIN thread' = DOMAIN thread /\ thread'.step = "ended"
      BY <1>2, <2>2 DEF VizInv, Toplevels!ThreadWakes
    <3> QED
      BY <2>1, <2>2, <3>1 DEF VizInv, VizShape
  <2>3. CASE ~viz.state.shutdown
    <3>1. /\ DOMAIN thread' = DOMAIN thread /\ thread'.step = "reads"
          /\ thread'.look = viz.state.look /\ thread'.refused = thread.refused
      BY <1>2, <2>3 DEF VizInv, Toplevels!ThreadWakes
    <3> QED
      BY <2>1, <3>1 DEF VizInv, VizShape
  <2> QED
    BY <2>2, <2>3
<1>3. CASE Toplevels!ThreadReads
  <2>1. viz' = viz /\ UNCHANGED <<at, current, cfg>> /\ thread.step = "reads"
    BY <1>3 DEF Toplevels!ThreadReads
  <2>2. /\ DOMAIN thread' = DOMAIN thread /\ thread'.step = "draws"
        /\ thread'.look = thread.look /\ thread'.refused = thread.refused
        /\ thread'.fresh = thread.fresh /\ thread'.width = viz.win.size[1]
    BY <1>3 DEF VizInv, Toplevels!ThreadReads
  <2> QED
    BY <2>1, <2>2 DEF VizInv, VizShape
<1>4. CASE Toplevels!ThreadDraws
  <2> DEFINE seen == [look |-> thread.look, size |-> <<thread.width, viz.win.size[2]>>]
             v == [viz EXCEPT !.win.shown = seen]
  <2>1. viz' = v /\ UNCHANGED <<at, current, cfg>> /\ thread.step = "draws"
    BY <1>4 DEF Toplevels!ThreadDraws
  <2>2. /\ DOMAIN thread' = DOMAIN thread /\ thread'.step = "waits"
        /\ thread'.look = thread.look /\ thread'.refused = thread.refused
        /\ thread'.fresh = thread.fresh
    BY <1>4 DEF VizInv, Toplevels!ThreadDraws
  <2>3. thread.fresh => seen = [look |-> viz.state.look, size |-> viz.win.size]
    <3>1. viz.win.size = <<viz.win.size[1], viz.win.size[2]>>
      BY DEF VizInv, VizShape
    <3>2. thread.fresh => thread.look = viz.state.look /\ thread.width = viz.win.size[1]
      BY <2>1 DEF VizInv
    <3> QED
      BY <3>1, <3>2
  <2> HIDE DEF seen
  <2>4. /\ VizShape(v) /\ v.state = viz.state /\ v.context = viz.context /\ v.bare = viz.bare
        /\ v.win.egl = viz.win.egl /\ v.win.size = viz.win.size /\ v.win.shown = seen
    BY DEF VizInv, VizShape, WindowFields
  <2> HIDE DEF v
  <2> QED
    BY <2>1, <2>2, <2>3, <2>4 DEF VizInv
<1> QED
  BY <1>1, <1>2, <1>3, <1>4

(* toplevel_window_init_egl, visualizer_render_thread_start                 *)
LEMMA VizResumesOwned ==
    ASSUME VizInv, Toplevels!VizResumes
    PROVE  VizInv'
<1>1. /\ at = "viz" /\ at' = "loop" /\ UNCHANGED <<outputs, cfg>>
      /\ ~viz.state.there /\ thread.step \notin Toplevels!Alive
  BY DEF VizInv, Toplevels!VizResumes
<1>2. CASE viz' = [viz EXCEPT !.win = Toplevels!Destroyed] /\ UNCHANGED thread
  <2> DEFINE v == [viz EXCEPT !.win = Toplevels!Destroyed]
  <2>1. VizShape(v) /\ v.state = viz.state
    BY DEF VizInv, VizShape, Toplevels!Destroyed, Toplevels!NoWindow, Toplevels!NoSize,
       WindowFields
  <2> HIDE DEF v
  <2>2. viz' = v /\ thread' = thread
    BY <1>2 DEF v
  <2> QED
    BY <1>1, <2>1, <2>2 DEF VizInv, Toplevels!Alive
<1>3. CASE /\ current' = Toplevels!Rested("viz")
           /\ \E s \in Toplevels!Started(
                     [viz EXCEPT !.win = Toplevels!InitEgl(@), !.bare = ~outputs], thread) :
                 viz' = s[1] /\ thread' = s[2]
  <2> DEFINE v == [viz EXCEPT !.win = Toplevels!InitEgl(@), !.bare = ~outputs]
             started == [Toplevels!NoState EXCEPT !.there = TRUE, !.look = cfg.viz]
             u == [v EXCEPT !.context = TRUE, !.state = started]
             t == [Toplevels!NoThread EXCEPT !.step = "started"]
  <2>1. /\ VizShape(v) /\ v.state = viz.state /\ v.win.egl = TRUE /\ (~v.bare => outputs)
    BY DEF VizInv, VizShape, Toplevels!InitEgl, WindowFields
  <2>2. \/ viz' = v /\ thread' = thread
        \/ viz' = u /\ thread' = t
    BY <1>3 DEF Toplevels!Started
  <2>3. ~v.bare => current' # "viz"
    BY <1>3, <2>1 DEF Toplevels!Rested
  <2> HIDE DEF v
  <2>4. CASE viz' = v /\ thread' = thread
    BY <1>1, <2>1, <2>4 DEF VizInv, Toplevels!Alive
  <2>5. CASE viz' = u /\ thread' = t
    <3>1. /\ DOMAIN started = {"there", "shutdown", "look"} /\ started.there = TRUE
          /\ started.look = cfg.viz
      BY DEF Toplevels!NoState
    <3> HIDE DEF started
    <3>2. /\ DOMAIN u = DOMAIN v /\ u.win = v.win /\ u.bare = v.bare /\ u.context = TRUE
          /\ u.state = started
      BY <2>1 DEF VizShape
    <3>3. DOMAIN t = ThreadFields /\ t.step = "started" /\ t.fresh = FALSE
      BY DEF Toplevels!NoThread, ThreadFields
    <3> HIDE DEF u, t
    <3>4. VizShape(u)
      BY <2>1, <3>1, <3>2 DEF VizShape
    <3> QED
      BY <1>1, <2>1, <2>3, <2>5, <3>1, <3>2, <3>3, <3>4 DEF VizInv, Toplevels!Alive
  <2> QED
    BY <2>2, <2>4, <2>5
<1> QED
  BY <1>2, <1>3 DEF Toplevels!VizResumes, Toplevels!HandedOver

(* visualizer_shutdown: the thread is told, then joined.                    *)
LEMMA VizEndsOwned ==
    ASSUME VizInv, Toplevels!VizCloses \/ Toplevels!Quit \/ Toplevels!Joined
    PROVE  VizInv'
<1>1. ASSUME NEW v, VizShape(v), v.state = viz.state, v.context = viz.context,
             v.bare = viz.bare, v.win.egl = viz.win.egl, v.win.size = viz.win.size,
             v.win.shown = viz.win.shown, viz' = Toplevels!Shutdown(v),
             at' \in {"joining", "quitting"}, UNCHANGED <<cfg, current, thread>>
      PROVE  VizInv'
  <2>1. PICK b \in BOOLEAN : b = v.state.there
    BY <1>1 DEF VizShape
  <2>2. viz' = [v EXCEPT !.state.shutdown = b]
    BY <1>1, <2>1 DEF Toplevels!Shutdown
  <2>3. /\ DOMAIN viz' = DOMAIN v /\ viz'.win = v.win /\ viz'.context = v.context
        /\ viz'.bare = v.bare /\ DOMAIN viz'.state = DOMAIN v.state
        /\ viz'.state.there = v.state.there /\ viz'.state.look = v.state.look
        /\ viz'.state.shutdown = b
    BY <1>1, <2>2 DEF VizShape
  <2>4. VizShape(viz')
    BY <1>1, <2>3 DEF VizShape
  <2> QED
    BY <1>1, <2>1, <2>3, <2>4 DEF VizInv
<1>2. CASE Toplevels!VizCloses
  <2> DEFINE v == [viz EXCEPT !.win.open = FALSE]
  <2>1. /\ VizShape(v) /\ v.state = viz.state /\ v.context = viz.context /\ v.bare = viz.bare
        /\ v.win.egl = viz.win.egl /\ v.win.size = viz.win.size
        /\ v.win.shown = viz.win.shown
    BY DEF VizInv, VizShape, WindowFields
  <2>2. viz' = Toplevels!Shutdown(v) /\ at' = "joining" /\ UNCHANGED <<cfg, current, thread>>
    BY <1>2 DEF Toplevels!VizCloses
  <2> HIDE DEF v
  <2> QED
    BY <1>1, <2>1, <2>2
<1>3. CASE Toplevels!Quit
  <2>1. viz' = Toplevels!Shutdown(viz) /\ at' = "quitting" /\ UNCHANGED <<cfg, current, thread>>
    BY <1>3 DEF Toplevels!Quit
  <2> QED
    BY <1>1, <2>1 DEF VizInv
<1>4. CASE Toplevels!Joined
  <2> DEFINE q == Toplevels!Quiet(viz)
             d == [q EXCEPT !.win = Toplevels!Destroyed, !.bare = FALSE]
  <2>1. thread' = Toplevels!NoThread /\ viz' \in {q, d} /\ at' \in {"rain", "loop", "gone"}
    BY <1>4 DEF Toplevels!Joined, Toplevels!Came
  <2>2. VizShape(q) /\ q.state.there = FALSE
    BY DEF VizInv, VizShape, Toplevels!Quiet, Toplevels!NoState
  <2> HIDE DEF q
  <2>3. VizShape(d) /\ d.state.there = FALSE
    BY <2>2 DEF VizShape, Toplevels!Destroyed, Toplevels!NoWindow, Toplevels!NoSize,
       WindowFields
  <2> HIDE DEF d
  <2>4. DOMAIN thread' = ThreadFields /\ thread'.step = "none" /\ thread'.fresh = FALSE
    BY <2>1 DEF Toplevels!NoThread, ThreadFields
  <2>5. VizShape(viz') /\ viz'.state.there = FALSE
    BY <2>1, <2>2, <2>3
  <2> QED
    BY <2>1, <2>4, <2>5 DEF VizInv, Toplevels!Alive
<1> QED
  BY <1>2, <1>3, <1>4

LEMMA VizStep ==
    ASSUME VizInv, Toplevels!Next
    PROVE  VizInv'
<1>1. CASE \/ Toplevels!ThreadTakesWindow \/ Toplevels!ThreadWakes
           \/ Toplevels!ThreadReads \/ Toplevels!ThreadDraws
  BY <1>1, ThreadStep
<1>2. CASE Toplevels!VizResumes
  BY <1>2, VizResumesOwned
<1>3. CASE Toplevels!VizCloses \/ Toplevels!Quit \/ Toplevels!Joined
  BY <1>3, VizEndsOwned
<1>4. CASE Toplevels!RainOpens \/ Toplevels!RainResumes \/ Toplevels!RainCloses
           \/ Toplevels!RainFrameDone \/ Toplevels!Plugs
  <2>1. UNCHANGED <<cfg, viz, thread>> /\ (at' \in {"loop", "rain"} \/ at' = at)
    BY <1>4 DEF Toplevels!RainOpens, Toplevels!RainResumes, Toplevels!RainCloses,
       Toplevels!RainFrameDone, Toplevels!Plugs
  <2>2. current' # "viz" \/ current' = current
    BY <1>4 DEF Toplevels!RainOpens, Toplevels!RainResumes, Toplevels!RainCloses,
       Toplevels!RainFrameDone, Toplevels!Plugs, Toplevels!Rested
  <2> QED
    BY <2>1, <2>2, VizUntouched
<1>5. CASE Toplevels!VizOpens
  <2> DEFINE v == [viz EXCEPT !.win = Toplevels!Created(@)]
  <2>1. viz' = v /\ at' = "viz" /\ ~viz.win.egl /\ UNCHANGED <<cfg, current, thread>>
    BY <1>5 DEF Toplevels!VizOpens
  <2>2. /\ VizShape(v) /\ v.state = viz.state /\ v.context = viz.context /\ v.bare = viz.bare
        /\ v.win.egl = viz.win.egl
    BY DEF VizInv, VizShape, WindowFields, Toplevels!Created
  <2> HIDE DEF v
  <2> QED
    BY <2>1, <2>2 DEF VizInv, Toplevels!Alive
<1>6. ASSUME NEW size \in Sizes, Toplevels!Configure(size)
      PROVE  VizInv'
  <2> DEFINE v == [viz EXCEPT !.win = Toplevels!ConfiguredAs(@, size)]
  <2>1. UNCHANGED <<at, current, cfg>>
    BY <1>6 DEF Toplevels!Configure
  <2>2. CASE viz' = v /\ thread' = [thread EXCEPT !.fresh = FALSE]
    <3>1. size \in Nat \X Nat
      BY WorkersAssumption DEF WorkersAssumption
    <3>2. /\ VizShape(v) /\ v.state = viz.state /\ v.context = viz.context
          /\ v.bare = viz.bare /\ v.win.egl = viz.win.egl
      BY <3>1 DEF VizInv, VizShape, WindowFields, Toplevels!ConfiguredAs
    <3>3. /\ DOMAIN thread' = DOMAIN thread /\ thread'.step = thread.step
          /\ thread'.refused = thread.refused /\ thread'.fresh = FALSE
      BY <2>2 DEF VizInv, ThreadFields
    <3> HIDE DEF v
    <3> QED
      BY <2>1, <2>2, <3>2, <3>3 DEF VizInv
  <2>3. CASE UNCHANGED <<viz, thread>>
    BY <2>1, <2>3, VizUntouched
  <2> QED
    BY <1>6, <2>2, <2>3 DEF Toplevels!Configure
<1>7. CASE Toplevels!ScaleChange
  <2>1. UNCHANGED <<at, current, cfg, viz, thread>>
    BY <1>7 DEF Toplevels!ScaleChange, VizInv, VizShape
  <2> QED
    BY <2>1, VizUntouched
<1>8. ASSUME NEW c \in [rain : Looks, viz : Looks], Toplevels!ApplyConfig(c)
      PROVE  VizInv'
  <2>1. /\ UNCHANGED <<at, current>> /\ cfg' = c /\ viz' = Toplevels!VizApplied(c.viz)
        /\ thread' = [thread EXCEPT !.fresh = @ /\ c.viz = cfg.viz]
    BY <1>8 DEF Toplevels!ApplyConfig
  <2>2. PICK b \in BOOLEAN : b = (thread.fresh /\ c.viz = cfg.viz)
    OBVIOUS
  <2>3. thread' = [thread EXCEPT !.fresh = b]
    BY <2>1, <2>2
  <2>4. /\ DOMAIN thread' = DOMAIN thread /\ thread'.step = thread.step
        /\ thread'.refused = thread.refused /\ thread'.look = thread.look
        /\ thread'.width = thread.width /\ thread'.fresh = b
    BY <2>3 DEF VizInv, ThreadFields
  <2>5. CASE viz.state.there
    <3> DEFINE v == [viz EXCEPT !.state.look = c.viz]
    <3>1. viz' = v
      BY <2>1, <2>5 DEF Toplevels!VizApplied
    <3>2. /\ DOMAIN v = DOMAIN viz /\ v.win = viz.win /\ v.context = viz.context
          /\ v.bare = viz.bare /\ DOMAIN v.state = DOMAIN viz.state
          /\ v.state.there = viz.state.there /\ v.state.look = c.viz
          /\ v.state.shutdown = viz.state.shutdown
      BY DEF VizInv, VizShape
    <3> HIDE DEF v
    <3>3. VizShape(v)
      BY <3>2 DEF VizInv, VizShape
    <3>4. b => thread.fresh /\ c.viz = viz.state.look
      BY <2>2, <2>5 DEF VizInv
    <3> QED
      BY <2>1, <2>4, <2>5, <3>1, <3>2, <3>3, <3>4 DEF VizInv
  <2>6. CASE ~viz.state.there
    <3>1. viz' = viz
      BY <2>1, <2>6 DEF Toplevels!VizApplied
    <3> QED
      BY <2>1, <2>2, <2>4, <2>6, <3>1 DEF VizInv, Toplevels!Alive
  <2> QED
    BY <2>5, <2>6
<1> QED
  BY <1>1, <1>2, <1>3, <1>4, <1>5, <1>6, <1>7, <1>8 DEF Toplevels!Next

\* The windows of the rain and the visualizer (rain.cpp, visualizer.cpp): the
\* render thread has its window, its context and its parameters as long as it
\* runs, and what is open is painted as it is configured now, however the
\* window was closed, resized and reconfigured before.
THEOREM WindowsAlwaysDriven ==
    MCSpec => [](part = "windows" => Toplevels!ThreadHasWindow /\ Toplevels!WindowsDriven)
<1> DEFINE Inv == part = "windows" => RainInv /\ VizInv
<1>1. MCInit => Inv
  BY WindowsInitially DEF MCInit
<1>2. Inv /\ [MCNext]_<<part, vars, guests>> => Inv'
  <2> SUFFICES ASSUME Inv, [MCNext]_<<part, vars, guests>>, part' = "windows"
               PROVE  RainInv' /\ VizInv'
    OBVIOUS
  <2>1. part = "windows" /\ (Toplevels!Next \/ UNCHANGED windowVars)
    BY DEF MCNext, Calls, Guest, guests
  <2>2. CASE Toplevels!Next
    BY <2>1, <2>2, RainStep, VizStep
  <2>3. CASE UNCHANGED windowVars
    BY <2>1, <2>3 DEF windowVars, RainInv, VizInv
  <2> QED
    BY <2>1, <2>2, <2>3
<1>3. Inv => (part = "windows" => Toplevels!ThreadHasWindow /\ Toplevels!WindowsDriven)
  <2> SUFFICES ASSUME RainInv, VizInv
               PROVE  Toplevels!ThreadHasWindow /\ Toplevels!WindowsDriven
    OBVIOUS
  <2>1. Toplevels!ThreadHasWindow
    BY DEF VizInv, VizShape, Toplevels!ThreadHasWindow
  <2>2. rain.win.open =>
          /\ rain.win.clock.callback = "committed" /\ rain.win.clock.redraw
          /\ rain.built.look = cfg.rain
    BY DEF RainInv, RainOK, RainUp
  <2>3. Toplevels!WindowsDriven
    BY <2>2 DEF VizInv, VizShape, Toplevels!WindowsDriven, Toplevels!Alive
  <2> QED
    BY <2>1, <2>3
<1> QED
  BY <1>1, <1>2, <1>3, PTL DEF MCSpec

-----------------------------------------------------------------------------
(* The wallpaper grid: what its threads work on, and what awaits whom.     *)

Generations == 0..MaxScans
ScanResults == [job : {"scan"}, found : Dirs, generation : Nat]
ThumbResults == [job : {"thumbnail"}, path : Grid!Files, generation : Nat]
Thumbs(post) == {i \in DOMAIN post : post[i].job = "thumbnail"}

(* What is pending is exactly what one thread decodes or one result brings. *)
Flight(held, threads, post) ==
    /\ \A w \in threads : w.path \in held
    /\ \A v, w \in threads : v.path = w.path => v = w
    /\ \A i \in Thumbs(post) :
          post[i].path \in held /\ \A w \in threads : w.path # post[i].path
    /\ \A i, j \in Thumbs(post) : post[i].path = post[j].path => i = j
    /\ \A f \in held : \/ \E w \in threads : w.path = f
                       \/ \E i \in Thumbs(post) : post[i].path = f

(* A result of the current generation is about the directory shown, and one *)
(* is under way as long as the sign of the scan is on.                      *)
AboutDir(r, p) ==
    /\ r.generation \in Nat /\ r.generation <= p.generation /\ r.found \in Dirs
    /\ r.generation = p.generation => r.found = p.dir
ScansOK(threads, post, p) ==
    /\ \A w \in threads : AboutDir(w, p)
    /\ \A i \in DOMAIN post : post[i].job = "scan" => AboutDir(post[i], p)
    /\ p.scanning =>
          \/ \E w \in threads : w.generation = p.generation
          \/ \E i \in DOMAIN post :
                post[i].job = "scan" /\ post[i].generation = p.generation
    /\ ~p.scanning => p.files = p.dir

PickerOK(p) ==
    /\ p \in [dir : Dirs \cup {{}}, scanning : BOOLEAN, files : SUBSET Grid!Files,
              thumbs : SUBSET Grid!Files, pending : SUBSET Grid!Files,
              generation : Generations, open : BOOLEAN, clock : Grid!Clock]
    /\ p.files \in Dirs \cup {{}}
    /\ IsFiniteSet(p.pending) /\ Cardinality(p.pending) <= MaxInFlight
    /\ Grid!ClockOK(p.clock)

(* The open grid is about to be painted, or shows the configured directory  *)
(* and has asked for what it may, unless a result was thrown away since.    *)
Awaits(p) == p.clock.callback = "committed" /\ p.clock.redraw
Drawn(p, d, thrown) ==
    /\ p.dir = d \/ p.generation >= MaxScans
    /\ thrown \/ Grid!Missing(p) = {} \/ Cardinality(p.pending) >= MaxInFlight
GridDriven(p, d, thrown) ==
    p.open => p.clock.mapped /\ (Awaits(p) \/ Drawn(p, d, thrown))

GridInv ==
    /\ dir \in Dirs /\ missed \in BOOLEAN
    /\ PickerOK(picker) /\ picker.clock.callback # "armed"
    /\ decodes \subseteq [path : Grid!Files, generation : Nat]
    /\ posted \in Seq(ScanResults \cup ThumbResults)
    /\ Flight(picker.pending, decodes, posted)
    /\ ScansOK(scans, posted, picker)
    /\ GridDriven(picker, dir, missed)

LEMMA GridCardinality == \A S : Grid!Cardinality(S) = Cardinality(S)
BY DEF Grid!Cardinality, Cardinality

LEMMA FlightGrows ==
    ASSUME NEW held, NEW more, NEW threads, NEW post, NEW g, NEW new, held \subseteq more,
           \A w \in new : \E f \in more \ held : w = [path |-> f, generation |-> g],
           \A f \in more \ held : [path |-> f, generation |-> g] \in new,
           Flight(held, threads, post)
    PROVE  Flight(more, threads \cup new, post)
<1> DEFINE all == threads \cup new
<1>1. \A w \in new : w.path \in more /\ w.path \notin held
  OBVIOUS
<1>2. \A v, w \in new : v.path = w.path => v = w
  OBVIOUS
<1>3. \A f \in more \ held : \E w \in new : w.path = f
  OBVIOUS
<1>4. \A w \in all : w \in threads \/ w \in new
  OBVIOUS
<1>5. \A f \in more : \/ \E w \in all : w.path = f
                      \/ \E i \in Thumbs(post) : post[i].path = f
  BY <1>3 DEF Flight
<1>6. \A v, w \in all : v.path = w.path => v = w
  BY <1>1, <1>2, <1>4 DEF Flight
<1>7. \A i \in Thumbs(post) : post[i].path \in more /\ \A w \in all : w.path # post[i].path
  BY <1>1, <1>4 DEF Flight
<1>8. \A w \in all : w.path \in more
  BY <1>1, <1>4 DEF Flight
<1> QED
  BY <1>5, <1>6, <1>7, <1>8 DEF Flight

(* A thread ends: its result is on the way.                                 *)
LEMMA FlightHandsOver ==
    ASSUME NEW held, NEW threads, NEW post, NEW late, NEW w \in threads, NEW r,
           Flight(held, threads, post), Grown(post, r, late),
           r.job = "thumbnail", r.path = w.path
    PROVE  Flight(held, threads \ {w}, late)
<1>1. PICK n : /\ n \notin DOMAIN post /\ DOMAIN late = DOMAIN post \cup {n}
               /\ late[n] = r /\ \A i \in DOMAIN post : late[i] = post[i]
  BY DEF Grown
<1>2. Thumbs(late) = Thumbs(post) \cup {n}
  BY <1>1 DEF Thumbs
<1>3. \A i \in Thumbs(post) : late[i] = post[i] /\ i # n
  BY <1>1 DEF Thumbs
<1>4. \A i \in Thumbs(late) :
         late[i].path \in held /\ \A v \in threads \ {w} : v.path # late[i].path
  BY <1>1, <1>2, <1>3 DEF Flight
<1>5. \A i, j \in Thumbs(late) : late[i].path = late[j].path => i = j
  BY <1>1, <1>2, <1>3 DEF Flight
<1>6. \A f \in held : \/ \E v \in threads \ {w} : v.path = f
                      \/ \E i \in Thumbs(late) : late[i].path = f
  BY <1>1, <1>2, <1>3 DEF Flight
<1> QED
  BY <1>4, <1>5, <1>6 DEF Flight

LEMMA FlightIgnoresScans ==
    ASSUME NEW held, NEW threads, NEW post, NEW late, NEW r,
           Flight(held, threads, post), Grown(post, r, late), r.job # "thumbnail"
    PROVE  Flight(held, threads, late)
<1>1. PICK n : /\ n \notin DOMAIN post /\ DOMAIN late = DOMAIN post \cup {n}
               /\ late[n] = r /\ \A i \in DOMAIN post : late[i] = post[i]
  BY DEF Grown
<1>2. Thumbs(late) = Thumbs(post) /\ \A i \in Thumbs(post) : late[i] = post[i]
  BY <1>1 DEF Thumbs
<1> QED
  BY <1>2 DEF Flight

(* The first result is taken: a thumbnail is not pending any more.          *)
LEMMA FlightLands ==
    ASSUME NEW S, NEW post \in Seq(S), post # <<>>, NEW held, NEW threads,
           Flight(held, threads, post)
    PROVE  LET r == Head(post)
           IN  Flight(IF r.job = "thumbnail" THEN held \ {r.path} ELSE held,
                      threads, Tail(post))
<1> DEFINE r == Head(post)
           late == Tail(post)
           left == IF r.job = "thumbnail" THEN held \ {r.path} ELSE held
<1>1. /\ 1 \in DOMAIN post /\ r = post[1]
      /\ \A i \in DOMAIN late : i + 1 \in DOMAIN post /\ i + 1 # 1 /\ late[i] = post[i + 1]
      /\ \A i, j \in DOMAIN late : i + 1 = j + 1 => i = j
      /\ \A i \in DOMAIN post : i = 1 \/ (i - 1 \in DOMAIN late /\ late[i - 1] = post[i])
  BY Taken
<1> HIDE DEF r, late
<1>2. \A i \in Thumbs(late) : i + 1 \in Thumbs(post)
  BY <1>1 DEF Thumbs
<1>3. \A i \in Thumbs(post) : i = 1 \/ (i - 1 \in Thumbs(late) /\ late[i - 1] = post[i])
  BY <1>1 DEF Thumbs
<1>4. r.job = "thumbnail" <=> 1 \in Thumbs(post)
  BY <1>1 DEF Thumbs
<1>5. \A i \in Thumbs(late) : late[i] = post[i + 1] /\ i + 1 # 1
  BY <1>1 DEF Thumbs
<1>6. \A i, j \in Thumbs(late) : i + 1 = j + 1 => i = j
  BY <1>1 DEF Thumbs
<1>7. \A w \in threads : w.path \in left
  BY <1>1, <1>4 DEF Flight
<1>8. \A i \in Thumbs(late) :
         late[i].path \in left /\ \A w \in threads : w.path # late[i].path
  BY <1>1, <1>2, <1>4, <1>5 DEF Flight
<1>9. \A i, j \in Thumbs(late) : late[i].path = late[j].path => i = j
  BY <1>2, <1>5, <1>6 DEF Flight
<1>10. ASSUME NEW f \in left
       PROVE  \/ \E w \in threads : w.path = f
              \/ \E i \in Thumbs(late) : late[i].path = f
  <2>1. CASE \E w \in threads : w.path = f
    BY <2>1
  <2>2. ASSUME NEW i \in Thumbs(post), post[i].path = f
        PROVE  \E k \in Thumbs(late) : late[k].path = f
    <3>1. i # 1
      BY <1>1, <1>4, <2>2
    <3> QED
      BY <1>3, <2>2, <3>1
  <2>3. f \in held
    OBVIOUS
  <2> QED
    BY <2>1, <2>2, <2>3 DEF Flight
<1> QED
  BY <1>7, <1>8, <1>9, <1>10 DEF Flight, r, late

LEMMA FlightCounts ==
    ASSUME GridInv
    PROVE  Grid!OneDecodeEach
<1> DEFINE D == {w.path : w \in decodes}
           T == Thumbs(posted)
           P == {posted[i].path : i \in T}
<1>1. picker.pending = D \cup P /\ D \cap P = {}
  BY DEF GridInv, Flight
<1>2. picker.pending = Grid!UnderWay
  BY <1>1 DEF Grid!UnderWay, Thumbs
<1>3. IsFiniteSet(picker.pending) /\ Cardinality(picker.pending) <= MaxInFlight
  BY DEF GridInv, PickerOK
<1>4. IsFiniteSet(D) /\ IsFiniteSet(P)
  BY <1>1, <1>3, FS_Subset
<1>5. Cardinality(decodes) = Cardinality(D)
  <2> DEFINE f == [d \in D |-> CHOOSE w \in decodes : w.path = d]
  <2>1. \A d \in D : f[d] \in decodes /\ f[d].path = d
    OBVIOUS
  <2>2. \A w \in decodes : w.path \in D
    OBVIOUS
  <2>3. \A w \in decodes : f[w.path] = w
    BY <2>1, <2>2 DEF GridInv, Flight
  <2>4. f \in [D -> decodes]
    BY <2>1
  <2> HIDE DEF f, D
  <2>5. \A d, e \in D : f[d] = f[e] => d = e
    BY <2>1
  <2>6. f \in Bijection(D, decodes)
    BY <2>2, <2>3, <2>4, <2>5 DEF Bijection, Injection, Surjection, IsInjective
  <2>7. ExistsBijection(D, decodes)
    BY <2>6 DEF ExistsBijection
  <2> QED
    BY ONLY <1>4, <2>7, FS_Bijection
<1>6. Cardinality(T) = Cardinality(P)
  <2> DEFINE f == [p \in P |-> CHOOSE i \in T : posted[i].path = p]
  <2>1. \A p \in P : f[p] \in T /\ posted[f[p]].path = p
    OBVIOUS
  <2>2. \A i \in T : posted[i].path \in P
    OBVIOUS
  <2>3. \A i \in T : f[posted[i].path] = i
    BY <2>1, <2>2 DEF GridInv, Flight
  <2>4. f \in [P -> T]
    BY <2>1
  <2> HIDE DEF f, P, T
  <2>5. \A p, q \in P : f[p] = f[q] => p = q
    BY <2>1
  <2>6. f \in Bijection(P, T)
    BY <2>2, <2>3, <2>4, <2>5 DEF Bijection, Injection, Surjection, IsInjective
  <2>7. ExistsBijection(P, T)
    BY <2>6 DEF ExistsBijection
  <2> QED
    BY ONLY <1>4, <2>7, FS_Bijection
<1>7. Cardinality(picker.pending) = Cardinality(D) + Cardinality(P)
  <2> HIDE DEF D, P
  <2>1. Cardinality(D \cup P) = Cardinality(D) + Cardinality(P) - Cardinality(D \cap P)
    BY <1>4, FS_Union
  <2>2. Cardinality(D) \in Nat /\ Cardinality(P) \in Nat
    BY <1>4, FS_CardinalityType
  <2>3. Cardinality(D \cap P) = 0
    BY <1>1, FS_EmptySet
  <2> QED
    BY ONLY <1>1, <2>1, <2>2, <2>3
<1>8. Grid!Decoding = Cardinality(decodes) + Cardinality(T)
  BY GridCardinality DEF Grid!Decoding, Thumbs
<1> HIDE DEF T, P, D
<1> QED
  BY <1>2, <1>3, <1>5, <1>6, <1>7, <1>8, GridCardinality DEF Grid!OneDecodeEach

(* What painting and asking for a frame leave of a grid.                    *)
Kin(p, q) ==
    /\ PickerOK(q)
    /\ q.open = p.open /\ q.thumbs = p.thumbs /\ q.files = p.files
    /\ p.pending \subseteq q.pending
    /\ \/ q.generation = p.generation /\ q.dir = p.dir /\ q.scanning = p.scanning
       \/ q.generation = p.generation + 1 /\ q.dir = dir /\ q.scanning

LEMMA ThumbnailsRequested ==
    ASSUME NEW p, PickerOK(p), NEW q \in Grid!RequestThumbnails(p)
    PROVE  /\ Kin(p, q) /\ q.generation = p.generation /\ q.dir = p.dir
           /\ q.clock = p.clock
           /\ Grid!Missing(q) = {} \/ Cardinality(q.pending) >= MaxInFlight
<1> DEFINE n == Cardinality(p.pending)
           room == IF n >= MaxInFlight THEN 0 ELSE MaxInFlight - n
           m == Cardinality(Grid!Missing(p))
           many == IF m < room THEN m ELSE room
<1>1. PICK s : /\ s \subseteq Grid!Missing(p) /\ Cardinality(s) = many
               /\ q = [p EXCEPT !.pending = @ \cup s]
  BY GridCardinality DEF Grid!RequestThumbnails
<1>2. MaxInFlight \in Nat \ {0} /\ \A d \in Dirs : IsFiniteSet(d)
  BY WorkersAssumption DEF WorkersAssumption
<1>3. IsFiniteSet(Grid!Missing(p))
  <2>1. IsFiniteSet(p.files)
    BY <1>2, FS_EmptySet DEF PickerOK
  <2>2. Grid!Missing(p) \in SUBSET p.files
    BY DEF Grid!Missing
  <2> QED
    BY <2>1, <2>2, FS_Subset
<1>4. /\ IsFiniteSet(s) /\ Cardinality(s) \in Nat /\ m \in Nat /\ n \in Nat
      /\ n <= MaxInFlight /\ IsFiniteSet(p.pending)
      /\ m = Cardinality(s) => s = Grid!Missing(p)
  BY <1>1, <1>3, FS_Subset, FS_CardinalityType DEF PickerOK
<1>5. p.pending \cap s = {} /\ s \subseteq Grid!Files
  BY <1>1 DEF Grid!Missing, PickerOK
<1>6. IsFiniteSet(p.pending \cup s) /\ Cardinality(p.pending \cup s) = n + Cardinality(s)
  <2>1. /\ IsFiniteSet(p.pending \cup s)
        /\ Cardinality(p.pending \cup s) = n + Cardinality(s) - Cardinality(p.pending \cap s)
    BY <1>4, FS_Union
  <2>2. Cardinality(p.pending \cap s) = 0
    BY <1>5, FS_EmptySet
  <2> QED
    BY <1>4, <2>1, <2>2
<1>7. /\ q.pending = p.pending \cup s /\ q.open = p.open /\ q.thumbs = p.thumbs
      /\ q.files = p.files /\ q.generation = p.generation /\ q.dir = p.dir
      /\ q.scanning = p.scanning /\ q.clock = p.clock
      /\ q \in [dir : Dirs \cup {{}}, scanning : BOOLEAN, files : SUBSET Grid!Files,
                thumbs : SUBSET Grid!Files, pending : SUBSET Grid!Files,
                generation : Generations, open : BOOLEAN, clock : Grid!Clock]
  BY <1>1, <1>5 DEF PickerOK
<1>8. n + Cardinality(s) <= MaxInFlight
  BY <1>1, <1>2, <1>4
<1>9. PickerOK(q)
  BY <1>6, <1>7, <1>8 DEF PickerOK
<1>10. CASE m < room
  <2>1. s = Grid!Missing(p)
    BY <1>1, <1>4, <1>10
  <2>2. Grid!Missing(q) = {}
    BY <1>7, <2>1 DEF Grid!Missing
  <2> QED
    BY <1>7, <1>9, <2>2 DEF Kin
<1>11. CASE ~(m < room)
  <2>1. n + Cardinality(s) >= MaxInFlight
    BY <1>1, <1>2, <1>4, <1>11
  <2> QED
    BY <1>6, <1>7, <1>9, <2>1 DEF Kin
<1> QED
  BY <1>10, <1>11

LEMMA ScanStarted ==
    ASSUME NEW p, PickerOK(p), p.generation < MaxScans, dir \in Dirs
    PROVE  LET s == Grid!Scan(p)
           IN  /\ PickerOK(s) /\ s.generation = p.generation + 1 /\ s.dir = dir
               /\ s.scanning /\ s.pending = p.pending /\ s.open = p.open
               /\ s.thumbs = p.thumbs /\ s.files = p.files /\ s.clock = p.clock
<1> DEFINE s == Grid!Scan(p)
           g == p.generation + 1
<1>1. g \in Generations
  BY WorkersAssumption DEF PickerOK, Generations, WorkersAssumption
<1>2. s = [p EXCEPT !.dir = dir, !.scanning = TRUE, !.generation = g]
  BY DEF Grid!Scan, PickerOK
<1> HIDE DEF s, g
<1>3. /\ s.generation = g /\ s.dir = dir
      /\ s.scanning /\ s.pending = p.pending /\ s.open = p.open
      /\ s.thumbs = p.thumbs /\ s.files = p.files /\ s.clock = p.clock
      /\ s \in [dir : Dirs \cup {{}}, scanning : BOOLEAN, files : SUBSET Grid!Files,
                thumbs : SUBSET Grid!Files, pending : SUBSET Grid!Files,
                generation : Generations, open : BOOLEAN, clock : Grid!Clock]
  BY <1>1, <1>2 DEF PickerOK
<1>4. PickerOK(s)
  BY <1>3 DEF PickerOK
<1> QED
  BY <1>3, <1>4 DEF s, g

LEMMA Reclocked ==
    ASSUME NEW p, PickerOK(p), NEW c \in Grid!Clock, Grid!ClockOK(c)
    PROVE  LET q == [p EXCEPT !.clock = c]
           IN  /\ Kin(p, q) /\ q.clock = c /\ q.pending = p.pending
               /\ q.generation = p.generation /\ q.dir = p.dir
<1> DEFINE q == [p EXCEPT !.clock = c]
<1>1. /\ q.generation = p.generation /\ q.dir = p.dir /\ q.clock = c
      /\ q.scanning = p.scanning /\ q.pending = p.pending /\ q.open = p.open
      /\ q.thumbs = p.thumbs /\ q.files = p.files
      /\ q \in [dir : Dirs \cup {{}}, scanning : BOOLEAN, files : SUBSET Grid!Files,
                thumbs : SUBSET Grid!Files, pending : SUBSET Grid!Files,
                generation : Generations, open : BOOLEAN, clock : Grid!Clock]
  BY DEF PickerOK
<1> HIDE DEF q
<1>2. PickerOK(q)
  BY <1>1 DEF PickerOK
<1> QED
  BY <1>1, <1>2 DEF Kin, q

LEMMA GridPainted ==
    ASSUME NEW p, PickerOK(p), dir \in Dirs, p.clock.callback # "none",
           NEW q \in Grid!Paint(p)
    PROVE  /\ Kin(p, q) /\ q.clock.callback = "committed"
           /\ q.clock.mapped = p.clock.mapped
           /\ \A thrown : Drawn(q, dir, thrown)
<1> DEFINE s == IF p.dir # dir /\ p.generation < MaxScans THEN Grid!Scan(p) ELSE p
<1>1. PICK r \in Grid!RequestThumbnails(s) : q = [r EXCEPT !.clock = Grid!Committed(@)]
  BY DEF Grid!Paint
<1>2. /\ PickerOK(s) /\ s.open = p.open /\ s.thumbs = p.thumbs /\ s.files = p.files
      /\ s.pending = p.pending /\ s.clock = p.clock
      /\ \/ s.generation = p.generation /\ s.dir = p.dir /\ s.scanning = p.scanning
         \/ s.generation = p.generation + 1 /\ s.dir = dir /\ s.scanning
  BY ScanStarted
<1>3. s.dir = dir \/ s.generation >= MaxScans
  <2>1. p.generation \in Nat /\ MaxScans \in Nat
    BY WorkersAssumption DEF PickerOK, Generations, WorkersAssumption
  <2> QED
    BY <2>1, ScanStarted
<1> HIDE DEF s
<1>4. /\ Kin(s, r) /\ r.generation = s.generation /\ r.dir = s.dir
      /\ r.clock = s.clock
      /\ Grid!Missing(r) = {} \/ Cardinality(r.pending) >= MaxInFlight
  BY <1>2, ThumbnailsRequested
<1> DEFINE c == Grid!Committed(r.clock)
<1>5. c \in Grid!Clock /\ Grid!ClockOK(c) /\ c.callback = "committed"
      /\ c.mapped = p.clock.mapped
  BY <1>2, <1>4 DEF PickerOK, Grid!ClockOK, Grid!Clock, Grid!Callbacks, Grid!Committed
<1>6. q = [r EXCEPT !.clock = c]
  BY <1>1, <1>4 DEF Kin, PickerOK
<1> HIDE DEF c
<1>7. /\ Kin(r, q) /\ q.clock = c /\ q.pending = r.pending
      /\ q.generation = r.generation /\ q.dir = r.dir
  BY <1>4, <1>5, <1>6, Reclocked DEF Kin
<1>8. Kin(p, q)
  <2>1. r.scanning = s.scanning
    <3>1. s.generation \in Nat
      BY <1>2 DEF PickerOK, Generations
    <3> QED
      BY <1>4, <3>1 DEF Kin
  <2>2. q.scanning = r.scanning
    <3>1. r.generation \in Nat
      BY <1>4 DEF Kin, PickerOK, Generations
    <3> QED
      BY <1>7, <3>1 DEF Kin
  <2> QED
    BY <1>2, <1>4, <1>7, <2>1, <2>2 DEF Kin
<1>9. Grid!Missing(q) = Grid!Missing(r)
  BY <1>7 DEF Kin, Grid!Missing
<1> QED
  BY <1>3, <1>4, <1>5, <1>7, <1>8, <1>9 DEF Drawn

LEMMA GridRequested ==
    ASSUME NEW p, PickerOK(p), dir \in Dirs, p.clock.callback # "armed",
           NEW q \in Grid!RequestFrame(p)
    PROVE  /\ Kin(p, q) /\ q.clock.callback # "armed"
           /\ \A thrown : GridDriven(q, dir, thrown)
           /\ p.open /\ p.clock.mapped =>
                 /\ q.clock.mapped /\ Awaits(q)
                 /\ q.generation = p.generation /\ q.dir = p.dir
<1> USE DEF Grid!ClockOK, Grid!Clock, Grid!Callbacks
<1>1. p.clock \in Grid!Clock /\ Grid!ClockOK(p.clock) /\ p.open \in BOOLEAN
  BY DEF PickerOK
<1>2. CASE ~p.open
  <2>1. q = p
    BY <1>2 DEF Grid!RequestFrame
  <2> QED
    BY <1>2, <2>1 DEF Kin, GridDriven
<1>3. ASSUME p.open, NEW c \in Grid!Clock, Grid!ClockOK(c), c.callback = "committed",
             c.redraw, c.mapped, q = [p EXCEPT !.clock = c]
      PROVE  /\ Kin(p, q) /\ q.clock.callback # "armed"
             /\ \A thrown : GridDriven(q, dir, thrown)
             /\ q.clock.mapped /\ Awaits(q)
             /\ q.generation = p.generation /\ q.dir = p.dir
  <2>1. /\ Kin(p, q) /\ q.clock = c /\ q.pending = p.pending
        /\ q.generation = p.generation /\ q.dir = p.dir
    BY <1>3, Reclocked
  <2> QED
    BY <1>3, <2>1 DEF GridDriven, Awaits
<1>4. CASE p.open /\ p.clock.callback # "none"
  <2> DEFINE c == Grid!Deferred(p.clock)
  <2>1. c \in Grid!Clock /\ Grid!ClockOK(c) /\ c.callback = "committed" /\ c.redraw /\ c.mapped
    BY <1>1, <1>4 DEF Grid!Deferred
  <2>2. q = [p EXCEPT !.clock = c]
    BY <1>4 DEF Grid!RequestFrame
  <2> HIDE DEF c
  <2> QED
    BY <1>3, <1>4, <2>1, <2>2
<1>5. CASE p.open /\ p.clock.callback = "none" /\ p.clock.mapped
  <2> DEFINE c == Grid!Scheduled(p.clock)
  <2>1. c \in Grid!Clock /\ Grid!ClockOK(c) /\ c.callback = "committed" /\ c.redraw /\ c.mapped
    BY <1>1, <1>5 DEF Grid!Scheduled, Grid!Armed, Grid!Committed
  <2>2. q = [p EXCEPT !.clock = c]
    BY <1>5 DEF Grid!RequestFrame
  <2> HIDE DEF c
  <2> QED
    BY <1>3, <1>5, <2>1, <2>2
<1>6. CASE p.open /\ p.clock.callback = "none" /\ ~p.clock.mapped
  <2> DEFINE c == Grid!FirstDraw(p.clock)
             t == [p EXCEPT !.clock = c]
  <2>1. c \in Grid!Clock /\ Grid!ClockOK(c) /\ c.callback = "armed" /\ c.mapped
    BY <1>1, <1>6 DEF Grid!FirstDraw, Grid!Armed
  <2>2. q \in Grid!Paint(t)
    BY <1>6 DEF Grid!RequestFrame
  <2> HIDE DEF c
  <2>3. /\ Kin(p, t) /\ t.clock = c /\ t.pending = p.pending
        /\ t.generation = p.generation /\ t.dir = p.dir
    BY <2>1, Reclocked
  <2> HIDE DEF t
  <2>4. /\ Kin(t, q) /\ q.clock.callback = "committed"
        /\ q.clock.mapped /\ \A thrown : Drawn(q, dir, thrown)
    BY <2>1, <2>2, <2>3, GridPainted DEF Kin
  <2>5. p.generation \in Nat /\ t.scanning = p.scanning
    BY <2>3 DEF Kin, PickerOK, Generations
  <2>6. Kin(p, q)
    BY <2>3, <2>4, <2>5 DEF Kin
  <2> QED
    BY <1>6, <2>4, <2>6 DEF GridDriven
<1> QED
  BY <1>1, <1>2, <1>4, <1>5, <1>6

LEMMA ScansStay ==
    ASSUME NEW p, NEW q, NEW post, PickerOK(p), dir \in Dirs, Kin(p, q),
           ScansOK(scans, post, p), Grid!Scans(p, q)
    PROVE  ScansOK(scans', post, q)
<1>1. p.generation \in Nat
  BY DEF PickerOK, Generations
<1>2. CASE q.generation = p.generation
  <2>1. q.dir = p.dir /\ q.scanning = p.scanning /\ q.files = p.files /\ scans' = scans
    BY <1>1, <1>2 DEF Kin, Grid!Scans
  <2> QED
    BY <1>2, <2>1 DEF ScansOK, AboutDir
<1>3. CASE q.generation # p.generation
  <2> DEFINE w == [found |-> q.dir, generation |-> q.generation]
  <2>1. q.generation = p.generation + 1 /\ q.dir = dir /\ q.scanning
    BY <1>3 DEF Kin
  <2>2. scans' = scans \cup {w}
    BY <1>3 DEF Grid!Scans
  <2>3. w.found = q.dir /\ w.generation = q.generation
    OBVIOUS
  <2> HIDE DEF w
  <2>4. \A r : AboutDir(r, p) => AboutDir(r, q)
    BY <1>1, <2>1 DEF AboutDir
  <2>5. AboutDir(w, q)
    BY <1>1, <2>1, <2>3 DEF AboutDir
  <2> QED
    BY <2>1, <2>2, <2>3, <2>4, <2>5 DEF ScansOK
<1> QED
  BY <1>2, <1>3

LEMMA ScanHandsOver ==
    ASSUME NEW p, NEW threads, NEW post, NEW late, NEW w \in threads, NEW r,
           ScansOK(threads, post, p), Grown(post, r, late), r.job = "scan",
           r.found = w.found, r.generation = w.generation
    PROVE  ScansOK(threads \ {w}, late, p)
<1>1. PICK n : /\ n \notin DOMAIN post /\ DOMAIN late = DOMAIN post \cup {n}
               /\ late[n] = r /\ \A i \in DOMAIN post : late[i] = post[i]
  BY DEF Grown
<1>2. AboutDir(r, p)
  BY DEF ScansOK, AboutDir
<1> QED
  BY <1>1, <1>2 DEF ScansOK

LEMMA ScansIgnoreThumbnails ==
    ASSUME NEW p, NEW threads, NEW post, NEW late, NEW r,
           ScansOK(threads, post, p), Grown(post, r, late), r.job # "scan"
    PROVE  ScansOK(threads, late, p)
<1>1. PICK n : /\ n \notin DOMAIN post /\ DOMAIN late = DOMAIN post \cup {n}
               /\ late[n] = r /\ \A i \in DOMAIN post : late[i] = post[i]
  BY DEF Grown
<1> QED
  BY <1>1 DEF ScansOK

(* The first result is taken: only that of the awaited scan was awaited.    *)
LEMMA ScansLand ==
    ASSUME NEW S, NEW post \in Seq(S), post # <<>>, NEW threads, NEW p,
           ScansOK(threads, post, p)
    PROVE  LET r == Head(post)
               late == Tail(post)
           IN  /\ r.job = "scan" => AboutDir(r, p)
               /\ \A i \in DOMAIN late : late[i].job = "scan" => AboutDir(late[i], p)
               /\ r.job # "scan" \/ r.generation # p.generation => ScansOK(threads, late, p)
<1> DEFINE r == Head(post)
           late == Tail(post)
<1>1. /\ 1 \in DOMAIN post /\ r = post[1]
      /\ \A i \in DOMAIN late : i + 1 \in DOMAIN post /\ i + 1 # 1 /\ late[i] = post[i + 1]
      /\ \A i \in DOMAIN post : i = 1 \/ (i - 1 \in DOMAIN late /\ late[i - 1] = post[i])
  BY Taken
<1> HIDE DEF r, late
<1>2. r.job = "scan" => AboutDir(r, p)
  BY <1>1 DEF ScansOK
<1>3. \A i \in DOMAIN late : late[i].job = "scan" => AboutDir(late[i], p)
  BY <1>1 DEF ScansOK
<1>4. ASSUME r.job # "scan" \/ r.generation # p.generation
      PROVE  ScansOK(threads, late, p)
  <2>1. ASSUME NEW i \in DOMAIN post, post[i].job = "scan",
               post[i].generation = p.generation
        PROVE  \E k \in DOMAIN late :
                  late[k].job = "scan" /\ late[k].generation = p.generation
    <3>1. i # 1
      BY <1>1, <1>4, <2>1
    <3> QED
      BY <1>1, <2>1, <3>1
  <2> QED
    BY <1>3, <2>1 DEF ScansOK
<1> QED
  BY <1>2, <1>3, <1>4 DEF r, late

(* The grid becomes q, with what p held before.                             *)
LEMMA GridMoves ==
    ASSUME NEW p, NEW q, PickerOK(p), dir \in Dirs, dir' \in Dirs, missed' \in BOOLEAN,
           decodes \subseteq [path : Grid!Files, generation : Nat],
           posted' \in Seq(ScanResults \cup ThumbResults),
           Flight(p.pending, decodes, posted'), ScansOK(scans, posted', p),
           Kin(p, q), q.clock.callback # "armed", GridDriven(q, dir', missed'),
           picker' = q, Grid!Scans(p, q),
           decodes' = decodes \cup {[path |-> f, generation |-> q.generation] :
                                       f \in q.pending \ p.pending}
    PROVE  GridInv'
<1>1. PickerOK(q)
  BY DEF Kin
<1>2. q.generation \in Nat /\ q.pending \subseteq Grid!Files
  BY <1>1 DEF PickerOK, Generations
<1>3. decodes' \subseteq [path : Grid!Files, generation : Nat]
  BY <1>2
<1>4. Flight(q.pending, decodes', posted')
  <2> DEFINE g == q.generation
             more == q.pending
             new == {[path |-> f, generation |-> g] : f \in more \ p.pending}
  <2>1. /\ \A w \in new : \E f \in more \ p.pending : w = [path |-> f, generation |-> g]
        /\ \A f \in more \ p.pending : [path |-> f, generation |-> g] \in new
    OBVIOUS
  <2> HIDE DEF g, new
  <2>2. Flight(more, decodes \cup new, posted')
    BY <2>1, FlightGrows DEF Kin
  <2> QED
    BY <2>2 DEF new, g
<1>5. ScansOK(scans', posted', q)
  BY ScansStay
<1> QED
  BY <1>1, <1>3, <1>4, <1>5 DEF GridInv

LEMMA GridInitially == Grid!Init => GridInv
<1> SUFFICES ASSUME Grid!Init PROVE GridInv
  OBVIOUS
<1>1. 0 \in Generations
  BY WorkersAssumption DEF WorkersAssumption, Generations
<1>2. picker \in [dir : Dirs \cup {{}}, scanning : BOOLEAN, files : SUBSET Grid!Files,
                  thumbs : SUBSET Grid!Files, pending : SUBSET Grid!Files,
                  generation : Generations, open : BOOLEAN, clock : Grid!Clock]
  BY <1>1 DEF Grid!Init, Grid!IdleClock, Grid!Clock, Grid!Callbacks
<1>3. /\ picker.dir = {} /\ picker.files = {} /\ picker.pending = {}
      /\ picker.scanning = FALSE /\ picker.open = FALSE /\ picker.generation = 0
      /\ picker.clock = Grid!IdleClock
  BY DEF Grid!Init
<1>4. PickerOK(picker) /\ picker.clock.callback # "armed"
  BY <1>2, <1>3, FS_EmptySet, WorkersAssumption
     DEF PickerOK, WorkersAssumption, Grid!ClockOK, Grid!IdleClock, Grid!Clock, Grid!Callbacks
<1>5. posted = <<>> /\ decodes = {} /\ scans = {} /\ dir \in Dirs /\ missed = FALSE
  BY DEF Grid!Init
<1>6. Flight(picker.pending, decodes, posted)
  BY <1>3, <1>5 DEF Flight, Thumbs
<1>7. ScansOK(scans, posted, picker)
  BY <1>3, <1>5 DEF ScansOK
<1>8. posted \in Seq(ScanResults \cup ThumbResults)
  BY <1>5
<1> QED
  BY <1>3, <1>4, <1>5, <1>6, <1>7, <1>8 DEF GridInv, GridDriven

LEMMA ResultReceived ==
    ASSUME GridInv, Grid!RunsPosted
    PROVE  GridInv'
<1> DEFINE R == ScanResults \cup ThumbResults
           r == Head(posted)
           p == IF r.job = "scan" THEN Grid!Scanned(picker, r) ELSE Grid!Decoded(picker, r)
<1>1. posted # <<>> /\ posted' = Tail(posted) /\ dir' = dir
  BY DEF Grid!RunsPosted
<1>2. PICK q \in IF Grid!Kept(picker, r) THEN Grid!RequestFrame(p) ELSE {p} :
        /\ picker' = q /\ Grid!Scans(p, q)
        /\ decodes' = decodes \cup {[path |-> f, generation |-> q.generation] :
                                       f \in q.pending \ p.pending}
  BY DEF Grid!RunsPosted
<1>3. missed' = (missed \/ (r.job = "thumbnail" /\ ~Grid!Kept(picker, r)))
  BY DEF Grid!RunsPosted
<1>4. posted \in Seq(R) /\ r \in R /\ posted' \in Seq(R)
  BY <1>1, HeadTailProperties DEF GridInv
<1>5. /\ Flight(IF r.job = "thumbnail" THEN picker.pending \ {r.path} ELSE picker.pending,
                decodes, posted')
      /\ r.job = "scan" => AboutDir(r, picker)
      /\ \A i \in DOMAIN posted' : posted'[i].job = "scan" => AboutDir(posted'[i], picker)
      /\ r.job # "scan" \/ r.generation # picker.generation =>
            ScansOK(scans, posted', picker)
  BY <1>1, <1>4, FlightLands, ScansLand DEF GridInv
<1>6. PickerOK(picker) /\ picker.clock.callback # "armed" /\ dir \in Dirs
  BY DEF GridInv
<1>7. missed' \in BOOLEAN
  BY <1>3
<1>8. ASSUME PickerOK(p), p.clock = picker.clock, Grid!Kept(picker, r),
             Flight(p.pending, decodes, posted'), ScansOK(scans, posted', p)
      PROVE  GridInv'
  <2> HIDE DEF p, r
  <2>1. q \in Grid!RequestFrame(p)
    BY <1>2, <1>8
  <2>2. Kin(p, q) /\ q.clock.callback # "armed" /\ GridDriven(q, dir', missed')
    BY <1>1, <1>6, <1>8, <2>1, GridRequested
  <2> QED
    BY <1>1, <1>2, <1>4, <1>6, <1>7, <1>8, <2>2, GridMoves DEF GridInv
<1>9. ASSUME PickerOK(p), p.clock = picker.clock, ~Grid!Kept(picker, r),
             GridDriven(p, dir, missed'),
             Flight(p.pending, decodes, posted'), ScansOK(scans, posted', p)
      PROVE  GridInv'
  <2> HIDE DEF p, r
  <2>1. q = p
    BY <1>2, <1>9
  <2>2. Kin(p, q) /\ q.clock.callback # "armed" /\ GridDriven(q, dir', missed')
    BY <1>1, <1>6, <1>9, <2>1 DEF Kin
  <2> QED
    BY <1>1, <1>2, <1>4, <1>6, <1>7, <1>9, <2>2, GridMoves DEF GridInv
<1>10. CASE r.job = "scan"
  <2>1. r.generation = picker.generation => r.found = picker.dir
    BY <1>5, <1>10 DEF AboutDir
  <2>2. CASE r.generation = picker.generation
    <3> DEFINE s == [picker EXCEPT !.files = r.found, !.scanning = FALSE]
    <3>1. p = s /\ Grid!Kept(picker, r)
      BY <1>10, <2>2 DEF Grid!Scanned, Grid!Kept
    <3>2. r.found \in SUBSET Grid!Files
      BY <1>5, <1>10 DEF AboutDir, Grid!Files
    <3>3. r.found \in Dirs
      BY <1>5, <1>10 DEF AboutDir
    <3> HIDE DEF r, p
    <3>4. /\ s.files = r.found /\ s.scanning = FALSE /\ s.clock = picker.clock
          /\ s.pending = picker.pending /\ s.generation = picker.generation
          /\ s.dir = picker.dir
          /\ s \in [dir : Dirs \cup {{}}, scanning : BOOLEAN, files : SUBSET Grid!Files,
                    thumbs : SUBSET Grid!Files, pending : SUBSET Grid!Files,
                    generation : Generations, open : BOOLEAN, clock : Grid!Clock]
      BY <1>6, <3>2 DEF PickerOK
    <3> HIDE DEF s
    <3>5. PickerOK(s)
      BY <1>6, <3>3, <3>4 DEF PickerOK
    <3>6. ScansOK(scans, posted', s)
      <4>1. \A w : AboutDir(w, picker) => AboutDir(w, s)
        BY <3>4 DEF AboutDir
      <4>2. \A w \in scans : AboutDir(w, s)
        BY <4>1 DEF GridInv, ScansOK
      <4>3. \A i \in DOMAIN posted' : posted'[i].job = "scan" => AboutDir(posted'[i], s)
        BY <1>5, <4>1
      <4>4. s.files = s.dir
        BY <2>1, <2>2, <3>4
      <4> QED
        BY <3>4, <4>2, <4>3, <4>4 DEF ScansOK
    <3>7. Flight(s.pending, decodes, posted')
      BY <1>5, <1>10, <3>4
    <3> QED
      BY <1>8, <3>1, <3>4, <3>5, <3>6, <3>7
  <2>3. CASE r.generation # picker.generation
    <3>1. p = picker /\ ~Grid!Kept(picker, r)
      BY <1>10, <2>3 DEF Grid!Scanned, Grid!Kept
    <3>2. missed' = missed
      BY <1>3, <1>10 DEF GridInv
    <3> HIDE DEF p, r
    <3>3. GridDriven(p, dir, missed')
      BY <3>1, <3>2 DEF GridInv
    <3>4. Flight(p.pending, decodes, posted') /\ ScansOK(scans, posted', p)
      BY <1>5, <1>10, <2>3, <3>1
    <3> QED
      BY <1>6, <1>9, <3>1, <3>3, <3>4
  <2> QED
    BY <2>2, <2>3
<1>11. CASE r.job # "scan"
  <2>1. r.job = "thumbnail" /\ r.path \in Grid!Files
    BY <1>4, <1>11 DEF ScanResults, ThumbResults
  <2> DEFINE held == picker.pending \ {r.path}
             kept == IF r.generation # picker.generation \/ r.path \in Broken
                     THEN picker.thumbs ELSE picker.thumbs \cup {r.path}
  <2>2. p = [picker EXCEPT !.pending = held, !.thumbs = kept]
    BY <1>6, <1>11 DEF Grid!Decoded, PickerOK
  <2>3. held \subseteq Grid!Files /\ kept \subseteq Grid!Files
    BY <1>6, <2>1 DEF PickerOK
  <2>4. IsFiniteSet(held) /\ Cardinality(held) <= MaxInFlight
    <3>1. /\ IsFiniteSet(picker.pending) /\ Cardinality(picker.pending) <= MaxInFlight
          /\ Cardinality(picker.pending) \in Nat /\ MaxInFlight \in Nat
      BY <1>6, FS_CardinalityType, WorkersAssumption DEF PickerOK, WorkersAssumption
    <3>2. /\ IsFiniteSet(held)
          /\ Cardinality(held) = IF r.path \in picker.pending
                                 THEN Cardinality(picker.pending) - 1
                                 ELSE Cardinality(picker.pending)
      BY <3>1, FS_RemoveElement
    <3> QED
      BY <3>1, <3>2
  <2>5. Flight(held, decodes, posted') /\ ScansOK(scans, posted', picker)
    BY <1>5, <1>11, <2>1
  <2>6. ~Grid!Kept(picker, r) => missed' = TRUE
    BY <1>3, <2>1
  <2> HIDE DEF p, r, held, kept
  <2>7. /\ p.pending = held /\ p.thumbs = kept /\ p.clock = picker.clock
        /\ p.generation = picker.generation /\ p.dir = picker.dir
        /\ p.files = picker.files /\ p.scanning = picker.scanning /\ p.open = picker.open
        /\ p \in [dir : Dirs \cup {{}}, scanning : BOOLEAN, files : SUBSET Grid!Files,
                  thumbs : SUBSET Grid!Files, pending : SUBSET Grid!Files,
                  generation : Generations, open : BOOLEAN, clock : Grid!Clock]
    BY <1>6, <2>2, <2>3 DEF PickerOK
  <2>8. PickerOK(p)
    BY <1>6, <2>4, <2>7 DEF PickerOK
  <2>9. ScansOK(scans, posted', p)
    BY <2>5, <2>7 DEF ScansOK, AboutDir
  <2>10. CASE Grid!Kept(picker, r)
    BY <1>8, <2>5, <2>7, <2>8, <2>9, <2>10
  <2>11. CASE ~Grid!Kept(picker, r)
    <3>1. missed'
      BY <2>6, <2>11
    <3>2. GridDriven(p, dir, missed')
      BY <2>7, <3>1 DEF GridInv, GridDriven, Drawn, Awaits
    <3> QED
      BY <1>9, <2>5, <2>7, <2>8, <2>9, <2>11, <3>2
  <2> QED
    BY <2>10, <2>11
<1> QED
  BY <1>10, <1>11

LEMMA GridStep ==
    ASSUME GridInv, Grid!Next
    PROVE  GridInv'
<1> DEFINE R == ScanResults \cup ThumbResults
<1>1. /\ PickerOK(picker) /\ picker.clock.callback # "armed" /\ dir \in Dirs
      /\ missed \in BOOLEAN /\ posted \in Seq(R)
      /\ decodes \subseteq [path : Grid!Files, generation : Nat]
      /\ Flight(picker.pending, decodes, posted) /\ ScansOK(scans, posted, picker)
      /\ GridDriven(picker, dir, missed)
      /\ picker.open \in BOOLEAN /\ picker.generation \in Nat
  BY DEF GridInv, PickerOK, Generations
<1>2. ASSUME NEW q, Kin(picker, q), q.clock.callback # "armed",
             GridDriven(q, dir', missed'), Grid!Becomes(q), dir' \in Dirs,
             missed' \in BOOLEAN, posted' = posted
      PROVE  GridInv'
  BY <1>1, <1>2, GridMoves DEF Grid!Becomes
<1>3. ASSUME NEW d \in Dirs, Grid!SetDir(d)
      PROVE  GridInv'
  <2>1. PICK q \in Grid!RequestFrame(picker) : Grid!Becomes(q)
    BY <1>3 DEF Grid!SetDir
  <2>2. picker.open /\ dir' = d /\ UNCHANGED <<posted, missed>>
    BY <1>3 DEF Grid!SetDir
  <2>3. /\ Kin(picker, q) /\ q.clock.callback # "armed"
        /\ q.clock.mapped /\ Awaits(q)
    BY <1>1, <2>2, GridRequested DEF GridDriven
  <2>4. GridDriven(q, dir', missed')
    BY <2>3 DEF GridDriven
  <2> QED
    BY <1>1, <1>2, <2>1, <2>2, <2>3, <2>4
<1>4. CASE Grid!Rescan
  <2> DEFINE p == Grid!Scan(picker)
  <2>1. PICK q \in Grid!RequestFrame(p) : Grid!Becomes(q)
    BY <1>4 DEF Grid!Rescan
  <2>2. picker.open /\ picker.generation < MaxScans /\ UNCHANGED <<dir, posted, missed>>
    BY <1>4 DEF Grid!Rescan
  <2>3. /\ PickerOK(p) /\ p.generation = picker.generation + 1 /\ p.dir = dir
        /\ p.scanning /\ p.pending = picker.pending /\ p.open = picker.open
        /\ p.thumbs = picker.thumbs /\ p.files = picker.files /\ p.clock = picker.clock
    BY <1>1, <2>2, ScanStarted
  <2> HIDE DEF p
  <2>4. /\ Kin(p, q) /\ q.clock.callback # "armed"
        /\ \A thrown : GridDriven(q, dir, thrown)
        /\ q.generation = p.generation /\ q.dir = p.dir
    BY <1>1, <2>2, <2>3, GridRequested DEF GridDriven
  <2>5. Kin(picker, q)
    <3>1. q.scanning
      <4>1. p.generation \in Nat
        BY <1>1, <2>3
      <4> QED
        BY <2>3, <2>4, <4>1 DEF Kin
    <3> QED
      BY <2>3, <2>4, <3>1 DEF Kin
  <2> QED
    BY <1>1, <1>2, <2>1, <2>2, <2>4, <2>5
<1>5. CASE Grid!Toggle
  <2> DEFINE p == [picker EXCEPT !.open = ~@]
  <2>1. PICK q \in Grid!RequestFrame(p) : Grid!Becomes(q)
    BY <1>5 DEF Grid!Toggle
  <2>2. UNCHANGED <<dir, posted, missed>>
    BY <1>5 DEF Grid!Toggle
  <2>3. PICK b \in BOOLEAN : b = ~picker.open
    OBVIOUS
  <2>4. p = [picker EXCEPT !.open = b]
    BY <1>1, <2>3 DEF PickerOK
  <2> HIDE DEF p
  <2>5. /\ p.generation = picker.generation /\ p.dir = picker.dir
        /\ p.scanning = picker.scanning /\ p.pending = picker.pending /\ p.open = b
        /\ p.thumbs = picker.thumbs /\ p.files = picker.files /\ p.clock = picker.clock
        /\ p \in [dir : Dirs \cup {{}}, scanning : BOOLEAN, files : SUBSET Grid!Files,
                  thumbs : SUBSET Grid!Files, pending : SUBSET Grid!Files,
                  generation : Generations, open : BOOLEAN, clock : Grid!Clock]
    BY <1>1, <2>4 DEF PickerOK
  <2>6. PickerOK(p)
    BY <1>1, <2>5 DEF PickerOK
  <2>7. /\ Kin(p, q) /\ q.clock.callback # "armed"
        /\ \A thrown : GridDriven(q, dir, thrown)
    BY <1>1, <2>1, <2>5, <2>6, GridRequested
  <2>8. Flight(p.pending, decodes, posted')
    BY <1>1, <2>2, <2>5
  <2>9. ScansOK(scans, posted', p)
    BY <1>1, <2>2, <2>5 DEF ScansOK, AboutDir
  <2>10. /\ picker' = q /\ Grid!Scans(p, q)
         /\ decodes' = decodes \cup {[path |-> f, generation |-> q.generation] :
                                        f \in q.pending \ p.pending}
    BY <2>1, <2>5 DEF Grid!Becomes, Grid!Scans
  <2> QED
    BY <1>1, <2>2, <2>6, <2>7, <2>8, <2>9, <2>10, GridMoves
<1>6. CASE Grid!Frame
  <2>1. PICK q \in IF picker.clock.redraw
                   THEN Grid!Paint([picker EXCEPT !.clock = Grid!DoneForDraw(@)])
                   ELSE {[picker EXCEPT !.clock = Grid!DoneIdle(@)]} : Grid!Becomes(q)
    BY <1>6 DEF Grid!Frame
  <2>2. /\ picker.clock.callback = "committed" /\ UNCHANGED <<dir, posted>>
        /\ missed' = (missed /\ ~picker.clock.redraw)
    BY <1>6 DEF Grid!Frame
  <2>3. picker.clock \in Grid!Clock /\ Grid!ClockOK(picker.clock) /\ missed' \in BOOLEAN
    BY <1>1, <2>2 DEF PickerOK
  <2>4. CASE picker.clock.redraw
    <3> DEFINE c == Grid!DoneForDraw(picker.clock)
               p == [picker EXCEPT !.clock = c]
    <3>1. /\ c \in Grid!Clock /\ Grid!ClockOK(c) /\ c.callback # "none"
          /\ c.mapped = picker.clock.mapped /\ c.mapped
      BY <2>2, <2>3 DEF Grid!DoneForDraw, Grid!Armed, Grid!ClockOK, Grid!Clock, Grid!Callbacks
    <3>2. q \in Grid!Paint(p)
      BY <2>1, <2>4
    <3> HIDE DEF c
    <3>3. /\ Kin(picker, p) /\ p.clock = c /\ p.pending = picker.pending
          /\ p.generation = picker.generation /\ p.dir = picker.dir
      BY <1>1, <3>1, Reclocked
    <3> HIDE DEF p
    <3>4. /\ Kin(p, q) /\ q.clock.callback = "committed" /\ q.clock.mapped
          /\ \A thrown : Drawn(q, dir, thrown)
      BY <1>1, <3>1, <3>2, <3>3, GridPainted DEF Kin
    <3>5. p.scanning = picker.scanning
      BY <1>1, <3>3 DEF Kin
    <3>6. Kin(picker, q)
      BY <3>3, <3>4, <3>5 DEF Kin
    <3>7. GridDriven(q, dir', missed')
      BY <2>2, <3>4 DEF GridDriven
    <3> QED
      BY <1>1, <1>2, <2>1, <2>2, <2>3, <3>4, <3>6, <3>7
  <2>5. CASE ~picker.clock.redraw
    <3> DEFINE c == Grid!DoneIdle(picker.clock)
    <3>1. /\ c \in Grid!Clock /\ Grid!ClockOK(c) /\ c.callback = "none"
          /\ c.mapped = picker.clock.mapped
      BY <2>3, <2>5 DEF Grid!DoneIdle, Grid!ClockOK, Grid!Clock, Grid!Callbacks
    <3>2. q = [picker EXCEPT !.clock = c]
      BY <2>1, <2>5
    <3> HIDE DEF c
    <3>3. /\ Kin(picker, q) /\ q.clock = c /\ q.pending = picker.pending
          /\ q.generation = picker.generation /\ q.dir = picker.dir
      BY <1>1, <3>1, <3>2, Reclocked
    <3>4. missed' = missed /\ dir' = dir
      BY <1>1, <2>2, <2>5
    <3>5. GridDriven(q, dir', missed')
      BY <1>1, <2>5, <3>1, <3>3, <3>4 DEF GridDriven, Awaits, Drawn, Kin, Grid!Missing
    <3> QED
      BY <1>1, <1>2, <2>1, <2>2, <2>3, <3>1, <3>3, <3>5
  <2> QED
    BY <2>4, <2>5
<1>7. CASE Grid!RunsPosted
  BY <1>7, ResultReceived
<1>8. ASSUME NEW w \in scans, Grid!ScanEnds(w)
      PROVE  GridInv'
  <2> DEFINE r == [job |-> "scan", found |-> w.found, generation |-> w.generation]
  <2>1. /\ scans' = scans \ {w} /\ posted' = Append(posted, r)
        /\ UNCHANGED <<dir, picker, decodes, missed>>
    BY <1>8 DEF Grid!ScanEnds
  <2>2. AboutDir(w, picker)
    BY <1>1 DEF ScansOK
  <2>3. r \in R
    BY <2>2 DEF AboutDir, ScanResults
  <2>4. r.job = "scan" /\ r.found = w.found /\ r.generation = w.generation
    OBVIOUS
  <2> HIDE DEF r, R
  <2>5. posted' \in Seq(R) /\ Grown(posted, r, posted')
    BY <1>1, <2>1, <2>3, Queued
  <2>6. Flight(picker.pending, decodes, posted')
    BY <1>1, <2>4, <2>5, FlightIgnoresScans
  <2>7. ScansOK(scans', posted', picker)
    BY <1>1, <2>1, <2>4, <2>5, ScanHandsOver
  <2> QED
    BY <1>1, <2>1, <2>5, <2>6, <2>7 DEF GridInv, R
<1>9. ASSUME NEW w \in decodes, Grid!DecodeEnds(w)
      PROVE  GridInv'
  <2> DEFINE r == [job |-> "thumbnail", path |-> w.path, generation |-> w.generation]
  <2>1. /\ decodes' = decodes \ {w} /\ posted' = Append(posted, r)
        /\ UNCHANGED <<dir, picker, scans, missed>>
    BY <1>9 DEF Grid!DecodeEnds
  <2>2. r \in R
    BY <1>1 DEF ThumbResults
  <2>3. r.job = "thumbnail" /\ r.path = w.path
    OBVIOUS
  <2> HIDE DEF r, R
  <2>4. posted' \in Seq(R) /\ Grown(posted, r, posted')
    BY <1>1, <2>1, <2>2, Queued
  <2>5. Flight(picker.pending, decodes', posted')
    BY <1>1, <2>1, <2>3, <2>4, FlightHandsOver
  <2>6. ScansOK(scans, posted', picker)
    BY <1>1, <2>3, <2>4, ScansIgnoreThumbnails
  <2> QED
    BY <1>1, <2>1, <2>4, <2>5, <2>6 DEF GridInv, R
<1> QED
  BY <1>3, <1>4, <1>5, <1>6, <1>7, <1>8, <1>9 DEF Grid!Next

LEMMA GridShown ==
    ASSUME GridInv
    PROVE  Grid!GridSettles
<1> SUFFICES ASSUME picker.open, scans = {}, decodes = {}, posted = <<>>,
                    picker.clock.callback = "none", picker.generation < MaxScans
             PROVE  /\ ~picker.scanning /\ picker.dir = dir /\ picker.files = dir
                    /\ ~missed => picker.files \ Broken \subseteq picker.thumbs
  BY DEF Grid!GridSettles
<1>1. ~picker.scanning /\ picker.files = picker.dir
  BY DEF GridInv, ScansOK
<1>2. picker.pending = {}
  BY DEF GridInv, Flight, Thumbs
<1>3. picker.dir = dir /\ (missed \/ Grid!Missing(picker) = {})
  <2>1. Cardinality(picker.pending) = 0 /\ MaxInFlight \in Nat \ {0}
    BY <1>2, FS_EmptySet, WorkersAssumption DEF WorkersAssumption
  <2>2. Drawn(picker, dir, missed)
    BY DEF GridInv, GridDriven, Awaits
  <2>3. ~(picker.generation >= MaxScans)
    BY WorkersAssumption DEF GridInv, PickerOK, Generations, WorkersAssumption
  <2> QED
    BY <2>1, <2>2, <2>3 DEF Drawn
<1> QED
  BY <1>1, <1>2, <1>3 DEF Grid!Missing

\* The wallpaper grid (settings/wallpaper_tab.cpp): a thumbnail is decoded by
\* one thread at a time and no more are than the limit allows, and with nothing
\* under way the open grid lists the configured directory with its thumbnails,
\* in whatever order the scans and the decodes of several directories end.
THEOREM GridKeepsUp ==
    MCSpec => [](part = "picker" => Grid!OneDecodeEach /\ Grid!GridSettles)
<1> DEFINE Inv == part = "picker" => GridInv
<1>1. MCInit => Inv
  BY GridInitially DEF MCInit
<1>2. Inv /\ [MCNext]_<<part, vars, guests>> => Inv'
  <2> SUFFICES ASSUME Inv, [MCNext]_<<part, vars, guests>>, part' = "picker"
               PROVE  GridInv'
    OBVIOUS
  <2>1. part = "picker" /\ (Grid!Next \/ UNCHANGED pickerVars)
    BY DEF MCNext, Calls, Guest, guests
  <2>2. CASE Grid!Next
    BY <2>1, <2>2, GridStep
  <2>3. CASE UNCHANGED pickerVars
    BY <2>1, <2>3 DEF pickerVars, GridInv
  <2> QED
    BY <2>1, <2>2, <2>3
<1>3. Inv => (part = "picker" => Grid!OneDecodeEach /\ Grid!GridSettles)
  BY FlightCounts, GridShown
<1> QED
  BY <1>1, <1>2, <1>3, PTL DEF MCSpec

-----------------------------------------------------------------------------
(* The overlays of the ambient wallpaper and the screensaver.              *)

Seconds == 0..Screens!Never
Overlay == [there : BOOLEAN, life : Nat, on : [Screens!Kinds -> BOOLEAN],
            opacity : [Screens!Kinds -> {0, 1, 2}], moving : SUBSET Screens!Kinds,
            shown : BOOLEAN, job : Screens!Jobs, clock : Screens!Clock]

(* What does not move is where it should be.                                *)
Placed(s) == \A k \in Screens!Kinds \ s.moving : s.opacity[k] = Screens!Goal(s, k)

OverlayOK(s) ==
    /\ s \in Overlay /\ Screens!ClockOK(s.clock) /\ s.clock.callback # "armed"
    /\ Placed(s)
    /\ s.moving # {} \/ s.on["saver"] \/ s.shown => s.clock.redraw

ScreensInv ==
    /\ seatIdle \in BOOLEAN /\ focused \in Monitors /\ timeouts \in Settings
    /\ stray \in BOOLEAN /\ since \in [Monitors -> Seconds]
    /\ screens \in [Monitors -> Overlay] /\ \A m \in Monitors : OverlayOK(screens[m])

LEMMA OverlayPainted ==
    ASSUME NEW s \in Overlay, Screens!ClockOK(s.clock), s.clock.callback # "none", Placed(s),
           NEW ends \in SUBSET s.moving
    PROVE  OverlayOK(Screens!Painted(s, ends))
<1> DEFINE o == [k \in Screens!Kinds |->
                    IF k \notin s.moving THEN s.opacity[k]
                    ELSE IF k \in ends \/ s.opacity[k] = Screens!Goal(s, k)
                         THEN Screens!Goal(s, k) ELSE 1]
           moving == s.moving \ ends
           c == Screens!Committed(s.clock)
           clock == IF moving # {} \/ s.on["saver"] THEN Screens!Deferred(c) ELSE c
<1>1. PICK b \in BOOLEAN : b = (s.shown /\ (s.on["saver"] \/ o["saver"] > 0))
  OBVIOUS
<1> DEFINE t == [s EXCEPT !.moving = moving, !.opacity = o, !.shown = b, !.clock = clock]
<1>2. Screens!Painted(s, ends) = t
  <2> DEFINE ticked == Screens!Ticked(s, ends)
  <2>1. ticked = [s EXCEPT !.moving = moving, !.opacity = o]
    BY DEF Screens!Ticked, Overlay
  <2> DEFINE u == [ticked EXCEPT !.shown = @ /\ (ticked.on["saver"] \/ ticked.opacity["saver"] > 0)]
  <2> HIDE DEF ticked, o, moving
  <2>2. /\ ticked.on = s.on /\ ticked.opacity = o /\ ticked.shown = s.shown
        /\ ticked.clock = s.clock /\ ticked.moving = moving /\ DOMAIN ticked = DOMAIN s
    BY <2>1 DEF Overlay
  <2>3. u = [s EXCEPT !.moving = moving, !.opacity = o, !.shown = b]
    <3>1. u = [ticked EXCEPT !.shown = b]
      BY <1>1, <2>2
    <3> QED
      BY <2>1, <3>1 DEF Overlay
  <2> HIDE DEF u
  <2>4. u.moving = moving /\ u.on = s.on /\ u.clock = s.clock
    BY <2>3 DEF Overlay
  <2>5. Screens!Painted(s, ends)
        = [u EXCEPT !.clock = IF u.moving # {} \/ u.on["saver"]
                              THEN Screens!Deferred(Screens!Committed(u.clock))
                              ELSE Screens!Committed(u.clock)]
    BY DEF Screens!Painted, u, ticked
  <2>6. Screens!Painted(s, ends) = [u EXCEPT !.clock = clock]
    BY <2>4, <2>5
  <2> HIDE DEF clock
  <2> QED
    BY <2>3, <2>6 DEF Overlay
<1>3. /\ clock \in Screens!Clock /\ Screens!ClockOK(clock) /\ clock.callback = "committed"
      /\ moving # {} \/ s.on["saver"] => clock.redraw
  BY DEF Overlay, Screens!ClockOK, Screens!Clock, Screens!Callbacks, Screens!Committed,
     Screens!Deferred
<1>4. o \in [Screens!Kinds -> {0, 1, 2}]
  BY DEF Overlay, Screens!Goal
<1>5. /\ \A k \in Screens!Kinds \ moving : o[k] = Screens!Goal(s, k)
      /\ "saver" \in Screens!Kinds
  BY DEF Placed, Screens!Kinds
<1> HIDE DEF o, moving, clock
<1>6. ASSUME moving = {}, ~s.on["saver"] PROVE b = FALSE
  <2>1. o["saver"] = 0
    BY <1>5, <1>6 DEF Screens!Goal
  <2>2. ~(0 > 0)
    OBVIOUS
  <2> QED
    BY ONLY <1>1, <1>6, <2>1, <2>2
<1>7. moving \subseteq Screens!Kinds
  BY DEF moving, Overlay
<1>8. /\ t \in Overlay /\ t.moving = moving /\ t.opacity = o /\ t.on = s.on
      /\ t.shown = b /\ t.clock = clock
  BY <1>3, <1>4, <1>7 DEF Overlay
<1> HIDE DEF t
<1> QED
  BY <1>2, <1>3, <1>5, <1>6, <1>8 DEF OverlayOK, Placed, Screens!Goal

LEMMA OverlayRequested ==
    ASSUME NEW s \in Overlay, Screens!ClockOK(s.clock), s.clock.callback # "armed", Placed(s)
    PROVE  OverlayOK(Screens!Requested(s))
<1> USE DEF Screens!ClockOK, Screens!Clock, Screens!Callbacks
<1>1. s.clock \in Screens!Clock
  BY DEF Overlay
<1>2. ASSUME NEW c \in Screens!Clock, Screens!ClockOK(c)
      PROVE  LET t == [s EXCEPT !.clock = c]
             IN  /\ t \in Overlay /\ t.clock = c /\ Placed(t) /\ t.moving = s.moving
                 /\ c.callback # "armed" /\ c.redraw => OverlayOK(t)
  <2> DEFINE t == [s EXCEPT !.clock = c]
  <2>1. /\ t \in Overlay /\ t.clock = c /\ t.moving = s.moving /\ t.opacity = s.opacity
        /\ t.on = s.on
    BY DEF Overlay
  <2> HIDE DEF t
  <2>2. Placed(t)
    BY <2>1 DEF Placed, Screens!Goal
  <2> QED
    BY <1>2, <2>1, <2>2 DEF OverlayOK, t
<1>3. CASE s.clock.callback # "none"
  <2> DEFINE c == Screens!Deferred(s.clock)
  <2>1. c \in Screens!Clock /\ Screens!ClockOK(c) /\ c.callback # "armed" /\ c.redraw
    BY <1>1, <1>3 DEF Screens!Deferred
  <2>2. Screens!Requested(s) = [s EXCEPT !.clock = c]
    BY <1>3 DEF Screens!Requested, Overlay
  <2> HIDE DEF c
  <2> QED
    BY <1>2, <2>1, <2>2
<1>4. CASE s.clock.callback = "none" /\ s.clock.mapped
  <2> DEFINE c == Screens!Scheduled(s.clock)
  <2>1. c \in Screens!Clock /\ Screens!ClockOK(c) /\ c.callback # "armed" /\ c.redraw
    BY <1>1, <1>4 DEF Screens!Scheduled, Screens!Armed, Screens!Committed
  <2>2. Screens!Requested(s) = [s EXCEPT !.clock = c]
    BY <1>4 DEF Screens!Requested, Overlay
  <2> HIDE DEF c
  <2> QED
    BY <1>2, <2>1, <2>2
<1>5. CASE s.clock.callback = "none" /\ ~s.clock.mapped
  <2> DEFINE c == Screens!FirstDraw(s.clock)
             t == [s EXCEPT !.clock = c]
  <2>1. c \in Screens!Clock /\ Screens!ClockOK(c) /\ c.callback # "none"
    BY <1>1, <1>5 DEF Screens!FirstDraw, Screens!Armed
  <2>2. Screens!Requested(s) = Screens!Painted(t, {})
    BY <1>5 DEF Screens!Requested, Overlay
  <2> HIDE DEF c
  <2>3. t \in Overlay /\ t.clock = c /\ Placed(t)
    BY <1>2, <2>1
  <2> HIDE DEF t
  <2> QED
    BY <2>1, <2>2, <2>3, OverlayPainted
<1> QED
  BY <1>3, <1>4, <1>5

LEMMA OverlayTurned ==
    ASSUME NEW s, OverlayOK(s), NEW ambient \in BOOLEAN, NEW saver \in BOOLEAN
    PROVE  OverlayOK(Screens!SetActive(s, ambient, saver))
<1> DEFINE want == [k \in Screens!Kinds |-> IF k = "saver" THEN saver ELSE ambient /\ ~saver]
           turned == {k \in Screens!Kinds : want[k] # s.on[k]}
           lit == IF "saver" \in turned /\ saver THEN Screens!Lit(s) ELSE s
           moving == s.moving \union turned
           told == [lit EXCEPT !.on = want, !.moving = moving]
<1>1. s \in Overlay /\ Placed(s) /\ Screens!ClockOK(s.clock) /\ s.clock.callback # "armed"
  BY DEF OverlayOK
<1>2. want \in [Screens!Kinds -> BOOLEAN]
  <2>1. PICK b \in BOOLEAN : b = (ambient /\ ~saver)
    OBVIOUS
  <2>2. want = [k \in Screens!Kinds |-> IF k = "saver" THEN saver ELSE b]
    BY <2>1
  <2> QED
    BY <2>2
<1>3. /\ lit \in Overlay /\ lit.moving = s.moving /\ lit.opacity = s.opacity
      /\ lit.clock = s.clock
  <2> HIDE DEF want, turned
  <2>1. CASE lit = s
    BY <1>1, <2>1
  <2>2. CASE lit = Screens!Lit(s) /\ ~s.shown
    <3> DEFINE j == IF s.job = "none" THEN "decoding" ELSE s.job
               l == [s EXCEPT !.shown = TRUE, !.job = j]
    <3>1. j \in Screens!Jobs
      BY <1>1 DEF Overlay, Screens!Jobs
    <3>2. lit = l
      BY <1>1, <2>2 DEF Screens!Lit, Overlay
    <3> HIDE DEF j, lit
    <3>3. /\ l \in Overlay /\ l.moving = s.moving /\ l.opacity = s.opacity
          /\ l.clock = s.clock
      BY <1>1, <3>1 DEF Overlay
    <3> HIDE DEF l
    <3> QED
      BY <3>2, <3>3
  <2> QED
    BY <2>1, <2>2 DEF Screens!Lit
<1>4. Screens!SetActive(s, ambient, saver)
      = IF turned = {} THEN s ELSE Screens!Requested(told)
  BY <1>3 DEF Screens!SetActive
<1>5. \A k \in Screens!Kinds \ turned : want[k] = s.on[k]
  OBVIOUS
<1>6. turned \subseteq Screens!Kinds
  OBVIOUS
<1> HIDE DEF want, turned, lit
<1>7. /\ told \in Overlay /\ told.moving = moving /\ told.opacity = s.opacity
      /\ told.clock = s.clock /\ told.on = want
  BY <1>2, <1>3, <1>6 DEF Overlay
<1> HIDE DEF told
<1>8. Placed(told)
  BY <1>1, <1>5, <1>7 DEF Placed, Screens!Goal
<1>9. OverlayOK(Screens!Requested(told))
  BY <1>1, <1>7, <1>8, OverlayRequested
<1> QED
  BY <1>4, <1>9

LEMMA OverlayMade ==
    ASSUME NEW life \in Nat
    PROVE  /\ OverlayOK(Screens!Fresh(life))
           /\ OverlayOK([Screens!Fresh(life) EXCEPT !.there = FALSE])
<1> DEFINE on == [k \in Screens!Kinds |-> FALSE]
           opacity == [k \in Screens!Kinds |-> 0]
           s == Screens!Fresh(life)
           t == [s EXCEPT !.there = FALSE]
<1>1. on \in [Screens!Kinds -> BOOLEAN] /\ opacity \in [Screens!Kinds -> {0, 1, 2}]
  OBVIOUS
<1>2. ~on["saver"] /\ \A k \in Screens!Kinds : opacity[k] = 0 /\ ~on[k]
  BY DEF Screens!Kinds
<1>3. Screens!IdleClock \in Screens!Clock /\ Screens!ClockOK(Screens!IdleClock)
      /\ Screens!IdleClock.callback # "armed"
  BY DEF Screens!IdleClock, Screens!Clock, Screens!ClockOK, Screens!Callbacks
<1>4. s = [there |-> TRUE, life |-> life, on |-> on, opacity |-> opacity, moving |-> {},
           shown |-> FALSE, job |-> "none", clock |-> Screens!IdleClock]
  BY DEF Screens!Fresh
<1>5. "none" \in Screens!Jobs
  BY DEF Screens!Jobs
<1> HIDE DEF on, opacity, s
<1>6. /\ s \in Overlay /\ s.on = on /\ s.opacity = opacity /\ s.moving = {}
      /\ ~s.shown /\ s.clock = Screens!IdleClock
  BY <1>1, <1>3, <1>4, <1>5 DEF Overlay
<1>7. /\ t \in Overlay /\ t.on = on /\ t.opacity = opacity /\ t.moving = {}
      /\ ~t.shown /\ t.clock = Screens!IdleClock
  BY <1>6 DEF Overlay
<1> HIDE DEF t
<1>8. Placed(s) /\ Placed(t)
  BY <1>2, <1>6, <1>7 DEF Placed, Screens!Goal
<1> QED
  BY <1>2, <1>3, <1>6, <1>7, <1>8 DEF OverlayOK, s, t

LEMMA ScreensInitially == Screens!Init => ScreensInv
<1> SUFFICES ASSUME Screens!Init PROVE ScreensInv
  OBVIOUS
<1>1. Far \in Nat
  BY WorkersAssumption DEF WorkersAssumption
<1>2. Screens!Never \in Seconds
  BY <1>1 DEF Seconds, Screens!Never
<1>4. OverlayOK(Screens!Fresh(0))
  BY OverlayMade
<1> QED
  BY <1>2, <1>4 DEF ScreensInv, Screens!Init, OverlayOK

(* One overlay changes.                                                     *)
LEMMA OverlaySet ==
    ASSUME ScreensInv, NEW m \in Monitors, NEW s, Screens!Set(m, s), OverlayOK(s),
           UNCHANGED <<seatIdle, focused, since, timeouts>>, stray' \in BOOLEAN
    PROVE  ScreensInv'
<1>1. s \in Overlay
  BY DEF OverlayOK
<1>2. /\ screens' \in [Monitors -> Overlay] /\ screens'[m] = s
      /\ \A n \in Monitors \ {m} : screens'[n] = screens[n]
  BY <1>1 DEF Screens!Set, ScreensInv
<1> QED
  BY <1>2 DEF ScreensInv

LEMMA SecondPasses ==
    ASSUME NEW t \in Seconds
    PROVE  Screens!Older(t) \in Seconds
BY WorkersAssumption DEF WorkersAssumption, Seconds, Screens!Never, Screens!Older

LEMMA TickKeepsOverlays ==
    ASSUME ScreensInv, Screens!TimerTick
    PROVE  ScreensInv'
<1> DEFINE now == [m \in Monitors |->
               IF Screens!There(m) /\ since[m] = Screens!Never THEN 0
               ELSE Screens!Older(since[m])]
<1>1. /\ screens' = [m \in Monitors |->
             IF Screens!There(m)
             THEN Screens!SetActive(screens[m], Screens!IsIdle(now[m], timeouts.ambient),
                                    Screens!IsIdle(now[m], timeouts.saver))
             ELSE screens[m]]
      /\ since' = IF seatIdle THEN now ELSE [now EXCEPT ![focused] = 0]
      /\ UNCHANGED <<seatIdle, focused, timeouts, stray>>
  BY DEF Screens!TimerTick, Screens!IdleTick
<1>2. 0 \in Seconds
  BY WorkersAssumption DEF WorkersAssumption, Seconds, Screens!Never
<1>3. now \in [Monitors -> Seconds]
  <2>1. \A m \in Monitors : since[m] \in Seconds /\ Screens!Older(since[m]) \in Seconds
    BY SecondPasses DEF ScreensInv
  <2> QED
    BY <1>2, <2>1
<1> HIDE DEF now
<1>4. since' \in [Monitors -> Seconds]
  BY <1>1, <1>2, <1>3
<1>5. ASSUME NEW m \in Monitors
      PROVE  OverlayOK(screens'[m])
  <2>1. OverlayOK(screens[m])
    BY DEF ScreensInv
  <2>2. PICK a \in BOOLEAN : a = Screens!IsIdle(now[m], timeouts.ambient)
    BY DEF Screens!IsIdle
  <2>3. PICK b \in BOOLEAN : b = Screens!IsIdle(now[m], timeouts.saver)
    BY DEF Screens!IsIdle
  <2>4. screens'[m] = IF Screens!There(m) THEN Screens!SetActive(screens[m], a, b)
                      ELSE screens[m]
    BY <1>1, <2>2, <2>3
  <2>5. OverlayOK(Screens!SetActive(screens[m], a, b))
    BY <2>1, OverlayTurned
  <2> QED
    BY <2>1, <2>4, <2>5
<1>6. screens' \in [Monitors -> Overlay]
  BY <1>1, <1>5 DEF OverlayOK
<1> QED
  BY <1>1, <1>4, <1>5, <1>6 DEF ScreensInv

LEMMA ScreensStep ==
    ASSUME ScreensInv, Screens!Next
    PROVE  ScreensInv'
<1> USE DEF Screens!Rest
<1>1. CASE Screens!TimerTick
  BY <1>1, TickKeepsOverlays
<1>2. CASE Screens!SeatTurns
  BY <1>2 DEF Screens!SeatTurns, ScreensInv
<1>3. CASE Screens!RunsPosted
  <2> DEFINE c == Head(closures)
             s == [screens[c.m] EXCEPT !.job = "ready"]
  <2>1. UNCHANGED <<seatIdle, focused, since, timeouts>> /\ stray' \in BOOLEAN
    BY <1>3 DEF Screens!RunsPosted, ScreensInv
  <2>2. CASE screens' = screens
    BY <2>1, <2>2 DEF ScreensInv
  <2>3. CASE screens' # screens
    <3>1. Screens!Set(c.m, Screens!Requested(s))
      BY <1>3, <2>3 DEF Screens!RunsPosted
    <3>2. c.m \in Monitors
      BY <2>3, <3>1 DEF Screens!Set, ScreensInv
    <3>3. screens[c.m] \in Overlay /\ OverlayOK(screens[c.m]) /\ "ready" \in Screens!Jobs
      BY <3>2 DEF ScreensInv, Screens!Jobs
    <3>4. /\ s \in Overlay /\ s.clock = screens[c.m].clock /\ s.moving = screens[c.m].moving
          /\ s.opacity = screens[c.m].opacity /\ s.on = screens[c.m].on
      BY <3>3 DEF Overlay
    <3> HIDE DEF s, c
    <3>5. OverlayOK(Screens!Requested(s))
      BY <3>3, <3>4, OverlayRequested DEF OverlayOK, Placed, Screens!Goal
    <3> QED
      BY <2>1, <3>1, <3>2, <3>5, OverlaySet
  <2> QED
    BY <2>2, <2>3
<1>4. ASSUME NEW c \in Settings, Screens!ApplyConfigUpdate(c)
      PROVE  ScreensInv'
  <2>1. 0 \in Seconds
    BY WorkersAssumption DEF WorkersAssumption, Seconds, Screens!Never
  <2>2. since' \in [Monitors -> Seconds]
    BY <1>4, <2>1 DEF Screens!ApplyConfigUpdate, Screens!IdleReset, ScreensInv
  <2> QED
    BY <1>4, <2>2 DEF Screens!ApplyConfigUpdate, ScreensInv
<1>5. ASSUME NEW m \in Monitors, Screens!FocusMoves(m)
      PROVE  ScreensInv'
  BY <1>5 DEF Screens!FocusMoves, ScreensInv
<1>6. ASSUME NEW m \in Monitors, Screens!FrameDone(m)
      PROVE  ScreensInv'
  <2>1. /\ UNCHANGED <<seatIdle, focused, since, timeouts, stray>>
        /\ screens[m].clock.callback = "committed"
    BY <1>6 DEF Screens!FrameDone
  <2>2. /\ screens[m] \in Overlay /\ OverlayOK(screens[m]) /\ stray' \in BOOLEAN
        /\ screens[m].clock \in Screens!Clock /\ Screens!ClockOK(screens[m].clock)
    BY <2>1 DEF ScreensInv, Overlay, OverlayOK
  <2>3. CASE screens[m].clock.redraw
    <3> DEFINE c == Screens!DoneForDraw(screens[m].clock)
               s == [screens[m] EXCEPT !.clock = c]
    <3>1. PICK ends \in SUBSET screens[m].moving : Screens!Set(m, Screens!Painted(s, ends))
      BY <1>6, <2>2, <2>3 DEF Screens!FrameDone, Overlay
    <3>2. c \in Screens!Clock /\ Screens!ClockOK(c) /\ c.callback # "none"
      BY <2>1, <2>2 DEF Screens!DoneForDraw, Screens!Armed, Screens!ClockOK, Screens!Clock,
         Screens!Callbacks
    <3> HIDE DEF c
    <3>3. /\ s \in Overlay /\ s.clock = c /\ s.moving = screens[m].moving
          /\ s.opacity = screens[m].opacity /\ s.on = screens[m].on
      BY <2>2, <3>2 DEF Overlay
    <3> HIDE DEF s
    <3>4. OverlayOK(Screens!Painted(s, ends))
      BY <2>2, <3>2, <3>3, OverlayPainted DEF OverlayOK, Placed, Screens!Goal
    <3> QED
      BY <2>1, <2>2, <3>1, <3>4, OverlaySet
  <2>4. CASE ~screens[m].clock.redraw
    <3> DEFINE c == Screens!DoneIdle(screens[m].clock)
               s == [screens[m] EXCEPT !.clock = c]
    <3>1. Screens!Set(m, s)
      BY <1>6, <2>2, <2>4 DEF Screens!FrameDone, Overlay
    <3>2. c \in Screens!Clock /\ Screens!ClockOK(c) /\ c.callback # "armed"
          /\ ~c.redraw
      BY <2>2, <2>4 DEF Screens!DoneIdle, Screens!ClockOK, Screens!Clock, Screens!Callbacks
    <3> HIDE DEF c
    <3>3. /\ s \in Overlay /\ s.clock = c /\ s.moving = screens[m].moving
          /\ s.opacity = screens[m].opacity /\ s.on = screens[m].on
          /\ s.shown = screens[m].shown
      BY <2>2, <3>2 DEF Overlay
    <3> HIDE DEF s
    <3>4. OverlayOK(s)
      BY <2>2, <2>4, <3>2, <3>3 DEF OverlayOK, Placed, Screens!Goal
    <3> QED
      BY <2>1, <2>2, <3>1, <3>4, OverlaySet
  <2> QED
    BY <2>3, <2>4
<1>7. ASSUME NEW m \in Monitors, Screens!ThreadDecodes(m)
      PROVE  ScreensInv'
  <2>1. PICK job \in {"posted", "failed"} :
           Screens!Set(m, [screens[m] EXCEPT !.job = job])
    BY <1>7 DEF Screens!ThreadDecodes
  <2> DEFINE s == [screens[m] EXCEPT !.job = job]
  <2>2. screens[m] \in Overlay /\ OverlayOK(screens[m]) /\ job \in Screens!Jobs
    BY DEF ScreensInv, Screens!Jobs
  <2>3. /\ s \in Overlay /\ s.clock = screens[m].clock /\ s.moving = screens[m].moving
        /\ s.opacity = screens[m].opacity /\ s.on = screens[m].on
        /\ s.shown = screens[m].shown
    BY <2>2 DEF Overlay
  <2>4. UNCHANGED <<seatIdle, focused, since, timeouts>> /\ stray' \in BOOLEAN
    BY <1>7 DEF Screens!ThreadDecodes, ScreensInv
  <2> HIDE DEF s
  <2>5. OverlayOK(s)
    BY <2>2, <2>3 DEF OverlayOK, Placed, Screens!Goal
  <2> QED
    BY <2>1, <2>4, <2>5, OverlaySet DEF s
<1>8. ASSUME NEW m \in Monitors, Screens!Unplug(m)
      PROVE  ScreensInv'
  <2> DEFINE s == [Screens!Fresh(screens[m].life) EXCEPT !.there = FALSE]
  <2>1. screens[m].life \in Nat
    BY DEF ScreensInv, Overlay
  <2>2. OverlayOK(s)
    BY <2>1, OverlayMade
  <2>3. Screens!Set(m, s) /\ UNCHANGED <<seatIdle, focused, since, timeouts>>
        /\ stray' \in BOOLEAN
    BY <1>8 DEF Screens!Unplug, ScreensInv
  <2> HIDE DEF s
  <2> QED
    BY <2>2, <2>3, OverlaySet
<1>9. ASSUME NEW m \in Monitors, Screens!Plug(m)
      PROVE  ScreensInv'
  <2> DEFINE s == Screens!Fresh(screens[m].life + 1)
  <2>1. screens[m].life + 1 \in Nat
    BY DEF ScreensInv, Overlay
  <2>3. OverlayOK(s)
    BY <2>1, OverlayMade
  <2>4. Screens!Set(m, s) /\ UNCHANGED <<seatIdle, focused, since, timeouts>>
        /\ stray' \in BOOLEAN
    BY <1>9 DEF Screens!Plug, ScreensInv
  <2> HIDE DEF s
  <2> QED
    BY <2>3, <2>4, OverlaySet
<1> QED
  BY <1>1, <1>2, <1>3, <1>4, <1>5, <1>6, <1>7, <1>8, <1>9 DEF Screens!Next

LEMMA OverlaysSettle ==
    ASSUME ScreensInv
    PROVE  Screens!ScreenSettles /\ Screens!TypeOK
<1>1. Screens!ScreenSettles
  <2> SUFFICES ASSUME NEW m \in Monitors
               PROVE  LET s == screens[m]
                      IN  IF s.clock.redraw THEN s.clock.callback = "committed"
                          ELSE /\ ~s.on["saver"] /\ ~s.shown
                               /\ \A k \in Screens!Kinds : s.opacity[k] = Screens!Goal(s, k)
    BY DEF Screens!ScreenSettles
  <2>1. OverlayOK(screens[m]) /\ screens[m].clock \in Screens!Clock
    BY DEF ScreensInv, OverlayOK, Overlay
  <2> QED
    BY <2>1 DEF OverlayOK, Placed, Screens!ClockOK, Screens!Clock, Screens!Callbacks
<1>2. Screens!TypeOK
  <2>1. {0, 1, 2} = 0..2
    OBVIOUS
  <2>2. Overlay = Screens!Screen
    BY <2>1 DEF Overlay, Screens!Screen
  <2> QED
    BY <2>2 DEF ScreensInv, Screens!TypeOK, Seconds, OverlayOK
<1> QED
  BY <1>1, <1>2

-----------------------------------------------------------------------------
\* The overlay of the screensaver and the ambient wallpaper (idle.cpp): one
\* that awaits no frame has arrived where its fades lead.
THEOREM OverlaysAlwaysSettle ==
    MCSpec => [](part = "idle" => Screens!ScreenSettles /\ Screens!TypeOK)
<1> DEFINE Inv == part = "idle" => ScreensInv
<1>1. MCInit => Inv
  BY ScreensInitially DEF MCInit
<1>2. Inv /\ [MCNext]_<<part, vars, guests>> => Inv'
  <2> SUFFICES ASSUME Inv, [MCNext]_<<part, vars, guests>>, part' = "idle"
               PROVE  ScreensInv'
    OBVIOUS
  <2>1. part = "idle" /\ (Screens!Next \/ UNCHANGED screenVars)
    BY DEF MCNext, Calls, Guest, guests
  <2>2. CASE Screens!Next
    BY <2>1, <2>2, ScreensStep
  <2>3. CASE UNCHANGED screenVars
    BY <2>1, <2>3 DEF screenVars, ScreensInv
  <2> QED
    BY <2>1, <2>2, <2>3
<1>3. Inv => (part = "idle" => Screens!ScreenSettles /\ Screens!TypeOK)
  BY OverlaysSettle
<1> QED
  BY <1>1, <1>2, <1>3, PTL DEF MCSpec

(* PicturesShown: each part keeps its own promise, and the parts do not     *)
(* touch each other's state.                                                *)
THEOREM PicturesAlwaysShown == MCSpec => []PicturesShown
<1> DEFINE Wall == part = "wallpaper" =>
                       /\ Columns!ShowsConfigured /\ Columns!PaintedOrComing
                       /\ Columns!FramesHeldOnce /\ Columns!TypeOK
           Picker == part = "picker" => Grid!OneDecodeEach /\ Grid!GridSettles
           Idling == part = "idle" => Screens!ScreenSettles /\ Screens!TypeOK
           Windowed == part = "windows" =>
                           Toplevels!ThreadHasWindow /\ Toplevels!WindowsDriven
<1>1. Wall /\ Picker /\ Idling /\ Windowed => PicturesShown
  BY DEF PicturesShown
<1> QED
  BY <1>1, WallpaperSettles, GridKeepsUp, OverlaysAlwaysSettle, WindowsAlwaysDriven, PTL

(* ThreadsOwnTheirWork: frames of video memory, thumbnails, the window of   *)
(* the render thread.                                                       *)
THEOREM ThreadsAlwaysOwn == MCSpec => []ThreadsOwnTheirWork
<1> DEFINE Wall == part = "wallpaper" =>
                       /\ Columns!ShowsConfigured /\ Columns!PaintedOrComing
                       /\ Columns!FramesHeldOnce /\ Columns!TypeOK
           Picker == part = "picker" => Grid!OneDecodeEach /\ Grid!GridSettles
           Windowed == part = "windows" =>
                           Toplevels!ThreadHasWindow /\ Toplevels!WindowsDriven
<1>1. Wall /\ Picker /\ Windowed => ThreadsOwnTheirWork
  BY DEF ThreadsOwnTheirWork
<1> QED
  BY <1>1, WallpaperSettles, GridKeepsUp, WindowsAlwaysDriven, PTL

-----------------------------------------------------------------------------
(* The types of the notifications.                                          *)

ServiceTyped(s) ==
    /\ s = [records |-> s.records, nextId |-> s.nextId, wrapped |-> s.wrapped,
            clash |-> s.clash]
    /\ Cards!IsPartial(s.records, Cards!Ids, Cards!Record) /\ s.nextId \in Cards!Ids
    /\ s.wrapped \in BOOLEAN /\ s.clash \in BOOLEAN
CardsTyped(c) ==
    /\ c = [entries |-> c.entries, progress |-> c.progress, exits |-> c.exits]
    /\ Cards!IsPartial(c.entries, Cards!Ids, Cards!Card)
    /\ Cards!IsPartial(c.progress, Cards!Ids, 0..Cards!MaxTimeout)
    /\ Cards!IsPartial(c.exits, Cards!Ids, 0..1)
ViewTyped(v) ==
    /\ v \in Cards!View /\ Cards!ClockOK(v.clock)
    /\ v.clock.callback # "none" => v.egl
ViewsTyped(vs) == vs \in [Monitors -> Cards!View] /\ \A m \in Monitors : ViewTyped(vs[m])

CardTypes ==
    /\ ServiceTyped(service) /\ CardsTyped(cards) /\ ViewsTyped(views)
    /\ enabled \subseteq Monitors
    /\ messages \in 0..MaxMessages /\ changes \in 0..MaxChanges

LEMMA LongestTimeout ==
    /\ Cards!MaxTimeout \in Timeouts /\ Cards!MaxTimeout \in Nat
    /\ \A t \in Timeouts : t \in 0..Cards!MaxTimeout
<1>1. PICK t \in Timeouts : \A u \in Timeouts : u <= t
  BY WorkersAssumption DEF WorkersAssumption
<1>2. Cards!MaxTimeout \in Timeouts /\ \A u \in Timeouts : u <= Cards!MaxTimeout
  BY <1>1 DEF Cards!MaxTimeout
<1>3. Timeouts \subseteq Nat
  BY WorkersAssumption DEF WorkersAssumption
<1> HIDE DEF Cards!MaxTimeout
<1> QED
  BY <1>2, <1>3

LEMMA RemainderBounded ==
    ASSUME NEW n \in Nat, NEW m \in Nat \ {0}
    PROVE  n % m \in Nat /\ n % m < m
OBVIOUS

LEMMA PushTyped ==
    ASSUME NEW s, ServiceTyped(s), NEW id \in Cards!Ids, NEW text \in Texts,
           NEW timeout \in Timeouts
    PROVE  ServiceTyped(Cards!Push(s, id, text, timeout))
<1> DEFINE n == IF id = 0 THEN s.nextId ELSE id
           counted == id = 0 \/ id >= s.nextId
           record == [text |-> text, timeout |-> timeout, left |-> timeout]
           t == Cards!Push(s, id, text, timeout)
<1>1. /\ t.records = [i \in DOMAIN s.records \union {n} |->
                         IF i = n THEN record ELSE s.records[i]]
      /\ t.nextId = IF counted THEN (n + 1) % (MaxId + 1) ELSE s.nextId
      /\ t.wrapped = (s.wrapped \/ (counted /\ n = MaxId))
      /\ t.clash = (s.clash \/ (id = 0 /\ n \in DOMAIN s.records))
      /\ t = [records |-> t.records, nextId |-> t.nextId, wrapped |-> t.wrapped,
              clash |-> t.clash]
  BY DEF Cards!Push
<1>2. record \in Cards!Record
  BY LongestTimeout DEF Cards!Record
<1>3. n \in Cards!Ids /\ s.nextId \in Cards!Ids
  BY DEF ServiceTyped
<1>4. (n + 1) % (MaxId + 1) \in Cards!Ids
  <2>1. MaxId \in Nat /\ n \in Nat
    BY <1>3, WorkersAssumption DEF WorkersAssumption, Cards!Ids
  <2> HIDE DEF n
  <2>2. n + 1 \in Nat /\ MaxId + 1 \in Nat \ {0}
    BY <2>1
  <2> DEFINE r == (n + 1) % (MaxId + 1)
  <2>3. r \in Nat /\ r < MaxId + 1
    BY ONLY <2>2, RemainderBounded
  <2> HIDE DEF r
  <2>4. r \in 0..MaxId
    BY <2>1, <2>3
  <2> QED
    BY <2>4 DEF r, Cards!Ids
<1>5. t.wrapped \in BOOLEAN /\ t.clash \in BOOLEAN
  BY <1>1
<1> SUFFICES ServiceTyped(t)
  OBVIOUS
<1> HIDE DEF t, record, n, counted
<1>6. Cards!IsPartial(t.records, Cards!Ids, Cards!Record)
  BY <1>1, <1>2, <1>3 DEF ServiceTyped, Cards!IsPartial
<1>7. t.nextId \in Cards!Ids
  BY <1>1, <1>3, <1>4
<1> QED
  BY <1>1, <1>5, <1>6, <1>7 DEF ServiceTyped

LEMMA WithoutTyped ==
    ASSUME NEW s, ServiceTyped(s), NEW ids
    PROVE  ServiceTyped(Cards!Without(s, ids))
<1> DEFINE t == Cards!Without(s, ids)
<1>1. /\ t.records = [i \in DOMAIN s.records \ ids |-> s.records[i]]
      /\ t.nextId = s.nextId /\ t.wrapped = s.wrapped /\ t.clash = s.clash
      /\ t = [records |-> t.records, nextId |-> t.nextId, wrapped |-> t.wrapped,
              clash |-> t.clash]
  BY DEF Cards!Without, ServiceTyped
<1> SUFFICES ServiceTyped(t)
  OBVIOUS
<1> HIDE DEF t
<1> QED
  BY <1>1 DEF ServiceTyped, Cards!IsPartial

LEMMA HandledTyped ==
    ASSUME NEW s, ServiceTyped(s), NEW msg \in Cards!Message
    PROVE  ServiceTyped(Cards!Handled(s, msg))
BY PushTyped, WithoutTyped DEF Cards!Handled, Cards!Close, Cards!Message

(* The parts of the cards, and what the operations leave of them.           *)
LEMMA ExitTyped ==
    ASSUME NEW c, NEW ids,
           Cards!IsPartial(c.entries, Cards!Ids, Cards!Card),
           Cards!IsPartial(c.progress, Cards!Ids, 0..Cards!MaxTimeout),
           Cards!IsPartial(c.exits, Cards!Ids, 0..1)
    PROVE  CardsTyped(Cards!StartExit(c, ids))
<1> DEFINE leaving == {i \in ids \intersect DOMAIN c.entries : ~c.entries[i].exiting}
           t == Cards!StartExit(c, ids)
<1>1. /\ t.entries = [i \in DOMAIN c.entries |->
                         [c.entries[i] EXCEPT !.exiting = @ \/ i \in leaving]]
      /\ t.progress = [i \in DOMAIN c.progress \ leaving |-> c.progress[i]]
      /\ t.exits = [i \in leaving \union DOMAIN c.exits |->
                       IF i \in leaving THEN 1 ELSE c.exits[i]]
      /\ t = [entries |-> t.entries, progress |-> t.progress, exits |-> t.exits]
  BY DEF Cards!StartExit
<1>2. leaving \subseteq DOMAIN c.entries
  OBVIOUS
<1> SUFFICES CardsTyped(t)
  OBVIOUS
<1> HIDE DEF t, leaving
<1>3. Cards!IsPartial(t.entries, Cards!Ids, Cards!Card)
  <2> SUFFICES ASSUME NEW i \in DOMAIN c.entries
               PROVE  t.entries[i] \in Cards!Card
    BY <1>1 DEF Cards!IsPartial
  <2>1. c.entries[i] \in Cards!Card
    BY DEF Cards!IsPartial
  <2>2. PICK b \in BOOLEAN : b = (c.entries[i].exiting \/ i \in leaving)
    OBVIOUS
  <2>3. t.entries[i] = [c.entries[i] EXCEPT !.exiting = b]
    BY <1>1, <2>2
  <2> QED
    BY <2>1, <2>3 DEF Cards!Card
<1>4. Cards!IsPartial(t.progress, Cards!Ids, 0..Cards!MaxTimeout)
  BY <1>1 DEF Cards!IsPartial
<1>5. Cards!IsPartial(t.exits, Cards!Ids, 0..1)
  BY <1>1, <1>2 DEF Cards!IsPartial
<1> QED
  BY <1>1, <1>3, <1>4, <1>5 DEF CardsTyped

LEMMA TickedTyped ==
    ASSUME NEW c, CardsTyped(c)
    PROVE  CardsTyped(Cards!Ticked(c))
<1> DEFINE late == {i \in DOMAIN c.progress : c.progress[i] = 0}
           ended == {i \in DOMAIN c.exits : c.exits[i] = 0}
           run == [entries |-> [i \in DOMAIN c.entries \ ended |-> c.entries[i]],
                   progress |-> [i \in DOMAIN c.progress \ late |-> c.progress[i]],
                   exits |-> [i \in DOMAIN c.exits \ ended |-> c.exits[i]]]
<1>1. Cards!Ticked(c) = Cards!StartExit(run, late)
  BY DEF Cards!Ticked
<1>2. /\ run.entries = [i \in DOMAIN c.entries \ ended |-> c.entries[i]]
      /\ run.progress = [i \in DOMAIN c.progress \ late |-> c.progress[i]]
      /\ run.exits = [i \in DOMAIN c.exits \ ended |-> c.exits[i]]
  OBVIOUS
<1> HIDE DEF run, late, ended
<1>3. /\ Cards!IsPartial(run.entries, Cards!Ids, Cards!Card)
      /\ Cards!IsPartial(run.progress, Cards!Ids, 0..Cards!MaxTimeout)
      /\ Cards!IsPartial(run.exits, Cards!Ids, 0..1)
  BY <1>2 DEF CardsTyped, Cards!IsPartial
<1> QED
  BY <1>1, <1>3, ExitTyped

LEMMA SyncTyped ==
    ASSUME NEW c, CardsTyped(c), NEW records,
           Cards!IsPartial(records, Cards!Ids, Cards!Record)
    PROVE  CardsTyped(Cards!Sync(c, records))
<1> DEFINE fresh == {i \in DOMAIN records : i \notin DOMAIN c.entries}
           loaded == {i \in DOMAIN records \ fresh : c.entries[i].text # records[i].text}
           made(i) == IF i \in fresh
                      THEN [text |-> records[i].text, exiting |-> FALSE]
                      ELSE IF i \in loaded
                      THEN [c.entries[i] EXCEPT !.text = records[i].text]
                      ELSE c.entries[i]
           shown == [i \in DOMAIN c.entries \union fresh |-> made(i)]
           run == [entries |-> shown,
                   progress |-> [i \in fresh \union loaded \union DOMAIN c.progress |->
                                    IF i \in fresh \union loaded THEN records[i].timeout
                                    ELSE c.progress[i]],
                   exits |-> c.exits]
<1>1. Cards!Sync(c, records) = Cards!StartExit(run, DOMAIN shown \ DOMAIN records)
  BY DEF Cards!Sync
<1>2. /\ run.entries = shown
      /\ run.progress = [i \in fresh \union loaded \union DOMAIN c.progress |->
                            IF i \in fresh \union loaded THEN records[i].timeout
                            ELSE c.progress[i]]
      /\ run.exits = c.exits
  OBVIOUS
<1>3. fresh \subseteq DOMAIN records /\ loaded \subseteq DOMAIN records
  OBVIOUS
<1>4. \A i \in DOMAIN records :
          /\ i \in Cards!Ids /\ records[i].text \in Texts
          /\ records[i].timeout \in 0..Cards!MaxTimeout
  BY LongestTimeout DEF Cards!IsPartial, Cards!Record
<1>5. ASSUME NEW i \in DOMAIN c.entries \union fresh
      PROVE  made(i) \in Cards!Card /\ i \in Cards!Ids
  <2>1. CASE i \in fresh
    BY <1>3, <1>4, <2>1 DEF Cards!Card
  <2>2. CASE i \notin fresh
    <3>1. c.entries[i] \in Cards!Card /\ i \in Cards!Ids
      BY <2>2 DEF CardsTyped, Cards!IsPartial
    <3>2. i \in loaded => records[i].text \in Texts
      BY <1>3, <1>4
    <3> QED
      BY <2>2, <3>1, <3>2 DEF Cards!Card
  <2> QED
    BY <2>1, <2>2
<1> HIDE DEF made
<1>6. Cards!IsPartial(shown, Cards!Ids, Cards!Card)
  BY <1>5 DEF Cards!IsPartial
<1> HIDE DEF run, shown, fresh, loaded
<1>7. Cards!IsPartial(run.progress, Cards!Ids, 0..Cards!MaxTimeout)
  BY <1>2, <1>3, <1>4 DEF CardsTyped, Cards!IsPartial
<1>8. Cards!IsPartial(run.exits, Cards!Ids, 0..1)
  BY <1>2 DEF CardsTyped
<1> QED
  BY <1>1, <1>2, <1>6, <1>7, <1>8, ExitTyped

(* A view keeps its type with another clock that is sound.                  *)
LEMMA Reclocks ==
    ASSUME NEW v, ViewTyped(v), NEW k, Cards!ClockOK(k), k.callback # "none" => v.egl
    PROVE  ViewTyped([v EXCEPT !.clock = k])
BY DEF ViewTyped, Cards!View, Cards!ClockOK

(* A repaint of one view keeps the types and leaves the other views alone.  *)
RepaintTyped(vs, m, t) ==
    /\ CardsTyped(t.cards) /\ ViewTyped(t.views[m])
    /\ t.views = [vs EXCEPT ![m] = t.views[m]]

LEMMA PaintedTyped ==
    ASSUME NEW c, CardsTyped(c), NEW vs \in [Monitors -> Cards!View], NEW m \in Monitors,
           ViewTyped(vs[m]), vs[m].egl, NEW k, Cards!ClockOK(k), k.callback = "armed"
    PROVE  RepaintTyped(vs, m, Cards!Painted(Cards!WithClock(Cards!State(c, vs), m, k), m))
<1> DEFINE s == Cards!WithClock(Cards!State(c, vs), m, k)
           v == [vs[m] EXCEPT !.clock = k]
           d == Cards!Ticked(c)
           fading == v.fades \ v.faded
           painted == [v EXCEPT !.drawn = TRUE, !.fades = fading, !.faded = {},
                                !.hitboxes = DOMAIN d.entries \ v.dismissed,
                                !.dismissed = @ \intersect DOMAIN d.entries,
                                !.clock = Cards!Committed(@)]
           asked == [painted EXCEPT !.clock = Cards!Deferred(@)]
           u == IF Cards!Active(d) \/ fading # {} THEN asked ELSE painted
           t == Cards!Painted(s, m)
<1>1. s.cards = c /\ s.views = [vs EXCEPT ![m] = v] /\ s.views[m] = v
  BY DEF Cards!WithClock, Cards!State
<1>2. t.cards = d /\ t.views = [s.views EXCEPT ![m] = u]
  <2> HIDE DEF s, d, v
  <2> QED
    BY <1>1 DEF Cards!Painted, Cards!State, d
<1>3. t.views = [vs EXCEPT ![m] = u] /\ t.views[m] = u
  <2> HIDE DEF t, u, s
  <2> QED
    BY <1>1, <1>2
<1>4. CardsTyped(d)
  BY TickedTyped
<1> DEFINE done == Cards!Committed(k)
           again == Cards!Deferred(done)
<1>5. /\ Cards!ClockOK(done) /\ done.callback = "committed"
      /\ Cards!ClockOK(again) /\ again.callback = "committed"
  BY DEF Cards!Committed, Cards!Deferred, Cards!ClockOK, Cards!Clock, Cards!Callbacks
<1>6. ViewTyped(v) /\ v.clock = k /\ v.egl
  <2>1. ViewTyped(v)
    BY Reclocks
  <2>2. v.clock = k /\ v.egl
    BY DEF ViewTyped, Cards!View
  <2> QED
    BY <2>1, <2>2
<1>7. DOMAIN d.entries \subseteq Cards!Ids
  BY <1>4 DEF CardsTyped, Cards!IsPartial
<1>8. PICK yes \in BOOLEAN : yes = TRUE
  OBVIOUS
<1>9. painted = [v EXCEPT !.drawn = yes, !.fades = fading, !.faded = {},
                          !.hitboxes = DOMAIN d.entries \ v.dismissed,
                          !.dismissed = v.dismissed \intersect DOMAIN d.entries,
                          !.clock = done]
  <2> HIDE DEF v, d, fading
  <2> QED
    BY <1>6, <1>8 DEF done
<1>10. ViewTyped(painted) /\ painted.egl
  <2> HIDE DEF v, d, done, painted
  <2>1. fading \in SUBSET Cards!Ids /\ DOMAIN d.entries \ v.dismissed \in SUBSET Cards!Ids
        /\ v.dismissed \intersect DOMAIN d.entries \in SUBSET Cards!Ids
    BY <1>6, <1>7 DEF ViewTyped, Cards!View
  <2> HIDE DEF fading
  <2>2. done \in Cards!Clock
    BY <1>5 DEF Cards!ClockOK
  <2> QED
    BY <1>5, <1>6, <1>8, <1>9, <2>1, <2>2 DEF ViewTyped, Cards!View
<1>11. ViewTyped(asked)
  <2>1. painted.clock = done
    <3> HIDE DEF v, d, done, painted, fading
    <3> QED
      BY <1>6, <1>9 DEF ViewTyped, Cards!View
  <2>2. asked = [painted EXCEPT !.clock = again]
    <3> HIDE DEF painted
    <3> QED
      BY <2>1
  <2> HIDE DEF painted, again, asked
  <2> QED
    BY <1>5, <1>10, <2>2, Reclocks
<1> SUFFICES RepaintTyped(vs, m, t)
  OBVIOUS
<1> HIDE DEF t, d, painted, asked
<1> QED
  BY <1>2, <1>3, <1>4, <1>10, <1>11 DEF RepaintTyped

LEMMA RequestedTyped ==
    ASSUME NEW c, CardsTyped(c), NEW vs \in [Monitors -> Cards!View], NEW m \in Monitors,
           ViewTyped(vs[m])
    PROVE  RepaintTyped(vs, m, Cards!Requested(Cards!State(c, vs), m))
<1> DEFINE s == Cards!State(c, vs)
           t == Cards!Requested(s, m)
           v == vs[m]
<1>1. s.cards = c /\ s.views = vs /\ DOMAIN s = {"cards", "views"}
  BY DEF Cards!State
<1>2. ASSUME NEW k, Cards!ClockOK(k), v.egl, t = Cards!WithClock(s, m, k)
      PROVE  RepaintTyped(vs, m, t)
  <2> DEFINE u == [v EXCEPT !.clock = k]
  <2>1. ViewTyped(u)
    BY <1>2, Reclocks
  <2>2. t.cards = c /\ t.views = [vs EXCEPT ![m] = u]
    <3> HIDE DEF s, t
    <3> QED
      BY <1>1, <1>2 DEF Cards!WithClock
  <2> HIDE DEF u, t
  <2>3. t.views[m] = u
    BY <2>2
  <2> QED
    BY <2>1, <2>2, <2>3 DEF RepaintTyped
<1>3. Cards!ClockOK(v.clock)
  BY DEF ViewTyped
<1> SUFFICES RepaintTyped(vs, m, t)
  OBVIOUS
<1>4. CASE ~v.egl
  <2>1. t = s
    BY <1>1, <1>4 DEF Cards!Requested
  <2> HIDE DEF s, t
  <2> QED
    BY <1>1, <2>1 DEF RepaintTyped
<1>5. CASE v.egl /\ v.clock.callback # "none"
  <2> DEFINE k == Cards!Deferred(v.clock)
  <2>1. Cards!ClockOK(k)
    BY <1>3, <1>5 DEF Cards!Deferred, Cards!ClockOK, Cards!Clock, Cards!Callbacks
  <2>2. t = Cards!WithClock(s, m, k)
    BY <1>1, <1>5 DEF Cards!Requested
  <2> HIDE DEF k, s, t
  <2> QED
    BY <1>2, <1>5, <2>1, <2>2
<1>6. CASE v.egl /\ v.clock.callback = "none" /\ v.clock.mapped
  <2> DEFINE k == Cards!Scheduled(v.clock)
  <2>1. Cards!ClockOK(k)
    BY <1>3, <1>6 DEF Cards!Scheduled, Cards!Armed, Cards!Committed, Cards!ClockOK,
                      Cards!Clock, Cards!Callbacks
  <2>2. t = Cards!WithClock(s, m, k)
    BY <1>1, <1>6 DEF Cards!Requested
  <2> HIDE DEF k, s, t
  <2> QED
    BY <1>2, <1>6, <2>1, <2>2
<1>7. CASE v.egl /\ v.clock.callback = "none" /\ ~v.clock.mapped
  <2> DEFINE k == Cards!FirstDraw(v.clock)
             r == Cards!Painted(Cards!WithClock(Cards!State(c, vs), m, k), m)
  <2>1. Cards!ClockOK(k) /\ k.callback = "armed"
    BY <1>3, <1>7 DEF Cards!FirstDraw, Cards!Armed, Cards!ClockOK, Cards!Clock,
                      Cards!Callbacks
  <2>2. t = r
    BY <1>1, <1>7 DEF Cards!Requested
  <2> HIDE DEF k
  <2>3. vs[m].egl
    BY <1>7
  <2>4. RepaintTyped(vs, m, r)
    BY <2>1, <2>3, PaintedTyped
  <2> HIDE DEF r, t
  <2> QED
    BY <2>2, <2>4
<1> QED
  BY <1>4, <1>5, <1>6, <1>7

LEMMA AllRequestedTyped ==
    ASSUME NEW c, CardsTyped(c), NEW vs, ViewsTyped(vs)
    PROVE  LET t == Cards!AllRequested(Cards!State(c, vs))
           IN  CardsTyped(t.cards) /\ ViewsTyped(t.views)
<1> DEFINE s == Cards!State(c, vs)
           r(n) == Cards!Requested(s, n)
           t == Cards!AllRequested(s)
<1>1. s.cards = c
  BY DEF Cards!State
<1>2. /\ t.cards \in {c, Cards!Ticked(c)}
      /\ t.views = [n \in Monitors |-> r(n).views[n]]
  <2> HIDE DEF s
  <2> QED
    BY <1>1 DEF Cards!AllRequested, Cards!State
<1>3. ASSUME NEW n \in Monitors PROVE ViewTyped(r(n).views[n])
  <2>1. RepaintTyped(vs, n, r(n))
    BY RequestedTyped DEF ViewsTyped
  <2> QED
    BY <2>1 DEF RepaintTyped
<1> SUFFICES CardsTyped(t.cards) /\ ViewsTyped(t.views)
  OBVIOUS
<1> HIDE DEF r, t
<1> QED
  BY <1>2, <1>3, TickedTyped DEF ViewsTyped, ViewTyped

(* The views that a plug, a configuration and the start make.               *)
LEMMA NewViewsTyped ==
    /\ Cards!ClockOK(Cards!IdleClock)
    /\ Cards!ClockOK(Cards!Committed(Cards!FirstDraw(Cards!IdleClock)))
    /\ ViewTyped(Cards!NoView)
    /\ ViewTyped([Cards!NoView EXCEPT !.plugged = TRUE])
    /\ \A on \in BOOLEAN : ViewTyped(Cards!FirstView(on))
<1>1. PICK yes \in BOOLEAN : yes = TRUE
  OBVIOUS
<1>2. PICK no \in BOOLEAN : no = FALSE
  OBVIOUS
<1> DEFINE k == Cards!IdleClock
           painted == Cards!Committed(Cards!FirstDraw(k))
           nothing == Cards!NoView
           plugged == [nothing EXCEPT !.plugged = yes]
           first == [plugged EXCEPT !.egl = yes, !.drawn = yes]
<1>3. k = [callback |-> "none", redraw |-> no, mapped |-> no]
  BY <1>2 DEF Cards!IdleClock
<1>4. Cards!ClockOK(k)
  BY <1>2, <1>3 DEF Cards!ClockOK, Cards!Clock, Cards!Callbacks
<1>5. painted = [callback |-> "committed", redraw |-> no, mapped |-> yes]
  <2> DEFINE shown == [k EXCEPT !.mapped = yes]
             asked == [shown EXCEPT !.callback = "armed"]
  <2>1. Cards!FirstDraw(k) = asked
    BY <1>1 DEF Cards!FirstDraw, Cards!Armed
  <2>2. shown = [callback |-> "none", redraw |-> no, mapped |-> yes]
    BY <1>3
  <2> HIDE DEF shown
  <2>3. asked = [callback |-> "armed", redraw |-> no, mapped |-> yes]
    BY <2>2
  <2> HIDE DEF asked, k
  <2>4. Cards!Committed(asked) = [callback |-> "committed", redraw |-> no, mapped |-> yes]
    BY <2>3 DEF Cards!Committed
  <2> QED
    BY <2>1, <2>4
<1>6. Cards!ClockOK(painted)
  BY <1>1, <1>2, <1>5 DEF Cards!ClockOK, Cards!Clock, Cards!Callbacks
<1>7. nothing = [plugged |-> no, egl |-> no, drawn |-> no, clock |-> k,
                 hitboxes |-> {}, dismissed |-> {}, fades |-> {}, faded |-> {}]
  BY <1>2 DEF Cards!NoView
<1>8. k.callback = "none"
  BY <1>3
<1> HIDE DEF k, painted, nothing
<1>9. k \in Cards!Clock /\ painted \in Cards!Clock
  BY <1>4, <1>6 DEF Cards!ClockOK
<1>10. ViewTyped(nothing)
  BY <1>4, <1>7, <1>8, <1>9 DEF ViewTyped, Cards!View
<1>11. ViewTyped(plugged)
  BY <1>4, <1>7, <1>8, <1>9 DEF ViewTyped, Cards!View
<1>12. ViewTyped(first)
  BY <1>1, <1>4, <1>7, <1>8, <1>9 DEF ViewTyped, Cards!View
<1>13. first.egl
  BY <1>1, <1>7
<1>14. plugged = [nothing EXCEPT !.plugged = TRUE]
  BY <1>1
<1>15. ViewTyped([first EXCEPT !.clock = painted])
  <2> HIDE DEF first
  <2> QED
    BY <1>6, <1>12, <1>13, Reclocks
<1>16. ASSUME NEW on \in BOOLEAN
       PROVE  ViewTyped(Cards!FirstView(on))
  <2>1. CASE on
    <3>1. Cards!FirstView(on) = [first EXCEPT !.clock = painted]
      BY <2>1, <1>1, <1>7 DEF Cards!FirstView, nothing, painted, k
    <3> HIDE DEF first
    <3> QED
      BY <3>1, <1>15
  <2>2. CASE ~on
    <3>1. Cards!FirstView(on) = plugged
      BY <2>2, <1>1 DEF Cards!FirstView, nothing
    <3> HIDE DEF plugged
    <3> QED
      BY <3>1, <1>11
  <2> QED
    BY <2>1, <2>2
<1> QED
  BY <1>4, <1>6, <1>10, <1>11, <1>14, <1>16 DEF k, painted, nothing

LEMMA CardTypesInitially == Cards!Init => CardTypes
<1> SUFFICES ASSUME Cards!Init
             PROVE  CardTypes
  OBVIOUS
<1> DEFINE none == <<>>
<1>1. DOMAIN none = {}
  OBVIOUS
<1>2. PICK no \in BOOLEAN : no = FALSE
  OBVIOUS
<1>3. service = [records |-> none, nextId |-> 1, wrapped |-> no, clash |-> no]
  BY <1>2 DEF Cards!Init
<1>4. cards = [entries |-> none, progress |-> none, exits |-> none]
  BY DEF Cards!Init
<1> HIDE DEF none
<1>5. 1 \in Cards!Ids
  BY WorkersAssumption DEF WorkersAssumption, Cards!Ids
<1>6. ServiceTyped(service)
  BY <1>1, <1>2, <1>3, <1>5 DEF ServiceTyped, Cards!IsPartial
<1>7. CardsTyped(cards)
  BY <1>1, <1>4 DEF CardsTyped, Cards!IsPartial
<1>8. ViewsTyped(views)
  <2>1. PICK first \in Monitors :
            views = [m \in Monitors |-> IF m = first THEN Cards!FirstView(m \in enabled)
                                        ELSE Cards!NoView]
    BY DEF Cards!Init
  <2>2. ASSUME NEW m \in Monitors PROVE ViewTyped(views[m])
    <3>1. CASE m = first
      <4>1. (m \in enabled) \in BOOLEAN
        OBVIOUS
      <4>2. views[m] = Cards!FirstView(m \in enabled)
        BY <2>1, <3>1
      <4> QED
        BY <4>1, <4>2, NewViewsTyped
    <3>2. CASE m # first
      BY <2>1, <3>2, NewViewsTyped
    <3> QED
      BY <3>1, <3>2
  <2>3. DOMAIN views = Monitors /\ views = [m \in Monitors |-> views[m]]
    BY <2>1
  <2> QED
    BY <2>2, <2>3 DEF ViewsTyped, ViewTyped
<1>9. messages \in 0..MaxMessages /\ changes \in 0..MaxChanges /\ enabled \subseteq Monitors
  BY WorkersAssumption DEF WorkersAssumption, Cards!Init
<1> QED
  BY <1>6, <1>7, <1>8, <1>9 DEF CardTypes

LEMMA OneViewTyped ==
    ASSUME NEW vs, ViewsTyped(vs), NEW m \in Monitors, NEW v, ViewTyped(v)
    PROVE  ViewsTyped([vs EXCEPT ![m] = v])
BY DEF ViewsTyped, ViewTyped

LEMMA RefreshTyped ==
    ASSUME CardTypes, NEW r, ServiceTyped(r), Cards!Refresh(r)
    PROVE  ServiceTyped(service') /\ CardsTyped(cards') /\ ViewsTyped(views')
<1> DEFINE d == Cards!Sync(cards, r.records)
           t == Cards!AllRequested(Cards!State(d, views))
<1>1. service' = r /\ cards' = t.cards /\ views' = t.views
  BY DEF Cards!Refresh, Cards!Becomes
<1>2. CardsTyped(d)
  BY SyncTyped DEF CardTypes, ServiceTyped
<1> HIDE DEF d
<1>3. CardsTyped(t.cards) /\ ViewsTyped(t.views)
  BY <1>2, AllRequestedTyped DEF CardTypes
<1> HIDE DEF t
<1> QED
  BY <1>1, <1>3

LEMMA DestroyedTyped ==
    ASSUME NEW v, ViewTyped(v)
    PROVE  ViewTyped(Cards!Destroyed(v)) /\ ViewTyped(Cards!Created(v))
<1>1. PICK yes \in BOOLEAN : yes = TRUE
  OBVIOUS
<1>2. PICK no \in BOOLEAN : no = FALSE
  OBVIOUS
<1> DEFINE k == [v.clock EXCEPT !.callback = "none", !.redraw = no]
           u == [v EXCEPT !.egl = no, !.drawn = no, !.clock = k]
           w == [v EXCEPT !.egl = yes, !.drawn = no]
<1>3. Cards!ClockOK(k) /\ k.callback = "none" /\ k \in Cards!Clock
  BY <1>2 DEF ViewTyped, Cards!ClockOK, Cards!Clock, Cards!Callbacks
<1>4. Cards!Destroyed(v) = u
  <2>1. v.clock = [callback |-> v.clock.callback, redraw |-> v.clock.redraw,
                   mapped |-> v.clock.mapped]
    BY DEF ViewTyped, Cards!ClockOK, Cards!Clock
  <2> QED
    BY <1>2, <2>1 DEF Cards!Destroyed, ViewTyped, Cards!View
<1>5. Cards!Created(v) = w
  BY <1>1, <1>2 DEF Cards!Created
<1>6. ViewTyped(w)
  BY <1>1, <1>2 DEF ViewTyped, Cards!View
<1> HIDE DEF k
<1>7. ViewTyped(u)
  BY <1>2, <1>3 DEF ViewTyped, Cards!View
<1> HIDE DEF u, w
<1> QED
  BY <1>4, <1>5, <1>6, <1>7

(* A click closes a card on one view.                                       *)
LEMMA DismissedTyped ==
    ASSUME NEW v, ViewTyped(v), NEW id \in Cards!Ids
    PROVE  ViewTyped([v EXCEPT !.dismissed = @ \union {id}, !.fades = @ \union {id},
                               !.faded = @ \ {id}])
BY DEF ViewTyped, Cards!View

(* Time runs for the records, the tweens and the fades.                     *)
LEMMA LessTyped ==
    ASSUME NEW f, NEW n \in Nat, Cards!IsPartial(f, Cards!Ids, 0..n)
    PROVE  Cards!IsPartial(Cards!Less(f), Cards!Ids, 0..n)
<1> SUFFICES ASSUME NEW i \in DOMAIN f
             PROVE  Cards!Less(f)[i] \in 0..n
  BY DEF Cards!Less, Cards!IsPartial
<1>1. f[i] \in 0..n /\ Cards!Less(f)[i] = IF f[i] = 0 THEN 0 ELSE f[i] - 1
  BY DEF Cards!Less, Cards!IsPartial
<1> QED
  BY <1>1

LEMMA TimeTyped ==
    ASSUME CardTypes, Cards!TimePasses
    PROVE  ServiceTyped(service') /\ CardsTyped(cards') /\ ViewsTyped(views')
<1>1. ServiceTyped(service')
  <2> DEFINE older(i) == [service.records[i] EXCEPT !.left = IF @ = 0 THEN 0 ELSE @ - 1]
             rs == [i \in DOMAIN service.records |-> older(i)]
  <2>1. service' = [service EXCEPT !.records = rs]
    BY DEF Cards!TimePasses
  <2>2. ASSUME NEW i \in DOMAIN service.records
        PROVE  i \in Cards!Ids /\ older(i) \in Cards!Record
    <3>1. i \in Cards!Ids /\ service.records[i] \in Cards!Record
      BY DEF CardTypes, ServiceTyped, Cards!IsPartial
    <3> DEFINE n == service.records[i].left
    <3>2. n \in 0..Cards!MaxTimeout /\ Cards!MaxTimeout \in Nat
      BY <3>1, LongestTimeout DEF Cards!Record
    <3> DEFINE l == IF n = 0 THEN 0 ELSE n - 1
    <3>3. l \in 0..Cards!MaxTimeout
      <4> HIDE DEF n
      <4> QED
        BY <3>2
    <3>4. older(i) = [service.records[i] EXCEPT !.left = l]
      OBVIOUS
    <3> HIDE DEF l, n
    <3> QED
      BY <3>1, <3>3, <3>4 DEF Cards!Record
  <2> HIDE DEF older
  <2>3. Cards!IsPartial(rs, Cards!Ids, Cards!Record)
    BY <2>2 DEF Cards!IsPartial
  <2> HIDE DEF rs
  <2>4. service = [records |-> service.records, nextId |-> service.nextId,
                   wrapped |-> service.wrapped, clash |-> service.clash]
    BY DEF CardTypes, ServiceTyped
  <2>5. service' = [records |-> rs, nextId |-> service.nextId,
                    wrapped |-> service.wrapped, clash |-> service.clash]
    BY <2>1, <2>4
  <2> QED
    BY <2>3, <2>5 DEF CardTypes, ServiceTyped
<1>2. CardsTyped(cards')
  <2> DEFINE p == Cards!Less(cards.progress)
             e == Cards!Less(cards.exits)
  <2>1. cards' = [cards EXCEPT !.progress = p, !.exits = e]
    BY DEF Cards!TimePasses
  <2>2. cards = [entries |-> cards.entries, progress |-> cards.progress,
                 exits |-> cards.exits]
    BY DEF CardTypes, CardsTyped
  <2>3. Cards!IsPartial(p, Cards!Ids, 0..Cards!MaxTimeout)
    BY LessTyped, LongestTimeout DEF CardTypes, CardsTyped
  <2>4. Cards!IsPartial(e, Cards!Ids, 0..1)
    BY LessTyped DEF CardTypes, CardsTyped
  <2> HIDE DEF p, e
  <2>5. cards' = [entries |-> cards.entries, progress |-> p, exits |-> e]
    BY <2>1, <2>2
  <2> QED
    BY <2>3, <2>4, <2>5 DEF CardTypes, CardsTyped
<1>3. ViewsTyped(views')
  <2> DEFINE f(m) == [views[m] EXCEPT !.faded = views[m].fades]
  <2>1. views' = [m \in Monitors |-> f(m)]
    BY DEF Cards!TimePasses
  <2>2. \A m \in Monitors : ViewTyped(f(m))
    BY DEF CardTypes, ViewsTyped, ViewTyped, Cards!View
  <2> HIDE DEF f
  <2> QED
    BY <2>1, <2>2 DEF ViewsTyped, ViewTyped
<1> QED
  BY <1>1, <1>2, <1>3

LEMMA CardTypesStep ==
    ASSUME CardTypes, Cards!Next
    PROVE  CardTypes'
<1> DEFINE Typed == ServiceTyped(service') /\ CardsTyped(cards') /\ ViewsTyped(views')
<1>1. /\ MaxMessages \in Nat /\ MaxChanges \in Nat /\ 0 \in Cards!Ids
      /\ ServiceTyped(service) /\ CardsTyped(cards) /\ ViewsTyped(views)
      /\ enabled \subseteq Monitors
      /\ messages \in 0..MaxMessages /\ changes \in 0..MaxChanges
  BY WorkersAssumption DEF WorkersAssumption, CardTypes, Cards!Ids
<1>2. ASSUME Typed, enabled' \subseteq Monitors, messages' \in 0..MaxMessages,
             changes' \in 0..MaxChanges
      PROVE  CardTypes'
  BY <1>2 DEF CardTypes
<1>3. CASE Cards!BusReady
  <2>1. enabled' = enabled /\ messages' \in 0..MaxMessages /\ changes' = changes
    BY <1>1, <1>3 DEF Cards!BusReady
  <2>2. PICK first \in Cards!Message :
            \/ Cards!Refresh(Cards!Handled(service, first))
            \/ \E second \in Cards!Message :
                  Cards!Refresh(Cards!Handled(Cards!Handled(service, first), second))
    BY <1>3 DEF Cards!BusReady
  <2> DEFINE one == Cards!Handled(service, first)
  <2>3. ServiceTyped(one)
    BY <1>1, HandledTyped
  <2>4. CASE Cards!Refresh(one)
    BY <1>1, <1>2, <2>1, <2>3, <2>4, RefreshTyped
  <2>5. CASE \E second \in Cards!Message : Cards!Refresh(Cards!Handled(one, second))
    <3>1. PICK second \in Cards!Message : Cards!Refresh(Cards!Handled(one, second))
      BY <2>5
    <3> HIDE DEF one
    <3>2. ServiceTyped(Cards!Handled(one, second))
      BY <2>3, HandledTyped
    <3> QED
      BY <1>1, <1>2, <2>1, <3>1, <3>2, RefreshTyped
  <2> QED
    BY <2>2, <2>4, <2>5
<1>4. CASE Cards!OwnNotification
  <2>1. PICK text \in Texts : Cards!Refresh(Cards!Push(service, 0, text, Cards!MaxTimeout))
    BY <1>4 DEF Cards!OwnNotification
  <2> DEFINE r == Cards!Push(service, 0, text, Cards!MaxTimeout)
  <2>2. ServiceTyped(r)
    BY <1>1, LongestTimeout, PushTyped
  <2>3. enabled' = enabled /\ messages' \in 0..MaxMessages /\ changes' = changes
    BY <1>1, <1>4 DEF Cards!OwnNotification
  <2> HIDE DEF r
  <2>4. Typed
    BY <2>1, <2>2, RefreshTyped DEF r
  <2> QED
    BY <1>1, <1>2, <2>3, <2>4
<1>5. CASE Cards!Sweep
  <2> DEFINE r == Cards!Without(service, Cards!Expired(service))
  <2>1. ServiceTyped(r)
    BY <1>1, WithoutTyped
  <2>2. Cards!Refresh(r) /\ UNCHANGED <<enabled, messages, changes>>
    BY <1>5 DEF Cards!Sweep
  <2> HIDE DEF r
  <2> QED
    BY <1>1, <1>2, <2>1, <2>2, RefreshTyped
<1>6. CASE Cards!TimePasses
  <2>1. UNCHANGED <<enabled, messages, changes>>
    BY <1>6 DEF Cards!TimePasses
  <2> QED
    BY <1>1, <1>2, <1>6, <2>1, TimeTyped
<1>7. CASE Cards!RedrawAll
  <2> DEFINE t == Cards!AllRequested(Cards!State(cards, views))
  <2>1. cards' = t.cards /\ views' = t.views /\ UNCHANGED <<service, enabled, messages, changes>>
    BY <1>7 DEF Cards!RedrawAll, Cards!Becomes
  <2>2. CardsTyped(t.cards) /\ ViewsTyped(t.views)
    BY <1>1, AllRequestedTyped
  <2> HIDE DEF t
  <2> QED
    BY <1>1, <1>2, <2>1, <2>2
<1>8. CASE Cards!ApplyConfig
  <2> DEFINE vs == [m \in Monitors |-> Cards!Resynced(views[m], m \in enabled)]
             t == Cards!AllRequested(Cards!State(cards, vs))
  <2>1. /\ cards' = t.cards /\ views' = t.views /\ UNCHANGED <<service, messages>>
        /\ changes' \in 0..MaxChanges /\ enabled' \subseteq Monitors
    <3> HIDE DEF t
    <3>1. cards' = t.cards /\ views' = t.views /\ UNCHANGED <<service, messages>>
      BY <1>8 DEF Cards!ApplyConfig, Cards!Becomes, t
    <3>2. changes > 0 /\ changes' = changes - 1 /\ enabled' \in SUBSET Monitors
      BY <1>8 DEF Cards!ApplyConfig
    <3> QED
      BY <1>1, <3>1, <3>2
  <2>2. ASSUME NEW m \in Monitors PROVE ViewTyped(Cards!Resynced(views[m], m \in enabled))
    <3>1. ViewTyped(views[m])
      BY <1>1 DEF ViewsTyped
    <3>2. Cards!Resynced(views[m], m \in enabled) \in
              {views[m], Cards!Created(views[m]), Cards!Destroyed(views[m])}
      BY DEF Cards!Resynced
    <3> QED
      BY <3>1, <3>2, DestroyedTyped
  <2>3. ViewsTyped(vs)
    BY <2>2 DEF ViewsTyped, ViewTyped
  <2> HIDE DEF vs
  <2>4. CardsTyped(t.cards) /\ ViewsTyped(t.views)
    BY <1>1, <2>3, AllRequestedTyped
  <2> HIDE DEF t
  <2> QED
    BY <1>1, <1>2, <2>1, <2>4
<1>9. ASSUME NEW m \in Monitors, Cards!Frame(m)
      PROVE  CardTypes'
  <2> DEFINE k == views[m].clock
             t == Cards!FrameDone(Cards!State(cards, views), m)
  <2>1. ViewTyped(views[m]) /\ views \in [Monitors -> Cards!View]
    BY <1>1 DEF ViewsTyped
  <2>2. k.callback = "committed" /\ Cards!ClockOK(k) /\ views[m].egl
    BY <1>9, <2>1 DEF Cards!Frame, ViewTyped
  <2>3. cards' = t.cards /\ views' = t.views /\ UNCHANGED <<service, enabled, messages, changes>>
    BY <1>9 DEF Cards!Frame, Cards!Becomes
  <2>4. CASE k.redraw
    <3> DEFINE d == Cards!DoneForDraw(k)
               r == Cards!Painted(Cards!WithClock(Cards!State(cards, views), m, d), m)
    <3>1. t = r
      BY <2>4 DEF Cards!FrameDone, Cards!State
    <3>2. Cards!ClockOK(d) /\ d.callback = "armed"
      BY <2>2 DEF Cards!DoneForDraw, Cards!Armed, Cards!ClockOK, Cards!Clock, Cards!Callbacks
    <3> HIDE DEF d
    <3>3. RepaintTyped(views, m, r)
      BY <1>1, <2>1, <2>2, <3>2, PaintedTyped
    <3> HIDE DEF r, t, k
    <3>4. CardsTyped(t.cards) /\ ViewsTyped(t.views)
      BY <1>1, <3>1, <3>3, OneViewTyped DEF RepaintTyped
    <3> QED
      BY <1>1, <1>2, <2>3, <3>4
  <2>5. CASE ~k.redraw
    <3> DEFINE d == Cards!DoneIdle(k)
               v == [views[m] EXCEPT !.clock = d]
    <3>1. t.cards = cards /\ t.views = [views EXCEPT ![m] = v]
      <4>1. t = Cards!WithClock(Cards!State(cards, views), m, d)
        BY <2>5 DEF Cards!FrameDone, Cards!State
      <4> HIDE DEF t, d
      <4> QED
        BY <4>1 DEF Cards!WithClock, Cards!State
    <3>2. Cards!ClockOK(d) /\ d.callback = "none"
      BY <2>2, <2>5 DEF Cards!DoneIdle, Cards!ClockOK, Cards!Clock, Cards!Callbacks
    <3> HIDE DEF d, k, t
    <3>3. ViewTyped(v)
      BY <2>1, <3>2, Reclocks
    <3> HIDE DEF v
    <3>4. ViewsTyped([views EXCEPT ![m] = v])
      BY <1>1, <3>3, OneViewTyped
    <3>5. ViewsTyped(views')
      BY <2>3, <3>1, <3>4
    <3> QED
      BY <1>1, <1>2, <2>3, <3>1, <3>5
  <2> QED
    BY <2>4, <2>5
<1>10. ASSUME NEW m \in Monitors, Cards!CloseClick(m)
       PROVE  CardTypes'
  <2>1. PICK id \in views[m].hitboxes \ views[m].dismissed :
            Cards!Becomes(Cards!Requested(
                Cards!State(cards, [views EXCEPT ![m].dismissed = @ \union {id},
                                                 ![m].fades = @ \union {id},
                                                 ![m].faded = @ \ {id}]), m))
    BY <1>10 DEF Cards!CloseClick
  <2> DEFINE v == [views[m] EXCEPT !.dismissed = @ \union {id}, !.fades = @ \union {id},
                                   !.faded = @ \ {id}]
             vs == [views EXCEPT ![m] = v]
             t == Cards!Requested(Cards!State(cards, vs), m)
  <2>2. ViewTyped(views[m])
    BY <1>1 DEF ViewsTyped
  <2>3. id \in Cards!Ids
    BY <2>1, <2>2 DEF ViewTyped, Cards!View
  <2>4. ViewTyped(v)
    BY <2>2, <2>3, DismissedTyped
  <2>5. [views EXCEPT ![m].dismissed = @ \union {id}, ![m].fades = @ \union {id},
                      ![m].faded = @ \ {id}] = vs
    BY <1>1, <2>2 DEF ViewsTyped, ViewTyped, Cards!View
  <2>6. cards' = t.cards /\ views' = t.views
    <3> HIDE DEF vs
    <3> QED
      BY <2>1, <2>5 DEF Cards!Becomes
  <2>7. UNCHANGED <<service, enabled, messages, changes>>
    BY <1>10 DEF Cards!CloseClick
  <2> HIDE DEF v
  <2>8. ViewsTyped(vs) /\ vs[m] = v
    BY <1>1, <2>4, OneViewTyped DEF ViewsTyped
  <2> HIDE DEF vs
  <2>9. RepaintTyped(vs, m, t)
    BY <1>1, <2>4, <2>8, RequestedTyped DEF ViewsTyped
  <2> HIDE DEF t
  <2>10. CardsTyped(t.cards) /\ ViewsTyped(t.views)
    BY <2>8, <2>9, OneViewTyped DEF RepaintTyped
  <2> QED
    BY <1>1, <1>2, <2>6, <2>7, <2>10
<1>11. ASSUME NEW m \in Monitors, Cards!Plug(m)
       PROVE  CardTypes'
  <2> DEFINE plugged == [Cards!NoView EXCEPT !.plugged = TRUE]
  <2>1. ViewTyped(plugged)
    BY NewViewsTyped
  <2>2. /\ views' = [views EXCEPT ![m] = IF m \in enabled THEN Cards!Created(plugged)
                                         ELSE plugged]
        /\ UNCHANGED <<service, cards, enabled, messages>>
        /\ changes > 0 /\ changes' = changes - 1
    BY <1>11 DEF Cards!Plug
  <2> HIDE DEF plugged
  <2> DEFINE v == IF m \in enabled THEN Cards!Created(plugged) ELSE plugged
  <2>3. ViewTyped(v)
    BY <2>1, DestroyedTyped
  <2> HIDE DEF v
  <2>4. ViewsTyped(views')
    BY <1>1, <2>2, <2>3, OneViewTyped DEF v
  <2> QED
    BY <1>1, <1>2, <2>2, <2>4
<1>12. ASSUME NEW m \in Monitors, Cards!Unplug(m)
       PROVE  CardTypes'
  <2>1. /\ views' = [views EXCEPT ![m] = Cards!NoView]
        /\ UNCHANGED <<service, cards, enabled, messages>>
        /\ changes > 0 /\ changes' = changes - 1
    BY <1>12 DEF Cards!Unplug
  <2>2. ViewsTyped(views')
    BY <1>1, <2>1, NewViewsTyped, OneViewTyped
  <2> QED
    BY <1>1, <1>2, <2>1, <2>2
<1> QED
  BY <1>3, <1>4, <1>5, <1>6, <1>7, <1>8, <1>9, <1>10, <1>11, <1>12 DEF Cards!Next

LEMMA CardTypesSuffice == CardTypes => Cards!TypeOK
BY DEF CardTypes, ServiceTyped, CardsTyped, ViewsTyped, ViewTyped, Cards!TypeOK

-----------------------------------------------------------------------------
(* The types of the windows.  What the thread draws has the width it read   *)
(* before: that of a size, maybe of another one.                            *)

Widths == {a[1] : a \in Toplevels!SomeSize}
Rain == [win : Toplevels!Window, look : Looks, built : Toplevels!Seen, fading : BOOLEAN]
Visualizer == [win : Toplevels!Window, context : BOOLEAN, state : Toplevels!State,
               bare : BOOLEAN]
RenderThread == [step : Toplevels!Steps, look : Looks \union {Toplevels!NoLook},
                 width : Widths, refused : BOOLEAN, fresh : BOOLEAN]

WindowTypes ==
    /\ at \in Toplevels!Places /\ current \in {"output", "rain", "viz", "none"}
    /\ outputs \in BOOLEAN /\ cfg \in [rain : Looks, viz : Looks]
    /\ rain \in Rain /\ viz \in Visualizer /\ thread \in RenderThread
    /\ windowWork \in 0..MaxWindowEvents

LEMMA SizesSeen ==
    /\ Toplevels!SomeSize \subseteq Nat \X Nat /\ Widths \subseteq Nat
    /\ \A look \in Looks \union {Toplevels!NoLook}, size \in Toplevels!SomeSize :
          [look |-> look, size |-> size] \in Toplevels!Seen
    /\ \A look \in Looks \union {Toplevels!NoLook}, width \in Widths,
          size \in Toplevels!SomeSize :
             [look |-> look, size |-> <<width, size[2]>>] \in Toplevels!Seen
<1>1. Toplevels!SomeSize \subseteq Nat \X Nat
  BY WorkersAssumption DEF WorkersAssumption, Toplevels!SomeSize, Toplevels!NoSize
<1>2. \A a \in Toplevels!SomeSize : a = <<a[1], a[2]>> /\ a[1] \in Nat
  BY <1>1
<1> DEFINE drawn == {<<a[1], b[2]>> : a \in Toplevels!SomeSize, b \in Toplevels!SomeSize}
<1>3. \A a, b \in Toplevels!SomeSize : <<a[1], b[2]>> \in drawn
  OBVIOUS
<1>4. \A a \in Toplevels!SomeSize : a \in drawn
  BY <1>2, <1>3
<1>5. ASSUME NEW width \in Widths, NEW b \in Toplevels!SomeSize
      PROVE  <<width, b[2]>> \in drawn
  <2>1. PICK a \in Toplevels!SomeSize : width = a[1]
    BY DEF Widths
  <2> HIDE DEF drawn
  <2> QED
    BY <1>3, <2>1
<1>6. Toplevels!Seen = [look : Looks \union {Toplevels!NoLook}, size : drawn]
  BY DEF Toplevels!Seen
<1> HIDE DEF drawn
<1>7. Widths \subseteq Nat
  BY <1>2 DEF Widths
<1> QED
  BY <1>1, <1>4, <1>5, <1>6, <1>7

LEMMA ClocksTyped ==
    ASSUME NEW c \in Toplevels!Clock
    PROVE  /\ Toplevels!Committed(c) \in Toplevels!Clock
           /\ Toplevels!Deferred(c) \in Toplevels!Clock
           /\ Toplevels!Scheduled(c) \in Toplevels!Clock
           /\ Toplevels!FirstDraw(c) \in Toplevels!Clock
           /\ Toplevels!DoneForDraw(c) \in Toplevels!Clock
           /\ Toplevels!DoneIdle(c) \in Toplevels!Clock
BY DEF Toplevels!Committed, Toplevels!Deferred, Toplevels!Scheduled, Toplevels!FirstDraw,
   Toplevels!DoneForDraw, Toplevels!DoneIdle, Toplevels!Armed, Toplevels!Clock,
   Toplevels!Callbacks

LEMMA NoneTyped ==
    /\ Toplevels!NoWindow \in Toplevels!Window /\ Toplevels!Unseen \in Toplevels!Seen
    /\ Toplevels!NoState \in Toplevels!State /\ Toplevels!NoThread \in RenderThread
    /\ Toplevels!NoSize \in Toplevels!SomeSize
<1>1. PICK no \in BOOLEAN : no = FALSE
  OBVIOUS
<1>2. Toplevels!NoSize \in Toplevels!SomeSize /\ 0 \in Widths
  <2>1. Toplevels!NoSize \in Toplevels!SomeSize
    BY DEF Toplevels!SomeSize
  <2>2. Toplevels!NoSize[1] = 0
    BY DEF Toplevels!NoSize
  <2> QED
    BY <2>1, <2>2 DEF Widths
<1>3. Toplevels!Unseen \in Toplevels!Seen
  BY <1>2, SizesSeen DEF Toplevels!Unseen
<1>4. Toplevels!IdleClock \in Toplevels!Clock
  BY <1>1 DEF Toplevels!IdleClock, Toplevels!Clock, Toplevels!Callbacks
<1>5. Toplevels!NoWindow \in Toplevels!Window
  BY <1>1, <1>2, <1>3, <1>4 DEF Toplevels!NoWindow, Toplevels!Window
<1>6. Toplevels!NoState \in Toplevels!State
  BY <1>1 DEF Toplevels!NoState, Toplevels!State
<1>7. Toplevels!NoThread \in RenderThread
  BY <1>1, <1>2 DEF Toplevels!NoThread, RenderThread, Toplevels!Steps
<1> QED
  BY <1>2, <1>3, <1>5, <1>6, <1>7

LEMMA RainReclocked ==
    ASSUME NEW r \in Rain, NEW c \in Toplevels!Clock
    PROVE  [r EXCEPT !.win.clock = c] \in Rain
BY DEF Rain, Toplevels!Window

LEMMA RebuiltTyped ==
    ASSUME NEW r \in Rain
    PROVE  /\ Toplevels!Rebuilt(r) \in Toplevels!Seen
           /\ [r EXCEPT !.built = Toplevels!Rebuilt(r)] \in Rain
<1> DEFINE b == Toplevels!Rebuilt(r)
<1>1. r.look \in Looks \union {Toplevels!NoLook} /\ r.win.size \in Toplevels!SomeSize
  BY DEF Rain, Toplevels!Window
<1>2. b \in Toplevels!Seen
  BY <1>1, SizesSeen DEF Toplevels!Rebuilt
<1> HIDE DEF b
<1>3. [r EXCEPT !.built = b] \in Rain
  BY <1>2 DEF Rain
<1> QED
  BY <1>2, <1>3 DEF b

LEMMA RainPaintedTyped ==
    ASSUME NEW r \in Rain
    PROVE  Toplevels!RainPainted(r) \in Rain
<1> DEFINE b == IF r.built.size = r.win.size THEN r.built ELSE Toplevels!Rebuilt(r)
           c == Toplevels!Committed(r.win.clock)
           d == IF r.win.open \/ r.fading THEN Toplevels!Deferred(c) ELSE c
           w == [r.win EXCEPT !.shown = b, !.clock = d]
<1>1. r.win \in Toplevels!Window /\ r.built \in Toplevels!Seen
  BY DEF Rain
<1>2. b \in Toplevels!Seen
  BY <1>1, RebuiltTyped
<1>3. c \in Toplevels!Clock
  BY <1>1, ClocksTyped DEF Toplevels!Window
<1> HIDE DEF c
<1>4. d \in Toplevels!Clock
  BY <1>3, ClocksTyped
<1>5. Toplevels!RainPainted(r) = [r EXCEPT !.built = b, !.win = w]
  BY DEF Toplevels!RainPainted, Rain, Toplevels!Window, c
<1> HIDE DEF b, d
<1>6. w \in Toplevels!Window
  BY <1>1, <1>2, <1>4 DEF Toplevels!Window
<1> HIDE DEF w
<1> QED
  BY <1>2, <1>5, <1>6 DEF Rain

LEMMA RainRequestedTyped ==
    ASSUME NEW r \in Rain
    PROVE  Toplevels!RainRequested(r) \in Rain
<1> DEFINE c == r.win.clock
           t == [r EXCEPT !.win.clock = Toplevels!FirstDraw(c)]
<1>1. c \in Toplevels!Clock
  BY DEF Rain, Toplevels!Window
<1> HIDE DEF c
<1>2. /\ [r EXCEPT !.win.clock = Toplevels!Deferred(c)] \in Rain
      /\ [r EXCEPT !.win.clock = Toplevels!Scheduled(c)] \in Rain /\ t \in Rain
  BY <1>1, ClocksTyped, RainReclocked
<1> HIDE DEF t
<1>3. Toplevels!RainPainted(t) \in Rain
  BY <1>2, RainPaintedTyped
<1>4. Toplevels!RainRequested(r) \in
          {r, [r EXCEPT !.win.clock = Toplevels!Deferred(c)],
           [r EXCEPT !.win.clock = Toplevels!Scheduled(c)], Toplevels!RainPainted(t)}
  BY DEF Toplevels!RainRequested, c, t
<1> QED
  BY <1>2, <1>3, <1>4

(* The rain moves, or the visualizer and its thread do; who holds the       *)
(* context and what is left to do moves with either.                        *)
LEMMA RainTypesStep ==
    ASSUME WindowTypes, Toplevels!Next
    PROVE  rain' \in Rain
<1>1. PICK yes \in BOOLEAN : yes = TRUE
  OBVIOUS
<1>2. PICK no \in BOOLEAN : no = FALSE
  OBVIOUS
<1>3. rain \in Rain /\ rain.win \in Toplevels!Window
  BY DEF WindowTypes, Rain
<1>4. ASSUME NEW w \in Toplevels!Window
      PROVE  /\ [rain EXCEPT !.win = w] \in Rain
             /\ [rain EXCEPT !.win = w, !.fading = FALSE] \in Rain
  <2>1. [rain EXCEPT !.win = w, !.fading = FALSE] = [rain EXCEPT !.win = w, !.fading = no]
    BY <1>2
  <2> QED
    BY <1>3, <2>1 DEF Rain
<1>5. CASE Toplevels!RainOpens
  <2> DEFINE w == [rain.win EXCEPT !.surface = yes]
  <2>1. rain' = [rain EXCEPT !.win = w]
    BY <1>1, <1>5 DEF Toplevels!RainOpens, Toplevels!Created
  <2>2. w \in Toplevels!Window
    BY <1>3 DEF Toplevels!Window
  <2> HIDE DEF w
  <2> QED
    BY <1>4, <2>1, <2>2
<1>6. CASE Toplevels!RainResumes
  <2> DEFINE b == Toplevels!Rebuilt(rain)
             w == [rain.win EXCEPT !.egl = yes, !.clocked = yes, !.open = yes]
             r == [rain EXCEPT !.win = w, !.built = b, !.fading = yes]
  <2>1. r = [rain EXCEPT !.win.egl = TRUE, !.win.clocked = TRUE, !.win.open = TRUE,
                         !.built = b, !.fading = TRUE]
    <3> HIDE DEF b
    <3> QED
      BY <1>1, <1>3 DEF Rain, Toplevels!Window
  <2>2. rain' = Toplevels!RainRequested(r) \/ rain' = [rain EXCEPT !.win = Toplevels!NoWindow]
    <3> HIDE DEF r
    <3> QED
      BY <1>6, <2>1 DEF Toplevels!RainResumes, Toplevels!Destroyed
  <2>3. w \in Toplevels!Window
    BY <1>3 DEF Toplevels!Window
  <2>4. b \in Toplevels!Seen
    BY <1>3, RebuiltTyped
  <2> HIDE DEF w, b
  <2>5. r \in Rain
    BY <1>3, <2>3, <2>4 DEF Rain
  <2> HIDE DEF r
  <2> QED
    BY <1>4, <2>2, <2>5, NoneTyped, RainRequestedTyped
<1>7. CASE Toplevels!RainCloses
  BY <1>4, <1>7, NoneTyped DEF Toplevels!RainCloses, Toplevels!Destroyed
<1>8. CASE Toplevels!RainFrameDone
  <2>1. CASE rain.win.clock.redraw
    <3> DEFINE d == Toplevels!DoneForDraw(rain.win.clock)
    <3>1. PICK fading \in {FALSE, rain.fading} :
              rain' = Toplevels!RainPainted([rain EXCEPT !.win.clock = d, !.fading = fading])
      BY <1>8, <2>1 DEF Toplevels!RainFrameDone
    <3>2. d \in Toplevels!Clock
      BY <1>3, ClocksTyped DEF Toplevels!Window
    <3> HIDE DEF d
    <3> DEFINE s == [rain EXCEPT !.win.clock = d]
               r == [s EXCEPT !.fading = fading]
    <3>3. s \in Rain
      BY <1>3, <3>2, RainReclocked
    <3>4. [rain EXCEPT !.win.clock = d, !.fading = fading] = r
      OBVIOUS
    <3>5. fading \in BOOLEAN
      BY <1>3 DEF Rain
    <3> HIDE DEF s
    <3>6. r \in Rain
      BY <3>3, <3>5 DEF Rain
    <3> HIDE DEF r
    <3> QED
      BY <3>1, <3>4, <3>6, RainPaintedTyped
  <2>2. CASE ~rain.win.clock.redraw
    <3> DEFINE d == Toplevels!DoneIdle(rain.win.clock)
    <3>1. rain' = [rain EXCEPT !.win.clock = d]
      BY <1>8, <2>2 DEF Toplevels!RainFrameDone
    <3>2. d \in Toplevels!Clock
      BY <1>3, ClocksTyped DEF Toplevels!Window
    <3> HIDE DEF d
    <3> QED
      BY <1>3, <3>1, <3>2, RainReclocked
  <2> QED
    BY <2>1, <2>2
<1>9. ASSUME NEW size \in Sizes, Toplevels!Configure(size)
      PROVE  rain' \in Rain
  <2> DEFINE w == [rain.win EXCEPT !.configured = yes, !.size = size]
  <2>1. rain' = [rain EXCEPT !.win = w] \/ rain' = rain
    BY <1>1, <1>9 DEF Toplevels!Configure, Toplevels!ConfiguredAs
  <2>2. w \in Toplevels!Window
    BY <1>3 DEF Toplevels!Window, Toplevels!SomeSize
  <2> HIDE DEF w
  <2> QED
    BY <1>3, <1>4, <2>1, <2>2
<1>10. CASE Toplevels!ScaleChange
  BY <1>3, <1>10, RainRequestedTyped DEF Toplevels!ScaleChange
<1>11. ASSUME NEW c \in [rain : Looks, viz : Looks], Toplevels!ApplyConfig(c)
       PROVE  rain' \in Rain
  <2> DEFINE r == [rain EXCEPT !.look = c.rain]
             s == [r EXCEPT !.built = Toplevels!Rebuilt(r)]
  <2>1. rain' \in {Toplevels!RainRequested(s), r}
    BY <1>11 DEF Toplevels!ApplyConfig, Toplevels!RainApplied
  <2>2. r \in Rain
    BY <1>3 DEF Rain
  <2> HIDE DEF r
  <2>3. s \in Rain
    BY <2>2, RebuiltTyped
  <2> HIDE DEF s
  <2> QED
    BY <2>1, <2>2, <2>3, RainRequestedTyped
<1>12. CASE UNCHANGED rain
  BY <1>3, <1>12
<1> QED
  BY <1>5, <1>6, <1>7, <1>8, <1>9, <1>10, <1>11, <1>12
     DEF Toplevels!Next, Toplevels!VizOpens, Toplevels!VizResumes, Toplevels!VizCloses,
         Toplevels!Quit, Toplevels!Joined, Toplevels!ThreadTakesWindow,
         Toplevels!ThreadWakes, Toplevels!ThreadReads, Toplevels!ThreadDraws,
         Toplevels!OnlyThread, Toplevels!Plugs

LEMMA VizEndsTyped ==
    ASSUME NEW v \in Visualizer, NEW w \in Toplevels!Window
    PROVE  /\ [v EXCEPT !.win = w] \in Visualizer
           /\ Toplevels!Shutdown(v) \in Visualizer /\ Toplevels!Quiet(v) \in Visualizer
           /\ [Toplevels!Quiet(v) EXCEPT !.win = w, !.bare = FALSE] \in Visualizer
<1>1. PICK no \in BOOLEAN : no = FALSE
  OBVIOUS
<1> DEFINE s == [v.state EXCEPT !.shutdown = v.state.there]
           n == Toplevels!NoState
           q == [v EXCEPT !.context = no, !.state = n]
           e == [q EXCEPT !.win = w, !.bare = no]
<1>2. s \in Toplevels!State /\ n \in Toplevels!State
  BY NoneTyped DEF Visualizer, Toplevels!State
<1>3. Toplevels!Shutdown(v) = [v EXCEPT !.state = s]
  BY DEF Toplevels!Shutdown, Visualizer
<1>4. Toplevels!Quiet(v) = q /\ [Toplevels!Quiet(v) EXCEPT !.win = w, !.bare = FALSE] = e
  BY <1>1 DEF Toplevels!Quiet
<1> HIDE DEF s, n
<1>5. [v EXCEPT !.win = w] \in Visualizer /\ [v EXCEPT !.state = s] \in Visualizer
  BY <1>2 DEF Visualizer
<1>6. q \in Visualizer
  BY <1>2 DEF Visualizer
<1> HIDE DEF q
<1>7. e \in Visualizer
  BY <1>6 DEF Visualizer
<1> HIDE DEF e
<1> QED
  BY <1>3, <1>4, <1>5, <1>6, <1>7

LEMMA ThreadStarts ==
    ASSUME cfg \in [rain : Looks, viz : Looks], NEW v \in Visualizer, NEW t \in RenderThread,
           NEW s \in Toplevels!Started(v, t)
    PROVE  s[1] \in Visualizer /\ s[2] \in RenderThread
<1>1. PICK yes \in BOOLEAN : yes = TRUE
  OBVIOUS
<1> DEFINE n == [Toplevels!NoState EXCEPT !.there = yes, !.look = cfg.viz]
           u == [v EXCEPT !.context = yes, !.state = n]
           r == [Toplevels!NoThread EXCEPT !.step = "started"]
<1>2. n \in Toplevels!State
  BY NoneTyped DEF Toplevels!State
<1>3. r \in RenderThread
  BY NoneTyped DEF RenderThread, Toplevels!Steps
<1>4. s \in {<<v, t>>, <<u, r>>}
  BY <1>1 DEF Toplevels!Started
<1> HIDE DEF n, r
<1>5. u \in Visualizer
  BY <1>2 DEF Visualizer
<1> HIDE DEF u
<1> QED
  BY <1>3, <1>4, <1>5

LEMMA VizTypesStep ==
    ASSUME WindowTypes, Toplevels!Next
    PROVE  viz' \in Visualizer /\ thread' \in RenderThread
<1> DEFINE Goal == viz' \in Visualizer /\ thread' \in RenderThread
<1>1. PICK yes \in BOOLEAN : yes = TRUE
  OBVIOUS
<1>2. PICK no \in BOOLEAN : no = FALSE
  OBVIOUS
<1>3. /\ viz \in Visualizer /\ viz.win \in Toplevels!Window
      /\ thread \in RenderThread /\ cfg \in [rain : Looks, viz : Looks]
  BY DEF WindowTypes, Visualizer
<1>4. ASSUME NEW step \in Toplevels!Steps
      PROVE  [thread EXCEPT !.step = step] \in RenderThread
  BY <1>3 DEF RenderThread
<1>5. CASE Toplevels!VizOpens
  <2> DEFINE w == [viz.win EXCEPT !.surface = yes]
  <2>1. viz' = [viz EXCEPT !.win = w] /\ thread' = thread
    BY <1>1, <1>5 DEF Toplevels!VizOpens, Toplevels!Created
  <2>2. w \in Toplevels!Window
    BY <1>3 DEF Toplevels!Window
  <2> HIDE DEF w
  <2> QED
    BY <1>3, <2>1, <2>2, VizEndsTyped
<1>6. CASE Toplevels!VizResumes
  <2>1. PICK bare \in BOOLEAN : bare = ~outputs
    BY DEF WindowTypes
  <2> DEFINE w == [viz.win EXCEPT !.egl = yes, !.open = yes, !.clocked = no]
             v == [viz EXCEPT !.win = w, !.bare = bare]
  <2>2. w \in Toplevels!Window
    BY <1>3 DEF Toplevels!Window
  <2>3. v = [viz EXCEPT !.win = Toplevels!InitEgl(@), !.bare = ~outputs]
    BY <1>1, <1>2, <2>1 DEF Toplevels!InitEgl
  <2> HIDE DEF w
  <2>4. v \in Visualizer
    BY <1>3, <2>2 DEF Visualizer
  <2> HIDE DEF v
  <2>5. \/ \E s \in Toplevels!Started(v, thread) : viz' = s[1] /\ thread' = s[2]
        \/ viz' = [viz EXCEPT !.win = Toplevels!NoWindow] /\ thread' = thread
    BY <1>6, <2>3 DEF Toplevels!VizResumes, Toplevels!Destroyed
  <2>6. CASE \E s \in Toplevels!Started(v, thread) : viz' = s[1] /\ thread' = s[2]
    BY <1>3, <2>4, <2>6, ThreadStarts
  <2>7. CASE viz' = [viz EXCEPT !.win = Toplevels!NoWindow] /\ thread' = thread
    BY <1>3, <2>7, NoneTyped, VizEndsTyped
  <2> QED
    BY <2>5, <2>6, <2>7
<1>7. CASE Toplevels!VizCloses
  <2> DEFINE w == [viz.win EXCEPT !.open = no]
             v == [viz EXCEPT !.win = w]
  <2>1. viz' = Toplevels!Shutdown(v) /\ thread' = thread
    BY <1>2, <1>7 DEF Toplevels!VizCloses
  <2>2. w \in Toplevels!Window
    BY <1>3 DEF Toplevels!Window
  <2> HIDE DEF w
  <2>3. v \in Visualizer
    BY <1>3, <2>2, VizEndsTyped
  <2> HIDE DEF v
  <2> QED
    BY <1>3, <2>1, <2>3, VizEndsTyped
<1>8. CASE Toplevels!Quit
  BY <1>3, <1>8, VizEndsTyped DEF Toplevels!Quit
<1>9. CASE Toplevels!Joined
  <2>1. /\ thread' = Toplevels!NoThread
        /\ \/ viz' = [Toplevels!Quiet(viz) EXCEPT !.win = Toplevels!NoWindow, !.bare = FALSE]
           \/ viz' = Toplevels!Quiet(viz)
    BY <1>9 DEF Toplevels!Joined, Toplevels!Destroyed
  <2> QED
    BY <1>3, <2>1, NoneTyped, VizEndsTyped
<1>10. CASE Toplevels!ThreadTakesWindow
  <2>1. viz' = viz /\ \/ thread' = [thread EXCEPT !.step = "waits"]
                      \/ thread' = [thread EXCEPT !.step = "ended"]
                      \/ thread' = [thread EXCEPT !.step = "ended", !.refused = yes]
    BY <1>1, <1>10 DEF Toplevels!ThreadTakesWindow, Toplevels!Goes
  <2>2. [thread EXCEPT !.step = "ended", !.refused = yes] \in RenderThread
    BY <1>3 DEF RenderThread, Toplevels!Steps
  <2> QED
    BY <1>3, <1>4, <2>1, <2>2 DEF Toplevels!Steps
<1>11. CASE Toplevels!ThreadWakes
  <2> DEFINE look == viz.state.look
  <2>1. viz' = viz /\ \/ thread' = [thread EXCEPT !.step = "ended"]
                      \/ thread' = [thread EXCEPT !.step = "reads", !.look = look,
                                                  !.fresh = yes]
    BY <1>1, <1>11 DEF Toplevels!ThreadWakes, Toplevels!Goes
  <2>2. look \in Looks \union {Toplevels!NoLook}
    BY <1>3 DEF Visualizer, Toplevels!State
  <2> HIDE DEF look
  <2>3. [thread EXCEPT !.step = "reads", !.look = look, !.fresh = yes] \in RenderThread
    BY <1>3, <2>2 DEF RenderThread, Toplevels!Steps
  <2> QED
    BY <1>3, <1>4, <2>1, <2>3 DEF Toplevels!Steps
<1>12. CASE Toplevels!ThreadReads
  <2> DEFINE width == viz.win.size[1]
  <2>1. viz' = viz /\ thread' = [thread EXCEPT !.step = "draws", !.width = width]
    BY <1>12 DEF Toplevels!ThreadReads
  <2>2. width \in Widths
    BY <1>3 DEF Toplevels!Window, Widths
  <2> HIDE DEF width
  <2> QED
    BY <1>3, <2>1, <2>2 DEF RenderThread, Toplevels!Steps
<1>13. CASE Toplevels!ThreadDraws
  <2> DEFINE seen == [look |-> thread.look, size |-> <<thread.width, viz.win.size[2]>>]
             w == [viz.win EXCEPT !.shown = seen]
  <2>1. viz' = [viz EXCEPT !.win = w] /\ thread' = [thread EXCEPT !.step = "waits"]
    BY <1>3, <1>13 DEF Toplevels!ThreadDraws, Toplevels!Goes, Visualizer, Toplevels!Window
  <2>2. /\ thread.look \in Looks \union {Toplevels!NoLook} /\ thread.width \in Widths
        /\ viz.win.size \in Toplevels!SomeSize
    BY <1>3 DEF RenderThread, Toplevels!Window
  <2>3. seen \in Toplevels!Seen
    BY <2>2, SizesSeen
  <2> HIDE DEF seen
  <2>4. w \in Toplevels!Window
    BY <1>3, <2>3 DEF Toplevels!Window
  <2> HIDE DEF w
  <2>5. viz' \in Visualizer
    BY <1>3, <2>1, <2>4, VizEndsTyped
  <2>6. thread' \in RenderThread
    BY <1>4, <2>1 DEF Toplevels!Steps
  <2> QED
    BY <2>5, <2>6
<1>14. ASSUME NEW size \in Sizes, Toplevels!Configure(size)
       PROVE  Goal
  <2> DEFINE w == [viz.win EXCEPT !.configured = yes, !.size = size]
  <2>1. \/ viz' = viz /\ thread' = thread
        \/ viz' = [viz EXCEPT !.win = w] /\ thread' = [thread EXCEPT !.fresh = no]
    BY <1>1, <1>2, <1>14 DEF Toplevels!Configure, Toplevels!ConfiguredAs
  <2>2. w \in Toplevels!Window
    BY <1>3 DEF Toplevels!Window, Toplevels!SomeSize
  <2> HIDE DEF w
  <2>3. [thread EXCEPT !.fresh = no] \in RenderThread
    BY <1>3 DEF RenderThread
  <2> QED
    BY <1>3, <2>1, <2>2, <2>3, VizEndsTyped
<1>15. CASE Toplevels!ScaleChange
  <2> DEFINE d == Toplevels!FirstDraw(viz.win.clock)
             w == [viz.win EXCEPT !.clock = d]
  <2>1. thread' = thread /\ (viz' = viz \/ viz' = [viz EXCEPT !.win = w])
    BY <1>3, <1>15 DEF Toplevels!ScaleChange, Visualizer, Toplevels!Window
  <2>2. d \in Toplevels!Clock
    BY <1>3, ClocksTyped DEF Toplevels!Window
  <2> HIDE DEF d
  <2>3. w \in Toplevels!Window
    BY <1>3, <2>2 DEF Toplevels!Window
  <2> HIDE DEF w
  <2> QED
    BY <1>3, <2>1, <2>3, VizEndsTyped
<1>16. ASSUME NEW c \in [rain : Looks, viz : Looks], Toplevels!ApplyConfig(c)
       PROVE  Goal
  <2> DEFINE n == [viz.state EXCEPT !.look = c.viz]
             v == [viz EXCEPT !.state = n]
  <2>1. PICK fresh \in BOOLEAN : fresh = (thread.fresh /\ c.viz = cfg.viz)
    BY <1>3 DEF RenderThread
  <2>2. viz' \in {viz, v} /\ thread' = [thread EXCEPT !.fresh = fresh]
    BY <1>3, <1>16, <2>1 DEF Toplevels!ApplyConfig, Toplevels!VizApplied, Visualizer
  <2>3. n \in Toplevels!State
    BY <1>3 DEF Visualizer, Toplevels!State
  <2> HIDE DEF n
  <2>4. v \in Visualizer
    BY <1>3, <2>3 DEF Visualizer
  <2> HIDE DEF v
  <2>5. [thread EXCEPT !.fresh = fresh] \in RenderThread
    BY <1>3 DEF RenderThread
  <2> QED
    BY <1>3, <2>2, <2>4, <2>5
<1>17. CASE UNCHANGED <<viz, thread>>
  BY <1>3, <1>17
<1> QED
  BY <1>5, <1>6, <1>7, <1>8, <1>9, <1>10, <1>11, <1>12, <1>13, <1>14, <1>15, <1>16, <1>17
     DEF Toplevels!Next, Toplevels!RainOpens, Toplevels!RainResumes, Toplevels!RainCloses,
         Toplevels!RainFrameDone, Toplevels!Plugs

LEMMA WindowTypesInitially == Toplevels!Init => WindowTypes
<1> SUFFICES ASSUME Toplevels!Init
             PROVE  WindowTypes
  OBVIOUS
<1>1. PICK no \in BOOLEAN : no = FALSE
  OBVIOUS
<1>2. at = "loop" /\ current = "output" /\ outputs \in BOOLEAN
      /\ cfg \in [rain : Looks, viz : Looks]
  BY DEF Toplevels!Init
<1>3. rain = [win |-> Toplevels!NoWindow, look |-> cfg.rain, built |-> Toplevels!Unseen,
              fading |-> no]
      /\ viz = [win |-> Toplevels!NoWindow, context |-> no, state |-> Toplevels!NoState,
                bare |-> no]
      /\ thread = Toplevels!NoThread
  BY <1>1 DEF Toplevels!Init
<1>4. rain \in Rain /\ viz \in Visualizer /\ thread \in RenderThread
  BY <1>1, <1>2, <1>3, NoneTyped DEF Rain, Visualizer
<1>5. windowWork \in 0..MaxWindowEvents
  BY WorkersAssumption DEF WorkersAssumption, Toplevels!Init
<1> QED
  BY <1>2, <1>4, <1>5 DEF WindowTypes, Toplevels!Places

LEMMA WindowTypesStep ==
    ASSUME WindowTypes, Toplevels!Next
    PROVE  WindowTypes'
<1>1. rain' \in Rain /\ viz' \in Visualizer /\ thread' \in RenderThread
  BY RainTypesStep, VizTypesStep
<1>2. windowWork' = windowWork \/ (windowWork > 0 /\ windowWork' = windowWork - 1)
  BY DEF Toplevels!Next, Toplevels!Event, Toplevels!OnlyThread, Toplevels!RainOpens,
     Toplevels!RainResumes, Toplevels!RainCloses, Toplevels!RainFrameDone,
     Toplevels!VizOpens, Toplevels!VizResumes, Toplevels!VizCloses, Toplevels!Quit,
     Toplevels!Joined, Toplevels!ThreadTakesWindow, Toplevels!ThreadWakes,
     Toplevels!ThreadReads, Toplevels!ThreadDraws, Toplevels!Configure,
     Toplevels!ScaleChange, Toplevels!Plugs, Toplevels!ApplyConfig
<1>3. windowWork' \in 0..MaxWindowEvents
  BY <1>2, WorkersAssumption DEF WorkersAssumption, WindowTypes
<1>4. outputs' \in BOOLEAN /\ cfg' \in [rain : Looks, viz : Looks]
  BY DEF WindowTypes, Toplevels!Next, Toplevels!OnlyThread, Toplevels!RainOpens,
     Toplevels!RainResumes, Toplevels!RainCloses, Toplevels!RainFrameDone,
     Toplevels!VizOpens, Toplevels!VizResumes, Toplevels!VizCloses, Toplevels!Quit,
     Toplevels!Joined, Toplevels!ThreadTakesWindow, Toplevels!ThreadWakes,
     Toplevels!ThreadReads, Toplevels!ThreadDraws, Toplevels!Configure,
     Toplevels!ScaleChange, Toplevels!Plugs, Toplevels!ApplyConfig
<1>5. at' \in {at, "loop", "viz", "rain", "joining", "quitting", "gone"}
  BY DEF Toplevels!Next, Toplevels!OnlyThread, Toplevels!RainOpens,
     Toplevels!RainResumes, Toplevels!RainCloses, Toplevels!RainFrameDone,
     Toplevels!VizOpens, Toplevels!VizResumes, Toplevels!VizCloses, Toplevels!Quit,
     Toplevels!Joined, Toplevels!ThreadTakesWindow, Toplevels!ThreadWakes,
     Toplevels!ThreadReads, Toplevels!ThreadDraws, Toplevels!Configure,
     Toplevels!ScaleChange, Toplevels!Plugs, Toplevels!ApplyConfig, Toplevels!Came
<1>6. current' \in {current, "output", "rain", "viz", "none"}
  BY DEF Toplevels!Next, Toplevels!OnlyThread, Toplevels!RainOpens,
     Toplevels!RainResumes, Toplevels!RainCloses, Toplevels!RainFrameDone,
     Toplevels!VizOpens, Toplevels!VizResumes, Toplevels!VizCloses, Toplevels!Quit,
     Toplevels!Joined, Toplevels!ThreadTakesWindow, Toplevels!ThreadWakes,
     Toplevels!ThreadReads, Toplevels!ThreadDraws, Toplevels!Configure,
     Toplevels!ScaleChange, Toplevels!Plugs, Toplevels!ApplyConfig, Toplevels!Rested,
     Toplevels!HandedOver
<1> QED
  BY <1>1, <1>3, <1>4, <1>5, <1>6 DEF WindowTypes, Toplevels!Places

LEMMA WindowTypesSuffice == WindowTypes => Toplevels!TypeOK
<1> SUFFICES ASSUME WindowTypes
             PROVE  Toplevels!TypeOK
  OBVIOUS
<1>1. thread \in [step : Toplevels!Steps, look : Looks \union {Toplevels!NoLook},
                  width : Nat, refused : BOOLEAN, fresh : BOOLEAN]
  BY SizesSeen DEF WindowTypes, RenderThread
<1> QED
  BY <1>1 DEF WindowTypes, Rain, Visualizer, Toplevels!TypeOK

-----------------------------------------------------------------------------
(* The types of the other guests follow from the invariants above.          *)

LEMMA GridTyped == GridInv => Grid!TypeOK
BY DEF GridInv, PickerOK, Grid!TypeOK, Grid!Picker, Generations

LEMMA OutputsTyped == OutputsInv => Outputs!TypeOK
<1> SUFFICES ASSUME OutputsInv
             PROVE  Outputs!TypeOK
  OBVIOUS
<1> DEFINE listed == Outputs!ToSet(mons)
           n == Len(mons)
<1>1. /\ mons \in Seq(Connectors) /\ Distinct(mons) /\ waits \in Seq(Connectors)
      /\ refs \in References /\ boot \in {"bind", "first", "overlays", "rest", "run"}
  BY DEF OutputsInv
<1>2. n \in Nat /\ DOMAIN mons = 1..n /\ \A i \in 1..n : mons[i] \in Connectors
  BY <1>1
<1>3. listed = {mons[i] : i \in 1..n}
  BY <1>2 DEF Outputs!ToSet
<1>4. mons \in [1..n -> listed]
  <2>1. mons = [i \in 1..n |-> mons[i]]
    BY <1>1, <1>2
  <2> QED
    BY <1>3, <2>1
<1> HIDE DEF listed, n
<1>5. mons \in Bijection(1..n, listed)
  <2>1. \A i, j \in 1..n : mons[i] = mons[j] => i = j
    BY <1>1, <1>2 DEF Distinct
  <2>2. \A x \in listed : \E i \in 1..n : mons[i] = x
    BY <1>3
  <2> QED
    BY <1>4, <2>1, <2>2 DEF Bijection, Injection, Surjection, IsInjective
<1>6. ExistsBijection(1..n, listed)
  BY <1>5 DEF ExistsBijection
<1>7. IsFiniteSet(1..n) /\ Cardinality(1..n) = n
  BY <1>2, FS_Interval
<1>8. Cardinality(listed) = n
  BY <1>6, <1>7, FS_Bijection
<1>9. Outputs!Cardinality(listed) = n
  BY <1>8, SameCardinality
<1>10. listed \subseteq Connectors
  BY <1>2, <1>3
<1>11. Outputs!ToSet(waits) \subseteq Connectors
  BY <1>1 DEF Outputs!ToSet
<1>12. refs.open \subseteq Panels /\ refs.lock \subseteq Connectors
  BY <1>1 DEF References
<1> QED
  BY <1>1, <1>9, <1>10, <1>11, <1>12 DEF Outputs!TypeOK, listed, n

(* TypesOK: every part keeps the types of its variables, the hand-over of    *)
(* closures (core/deferred_call) as well as the components beside it.        *)
THEOREM TypesAlwaysOK == MCSpec => []TypesOK
<1> DEFINE Inv == /\ part = "picker" => GridInv
                  /\ part = "notifications" => CardTypes
                  /\ part = "monitors" => OutputsInv
                  /\ part = "windows" => WindowTypes
           Wall == part = "wallpaper" =>
                       /\ Columns!ShowsConfigured /\ Columns!PaintedOrComing
                       /\ Columns!FramesHeldOnce /\ Columns!TypeOK
           Idling == part = "idle" => Screens!ScreenSettles /\ Screens!TypeOK
<1>1. MCInit => Init /\ Inv
  BY GridInitially, CardTypesInitially, OutputsInitially, WindowTypesInitially DEF MCInit
<1>2. [MCNext]_<<part, vars, guests>> => [Next]_vars
  BY DEF MCNext, Calls, Guest
<1>3. Inv /\ [MCNext]_<<part, vars, guests>> => Inv'
  <2> SUFFICES ASSUME Inv, [MCNext]_<<part, vars, guests>>
               PROVE  Inv'
    OBVIOUS
  <2>1. part' = part
    BY DEF MCNext
  <2>2. ASSUME part = "picker" PROVE GridInv'
    <3>1. Grid!Next \/ UNCHANGED pickerVars
      BY <2>2 DEF MCNext, Calls, Guest, guests
    <3>2. CASE Grid!Next
      BY <2>2, <3>2, GridStep
    <3>3. CASE UNCHANGED pickerVars
      BY <2>2, <3>3 DEF pickerVars, GridInv
    <3> QED
      BY <3>1, <3>2, <3>3
  <2>3. ASSUME part = "notifications" PROVE CardTypes'
    <3>1. Cards!Next \/ UNCHANGED cardVars
      BY <2>3 DEF MCNext, Calls, Guest, guests
    <3>2. CASE Cards!Next
      BY <2>3, <3>2, CardTypesStep
    <3>3. CASE UNCHANGED cardVars
      BY <2>3, <3>3 DEF cardVars, CardTypes
    <3> QED
      BY <3>1, <3>2, <3>3
  <2>4. ASSUME part = "monitors" PROVE OutputsInv'
    <3>1. Outputs!Next \/ UNCHANGED outputVars
      BY <2>4 DEF MCNext, Calls, Guest, guests
    <3>2. CASE Outputs!Next
      BY <2>4, <3>2, PhasesStep
    <3>3. CASE UNCHANGED outputVars
      BY <2>4, <3>3 DEF outputVars, OutputsInv, PhasesHold
    <3> QED
      BY <3>1, <3>2, <3>3
  <2>5. ASSUME part = "windows" PROVE WindowTypes'
    <3>1. Toplevels!Next \/ UNCHANGED windowVars
      BY <2>5 DEF MCNext, Calls, Guest, guests
    <3>2. CASE Toplevels!Next
      BY <2>5, <3>2, WindowTypesStep
    <3>3. CASE UNCHANGED windowVars
      BY <2>5, <3>3 DEF windowVars, WindowTypes
    <3> QED
      BY <3>1, <3>2, <3>3
  <2> QED
    BY <2>1, <2>2, <2>3, <2>4, <2>5
<1>4. MCSpec => Spec
  BY <1>1, <1>2, PTL DEF MCSpec, Spec
<1>5. TypeOK /\ Inv /\ Wall /\ Idling => TypesOK
  BY GridTyped, CardTypesSuffice, OutputsTyped, WindowTypesSuffice DEF TypesOK
<1> HIDE DEF Inv, Wall, Idling
<1>6. MCSpec => []Inv
  BY <1>1, <1>3, PTL DEF MCSpec
<1>7. MCSpec => []Wall
  BY WallpaperSettles DEF Wall
<1>8. MCSpec => []Idling
  BY OverlaysAlwaysSettle DEF Idling
<1> QED
  BY <1>4, <1>5, <1>6, <1>7, <1>8, TypeCorrect, PTL
=============================================================================
