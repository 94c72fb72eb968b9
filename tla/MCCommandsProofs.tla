-------------------------- MODULE MCCommandsProofs --------------------------
(***************************************************************************)
(* Proofs about the asynchronous processes, for every set of handles and   *)
(* jobs and every number of generations, and about the network service as  *)
(* MCCommands runs it: whatever networks are around, whatever states the   *)
(* machine may start in and however often it changes or a command cannot   *)
(* be started.                                                             *)
(*                                                                         *)
(* A handle finishes only with what its current worker read: the invariant *)
(* says where that worker and its result are.  The argument about the      *)
(* network service is about its state alone.  A stage of the scan has its  *)
(* flag up exactly while its command exists, at most one stage has, and    *)
(* none has while the radio is off; so a stage that is left behind was     *)
(* refused, and every answer that arrives finds the radio on.              *)
(***************************************************************************)
EXTENDS MCCommands, Sequences, TLAPS

\* Workers carry generations the handle has reached, each a different one.
GenerationsDistinct(h) ==
    /\ \A w \in workers[h] : w.gen <= proc[h].generation
    /\ \A v, w \in workers[h] : v.gen = w.gen => v = w

\* While the worker of the current generation lives nothing is published.
CurrentWorker(h) ==
    \A w \in workers[h] :
        w.gen = proc[h].generation =>
            /\ proc[h].pid = w.gen
            /\ proc[h].wake_fd = w.gen
            /\ w.child # "killed"
            /\ ~proc[h].done
            /\ wanted[h] = w.job

PidHasWorker(h) ==
    proc[h].pid # 0 =>
        \E w \in workers[h] : w.gen = proc[h].pid /\ w.gen = proc[h].generation

DoneIsCurrent(h) ==
    proc[h].done =>
        /\ wanted[h] # Empty
        /\ proc[h].buffer = wanted[h]
        /\ ~seen[h] => readable[h]

UnwantedIsKilled(h) ==
    \A w \in workers[h] :
        wanted[h] = Empty /\ w.gen = proc[h].generation - 1 => w.child # "running"

HandleInv(h) ==
    /\ GenerationsDistinct(h)
    /\ CurrentWorker(h)
    /\ PidHasWorker(h)
    /\ DoneIsCurrent(h)
    /\ UnwantedIsKilled(h)

IInv == TypeOK /\ \A h \in Handles : HandleInv(h)

-----------------------------------------------------------------------------
\* The type invariant of the handle and its workers.
THEOREM WorkersTypeCorrect == Spec => []TypeOK
<1> USE AsyncProcessAssumption DEF TypeOK
<1>1. Init => TypeOK
  BY DEF Init, Blank, Proc, Output, Worker
<1>2. TypeOK /\ [Next]_vars => TypeOK'
  <2> SUFFICES ASSUME TypeOK, [Next]_vars
               PROVE  TypeOK'
    OBVIOUS
  <2>1. ASSUME NEW h \in Handles, NEW job \in Jobs, Start(h, job)
        PROVE  TypeOK'
    <3> DEFINE gen == proc[h].generation + 1
    <3>1. gen \in 1..MaxGeneration
      BY <2>1 DEF Start, Proc
    <3>2. [gen |-> gen, job |-> job, child |-> "running", reaped |-> FALSE]
            \in Worker
      BY <3>1 DEF Worker, Runs
    <3>3. [done |-> FALSE, buffer |-> Empty, pid |-> gen, wake_fd |-> gen,
           generation |-> gen] \in Proc
      BY <3>1 DEF Proc
    <3> QED
      BY <2>1, <3>2, <3>3 DEF Start
  <2>2. ASSUME NEW h \in Handles, Poll(h)
        PROVE  TypeOK'
    BY <2>2 DEF Poll
  <2>3. ASSUME NEW h \in Handles, Cancel(h)
        PROVE  TypeOK'
    <3>1. ASSUME NEW w \in workers[h]
          PROVE  (IF w.gen = proc[h].pid /\ w.child = "running"
                  THEN [w EXCEPT !.child = "killed"] ELSE w) \in Worker
      <4>1. w \in Worker
        OBVIOUS
      <4>2. [w EXCEPT !.child = "killed"] \in Worker
        BY <4>1 DEF Worker
      <4> QED
        BY <4>1, <4>2
    <3>2. CancelWorkers(h) \in SUBSET Worker
      BY <3>1 DEF CancelWorkers
    <3>3. CancelHandle(h) \in Proc
      <4>1. proc[h].generation + 1 \in 0..MaxGeneration
        BY <2>3 DEF Cancel, Proc
      <4> QED
        BY <4>1 DEF CancelHandle, Blank, Proc
    <3> QED
      BY <2>3, <3>2, <3>3 DEF Cancel
  <2>4. ASSUME NEW h \in Handles, ChildExits(h)
        PROVE  TypeOK'
    <3>1. \A w \in Worker : [w EXCEPT !.child = "exited"] \in Worker
      BY DEF Worker
    <3> QED
      BY <2>4, <3>1 DEF ChildExits
  <2>5. ASSUME NEW h \in Handles, WorkerReaps(h)
        PROVE  TypeOK'
    <3>1. \A w \in Worker : [w EXCEPT !.reaped = TRUE] \in Worker
      BY DEF Worker
    <3> QED
      BY <2>5, <3>1 DEF WorkerReaps
  <2>6. ASSUME NEW h \in Handles, WorkerEnds(h)
        PROVE  TypeOK'
    <3>1. PICK w \in workers[h] :
            /\ IF proc[h].generation = w.gen
               THEN Deliver(h, w)
               ELSE UNCHANGED <<proc, readable>>
            /\ workers' = [workers EXCEPT ![h] = @ \ {w}]
            /\ UNCHANGED <<wanted, seen>>
      BY <2>6 DEF WorkerEnds
    <3>2. OutputOf(w) \in Output
      BY DEF OutputOf, Output, Worker
    <3>3. Published(h, OutputOf(w)) \in Proc
      BY <3>2 DEF Published, Proc
    <3>4. workers' \in [Handles -> SUBSET Worker]
      BY <3>1
    <3>5. CASE proc[h].generation = w.gen
      BY <3>1, <3>3, <3>4, <3>5 DEF Deliver
    <3>6. CASE proc[h].generation # w.gen
      BY <3>1, <3>4, <3>6
    <3> QED
      BY <3>5, <3>6
  <2>7. CASE UNCHANGED vars
    BY <2>7 DEF vars
  <2> QED
    BY <2>1, <2>2, <2>3, <2>4, <2>5, <2>6, <2>7 DEF Next, Caller, Background
<1> QED
  BY <1>1, <1>2, PTL DEF Spec

-----------------------------------------------------------------------------
\* A step that concerns one handle leaves the invariant of the others alone.
LEMMA OtherHandles ==
  ASSUME NEW g \in Handles, HandleInv(g),
         UNCHANGED <<proc[g], workers[g], readable[g], wanted[g], seen[g]>>
  PROVE  HandleInv(g)'
BY DEF HandleInv, GenerationsDistinct, CurrentWorker, PidHasWorker,
       DoneIsCurrent, UnwantedIsKilled

LEMMA Initially == Init => IInv
<1> SUFFICES ASSUME Init
             PROVE  IInv
  OBVIOUS
<1>1. TypeOK
  BY AsyncProcessAssumption
     DEF Init, TypeOK, Blank, Proc, Output, Worker
<1>2. ASSUME NEW h \in Handles
      PROVE  /\ workers[h] = {}
             /\ proc[h].pid = 0 /\ ~proc[h].done
  BY DEF Init, Blank
<1> QED
  BY <1>1, <1>2 DEF IInv, HandleInv, GenerationsDistinct, CurrentWorker,
     PidHasWorker, DoneIsCurrent, UnwantedIsKilled

LEMMA StartKeeps ==
  ASSUME IInv, TypeOK', NEW h \in Handles, NEW job \in Jobs, Start(h, job)
  PROVE  IInv'
<1> USE AsyncProcessAssumption
<1>1. HandleInv(h)'
  <2> DEFINE gen == proc[h].generation + 1
             new == [gen |-> gen, job |-> job, child |-> "running",
                     reaped |-> FALSE]
  <2>1. /\ proc'[h] = [done |-> FALSE, buffer |-> Empty, pid |-> gen,
                       wake_fd |-> gen, generation |-> gen]
        /\ workers'[h] = workers[h] \union {new}
        /\ wanted'[h] = job
        /\ gen \in Nat /\ proc[h].generation \in Nat
        /\ gen = proc[h].generation + 1
    BY DEF Start, IInv, TypeOK, Proc
  <2>2. \A w \in workers[h] : w.gen \in Nat /\ w.gen < gen
    BY <2>1 DEF IInv, HandleInv, GenerationsDistinct, TypeOK, Worker, Runs
  <2>0. new.gen = gen /\ new.job = job /\ new.child = "running"
    OBVIOUS
  <2>9. /\ proc'[h].generation = gen /\ proc'[h].pid = gen
        /\ proc'[h].wake_fd = gen /\ ~proc'[h].done
    BY <2>1
  <2> HIDE DEF gen, new
  <2>3. GenerationsDistinct(h)'
    BY <2>0, <2>1, <2>2, <2>9 DEF IInv, HandleInv, GenerationsDistinct
  <2>4. CurrentWorker(h)'
    BY <2>0, <2>1, <2>2, <2>9 DEF CurrentWorker
  <2>5. PidHasWorker(h)'
    BY <2>0, <2>1, <2>9 DEF PidHasWorker
  <2>6. DoneIsCurrent(h)' /\ UnwantedIsKilled(h)'
    BY <2>1, <2>9 DEF DoneIsCurrent, UnwantedIsKilled
  <2> QED
    BY <2>3, <2>4, <2>5, <2>6 DEF HandleInv
<1>2. ASSUME NEW g \in Handles, g # h
      PROVE  HandleInv(g)'
  BY <1>2, OtherHandles DEF IInv, TypeOK, Start
<1> QED
  BY <1>1, <1>2 DEF IInv

LEMMA PollKeeps ==
  ASSUME IInv, TypeOK', NEW h \in Handles, Poll(h)
  PROVE  IInv'
BY DEF Poll, IInv, TypeOK, HandleInv, GenerationsDistinct, CurrentWorker,
       PidHasWorker, DoneIsCurrent, UnwantedIsKilled

LEMMA CancelKeeps ==
  ASSUME IInv, TypeOK', NEW h \in Handles, Cancel(h)
  PROVE  IInv'
<1> USE AsyncProcessAssumption
<1>1. HandleInv(h)'
  <2> DEFINE gen == proc[h].generation
  <2>1. /\ proc'[h] = [done |-> FALSE, buffer |-> Empty, pid |-> 0,
                       wake_fd |-> 0, generation |-> gen + 1]
        /\ workers'[h] = CancelWorkers(h)
        /\ wanted'[h] = Empty
        /\ gen \in Nat
    <3>1. CancelHandle(h) = [done |-> FALSE, buffer |-> Empty, pid |-> 0,
                             wake_fd |-> 0, generation |-> gen + 1]
      BY DEF CancelHandle, Blank
    <3>2. gen \in Nat
      BY DEF IInv, TypeOK, Proc
    <3> QED
      BY <3>1, <3>2 DEF Cancel, IInv, TypeOK
  <2>2. ASSUME NEW w \in workers'[h]
        PROVE  \E v \in workers[h] :
                   /\ w = IF v.gen = proc[h].pid /\ v.child = "running"
                          THEN [v EXCEPT !.child = "killed"] ELSE v
                   /\ v \in Worker
    BY <2>1 DEF CancelWorkers, IInv, TypeOK
  <2>3. ASSUME NEW w \in workers'[h]
        PROVE  /\ w.gen \in Nat /\ w.gen <= gen
               /\ w.gen = gen => w.child # "running"
    <3>1. PICK v \in workers[h] :
               /\ w = IF v.gen = proc[h].pid /\ v.child = "running"
                      THEN [v EXCEPT !.child = "killed"] ELSE v
               /\ v \in Worker
      BY <2>2
    <3>2. w.gen = v.gen /\ v.gen \in Nat
      BY <3>1 DEF Worker, Runs
    <3>3. v.gen <= gen /\ (v.gen = gen => proc[h].pid = v.gen)
      BY DEF IInv, HandleInv, GenerationsDistinct, CurrentWorker
    <3> QED
      BY <3>1, <3>2, <3>3 DEF Worker
  <2>4. GenerationsDistinct(h)'
    <3>1. ASSUME NEW v \in workers'[h], NEW w \in workers'[h], v.gen = w.gen
          PROVE  v = w
      <4>1. PICK v0 \in workers[h] :
                   /\ v = IF v0.gen = proc[h].pid /\ v0.child = "running"
                          THEN [v0 EXCEPT !.child = "killed"] ELSE v0
                   /\ v0 \in Worker
        BY <2>2
      <4>2. PICK w0 \in workers[h] :
                   /\ w = IF w0.gen = proc[h].pid /\ w0.child = "running"
                          THEN [w0 EXCEPT !.child = "killed"] ELSE w0
                   /\ w0 \in Worker
        BY <2>2
      <4>3. v0.gen = w0.gen
        BY <3>1, <4>1, <4>2 DEF Worker
      <4> QED
        BY <4>1, <4>2, <4>3 DEF IInv, HandleInv, GenerationsDistinct
    <3> QED
      BY <2>1, <2>3, <3>1 DEF GenerationsDistinct
  <2>5. CurrentWorker(h)' /\ PidHasWorker(h)' /\ DoneIsCurrent(h)'
    BY <2>1, <2>3 DEF CurrentWorker, PidHasWorker, DoneIsCurrent
  <2>6. UnwantedIsKilled(h)'
    BY <2>1, <2>3 DEF UnwantedIsKilled
  <2> QED
    BY <2>4, <2>5, <2>6 DEF HandleInv
<1>2. ASSUME NEW g \in Handles, g # h
      PROVE  HandleInv(g)'
  BY <1>2, OtherHandles DEF IInv, TypeOK, Cancel
<1> QED
  BY <1>1, <1>2 DEF IInv

\* A worker whose record changes in child or reaped only, child not to killed
\* and not from running back.
LEMMA WorkerUpdateKeeps ==
  ASSUME IInv, TypeOK', NEW h \in Handles, NEW w \in workers[h],
         NEW c \in {"exited", "killed"}, NEW r \in BOOLEAN,
         c = "killed" => w.child = "killed",
         workers' = [workers EXCEPT ![h] = (@ \ {w}) \union
                        {[w EXCEPT !.child = c, !.reaped = r]}],
         UNCHANGED <<proc, readable, wanted, seen>>
  PROVE  IInv'
<1> DEFINE new == [w EXCEPT !.child = c, !.reaped = r]
<1>0. /\ workers'[h] = (workers[h] \ {w}) \union {new}
      /\ w \in Worker
      /\ new.gen = w.gen /\ new.job = w.job /\ new.child = c
      /\ HandleInv(h)
  BY DEF IInv, TypeOK, Worker
<1> HIDE DEF new
<1>1. HandleInv(h)'
  <2>1. GenerationsDistinct(h)'
    BY <1>0 DEF HandleInv, GenerationsDistinct
  <2>2. CurrentWorker(h)'
    BY <1>0 DEF HandleInv, CurrentWorker
  <2>3. PidHasWorker(h)'
    BY <1>0 DEF HandleInv, PidHasWorker
  <2>4. DoneIsCurrent(h)' /\ UnwantedIsKilled(h)'
    BY <1>0 DEF HandleInv, DoneIsCurrent, UnwantedIsKilled
  <2> QED
    BY <2>1, <2>2, <2>3, <2>4 DEF HandleInv
<1>2. ASSUME NEW g \in Handles, g # h
      PROVE  HandleInv(g)'
  BY <1>2, OtherHandles DEF IInv, TypeOK
<1> QED
  BY <1>1, <1>2 DEF IInv

LEMMA ChildExitsKeeps ==
  ASSUME IInv, TypeOK', NEW h \in Handles, ChildExits(h)
  PROVE  IInv'
<1>1. PICK w \in workers[h] :
        /\ w.child = "running"
        /\ workers' = [workers EXCEPT ![h] =
                         (@ \ {w}) \union {[w EXCEPT !.child = "exited"]}]
        /\ UNCHANGED <<proc, readable, wanted, seen>>
  BY DEF ChildExits
<1>2. w \in Worker
  BY DEF IInv, TypeOK
<1>3. [w EXCEPT !.child = "exited"]
        = [w EXCEPT !.child = "exited", !.reaped = w.reaped]
  BY <1>2 DEF Worker
<1>4. w.reaped \in BOOLEAN
  BY <1>2 DEF Worker
<1> QED
  BY <1>1, <1>3, <1>4, WorkerUpdateKeeps

LEMMA WorkerReapsKeeps ==
  ASSUME IInv, TypeOK', NEW h \in Handles, WorkerReaps(h)
  PROVE  IInv'
<1>1. PICK w \in workers[h] :
        /\ w.child # "running"
        /\ workers' = [workers EXCEPT ![h] =
                         (@ \ {w}) \union {[w EXCEPT !.reaped = TRUE]}]
        /\ UNCHANGED <<proc, readable, wanted, seen>>
  BY DEF WorkerReaps
<1>2. w \in Worker
  BY DEF IInv, TypeOK
<1>3. [w EXCEPT !.reaped = TRUE] = [w EXCEPT !.child = w.child, !.reaped = TRUE]
  BY <1>2 DEF Worker
<1>4. w.child \in {"exited", "killed"}
  BY <1>1, <1>2 DEF Worker
<1> QED
  BY <1>1, <1>3, <1>4, WorkerUpdateKeeps

LEMMA WorkerEndsKeeps ==
  ASSUME IInv, TypeOK', NEW h \in Handles, WorkerEnds(h)
  PROVE  IInv'
<1> USE AsyncProcessAssumption
<1>1. PICK w \in workers[h] :
        /\ w.reaped
        /\ IF proc[h].generation = w.gen
           THEN Deliver(h, w)
           ELSE UNCHANGED <<proc, readable>>
        /\ workers' = [workers EXCEPT ![h] = @ \ {w}]
        /\ UNCHANGED <<wanted, seen>>
  BY DEF WorkerEnds
<1>2. /\ workers'[h] = workers[h] \ {w}
      /\ w \in Worker
      /\ HandleInv(h)
  BY <1>1 DEF IInv, TypeOK
<1>3. HandleInv(h)'
  <2>1. CASE proc[h].generation = w.gen
    <3>1. /\ proc'[h] = Published(h, OutputOf(w))
          /\ readable'[h] = TRUE
      BY <1>1, <2>1 DEF Deliver, IInv, TypeOK
    <3>2. /\ proc'[h].generation = proc[h].generation
          /\ proc'[h].pid = 0
          /\ proc'[h].buffer = OutputOf(w)
          /\ proc'[h].done
      BY <3>1 DEF Published
    <3>3. /\ OutputOf(w) = w.job
          /\ wanted'[h] = w.job
          /\ w.job \in Jobs
      BY <1>1, <1>2, <2>1 DEF HandleInv, CurrentWorker, OutputOf, Worker
    <3>4. \A v \in workers'[h] : v.gen # proc'[h].generation
      BY <1>2, <2>1, <3>2 DEF HandleInv, GenerationsDistinct
    <3>5. GenerationsDistinct(h)'
      BY <1>2, <3>2 DEF HandleInv, GenerationsDistinct
    <3>6. CurrentWorker(h)'
      BY <3>4 DEF CurrentWorker
    <3>7. PidHasWorker(h)'
      BY <3>2 DEF PidHasWorker
    <3>8. DoneIsCurrent(h)'
      BY <3>1, <3>2, <3>3 DEF DoneIsCurrent
    <3>9. UnwantedIsKilled(h)'
      BY <3>3 DEF UnwantedIsKilled
    <3> QED
      BY <3>5, <3>6, <3>7, <3>8, <3>9 DEF HandleInv
  <2>2. CASE proc[h].generation # w.gen
    <3>1. UNCHANGED <<proc, readable, wanted, seen>>
      BY <1>1, <2>2
    <3> QED
      BY <1>2, <2>2, <3>1 DEF HandleInv, GenerationsDistinct, CurrentWorker,
                              PidHasWorker, DoneIsCurrent, UnwantedIsKilled
  <2> QED
    BY <2>1, <2>2
<1>4. ASSUME NEW g \in Handles, g # h
      PROVE  HandleInv(g)'
  <2>1. UNCHANGED <<proc[g], workers[g], readable[g], wanted[g], seen[g]>>
    BY <1>1, <1>4 DEF IInv, TypeOK, Deliver
  <2> QED
    BY <1>4, <2>1, OtherHandles DEF IInv
<1> QED
  BY <1>3, <1>4 DEF IInv

LEMMA Invariance == Spec => []IInv
<1>1. IInv /\ TypeOK' /\ [Next]_vars => IInv'
  <2> SUFFICES ASSUME IInv, TypeOK', [Next]_vars
               PROVE  IInv'
    OBVIOUS
  <2>1. CASE UNCHANGED vars
    BY <2>1 DEF vars, IInv, TypeOK, HandleInv, GenerationsDistinct,
       CurrentWorker, PidHasWorker, DoneIsCurrent, UnwantedIsKilled
  <2> QED
    BY <2>1, StartKeeps, PollKeeps, CancelKeeps, ChildExitsKeeps,
       WorkerReapsKeeps, WorkerEndsKeeps DEF Next, Caller, Background
<1> QED
  BY <1>1, Initially, WorkersTypeCorrect, PTL DEF Spec

-----------------------------------------------------------------------------
\* A finished handle never shows the output of a cancelled or superseded run.
THEOREM ResultAlwaysCurrent == Spec => []ResultIsCurrent
<1>1. IInv => ResultIsCurrent
  BY DEF IInv, HandleInv, DoneIsCurrent, ResultIsCurrent
<1> QED
  BY <1>1, Invariance, PTL

\* Cancel kills the current worker's child only, and a worker writes only the
\* eventfd that is open.
THEOREM CurrentWorkerAlwaysOwnsHandle == Spec => []CurrentWorkerOwnsHandle
<1>1. IInv => CurrentWorkerOwnsHandle
  BY DEF IInv, HandleInv, CurrentWorker, PidHasWorker, CurrentWorkerOwnsHandle
<1> QED
  BY <1>1, Invariance, PTL

\* A cancelled run is not left running.
THEOREM CancelledAlwaysKilled == Spec => []CancelledIsKilled
<1>1. IInv => CancelledIsKilled
  BY DEF IInv, HandleInv, UnwantedIsKilled, CancelledIsKilled
<1> QED
  BY <1>1, Invariance, PTL

\* An unseen result keeps the eventfd readable.
THEOREM CompletionAlwaysWakes == Spec => []CompletionWakes
<1>1. IInv => CompletionWakes
  BY DEF IInv, HandleInv, DoneIsCurrent, CompletionWakes
<1> QED
  BY <1>1, Invariance, PTL

-----------------------------------------------------------------------------
(* The handle as its owner sees it, and the steps of JobHandle it takes.   *)
View == [h \in Handles |-> Handle(h)]

Unreaped(h) == {w.gen : w \in {v \in workers[h] : ~v.reaped}}

Status(h) ==
    IF proc[h].done THEN "done" ELSE IF wanted[h] = Empty THEN "idle" ELSE "running"

JobOf(h) == IF proc[h].done THEN proc[h].buffer ELSE wanted[h]

LEMMA HandleFields ==
  ASSUME NEW h \in Handles
  PROVE  Handle(h) = [gen |-> proc[h].generation, status |-> Status(h),
                      job |-> JobOf(h), wake |-> readable[h],
                      unreaped |-> Unreaped(h)]
BY DEF Handle, Status, JobOf, Unreaped

LEMMA HandleFieldsNext ==
  ASSUME NEW h \in Handles
  PROVE  Handle(h)' = [gen |-> proc'[h].generation, status |-> Status(h)',
                       job |-> JobOf(h)', wake |-> readable'[h],
                       unreaped |-> Unreaped(h)']
BY DEF Handle, Status, JobOf, Unreaped

ViewTypeOK == \A h \in Handles : Handle(h) \in Abstract!Handle

\* A handle's view is typed as JobHandle has it: what is done was wanted.
LEMMA ViewTyped == IInv => ViewTypeOK
<1> SUFFICES ASSUME IInv, NEW h \in Handles
             PROVE  Handle(h) \in Abstract!Handle
  BY DEF ViewTypeOK
<1>1. /\ proc[h] \in Proc /\ workers[h] \in SUBSET Worker /\ readable[h] \in BOOLEAN
      /\ wanted[h] \in Jobs \union {Empty}
      /\ proc[h].done => proc[h].buffer = wanted[h]
  BY DEF IInv, TypeOK, HandleInv, DoneIsCurrent
<1>2. Unreaped(h) \in SUBSET Abstract!Runs
  BY <1>1 DEF Unreaped, Worker, Runs, Abstract!Runs
<1>3. Status(h) \in {"idle", "running", "done"} /\ JobOf(h) \in Jobs \union {Empty}
  BY <1>1 DEF Status, JobOf
<1> QED
  BY <1>1, <1>2, <1>3, HandleFields DEF Abstract!Handle, Proc

\* A step that concerns one handle changes the view of that handle only.
LEMMA ViewOfOne ==
  ASSUME NEW h \in Handles, NEW x, Handle(h)' = x,
         \A g \in Handles \ {h} :
             UNCHANGED <<proc[g], workers[g], readable[g], wanted[g]>>
  PROVE  View' = [View EXCEPT ![h] = x]
<1>1. ASSUME NEW g \in Handles \ {h}
      PROVE  Handle(g)' = Handle(g)
  BY <1>1 DEF Handle
<1> QED
  BY <1>1 DEF View

LEMMA StartIsStart ==
  ASSUME IInv, NEW h \in Handles, NEW job \in Jobs, Start(h, job)
  PROVE  Abstract!Start(h, job)
<1> USE AsyncProcessAssumption
<1> DEFINE gen == proc[h].generation + 1
           new == [gen |-> gen, job |-> job, child |-> "running", reaped |-> FALSE]
<1>1. /\ proc'[h].done = FALSE /\ proc'[h].generation = gen
      /\ workers'[h] = workers[h] \union {new}
      /\ readable'[h] = FALSE /\ wanted'[h] = job
      /\ proc[h].generation < MaxGeneration
  BY DEF Start, IInv, TypeOK
<1>2. \A g \in Handles \ {h} :
         UNCHANGED <<proc[g], workers[g], readable[g], wanted[g]>>
  BY DEF Start, IInv, TypeOK
<1>3. new.gen = gen /\ ~new.reaped
  OBVIOUS
<1> HIDE DEF new
<1>4. Unreaped(h)' = Unreaped(h) \union {gen}
  BY <1>1, <1>3 DEF Unreaped
<1>5. Status(h)' = "running" /\ JobOf(h)' = job
  BY <1>1 DEF Status, JobOf
<1>6. Handle(h)' = Abstract!Started(Handle(h), job)
  BY <1>1, <1>4, <1>5, HandleFields, HandleFieldsNext DEF Abstract!Started
<1>7. View' = [View EXCEPT ![h] = Abstract!Started(Handle(h), job)]
  BY <1>2, <1>6, ViewOfOne
<1>8. View[h].gen < MaxGeneration /\ View[h] = Handle(h)
  BY <1>1 DEF View, Handle
<1> QED
  BY <1>7, <1>8 DEF Abstract!Start, View

LEMMA CancelIsCancel ==
  ASSUME IInv, NEW h \in Handles, Cancel(h)
  PROVE  Abstract!Cancel(h)
<1> USE AsyncProcessAssumption
<1>1. /\ proc'[h].done = FALSE /\ proc'[h].generation = proc[h].generation + 1
      /\ workers'[h] = CancelWorkers(h)
      /\ readable'[h] = FALSE /\ wanted'[h] = Empty
      /\ proc[h].generation < MaxGeneration
  BY DEF Cancel, CancelHandle, Blank, IInv, TypeOK
<1>2. \A g \in Handles \ {h} :
         UNCHANGED <<proc[g], workers[g], readable[g], wanted[g]>>
  BY DEF Cancel, IInv, TypeOK
<1>3. Unreaped(h)' = Unreaped(h)
  <2> DEFINE kill(w) == IF w.gen = proc[h].pid /\ w.child = "running"
                        THEN [w EXCEPT !.child = "killed"] ELSE w
  <2>1. workers'[h] = {kill(w) : w \in workers[h]}
    BY <1>1 DEF CancelWorkers
  <2>2. \A w \in workers[h] : kill(w).gen = w.gen /\ kill(w).reaped = w.reaped
    BY DEF IInv, TypeOK, Worker
  <2> HIDE DEF kill
  <2> QED
    BY <2>1, <2>2 DEF Unreaped
<1>4. Status(h)' = "idle" /\ JobOf(h)' = Empty
  BY <1>1 DEF Status, JobOf
<1>5. Handle(h)' = Abstract!Cancelled(Handle(h))
  BY <1>1, <1>3, <1>4, HandleFields, HandleFieldsNext DEF Abstract!Cancelled
<1>6. View' = [View EXCEPT ![h] = Abstract!Cancelled(Handle(h))]
  BY <1>2, <1>5, ViewOfOne
<1>7. View[h].gen < MaxGeneration /\ View[h] = Handle(h)
  BY <1>1 DEF View, Handle
<1> QED
  BY <1>6, <1>7 DEF Abstract!Cancel, View

LEMMA PollIsPoll ==
  ASSUME IInv, NEW h \in Handles, Poll(h),
         Handle(h) \in Abstract!Handle, Handle(h)' \in Abstract!Handle
  PROVE  Abstract!Poll(h)
<1>1. /\ readable'[h] = FALSE /\ proc' = proc /\ workers' = workers /\ wanted' = wanted
      /\ \A g \in Handles \ {h} : readable'[g] = readable[g]
  BY DEF Poll, IInv, TypeOK
<1>2. Handle(h)' = Abstract!Polled(Handle(h))
  <2>1. Unreaped(h)' = Unreaped(h) /\ Status(h)' = Status(h) /\ JobOf(h)' = JobOf(h)
    BY <1>1 DEF Unreaped, Status, JobOf
  <2>2. /\ Handle(h)'.gen = Handle(h).gen /\ Handle(h)'.status = Handle(h).status
        /\ Handle(h)'.job = Handle(h).job /\ Handle(h)'.wake = FALSE
        /\ Handle(h)'.unreaped = Handle(h).unreaped
    BY <1>1, <2>1, HandleFields, HandleFieldsNext
  <2> QED
    BY <2>2 DEF Abstract!Polled, Abstract!Handle
<1>3. View' = [View EXCEPT ![h] = Abstract!Polled(Handle(h))]
  BY <1>1, <1>2, ViewOfOne
<1>4. View[h] = Handle(h)
  BY DEF View
<1> QED
  BY <1>3, <1>4 DEF Abstract!Poll, View

LEMMA ChildExitIsUnseen ==
  ASSUME IInv, NEW h \in Handles, ChildExits(h)
  PROVE  View' = View
<1>1. PICK w \in workers[h] :
        /\ workers' = [workers EXCEPT ![h] =
                         (@ \ {w}) \union {[w EXCEPT !.child = "exited"]}]
        /\ UNCHANGED <<proc, readable, wanted, seen>>
  BY DEF ChildExits
<1> DEFINE new == [w EXCEPT !.child = "exited"]
<1>2. /\ workers'[h] = (workers[h] \ {w}) \union {new}
      /\ \A g \in Handles \ {h} : workers'[g] = workers[g]
      /\ new.gen = w.gen /\ new.reaped = w.reaped
  BY <1>1 DEF IInv, TypeOK, Worker
<1> HIDE DEF new
<1>3. Unreaped(h)' = Unreaped(h)
  BY <1>2 DEF Unreaped
<1>4. Handle(h)' = Handle(h)
  BY <1>1, <1>3, HandleFields, HandleFieldsNext DEF Status, JobOf
<1>5. View' = [View EXCEPT ![h] = Handle(h)]
  BY <1>1, <1>2, <1>4, ViewOfOne
<1> QED
  BY <1>5 DEF View

LEMMA ReapIsReap ==
  ASSUME IInv, NEW h \in Handles, WorkerReaps(h)
  PROVE  Abstract!Reap(h)
<1>1. PICK w \in workers[h] :
        /\ ~w.reaped
        /\ workers' = [workers EXCEPT ![h] =
                         (@ \ {w}) \union {[w EXCEPT !.reaped = TRUE]}]
        /\ UNCHANGED <<proc, readable, wanted, seen>>
  BY DEF WorkerReaps
<1> DEFINE new == [w EXCEPT !.reaped = TRUE]
<1>2. /\ workers'[h] = (workers[h] \ {w}) \union {new}
      /\ \A g \in Handles \ {h} : workers'[g] = workers[g]
      /\ new.gen = w.gen /\ new.reaped
      /\ \A v \in workers[h] : v.gen = w.gen => v = w
  BY <1>1 DEF IInv, TypeOK, Worker, HandleInv, GenerationsDistinct
<1> HIDE DEF new
<1>3. Unreaped(h)' = Unreaped(h) \ {w.gen} /\ w.gen \in Unreaped(h)
  BY <1>1, <1>2 DEF Unreaped
<1>4. Handle(h)' = [Handle(h) EXCEPT !.unreaped = @ \ {w.gen}]
  BY <1>1, <1>3, HandleFields, HandleFieldsNext DEF Status, JobOf
<1>5. View' = [View EXCEPT ![h] = [Handle(h) EXCEPT !.unreaped = @ \ {w.gen}]]
  BY <1>1, <1>2, <1>4, ViewOfOne
<1>6. View[h] = Handle(h) /\ w.gen \in View[h].unreaped
  BY <1>3, HandleFields DEF View
<1>7. View' = [View EXCEPT ![h].unreaped = @ \ {w.gen}]
  BY <1>5, <1>6
<1> QED
  BY <1>6, <1>7 DEF Abstract!Reap, View

LEMMA EndIsFinish ==
  ASSUME IInv, NEW h \in Handles, WorkerEnds(h),
         Handle(h) \in Abstract!Handle, Handle(h)' \in Abstract!Handle
  PROVE  Abstract!Finish(h) \/ View' = View
<1> USE AsyncProcessAssumption
<1>1. PICK w \in workers[h] :
        /\ w.reaped
        /\ IF proc[h].generation = w.gen
           THEN Deliver(h, w)
           ELSE UNCHANGED <<proc, readable>>
        /\ workers' = [workers EXCEPT ![h] = @ \ {w}]
        /\ UNCHANGED <<wanted, seen>>
  BY DEF WorkerEnds
<1>2. /\ workers'[h] = workers[h] \ {w} /\ w \in Worker
      /\ \A g \in Handles \ {h} : workers'[g] = workers[g]
  BY <1>1 DEF IInv, TypeOK
<1>3. Unreaped(h)' = Unreaped(h)
  BY <1>1, <1>2 DEF Unreaped
<1>4. CASE proc[h].generation = w.gen
  <2>1. /\ proc[h].done = FALSE /\ wanted[h] = w.job /\ w.job # Empty
        /\ OutputOf(w) = w.job
        /\ \A v \in workers[h] : v.gen = w.gen => v = w
    BY <1>2, <1>4 DEF IInv, TypeOK, Proc, HandleInv, CurrentWorker,
       GenerationsDistinct, OutputOf, Worker
  <2>2. /\ proc'[h] = Published(h, OutputOf(w)) /\ readable'[h] = TRUE
        /\ \A g \in Handles \ {h} : proc'[g] = proc[g] /\ readable'[g] = readable[g]
    BY <1>1, <1>4 DEF Deliver, IInv, TypeOK
  <2>3. /\ proc'[h].done /\ proc'[h].buffer = w.job
        /\ proc'[h].generation = proc[h].generation
    BY <2>1, <2>2 DEF Published
  <2>4. Status(h) = "running" /\ Status(h)' = "done" /\ JobOf(h)' = JobOf(h)
    BY <2>1, <2>3 DEF Status, JobOf
  <2>5. Handle(h)' = [Handle(h) EXCEPT !.status = "done", !.wake = TRUE]
    <3>1. /\ Handle(h)'.gen = Handle(h).gen /\ Handle(h)'.status = "done"
          /\ Handle(h)'.job = Handle(h).job /\ Handle(h)'.wake = TRUE
          /\ Handle(h)'.unreaped = Handle(h).unreaped
      BY <1>3, <2>2, <2>3, <2>4, HandleFields, HandleFieldsNext
    <3> QED
      BY <3>1 DEF Abstract!Handle
  <2>6. View' = [View EXCEPT ![h] = [Handle(h) EXCEPT !.status = "done", !.wake = TRUE]]
    BY <1>1, <1>2, <2>2, <2>5, ViewOfOne
  <2>7. /\ View[h] = Handle(h) /\ View[h].status = "running"
        /\ View[h].gen = w.gen /\ View[h].unreaped = Unreaped(h)
    BY <1>4, <2>4, HandleFields DEF View
  <2>8. w.gen \notin Unreaped(h)
    BY <1>1, <2>1 DEF Unreaped
  <2>9. View' = [View EXCEPT ![h].status = "done", ![h].wake = TRUE]
    BY <2>6, <2>7 DEF View
  <2> QED
    BY <2>7, <2>8, <2>9 DEF Abstract!Finish, View
<1>5. CASE proc[h].generation # w.gen
  <2>1. UNCHANGED <<proc, readable, wanted>>
    BY <1>1, <1>5
  <2>2. Handle(h)' = Handle(h)
    BY <1>3, <2>1, HandleFields, HandleFieldsNext DEF Status, JobOf
  <2>3. View' = [View EXCEPT ![h] = Handle(h)]
    BY <1>2, <2>1, <2>2, ViewOfOne
  <2> QED
    BY <2>3 DEF View
<1> QED
  BY <1>4, <1>5

(* The safety part of ImplementsJobHandle: a handle with its workers       *)
(* starts as JobHandle's does, and each of its steps is a step of JobHandle*)
(* or one its owner cannot see.                                            *)
THEOREM RefinesJobHandle == Spec => Abstract!Init /\ [][Abstract!Next]_View
<1>1. Init => Abstract!Init
  <2> SUFFICES ASSUME Init
               PROVE  Abstract!Init
    OBVIOUS
  <2>1. ASSUME NEW h \in Handles
        PROVE  Handle(h) = Abstract!Fresh
    <3>1. /\ proc[h] = Blank(0) /\ workers[h] = {} /\ readable[h] = FALSE
          /\ wanted[h] = Empty
      BY DEF Init
    <3>2. Unreaped(h) = {}
      BY <3>1 DEF Unreaped
    <3>3. /\ Status(h) = "idle" /\ JobOf(h) = Empty /\ proc[h].generation = 0
      BY <3>1 DEF Status, JobOf, Blank
    <3> QED
      BY <3>1, <3>2, <3>3, HandleFields DEF Abstract!Fresh
  <2> QED
    BY <2>1 DEF Abstract!Init
<1>2. IInv => ViewTypeOK
  BY ViewTyped
<1>3. IInv' => ViewTypeOK'
  BY <1>2, PTL
<1>4. IInv /\ IInv' /\ [Next]_vars => [Abstract!Next]_View
  <2> SUFFICES ASSUME IInv, IInv', [Next]_vars
               PROVE  Abstract!Next \/ View' = View
    OBVIOUS
  <2>1. ASSUME NEW h \in Handles, Caller(h) \/ Background(h)
        PROVE  Abstract!Next \/ View' = View
    <3>1. CASE \E job \in Jobs : Start(h, job)
      BY <3>1, StartIsStart DEF Abstract!Next
    <3>2. CASE Poll(h)
      BY <1>2, <1>3, <3>2, PollIsPoll DEF ViewTypeOK, Abstract!Next
    <3>3. CASE Cancel(h)
      BY <3>3, CancelIsCancel DEF Abstract!Next
    <3>4. CASE ChildExits(h)
      BY <3>4, ChildExitIsUnseen
    <3>5. CASE WorkerReaps(h)
      BY <3>5, ReapIsReap DEF Abstract!Next
    <3>6. CASE WorkerEnds(h)
      BY <1>2, <1>3, <3>6, EndIsFinish DEF ViewTypeOK, Abstract!Next
    <3> QED
      BY <2>1, <3>1, <3>2, <3>3, <3>4, <3>5, <3>6 DEF Caller, Background
  <2>2. CASE UNCHANGED vars
    BY <2>2 DEF vars, View, Handle
  <2> QED
    BY <2>1, <2>2 DEF Next
<1> QED
  BY <1>1, <1>4, Invariance, PTL DEF Spec

-----------------------------------------------------------------------------
(* The network service.                                                    *)

State == Wifi!NetworkState
Chain == Wifi!Chain
Commands == Wifi!Commands

\* A stage of the scan has its flag up exactly while its command exists.
StagesFlagged(s) == \A c \in Chain : c \in s.on <=> s.cmd[c] # "idle"

OneStage(s) == \A c, d \in Chain : c \in s.on /\ d \in s.on => c = d

\* A command that exists has a handler that reads it, or was refused since.
HandlersListen(s) ==
    \A c \in Commands : s.cmd[c] # "idle" => c \in s.on \/ c \in s.refused

OffIsEmpty(s) == ~s.wifi => s.networks.known = {} /\ ~Wifi!Busy(s)

Chained(s) == StagesFlagged(s) /\ OneStage(s) /\ HandlersListen(s) /\ OffIsEmpty(s)

ScanComes(s) ==
    s.initDone /\ s.wifi /\ Chain \intersect s.refused = {}
        => Wifi!Busy(s) \/ s.rescan \/ s.debounce

Inductive == Wifi!TypeOK /\ Chained(net) /\ ScanComes(net)
-----------------------------------------------------------------------------
(* A list with every part within the networks around is a list.            *)
LEMMA ListParts ==
    ASSUME NEW k \in SUBSET Networks, NEW d \in SUBSET Networks,
           NEW e \in SUBSET Networks, NEW r \in SUBSET Networks
    PROVE  [known |-> k, connected |-> d, existing |-> e, range |-> r] \in Wifi!List
BY DEF Wifi!List

LEMMA BlankIsAnswer == Wifi!Blank \in Wifi!Answer
BY DEF Wifi!Blank, Wifi!Answer, Wifi!Ssids, Wifi!Replies

(* Starting a command keeps the types of the service's state.              *)
LEMMA StartedIsState ==
    ASSUME NEW s \in State, NEW c \in Commands, NEW F \in SUBSET Commands
    PROVE  Wifi!Started(s, c, F) \in State
BY BlankIsAnswer DEF State, Commands, Wifi!Started, Wifi!NetworkState

(* Polling a command (async_process_poll) keeps the types of the state and *)
(* takes the command's flag down with its process.                         *)
LEMMA PolledIsState ==
    ASSUME NEW s \in State, NEW c \in Commands
    PROVE  /\ Wifi!Polled(s, c) \in State
           /\ Wifi!Polled(s, c).on = s.on \ {c}
           /\ Wifi!Polled(s, c).cmd = [s.cmd EXCEPT ![c] = "idle"]
           /\ Wifi!Polled(s, c).refused = s.refused
           /\ Wifi!Polled(s, c).wifi = s.wifi
           /\ Wifi!Polled(s, c).networks = s.networks
           /\ Wifi!Polled(s, c).initDone = s.initDone
           /\ Wifi!Polled(s, c).profiles = s.profiles
BY BlankIsAnswer DEF State, Commands, Wifi!Polled, Wifi!NetworkState

(* Polling keeps the chain in order; polling the stage that runs frees it. *)
LEMMA PolledIsChained ==
    ASSUME NEW s \in State, Chained(s), NEW c \in Commands
    PROVE  /\ Chained(Wifi!Polled(s, c))
           /\ c \in Chain /\ c \in s.on => ~Wifi!Busy(Wifi!Polled(s, c))
<1>1. Wifi!Polled(s, c) \in State
  BY PolledIsState
<1>2. s.cmd \in [Commands -> {"idle", "running", "done"}]
  BY DEF State, Wifi!NetworkState, Commands
<1>3. Chain \subseteq Commands
  BY DEF Chain, Commands, Wifi!Commands
<1>. DEFINE t == Wifi!Polled(s, c)
<1>4. /\ t.on = s.on \ {c} /\ t.cmd = [s.cmd EXCEPT ![c] = "idle"]
      /\ t.refused = s.refused /\ t.wifi = s.wifi /\ t.networks = s.networks
  BY PolledIsState
<1>. HIDE DEF t
<1>5. StagesFlagged(t)
  BY <1>2, <1>3, <1>4 DEF Chained, StagesFlagged
<1>6. OneStage(t)
  BY <1>4 DEF Chained, OneStage
<1>7. HandlersListen(t)
  BY <1>2, <1>4 DEF Chained, HandlersListen
<1>8. OffIsEmpty(t)
  BY <1>4 DEF Chained, OffIsEmpty, Wifi!Busy
<1>9. c \in Chain /\ c \in s.on => ~Wifi!Busy(t)
  BY <1>4 DEF Chained, OneStage, Wifi!Busy, Chain
<1>. QED  BY <1>5, <1>6, <1>7, <1>8, <1>9 DEF t, Chained
-----------------------------------------------------------------------------
\* The fields the chain's order is about.
SameStages(s, t) ==
    t.on = s.on /\ t.cmd = s.cmd /\ t.refused = s.refused /\ t.wifi = s.wifi

(* A step that leaves the stages alone keeps the chain in order.           *)
LEMMA CarriedOver ==
    ASSUME NEW s, NEW t, SameStages(s, t), Chained(s),
           ~s.wifi => t.networks.known = {}
    PROVE  Chained(t)
BY DEF SameStages, Chained, StagesFlagged, OneStage, HandlersListen, OffIsEmpty,
       Wifi!Busy

(* schedule_rescan: with the timer set another scan comes.                 *)
LEMMA ScheduledComes ==
    ASSUME NEW s \in State, Chained(s)
    PROVE  LET t == Wifi!ScheduleRescan(s)
           IN  t \in State /\ Chained(t) /\ ScanComes(t)
<1>. DEFINE t == Wifi!ScheduleRescan(s)
<1>1. t \in State /\ SameStages(s, t) /\ t.networks = s.networks /\ t.rescan
  BY DEF State, SameStages, Wifi!NetworkState, Wifi!ScheduleRescan
<1>. HIDE DEF t
<1>2. Chained(t)
  BY <1>1, CarriedOver DEF Chained, OffIsEmpty
<1>3. ScanComes(t)
  BY <1>1 DEF ScanComes
<1>. QED  BY <1>1, <1>2, <1>3 DEF t

(* start_if_idle on a stage of the scan, no stage being under way and the  *)
(* radio on: the stage runs, or was refused.                               *)
LEMMA StageStarts ==
    ASSUME NEW s \in State, Chained(s), s.wifi, ~Wifi!Busy(s),
           NEW d \in Chain, NEW F \in SUBSET Commands
    PROVE  LET t == Wifi!StartIfIdle(s, d, F)
           IN  t \in State /\ Chained(t) /\ ScanComes(t)
<1>. DEFINE t == Wifi!StartIfIdle(s, d, F)
<1>1. d \in Commands /\ d \notin s.on
  BY DEF Chain, Commands, Wifi!Commands, Wifi!Busy
<1>2. t = Wifi!Started(s, d, F)
  BY <1>1 DEF Wifi!StartIfIdle
<1>3. t \in State
  BY <1>1, <1>2, StartedIsState
<1>4. /\ s.cmd \in [Commands -> {"idle", "running", "done"}]
      /\ s.on \subseteq Commands
  BY DEF State, Wifi!NetworkState, Commands
<1>5. CASE d \in F
  <2>0. /\ t.on = s.on \ {d} /\ t.cmd = s.cmd /\ t.refused = s.refused \union {d}
        /\ t.wifi = s.wifi /\ t.networks = s.networks
    BY <1>2, <1>5 DEF Wifi!Started, State, Wifi!NetworkState
  <2>. HIDE DEF t
  <2>1. /\ t.on = s.on /\ t.cmd = s.cmd /\ t.refused = s.refused \union {d}
        /\ t.wifi = s.wifi /\ t.networks = s.networks
    BY <1>1, <2>0
  <2>2. Chained(t)
    BY <2>1 DEF Chained, StagesFlagged, OneStage, HandlersListen, OffIsEmpty, Wifi!Busy
  <2>3. ScanComes(t)
    BY <2>1 DEF ScanComes, Chain
  <2>. QED  BY <1>3, <2>2, <2>3 DEF t
<1>6. CASE d \notin F
  <2>1. /\ t.on = s.on \union {d} /\ t.cmd = [s.cmd EXCEPT ![d] = "running"]
        /\ t.refused = s.refused \ {d} /\ t.wifi = s.wifi
        /\ t.networks = s.networks
    BY ONLY <1>2, <1>6, s \in State DEF Wifi!Started, State, Wifi!NetworkState
  <2>. HIDE DEF t
  <2>2. StagesFlagged(t)
    BY <1>1, <1>4, <2>1 DEF Chained, StagesFlagged, Chain, Commands, Wifi!Commands
  <2>3. OneStage(t)
    BY <2>1 DEF OneStage, Wifi!Busy, Chain
  <2>4. HandlersListen(t)
    BY <1>1, <1>4, <2>1 DEF Chained, HandlersListen
  <2>5. OffIsEmpty(t)
    BY <2>1 DEF OffIsEmpty
  <2>6. ScanComes(t)
    BY <2>1 DEF ScanComes, Wifi!Busy, Chain
  <2>. QED  BY <1>3, <2>2, <2>3, <2>4, <2>5, <2>6 DEF t, Chained
<1>. QED  BY <1>5, <1>6

(* network_scan: with the radio on a stage is under way afterwards, or the *)
(* first one was refused.                                                  *)
LEMMA ScanStarts ==
    ASSUME NEW s \in State, Chained(s), NEW F \in SUBSET Commands
    PROVE  LET t == Wifi!Scan(s, F)
           IN  t \in State /\ Chained(t) /\ ScanComes(t)
<1>. DEFINE t == Wifi!Scan(s, F)
<1>1. CASE ~s.wifi
  <2>1. t = s
    BY <1>1 DEF Wifi!Scan
  <2>. QED  BY <1>1, <2>1 DEF ScanComes
<1>2. CASE s.wifi /\ Wifi!Busy(s)
  <2>1. t = [s EXCEPT !.scanPending = TRUE]
    BY <1>2 DEF Wifi!Scan
  <2>2. t \in State /\ SameStages(s, t)
    BY <2>1 DEF State, SameStages, Wifi!NetworkState
  <2>. HIDE DEF t
  <2>3. Chained(t)
    BY <1>2, <2>2, CarriedOver
  <2>4. ScanComes(t)
    BY <1>2, <2>2 DEF ScanComes, SameStages, Wifi!Busy
  <2>. QED  BY <2>2, <2>3, <2>4 DEF t
<1>3. CASE s.wifi /\ ~Wifi!Busy(s)
  <2>. DEFINE u == Wifi!StartIfIdle(s, "profile", F)
  <2>1. t = [u EXCEPT !.scanning = TRUE]
    BY <1>3 DEF Wifi!Scan
  <2>2. "profile" \in Chain
    BY DEF Chain, Wifi!Chain
  <2>3. u \in State /\ Chained(u) /\ ScanComes(u)
    BY <1>3, <2>2, StageStarts
  <2>. HIDE DEF u
  <2>4. /\ t \in State /\ SameStages(u, t) /\ t.networks = u.networks
        /\ t.initDone = u.initDone /\ t.rescan = u.rescan /\ t.debounce = u.debounce
    BY <2>1, <2>3 DEF State, SameStages, Wifi!NetworkState
  <2>. HIDE DEF t
  <2>5. Chained(t)
    BY <2>3, <2>4, CarriedOver DEF Chained, OffIsEmpty
  <2>6. ScanComes(t)
    BY <2>3, <2>4 DEF ScanComes, SameStages, Wifi!Busy
  <2>. QED  BY <2>4, <2>5, <2>6 DEF t
<1>. QED  BY <1>1, <1>2, <1>3

(* A request of the user (Requested) touches no stage of the scan.         *)
LEMMA RequestKeepsChain ==
    ASSUME NEW s \in State, Chained(s), NEW c \in Wifi!Requests,
           NEW n \in Wifi!Ssids, NEW F \in SUBSET Commands
    PROVE  LET t == Wifi!Requested(s, c, n, F)
           IN  /\ t \in State /\ Chained(t)
               /\ ScanComes(s) => ScanComes(t)
<1>. DEFINE t == Wifi!Requested(s, c, n, F)
            asked == [s EXCEPT !.arg[c] = n]
<1>1. c \in Commands /\ c \notin Chain
  BY DEF Chain, Commands, Wifi!Commands, Wifi!Chain, Wifi!Requests
<1>2. asked \in State
  BY DEF State, Wifi!NetworkState
<1>3. t \in State
  <2>1. Wifi!Started(asked, c, F) \in State
    BY <1>1, <1>2, StartedIsState
  <2>. HIDE DEF asked
  <2>2. [Wifi!Started(asked, c, F) EXCEPT !.job[c] = n] \in State
    BY <2>1 DEF State, Wifi!NetworkState
  <2>. QED  BY <2>1, <2>2 DEF Wifi!Requested, asked
<1>4. /\ s.cmd \in [Commands -> {"idle", "running", "done"}]
      /\ s.on \subseteq Commands
  BY DEF State, Wifi!NetworkState, Commands
<1>5. /\ t.wifi = s.wifi /\ t.networks = s.networks
      /\ t.initDone = s.initDone /\ t.rescan = s.rescan /\ t.debounce = s.debounce
      /\ c \in F => /\ t.on = s.on \ {c} /\ t.cmd = s.cmd
                    /\ t.refused = s.refused \union {c}
      /\ c \notin F => /\ t.on = s.on \union {c}
                       /\ t.cmd = [s.cmd EXCEPT ![c] = "running"]
                       /\ t.refused = s.refused \ {c}
  <2>1. CASE c \in F
    BY <2>1 DEF Wifi!Requested, Wifi!Started, State, Wifi!NetworkState
  <2>2. CASE c \notin F
    BY <2>2 DEF Wifi!Requested, Wifi!Started, State, Wifi!NetworkState
  <2>. QED  BY <2>1, <2>2
<1>. HIDE DEF t
<1>6. \A d \in Chain : /\ d \in t.on <=> d \in s.on
                       /\ t.cmd[d] = s.cmd[d]
                       /\ d \in t.refused <=> d \in s.refused
  BY <1>1, <1>4, <1>5 DEF Chain, Commands, Wifi!Commands
<1>7. StagesFlagged(t) /\ OneStage(t)
  BY <1>6 DEF Chained, StagesFlagged, OneStage
<1>8. HandlersListen(t)
  BY <1>1, <1>4, <1>5 DEF Chained, HandlersListen
<1>9. Wifi!Busy(t) <=> Wifi!Busy(s)
  BY <1>6 DEF Wifi!Busy, Chain
<1>10. OffIsEmpty(t)
  BY <1>5, <1>9 DEF Chained, OffIsEmpty
<1>11. ScanComes(s) => ScanComes(t)
  BY <1>5, <1>6, <1>9 DEF ScanComes
<1>. QED  BY <1>3, <1>7, <1>8, <1>10, <1>11 DEF t, Chained
-----------------------------------------------------------------------------
\* What a handler owes: the types, the chain in order, another scan to come.
Kept(t) == t \in State /\ Chained(t) /\ ScanComes(t)

(* A stage that is under way finds the radio on, and frees the chain.      *)
LEMMA StagePolled ==
    ASSUME Inductive, NEW c \in Chain, c \in net.on
    PROVE  LET s == Wifi!Polled(net, c)
           IN  s \in State /\ Chained(s) /\ s.wifi /\ ~Wifi!Busy(s)
<1>1. net \in State /\ Chained(net) /\ c \in Commands
  BY DEF Inductive, Wifi!TypeOK, State, Chain, Commands, Wifi!Commands
<1>2. net.wifi
  BY <1>1 DEF Chained, OffIsEmpty, Wifi!Busy, Chain
<1>. QED  BY <1>1, <1>2, PolledIsState, PolledIsChained

(* What a command wrote and a parsed list are typed.                       *)
LEMMA ParsedIsList ==
    ASSUME NEW a \in Wifi!Answer, NEW P \in SUBSET Networks
    PROVE  Wifi!Parsed(a, P) \in Wifi!List
<1>1. /\ a.range \in SUBSET Networks /\ a.active \in Networks \union {0}
  BY DEF Wifi!Answer, Wifi!Ssids
<1>2. /\ a.range \union P \in SUBSET Networks
      /\ {a.active} \ {0} \in SUBSET Networks
  BY <1>1
<1>. QED  BY <1>1, <1>2, ListParts DEF Wifi!Parsed

(* network_poll_profile: the list may be filled, the radio being on, and   *)
(* the cached scan is started.                                             *)
LEMMA PollProfileKeeps ==
    ASSUME Inductive, "profile" \in net.on, NEW F \in SUBSET Commands
    PROVE  Kept(Wifi!PollProfile(F))
<1>. DEFINE p == Wifi!Polled(net, "profile")
            names == net.out["profile"].profiles
            s == [p EXCEPT !.profiles = names]
            filled == IF s.networks.known = {}
                      THEN [s EXCEPT !.networks =
                              [Wifi!EmptyList EXCEPT !.known = names, !.existing = names]]
                      ELSE s
<1>1. "profile" \in Chain /\ "quick" \in Chain /\ "profile" \in Commands
  BY DEF Chain, Commands, Wifi!Chain, Wifi!Commands
<1>2. p \in State /\ Chained(p) /\ p.wifi /\ ~Wifi!Busy(p)
  BY <1>1, StagePolled
<1>3. names \in SUBSET Networks
  BY <1>1 DEF Inductive, Wifi!TypeOK, Wifi!NetworkState, Wifi!Answer, Commands
<1>4. [Wifi!EmptyList EXCEPT !.known = names, !.existing = names] \in Wifi!List
  BY <1>3 DEF Wifi!EmptyList, Wifi!List
<1>5. Wifi!PollProfile(F) = Wifi!StartIfIdle(filled, "quick", F)
  <2>1. s.wifi
    BY <1>2 DEF State, Wifi!NetworkState
  <2>. QED  BY <2>1 DEF Wifi!PollProfile
<1>. HIDE DEF p, names
<1>6. filled \in State /\ SameStages(p, filled)
  BY <1>2, <1>3, <1>4 DEF State, Wifi!NetworkState, SameStages
<1>. HIDE DEF filled
<1>7. Chained(filled) /\ filled.wifi /\ ~Wifi!Busy(filled)
  BY <1>2, <1>6, CarriedOver DEF SameStages, Wifi!Busy
<1>. QED  BY <1>1, <1>5, <1>6, <1>7, StageStarts DEF Kept

(* network_poll_quick_scan: the cached list is taken and the forced scan   *)
(* started.                                                                *)
LEMMA PollQuickKeeps ==
    ASSUME Inductive, "quick" \in net.on, NEW F \in SUBSET Commands
    PROVE  Kept(Wifi!PollQuick(F))
<1>. DEFINE p == Wifi!Polled(net, "quick")
            quick == Wifi!Parsed(net.out["quick"], p.profiles)
            listed == IF quick.range # {} THEN [p EXCEPT !.networks = quick] ELSE p
<1>1. "quick" \in Chain /\ "scan" \in Chain /\ "quick" \in Commands
  BY DEF Chain, Commands, Wifi!Chain, Wifi!Commands
<1>2. p \in State /\ Chained(p) /\ p.wifi /\ ~Wifi!Busy(p)
  BY <1>1, StagePolled
<1>3. net.out["quick"] \in Wifi!Answer /\ p.profiles \in SUBSET Networks
  BY <1>1, <1>2 DEF Inductive, Wifi!TypeOK, State, Wifi!NetworkState, Commands
<1>4. quick \in Wifi!List
  BY <1>3, ParsedIsList
<1>5. Wifi!PollQuick(F) = Wifi!StartIfIdle(listed, "scan", F)
  BY <1>2 DEF Wifi!PollQuick
<1>. HIDE DEF p, quick
<1>6. listed \in State /\ SameStages(p, listed)
  BY <1>2, <1>4 DEF State, Wifi!NetworkState, SameStages
<1>. HIDE DEF listed
<1>7. Chained(listed) /\ listed.wifi /\ ~Wifi!Busy(listed)
  BY <1>2, <1>6, CarriedOver DEF SameStages, Wifi!Busy
<1>. QED  BY <1>1, <1>5, <1>6, <1>7, StageStarts DEF Kept

(* network_poll_scan: whatever becomes of the list, the timer is set.      *)
LEMMA PollScanKeeps ==
    ASSUME Inductive, "scan" \in net.on, NEW F \in SUBSET Commands
    PROVE  Kept(Wifi!PollScan(F))
<1>. DEFINE p == Wifi!Polled(net, "scan")
            parsed == Wifi!Parsed(net.out["scan"], p.profiles)
            listed == IF Wifi!WouldCollapse(p, parsed) THEN p
                      ELSE [p EXCEPT !.networks = parsed]
            next == IF p.scanPending
                    THEN [listed EXCEPT !.scanPending = FALSE, !.scanning = FALSE]
                    ELSE IF p.wifi /\ listed.networks.range = {} THEN listed
                    ELSE [listed EXCEPT !.scanning = FALSE]
<1>1. "scan" \in Chain /\ "scan" \in Commands
  BY DEF Chain, Commands, Wifi!Chain, Wifi!Commands
<1>2. p \in State /\ Chained(p) /\ p.wifi
  BY <1>1, StagePolled
<1>3. net.out["scan"] \in Wifi!Answer /\ p.profiles \in SUBSET Networks
  BY <1>1, <1>2 DEF Inductive, Wifi!TypeOK, State, Wifi!NetworkState, Commands
<1>4. parsed \in Wifi!List
  BY <1>3, ParsedIsList
<1>5. Wifi!PollScan(F) = Wifi!ScheduleRescan(next)
  BY DEF Wifi!PollScan
<1>. HIDE DEF p, parsed
<1>6. listed \in State /\ SameStages(p, listed)
  BY <1>2, <1>4 DEF State, Wifi!NetworkState, SameStages
<1>. HIDE DEF listed
<1>7. next \in State /\ SameStages(p, next)
  BY <1>6 DEF State, Wifi!NetworkState, SameStages
<1>. HIDE DEF next
<1>8. Chained(next)
  BY <1>2, <1>7, CarriedOver
<1>. QED  BY <1>5, <1>7, <1>8, ScheduledComes DEF Kept

(* The end of a request: its argument is cleared; the chain goes on.       *)
LEMMA RequestPolled ==
    ASSUME Inductive, NEW c \in Wifi!Requests
    PROVE  LET s == [Wifi!Polled(net, c) EXCEPT !.arg[c] = 0]
           IN  s \in State /\ Chained(s)
<1>. DEFINE p == Wifi!Polled(net, c)
            s == [p EXCEPT !.arg[c] = 0]
<1>1. net \in State /\ Chained(net) /\ c \in Commands
  BY DEF Inductive, Wifi!TypeOK, State, Commands, Wifi!Commands
<1>2. p \in State /\ Chained(p)
  BY <1>1, PolledIsState, PolledIsChained
<1>. HIDE DEF p
<1>3. s \in State /\ SameStages(p, s) /\ s.networks = p.networks
  BY <1>2 DEF State, Wifi!NetworkState, Wifi!Ssids, SameStages
<1>. HIDE DEF s
<1>4. Chained(s)
  BY <1>2, <1>3, CarriedOver DEF Chained, OffIsEmpty
<1>. QED  BY <1>3, <1>4 DEF s, p

(* network_poll_connect: marks the network, or forgets a profile whose     *)
(* secrets were wrong, and sets the timer.                                 *)
LEMMA PollConnectKeeps ==
    ASSUME Inductive, NEW F \in SUBSET Commands
    PROVE  Kept(Wifi!PollConnect(F))
<1>. DEFINE s == [Wifi!Polled(net, "connect") EXCEPT !.arg["connect"] = 0]
            n == net.arg["connect"]
            answered ==
              CASE net.out["connect"].reply = "activated" /\ n \in s.networks.known ->
                       [s EXCEPT !.networks.connected = @ \union {n},
                                 !.networks.existing = @ \union {n}]
                [] net.out["connect"].reply = "secrets" ->
                       Wifi!Requested(s, "forget", n, F)
                [] OTHER -> s
            over == [answered EXCEPT !.connecting = FALSE]
<1>1. "connect" \in Wifi!Requests /\ "forget" \in Wifi!Requests
  BY DEF Wifi!Requests
<1>2. s \in State /\ Chained(s)
  BY <1>1, RequestPolled
<1>3. n \in Wifi!Ssids
  BY <1>1 DEF Inductive, Wifi!TypeOK, Wifi!NetworkState
<1>4. Wifi!PollConnect(F) = Wifi!ScheduleRescan(over)
  BY DEF Wifi!PollConnect
<1>. HIDE DEF s, n
<1>5. answered \in State /\ Chained(answered)
  <2>1. CASE net.out["connect"].reply = "activated" /\ n \in s.networks.known
    <3>1. answered = [s EXCEPT !.networks.connected = @ \union {n},
                               !.networks.existing = @ \union {n}]
      BY <2>1
    <3>. HIDE DEF answered
    <3>2. s.networks \in Wifi!List /\ n \in Networks
      BY <1>2, <2>1 DEF State, Wifi!NetworkState, Wifi!List
    <3>3. /\ answered \in State /\ SameStages(s, answered)
          /\ answered.networks.known = s.networks.known
      BY <1>2, <3>1, <3>2 DEF State, Wifi!NetworkState, Wifi!List, SameStages
    <3>. QED  BY <1>2, <3>3, CarriedOver DEF Chained, OffIsEmpty
  <2>2. CASE /\ ~(net.out["connect"].reply = "activated" /\ n \in s.networks.known)
             /\ net.out["connect"].reply = "secrets"
    <3>1. answered = Wifi!Requested(s, "forget", n, F)
      BY <2>2
    <3>. QED  BY <1>1, <1>2, <1>3, <3>1, RequestKeepsChain
  <2>3. CASE /\ ~(net.out["connect"].reply = "activated" /\ n \in s.networks.known)
             /\ net.out["connect"].reply # "secrets"
    <3>1. answered = s
      BY <2>3
    <3>. QED  BY <1>2, <3>1
  <2>. QED  BY <2>1, <2>2, <2>3
<1>. HIDE DEF answered
<1>6. over \in State /\ SameStages(answered, over) /\ over.networks = answered.networks
  BY <1>5 DEF State, Wifi!NetworkState, SameStages
<1>. HIDE DEF over
<1>7. Chained(over)
  BY <1>5, <1>6, CarriedOver DEF Chained, OffIsEmpty
<1>. QED  BY <1>4, <1>6, <1>7, ScheduledComes DEF Kept

(* network_poll_disconnect.                                                *)
LEMMA PollDisconnectKeeps ==
    ASSUME Inductive, NEW F \in SUBSET Commands
    PROVE  Kept(Wifi!PollDisconnect(F))
<1>. DEFINE p == Wifi!Polled(net, "disconnect")
            t == [p EXCEPT !.networks.connected = @ \ {net.arg["disconnect"]},
                           !.arg["disconnect"] = 0]
<1>1. net \in State /\ Chained(net) /\ "disconnect" \in Commands
  BY DEF Inductive, Wifi!TypeOK, State, Commands, Wifi!Commands, Wifi!Requests
<1>2. p \in State /\ Chained(p)
  BY <1>1, PolledIsState, PolledIsChained
<1>3. Wifi!PollDisconnect(F) = Wifi!ScheduleRescan(t)
  BY DEF Wifi!PollDisconnect
<1>. HIDE DEF p
<1>4. t \in State /\ SameStages(p, t) /\ t.networks.known = p.networks.known
  BY <1>2 DEF State, Wifi!NetworkState, Wifi!Requests, Wifi!Ssids, Wifi!List, SameStages
<1>. HIDE DEF t
<1>5. Chained(t)
  BY <1>2, <1>4, CarriedOver DEF Chained, OffIsEmpty
<1>. QED  BY <1>3, <1>4, <1>5, ScheduledComes DEF Kept

(* network_poll_forget.                                                    *)
LEMMA PollForgetKeeps ==
    ASSUME Inductive, NEW F \in SUBSET Commands
    PROVE  Kept(Wifi!PollForget(F))
<1>. DEFINE p == Wifi!Polled(net, "forget")
            t == [p EXCEPT !.networks.existing = @ \ {net.arg["forget"]},
                           !.arg["forget"] = 0]
<1>1. net \in State /\ Chained(net) /\ "forget" \in Commands
  BY DEF Inductive, Wifi!TypeOK, State, Commands, Wifi!Commands, Wifi!Requests
<1>2. p \in State /\ Chained(p)
  BY <1>1, PolledIsState, PolledIsChained
<1>3. Wifi!PollForget(F) = Wifi!ScheduleRescan(t)
  BY DEF Wifi!PollForget
<1>. HIDE DEF p
<1>4. t \in State /\ SameStages(p, t) /\ t.networks.known = p.networks.known
  BY <1>2 DEF State, Wifi!NetworkState, Wifi!Requests, Wifi!Ssids, Wifi!List, SameStages
<1>. HIDE DEF t
<1>5. Chained(t)
  BY <1>2, <1>4, CarriedOver DEF Chained, OffIsEmpty
<1>. QED  BY <1>3, <1>4, <1>5, ScheduledComes DEF Kept
-----------------------------------------------------------------------------
(* The requests of the panel: network_scan, network_connect,               *)
(* network_disconnect and network_forget.                                  *)
LEMMA UserKeeps ==
    ASSUME Inductive, NEW F \in SUBSET Commands, NEW n \in Networks
    PROVE  /\ Kept(Wifi!ScanNow(F))
           /\ Kept(Wifi!Connect(n, F))
           /\ Kept(Wifi!Disconnect(n, F))
           /\ Kept(Wifi!Forget(n, F))
<1>1. net \in State /\ Chained(net) /\ ScanComes(net)
  BY DEF Inductive, Wifi!TypeOK, State
<1>2. Wifi!Requests = {"connect", "disconnect", "forget"} /\ n \in Wifi!Ssids
  BY DEF Wifi!Requests, Wifi!Ssids
<1>3. Kept(Wifi!ScanNow(F))
  BY <1>1, ScanStarts DEF Wifi!ScanNow, Kept
<1>4. Kept(Wifi!Connect(n, F))
  <2>. DEFINE s == [net EXCEPT !.connecting = TRUE]
  <2>1. s \in State /\ SameStages(net, s) /\ s.networks = net.networks
        /\ s.initDone = net.initDone /\ s.rescan = net.rescan
        /\ s.debounce = net.debounce
    BY <1>1 DEF State, Wifi!NetworkState, SameStages
  <2>2. Wifi!Connect(n, F) = IF net.connecting THEN net
                             ELSE Wifi!Requested(s, "connect", n, F)
    BY DEF Wifi!Connect
  <2>. HIDE DEF s
  <2>3. Chained(s)
    BY <1>1, <2>1, CarriedOver DEF Chained, OffIsEmpty
  <2>4. ScanComes(s)
    BY <1>1, <2>1 DEF ScanComes, SameStages, Wifi!Busy
  <2>5. Kept(Wifi!Requested(s, "connect", n, F))
    BY <1>2, <2>1, <2>3, <2>4, RequestKeepsChain DEF Kept
  <2>. QED  BY <1>1, <2>2, <2>5 DEF Kept
<1>5. Kept(Wifi!Disconnect(n, F)) /\ Kept(Wifi!Forget(n, F))
  BY <1>1, <1>2, RequestKeepsChain DEF Wifi!Disconnect, Wifi!Forget, Kept
<1>. QED  BY <1>3, <1>4, <1>5

(* The radio's signal: turned off, every stage is cancelled and the list   *)
(* emptied; turned on, the debounced scan is due.                          *)
LEMMA RadioKeeps ==
    ASSUME Inductive, NEW enabled \in BOOLEAN
    PROVE  Kept(Wifi!RadioChanged(net, enabled))
<1>. DEFINE t == Wifi!RadioChanged(net, enabled)
<1>1. net \in State /\ Chained(net) /\ ScanComes(net)
  BY DEF Inductive, Wifi!TypeOK, State
<1>2. CASE ~net.initDone
  <2>1. t = [net EXCEPT !.missed = enabled # net.wifi]
    BY <1>2 DEF Wifi!RadioChanged
  <2>2. t \in State /\ SameStages(net, t) /\ t.networks = net.networks /\ ~t.initDone
    BY <1>1, <1>2, <2>1 DEF State, Wifi!NetworkState, SameStages
  <2>. HIDE DEF t
  <2>3. Chained(t)
    BY <1>1, <2>2, CarriedOver DEF Chained, OffIsEmpty
  <2>. QED  BY <2>2, <2>3 DEF t, Kept, ScanComes
<1>3. CASE net.initDone /\ enabled = net.wifi
  <2>1. t = [net EXCEPT !.missed = FALSE]
    BY <1>3 DEF Wifi!RadioChanged
  <2>2. /\ t \in State /\ SameStages(net, t) /\ t.networks = net.networks
        /\ t.initDone = net.initDone /\ t.rescan = net.rescan
        /\ t.debounce = net.debounce
    BY <1>1, <2>1 DEF State, Wifi!NetworkState, SameStages
  <2>. HIDE DEF t
  <2>3. Chained(t)
    BY <1>1, <2>2, CarriedOver DEF Chained, OffIsEmpty
  <2>4. ScanComes(t)
    BY <1>1, <2>2 DEF ScanComes, SameStages, Wifi!Busy
  <2>. QED  BY <2>2, <2>3, <2>4 DEF t, Kept
<1>4. CASE net.initDone /\ enabled # net.wifi /\ enabled
  <2>1. t = [net EXCEPT !.missed = FALSE, !.wifi = TRUE, !.scanning = TRUE,
                        !.debounce = TRUE]
    BY <1>4 DEF Wifi!RadioChanged
  <2>2. /\ t \in State /\ t.on = net.on /\ t.cmd = net.cmd /\ t.refused = net.refused
        /\ t.wifi /\ t.debounce
    BY <1>1, <2>1 DEF State, Wifi!NetworkState
  <2>. HIDE DEF t
  <2>3. Chained(t)
    BY <1>1, <2>2 DEF Chained, StagesFlagged, OneStage, HandlersListen, OffIsEmpty
  <2>. QED  BY <2>2, <2>3 DEF t, Kept, ScanComes
<1>5. CASE net.initDone /\ enabled # net.wifi /\ ~enabled
  <2>1. t = [net EXCEPT !.missed = FALSE, !.wifi = FALSE, !.scanning = FALSE,
                        !.networks = Wifi!EmptyList, !.on = @ \ Chain,
                        !.cmd = [c \in Commands |-> IF c \in Chain THEN "idle"
                                                   ELSE net.cmd[c]],
                        !.out = [c \in Commands |-> IF c \in Chain THEN Wifi!Blank
                                                   ELSE net.out[c]]]
    BY <1>4, <1>5 DEF Wifi!RadioChanged, Chain, Commands
  <2>2. [c \in Commands |-> IF c \in Chain THEN "idle" ELSE net.cmd[c]]
          \in [Commands -> {"idle", "running", "done"}]
    BY <1>1 DEF State, Wifi!NetworkState, Commands
  <2>3. [c \in Commands |-> IF c \in Chain THEN Wifi!Blank ELSE net.out[c]]
          \in [Commands -> Wifi!Answer]
    BY <1>1, BlankIsAnswer DEF State, Wifi!NetworkState, Commands
  <2>4. Wifi!EmptyList \in Wifi!List /\ Wifi!EmptyList.known = {}
    BY DEF Wifi!EmptyList, Wifi!List
  <2>. HIDE DEF t
  <2>5. /\ t \in State /\ t.on = net.on \ Chain /\ t.refused = net.refused
        /\ t.cmd = [c \in Commands |-> IF c \in Chain THEN "idle" ELSE net.cmd[c]]
        /\ ~t.wifi /\ t.networks.known = {}
    BY <1>1, <2>1, <2>2, <2>3, <2>4 DEF State, Wifi!NetworkState, Commands
  <2>6. Chain \subseteq Commands
    BY DEF Chain, Commands, Wifi!Commands
  <2>7. StagesFlagged(t) /\ OneStage(t)
    BY <2>5, <2>6 DEF StagesFlagged, OneStage
  <2>8. HandlersListen(t)
    BY <1>1, <2>5 DEF Chained, HandlersListen
  <2>9. OffIsEmpty(t) /\ ScanComes(t)
    BY <2>5 DEF OffIsEmpty, ScanComes, Wifi!Busy, Chain
  <2>. QED  BY <2>5, <2>7, <2>8, <2>9 DEF t, Kept, Chained
<1>. QED  BY <1>2, <1>3, <1>4, <1>5

(* The handler network_init registers for PropertiesChanged.               *)
LEMMA SignalKeeps ==
    ASSUME Inductive, NEW sig \in Wifi!Signal, NEW F \in SUBSET Commands
    PROVE  Kept(Wifi!PropertiesChanged(sig, F))
<1>. DEFINE s == IF "WirelessEnabled" \in sig.keys
                 THEN Wifi!RadioChanged(net, sig.radio) ELSE net
<1>1. Kept(s)
  <2>1. sig.radio \in BOOLEAN
    BY DEF Wifi!Signal
  <2>2. Kept(net)
    BY DEF Inductive, Wifi!TypeOK, State, Kept
  <2>. QED  BY <2>1, <2>2, RadioKeeps
<1>2. Wifi!PropertiesChanged(sig, F) =
        IF "ActiveConnections" \in sig.keys THEN Wifi!ScheduleRescan(s) ELSE s
  BY DEF Wifi!PropertiesChanged
<1>. HIDE DEF s
<1>. QED  BY <1>1, <1>2, ScheduledComes DEF Kept

(* network_tick: each scan that was due is started or left pending.        *)
LEMMA TickKeeps ==
    ASSUME Inductive, NEW F \in SUBSET Commands
    PROVE  /\ Kept(Wifi!FirstTick(F))
           /\ \A due \in BOOLEAN : Kept(Wifi!Ticked(due, F))
<1>1. net \in State /\ Chained(net) /\ ScanComes(net)
  BY DEF Inductive, Wifi!TypeOK, State
<1>2. Kept(Wifi!FirstTick(F))
  <2>. DEFINE s == [net EXCEPT !.initDone = TRUE]
  <2>1. s \in State /\ SameStages(net, s) /\ s.networks = net.networks
    BY <1>1 DEF State, Wifi!NetworkState, SameStages
  <2>2. Wifi!FirstTick(F) = Wifi!Scan(s, F)
    BY DEF Wifi!FirstTick
  <2>. HIDE DEF s
  <2>3. Chained(s)
    BY <1>1, <2>1, CarriedOver DEF Chained, OffIsEmpty
  <2>. QED  BY <2>1, <2>2, <2>3, ScanStarts DEF Kept
<1>3. ASSUME NEW due \in BOOLEAN PROVE Kept(Wifi!Ticked(due, F))
  <2>. DEFINE s == [net EXCEPT !.debounce = FALSE]
              enabled == IF net.debounce THEN Wifi!Scan(s, F) ELSE net
              u == [enabled EXCEPT !.rescan = FALSE]
  <2>1. s \in State /\ SameStages(net, s) /\ s.networks = net.networks
    BY <1>1 DEF State, Wifi!NetworkState, SameStages
  <2>2. Wifi!Ticked(due, F) = IF net.rescan /\ due THEN Wifi!Scan(u, F) ELSE enabled
    BY DEF Wifi!Ticked
  <2>. HIDE DEF s
  <2>3. Chained(s)
    BY <1>1, <2>1, CarriedOver DEF Chained, OffIsEmpty
  <2>4. Kept(enabled)
    BY <1>1, <2>1, <2>3, ScanStarts DEF Kept
  <2>. HIDE DEF enabled
  <2>5. u \in State /\ SameStages(enabled, u) /\ u.networks = enabled.networks
    BY <2>4 DEF Kept, State, Wifi!NetworkState, SameStages
  <2>. HIDE DEF u
  <2>6. Chained(u)
    BY <2>4, <2>5, CarriedOver DEF Kept, Chained, OffIsEmpty
  <2>. QED  BY <2>2, <2>4, <2>5, <2>6, ScanStarts DEF Kept
<1>. QED  BY <1>2, <1>3

\* The state with a command over, its answer not yet read.
Ended(c, a) ==
    IF c \in Chain THEN [net EXCEPT !.cmd[c] = "done", !.out[c] = a]
    ELSE [net EXCEPT !.cmd[c] = "done", !.out[c] = a, !.job[c] = 0]

(* An nmcli command that ends leaves its answer to its handler.            *)
LEMMA EndKeeps ==
    ASSUME Inductive, NEW c \in Commands, net.cmd[c] = "running",
           NEW a \in Wifi!Answer
    PROVE  Kept(Ended(c, a))
<1>. DEFINE t == Ended(c, a)
<1>1. net \in State /\ Chained(net) /\ ScanComes(net)
  BY DEF Inductive, Wifi!TypeOK, State
<1>2. 0 \in Wifi!Ssids /\ (c \notin Chain => c \in Wifi!Requests)
  BY DEF Wifi!Ssids, Chain, Commands, Wifi!Commands
<1>3. /\ t \in State /\ t.cmd = [net.cmd EXCEPT ![c] = "done"] /\ t.on = net.on
      /\ t.refused = net.refused /\ t.wifi = net.wifi /\ t.networks = net.networks
      /\ t.initDone = net.initDone /\ t.rescan = net.rescan
      /\ t.debounce = net.debounce
  BY <1>1, <1>2 DEF Ended, State, Wifi!NetworkState, Commands
<1>. HIDE DEF t
<1>4. net.cmd \in [Commands -> {"idle", "running", "done"}]
  BY <1>1 DEF State, Wifi!NetworkState, Commands
<1>5. \A d \in Commands : t.cmd[d] # "idle" <=> net.cmd[d] # "idle"
  BY <1>3, <1>4
<1>6. Chain \subseteq Commands
  BY DEF Chain, Commands, Wifi!Commands
<1>7. Chained(t)
  BY <1>1, <1>3, <1>5, <1>6
  DEF Chained, StagesFlagged, OneStage, HandlersListen, OffIsEmpty, Wifi!Busy
<1>8. ScanComes(t)
  BY <1>1, <1>3 DEF ScanComes, Wifi!Busy
<1>. QED  BY <1>3, <1>7, <1>8 DEF Kept, t
-----------------------------------------------------------------------------
(* The machine stays one there can be, whatever is asked of it.            *)
LEMMA RadioIsWorld ==
    ASSUME world \in Wifi!World, NEW on \in BOOLEAN
    PROVE  Wifi!Radio(on) \in Wifi!World
BY DEF Wifi!Radio, Wifi!World, Wifi!Ssids

(* The signal that tells of a change is typed.                             *)
LEMMA BecomesTyped ==
    ASSUME signals \in Seq(Wifi!Signal), NEW w \in Wifi!World, Wifi!Becomes(w)
    PROVE  world' \in Wifi!World /\ signals' \in Seq(Wifi!Signal)
<1>. DEFINE keys == (IF w.radio # world.radio THEN {"WirelessEnabled"} ELSE {})
                    \union (IF w.active # world.active THEN {"ActiveConnections"} ELSE {})
            sig == [radio |-> w.radio, keys |-> keys]
<1>1. keys \in SUBSET {"WirelessEnabled", "ActiveConnections"}
  OBVIOUS
<1>2. w.radio \in BOOLEAN
  BY DEF Wifi!World
<1>3. sig \in Wifi!Signal
  BY <1>1, <1>2 DEF Wifi!Signal
<1>4. world' = w /\ signals' = IF keys = {} THEN signals ELSE Append(signals, sig)
  BY DEF Wifi!Becomes
<1>. HIDE DEF sig, keys
<1>5. Append(signals, sig) \in Seq(Wifi!Signal)
  BY <1>3
<1>. QED  BY <1>4, <1>5

(* What nmcli answers is typed, and so is the machine it leaves.           *)
LEMMA ResultsTyped ==
    ASSUME Inductive, NEW c \in Commands, NEW r \in Wifi!Results(c)
    PROVE  r.w \in Wifi!World /\ r.a \in Wifi!Answer
<1>1. /\ world \in Wifi!World
      /\ world.active \in Networks \union {0} /\ world.range \in SUBSET Networks
      /\ world.profiles \in SUBSET Networks
  BY DEF Inductive, Wifi!TypeOK, Wifi!World, Wifi!Ssids
<1>2. \A reply \in Wifi!Replies : [Wifi!Blank EXCEPT !.reply = reply] \in Wifi!Answer
  BY DEF Wifi!Blank, Wifi!Answer, Wifi!Ssids
<1>3. CASE c = "profile"
  <2>1. r = [w |-> world, a |-> [Wifi!Blank EXCEPT !.profiles = world.profiles]]
    BY <1>3 DEF Wifi!Results
  <2>. QED  BY <1>1, <2>1 DEF Wifi!Blank, Wifi!Answer, Wifi!Ssids, Wifi!Replies
<1>4. CASE c = "quick"
  <2>1. r = [w |-> world, a |-> [Wifi!Blank EXCEPT !.active = world.active,
                                                   !.range = world.range]]
    BY <1>4 DEF Wifi!Results
  <2>. QED  BY <1>1, <2>1 DEF Wifi!Blank, Wifi!Answer, Wifi!Ssids, Wifi!Replies
<1>5. CASE c = "scan"
  <2>1. PICK R \in {world.range} \union
                     (IF world.active = 0 THEN {} ELSE {{world.active}}) :
            r = [w |-> world, a |-> [Wifi!Blank EXCEPT !.active = world.active,
                                                       !.range = R]]
    BY <1>5 DEF Wifi!Results
  <2>2. R \in SUBSET Networks
    BY <1>1
  <2>. QED  BY <1>1, <2>1, <2>2 DEF Wifi!Blank, Wifi!Answer, Wifi!Ssids, Wifi!Replies
<1>6. CASE c = "connect"
  <2>. DEFINE n == net.job[c]
              joined == [world EXCEPT !.active = n, !.profiles = @ \union {n}]
  <2>1. \/ \E reply \in {"secrets", "failed"} :
               r = [w |-> world, a |-> [Wifi!Blank EXCEPT !.reply = reply]]
        \/ /\ n \in world.range
           /\ r = [w |-> joined, a |-> [Wifi!Blank EXCEPT !.reply = "activated"]]
    BY <1>6 DEF Wifi!Results
  <2>2. n \in world.range => joined \in Wifi!World
    BY <1>1 DEF Wifi!World, Wifi!Ssids
  <2>3. {"secrets", "failed", "activated"} \subseteq Wifi!Replies
    BY DEF Wifi!Replies
  <2>. HIDE DEF joined
  <2>. QED  BY <1>1, <1>2, <2>1, <2>2, <2>3
<1>7. CASE c \in {"disconnect", "forget"}
  <2>. DEFINE n == net.job[c]
              gone == IF world.active = n THEN [world EXCEPT !.active = 0] ELSE world
  <2>1. /\ r.w = IF c = "forget" THEN [gone EXCEPT !.profiles = @ \ {n}] ELSE gone
        /\ r.a = Wifi!Blank
    BY <1>7 DEF Wifi!Results
  <2>2. gone \in Wifi!World
    BY <1>1 DEF Wifi!World, Wifi!Ssids
  <2>. HIDE DEF gone
  <2>3. [gone EXCEPT !.profiles = @ \ {n}] \in Wifi!World
    BY <2>2 DEF Wifi!World
  <2>. QED  BY <2>1, <2>2, <2>3, BlankIsAnswer
<1>. QED  BY <1>3, <1>4, <1>5, <1>6, <1>7
          DEF Commands, Wifi!Commands, Wifi!Chain, Wifi!Requests
-----------------------------------------------------------------------------
(* One step of the service keeps the inductive invariant.                  *)
LEMMA NextKeeps ==
    ASSUME CommandsAssumption, Inductive, Wifi!Next
    PROVE  Inductive'
<1>1. /\ net \in State /\ Chained(net) /\ ScanComes(net) /\ Kept(net)
      /\ world \in Wifi!World /\ signals \in Seq(Wifi!Signal)
      /\ inputs \in 0..MaxInputs /\ faults \in 0..MaxFaults
  BY DEF Inductive, Wifi!TypeOK, State, Kept
<1>2. Wifi!Input => inputs' \in 0..MaxInputs
  BY <1>1 DEF Wifi!Input, CommandsAssumption
<1>3. faults > 0 /\ faults' = faults - 1 => faults' \in 0..MaxFaults
  BY <1>1 DEF CommandsAssumption
<1>4. {} \in SUBSET Commands /\ \A c \in Wifi!Commands : {c} \in SUBSET Commands
  BY DEF Commands
<1>5. SUFFICES /\ Kept(net') /\ world' \in Wifi!World /\ signals' \in Seq(Wifi!Signal)
               /\ inputs' \in 0..MaxInputs /\ faults' \in 0..MaxFaults
  BY DEF Inductive, Wifi!TypeOK, State, Kept, Chained, StagesFlagged, OneStage,
         HandlersListen, OffIsEmpty, ScanComes, Chain, Commands, Wifi!Busy,
         Wifi!NetworkState, Wifi!World, Wifi!Signal, Wifi!List, Wifi!Answer,
         Wifi!Ssids, Wifi!Chain, Wifi!Commands, Wifi!Requests, Wifi!Replies
<1>6. CASE Wifi!User
  <2>1. /\ inputs' \in 0..MaxInputs /\ UNCHANGED <<world, signals>>
        /\ faults' \in 0..MaxFaults
    BY <1>1, <1>2, <1>3, <1>6 DEF Wifi!User, Wifi!Step
  <2>2. \/ \E F \in SUBSET Commands : net' = Wifi!ScanNow(F)
        \/ \E n \in Networks, F \in SUBSET Commands :
              net' \in {Wifi!Connect(n, F), Wifi!Disconnect(n, F), Wifi!Forget(n, F)}
    BY <1>4, <1>6 DEF Wifi!User, Wifi!Step
  <2>3. ASSUME NEW F \in SUBSET Commands PROVE Kept(Wifi!ScanNow(F))
    BY <1>1, ScanStarts DEF Wifi!ScanNow, Kept
  <2>4. Kept(net')
    BY <2>2, <2>3, UserKeeps
  <2>. QED  BY <1>1, <2>1, <2>4
<1>7. CASE Wifi!SetWifiEnabled
  <2>1. (~net.wifi) \in BOOLEAN
    OBVIOUS
  <2>2. /\ Wifi!Becomes(Wifi!Radio(~net.wifi)) /\ UNCHANGED <<net, faults>>
        /\ inputs' \in 0..MaxInputs
    BY <1>2, <1>7 DEF Wifi!SetWifiEnabled
  <2>3. world' \in Wifi!World /\ signals' \in Seq(Wifi!Signal)
    BY <1>1, <2>1, <2>2, RadioIsWorld, BecomesTyped
  <2>. QED  BY <1>1, <2>2, <2>3
<1>8. CASE Wifi!WorldChanges
  <2>1. PICK w \in Wifi!World : Wifi!Becomes(w)
    BY <1>8 DEF Wifi!WorldChanges
  <2>2. world' \in Wifi!World /\ signals' \in Seq(Wifi!Signal)
    BY <1>1, <2>1, BecomesTyped
  <2>. QED  BY <1>1, <1>2, <1>8, <2>2 DEF Wifi!WorldChanges
<1>9. CASE Wifi!Dispatch
  <2>1. Head(signals) \in Wifi!Signal /\ Tail(signals) \in Seq(Wifi!Signal)
    BY <1>1, <1>9 DEF Wifi!Dispatch
  <2>2. \E F \in SUBSET Commands : net' = Wifi!PropertiesChanged(Head(signals), F)
    BY <1>4, <1>9 DEF Wifi!Dispatch, Wifi!Step
  <2>3. Kept(net')
    BY <2>1, <2>2, SignalKeeps
  <2>4. /\ signals' = Tail(signals) /\ UNCHANGED <<world, inputs>>
        /\ faults' \in 0..MaxFaults
    BY <1>1, <1>3, <1>9 DEF Wifi!Dispatch, Wifi!Step
  <2>. QED  BY <1>1, <2>1, <2>3, <2>4
<1>10. CASE \E due \in BOOLEAN : Wifi!Tick(due)
  <2>1. PICK due \in BOOLEAN : Wifi!Tick(due)
    BY <1>10
  <2>2. \E F \in SUBSET Commands :
            net' \in {Wifi!FirstTick(F), Wifi!Ticked(due, F)}
    BY <1>4, <2>1 DEF Wifi!Tick, Wifi!Step
  <2>3. Kept(net')
    BY <2>2, TickKeeps
  <2>4. UNCHANGED <<world, signals, inputs>> /\ faults' \in 0..MaxFaults
    BY <1>1, <1>3, <2>1 DEF Wifi!Tick, Wifi!Step
  <2>. QED  BY <1>1, <2>3, <2>4
<1>11. CASE \E c \in Wifi!Commands : Wifi!Poll(c)
  <2>1. PICK c \in Wifi!Commands : Wifi!Poll(c)
    BY <1>11
  <2>2. c \in net.on
    BY <2>1 DEF Wifi!Poll
  <2>3. \E F \in SUBSET Commands :
          \/ c = "profile" /\ net' = Wifi!PollProfile(F)
          \/ c = "quick" /\ net' = Wifi!PollQuick(F)
          \/ c = "scan" /\ net' = Wifi!PollScan(F)
          \/ c = "connect" /\ net' = Wifi!PollConnect(F)
          \/ c = "disconnect" /\ net' = Wifi!PollDisconnect(F)
          \/ c = "forget" /\ net' = Wifi!PollForget(F)
    BY <1>4, <2>1 DEF Wifi!Poll, Wifi!Step
  <2>4. Kept(net')
    BY <2>2, <2>3, PollProfileKeeps, PollQuickKeeps, PollScanKeeps, PollConnectKeeps,
       PollDisconnectKeeps, PollForgetKeeps
  <2>5. UNCHANGED <<world, signals, inputs>> /\ faults' \in 0..MaxFaults
    BY <1>1, <1>3, <2>1 DEF Wifi!Poll, Wifi!Step
  <2>. QED  BY <1>1, <2>4, <2>5
<1>12. CASE \E c \in Wifi!Commands : Wifi!CommandEnds(c)
  <2>1. PICK c \in Commands : Wifi!CommandEnds(c)
    BY <1>12 DEF Commands
  <2>2. PICK r \in Wifi!Results(c) :
          /\ net' = IF c \in Chain
                    THEN [net EXCEPT !.cmd[c] = "done", !.out[c] = r.a]
                    ELSE [net EXCEPT !.cmd[c] = "done", !.out[c] = r.a, !.job[c] = 0]
          /\ Wifi!Becomes(r.w)
    BY <2>1 DEF Wifi!CommandEnds, Chain
  <2>3. net.cmd[c] = "running" /\ UNCHANGED <<inputs, faults>>
    BY <2>1 DEF Wifi!CommandEnds
  <2>4. r.w \in Wifi!World /\ r.a \in Wifi!Answer
    BY <2>2, ResultsTyped
  <2>5. Kept(net')
    <3>1. net' = Ended(c, r.a)
      BY <2>2 DEF Ended
    <3>2. Kept(Ended(c, r.a))
      BY ONLY Inductive, c \in Commands, <2>3, <2>4, EndKeeps
    <3>. QED  BY ONLY <3>1, <3>2
  <2>6. world' \in Wifi!World /\ signals' \in Seq(Wifi!Signal)
    BY <1>1, <2>2, <2>4, BecomesTyped
  <2>. QED  BY <1>1, <2>3, <2>5, <2>6
<1>. QED  BY <1>6, <1>7, <1>8, <1>9, <1>10, <1>11, <1>12 DEF Wifi!Next

(* The service starts with nothing under way and nothing listed.           *)
LEMMA FreshKeeps ==
    ASSUME NEW w \in Wifi!World
    PROVE  /\ Kept(Wifi!Fresh(w))
           /\ ~w.radio => Kept([Wifi!Fresh(w) EXCEPT !.initDone = TRUE])
<1>. DEFINE t == Wifi!Fresh(w)
<1>1. /\ Wifi!EmptyList \in Wifi!List /\ Wifi!EmptyList.known = {}
      /\ w.radio \in BOOLEAN /\ 0 \in Wifi!Ssids
  BY DEF Wifi!EmptyList, Wifi!List, Wifi!World, Wifi!Ssids
<1>2. /\ t \in State /\ t.on = {} /\ t.cmd = [c \in Commands |-> "idle"]
      /\ t.networks.known = {} /\ ~t.initDone /\ t.wifi = w.radio
  BY <1>1, BlankIsAnswer DEF Wifi!Fresh, State, Wifi!NetworkState, Commands
<1>. HIDE DEF t
<1>3. Chain \subseteq Commands
  BY DEF Chain, Commands, Wifi!Commands
<1>4. Chained(t)
  BY <1>2, <1>3
  DEF Chained, StagesFlagged, OneStage, HandlersListen, OffIsEmpty, Wifi!Busy
<1>. DEFINE u == [t EXCEPT !.initDone = TRUE]
<1>5. u \in State /\ SameStages(t, u) /\ u.networks = t.networks
  BY <1>2 DEF State, Wifi!NetworkState, SameStages
<1>. HIDE DEF u
<1>6. Chained(u)
  BY <1>2, <1>4, <1>5, CarriedOver
<1>7. ~w.radio => ScanComes(u)
  BY <1>2, <1>5 DEF SameStages, ScanComes
<1>. QED  BY <1>2, <1>4, <1>5, <1>6, <1>7 DEF t, u, Kept, ScanComes
-----------------------------------------------------------------------------
(* The invariant's three parts say what the properties say.                *)
LEMMA InductiveSuffices ==
    ASSUME Inductive PROVE TypesOK /\ WifiOffIsEmpty /\ NothingStuck
<1>1. Chained(net) /\ ScanComes(net)
  BY DEF Inductive
<1>2. WifiOffIsEmpty
  BY <1>1 DEF Chained, StagesFlagged, OffIsEmpty, WifiOffIsEmpty, Wifi!WifiOffIsEmpty,
              Wifi!Busy, Chain
<1>3. \A c, d \in Chain \intersect net.on : c = d
  BY <1>1 DEF Chained, OneStage
<1>4. Wifi!ReadableIsRead
  BY <1>1 DEF Chained, HandlersListen, Wifi!ReadableIsRead, Commands
<1>5. NothingStuck
  BY <1>1, <1>3, <1>4 DEF NothingStuck, Wifi!ScanKeepsComing, ScanComes, Chain
<1>. QED  BY <1>2, <1>5 DEF Inductive, TypesOK

(* The service by itself: every behaviour of NetworkService keeps the      *)
(* inductive invariant.                                                    *)
THEOREM ServiceKeepsInductive == Wifi!Spec => []Inductive
<1>1. CommandsAssumption
  BY CommandsAssumption
<1>2. Wifi!Init => Inductive
  <2>. SUFFICES ASSUME Wifi!Init PROVE Inductive
    OBVIOUS
  <2>1. world \in Wifi!World /\ net = Wifi!Fresh(world)
    BY <1>1 DEF Wifi!Init, CommandsAssumption
  <2>2. Kept(net)
    BY <2>1, FreshKeeps
  <2>3. signals \in Seq(Wifi!Signal) /\ inputs \in 0..MaxInputs /\ faults \in 0..MaxFaults
    BY <1>1 DEF Wifi!Init, CommandsAssumption
  <2>. QED  BY <2>1, <2>2, <2>3 DEF Inductive, Wifi!TypeOK, Kept, State
<1>3. Inductive /\ [Wifi!Next]_(Wifi!vars) => Inductive'
  <2>1. Inductive /\ Wifi!Next => Inductive'
    BY <1>1, NextKeeps
  <2>2. Inductive /\ UNCHANGED Wifi!vars => Inductive'
    BY DEF Inductive, Wifi!vars, Wifi!TypeOK, Chained, StagesFlagged, OneStage,
           HandlersListen, OffIsEmpty, ScanComes, Wifi!Busy
  <2>. QED  BY <2>1, <2>2
<1>. QED  BY <1>2, <1>3, PTL DEF Wifi!Spec

(* The service is typed whatever the machine, the user and the commands do *)
(* (network_service.cpp).                                                  *)
THEOREM ServiceTypeCorrect == Wifi!Spec => []Wifi!TypeOK
BY ServiceKeepsInductive, PTL DEF Inductive
-----------------------------------------------------------------------------
(* The runs of MCCommands: the service moves, or rests while the handles   *)
(* of AsyncProcess move.                                                   *)
THEOREM InductiveHolds == MCSpec => []Inductive
<1>1. CommandsAssumption
  BY CommandsAssumption
<1>2. MCInit => Inductive
  <2>. SUFFICES ASSUME MCInit PROVE Inductive
    OBVIOUS
  <2>1. CASE part = "network"
    <3>1. /\ world \in Wifi!World /\ net = Wifi!Fresh(world) /\ signals = <<>>
          /\ inputs = MaxInputs /\ faults = MaxFaults
      BY <1>1, <2>1 DEF MCInit, Wifi!Init, CommandsAssumption
    <3>2. Kept(net)
      BY <3>1, FreshKeeps
    <3>3. signals \in Seq(Wifi!Signal) /\ inputs \in 0..MaxInputs /\ faults \in 0..MaxFaults
      BY <1>1, <3>1 DEF CommandsAssumption
    <3>. QED  BY <3>1, <3>2, <3>3 DEF Inductive, Wifi!TypeOK, Kept, State
  <2>2. CASE part # "network"
    <3>. DEFINE off == [radio |-> FALSE, active |-> 0, range |-> {}, profiles |-> {}]
    <3>1. /\ world = off /\ net = [Wifi!Fresh(off) EXCEPT !.initDone = TRUE]
          /\ signals = <<>> /\ inputs = 0 /\ faults = 0
      BY <2>2 DEF MCInit
    <3>2. off \in Wifi!World /\ ~off.radio
      BY DEF Wifi!World, Wifi!Ssids
    <3>. HIDE DEF off
    <3>3. Kept(net)
      BY <3>1, <3>2, FreshKeeps
    <3>4. signals \in Seq(Wifi!Signal) /\ inputs \in 0..MaxInputs /\ faults \in 0..MaxFaults
      BY <1>1, <3>1 DEF CommandsAssumption
    <3>. QED  BY <3>1, <3>2, <3>3, <3>4 DEF Inductive, Wifi!TypeOK, Kept, State
  <2>. QED  BY <2>1, <2>2
<1>3. Inductive /\ [MCNext]_<<part, vars, networkVars>> => Inductive'
  <2>1. Inductive /\ Wifi!Next => Inductive'
    BY <1>1, NextKeeps
  <2>2. Inductive /\ UNCHANGED networkVars => Inductive'
    BY DEF Inductive, networkVars, Wifi!TypeOK, Chained, StagesFlagged, OneStage,
           HandlersListen, OffIsEmpty, ScanComes, Wifi!Busy
  <2>. QED  BY <2>1, <2>2 DEF MCNext
<1>. QED  BY <1>2, <1>3, PTL DEF MCSpec

(* The network service is typed in every run of MCCommands.                *)
THEOREM TypeCorrect == MCSpec => []TypesOK
BY InductiveHolds, InductiveSuffices, PTL

(* Turning the radio off (RadioChanged) wins over every answer under way:  *)
(* no stage of a scan is left that could fill the list again.              *)
THEOREM RadioOffAlwaysWins == MCSpec => []WifiOffIsEmpty
BY InductiveHolds, InductiveSuffices, PTL

(* The scan never stops coming and no descriptor is left to spin the loop  *)
(* (PollProfile, PollQuick, PollScan, Ticked), refused starts excepted.    *)
THEOREM NothingEverStuck == MCSpec => []NothingStuck
BY InductiveHolds, InductiveSuffices, PTL
=============================================================================
