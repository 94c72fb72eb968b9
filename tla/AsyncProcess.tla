---------------------------- MODULE AsyncProcess ----------------------------
(***************************************************************************)
(* core/async_process.cpp: a handle through which the main thread runs one *)
(* command at a time on a worker thread.  The handle outlives the workers: *)
(* it is restarted and cancelled while older workers still wait for their  *)
(* children, and its generation counter tells a worker whether the result  *)
(* it holds is still wanted.                                               *)
(*                                                                         *)
(* A run of the handle (one successful async_process_start) is named by    *)
(* its generation, and so are its pid and its eventfd: each start gets     *)
(* fresh ones.  0 stands for the -1 of an unset pid or descriptor.         *)
(***************************************************************************)
EXTENDS Naturals, FiniteSets

CONSTANTS
    Handles,          \* the AsyncProcess structs of the program
    Jobs,             \* what a command prints: its argv, as far as we care
    Truncated,        \* the output of a command that was killed
    Empty,            \* an empty buffer
    MaxGeneration     \* bound: starts and cancels of a handle

ASSUME AsyncProcessAssumption ==
    /\ Truncated \notin Jobs
    /\ Empty \notin Jobs \union {Truncated}
    /\ MaxGeneration \in Nat

VARIABLES
    proc,             \* [Handles -> the fields of struct AsyncProcess]
    workers,          \* [Handles -> the detached worker threads still alive]
    readable,         \* [Handles -> BOOLEAN] the eventfd wake_fd is readable
    wanted,           \* the job of the last start, Empty after a cancel
    seen              \* the caller has polled that job to completion

vars == <<proc, workers, readable, wanted, seen>>

Output == Jobs \union {Truncated}
Runs == 1..MaxGeneration

\* child: the command's process; the worker reaps it before it takes the lock.
Worker ==
    [gen : Runs, job : Jobs, child : {"running", "exited", "killed"},
     reaped : BOOLEAN]

\* struct AsyncProcess.
Proc ==
    [done : BOOLEAN, buffer : Output \union {Empty}, pid : 0..MaxGeneration,
     wake_fd : 0..MaxGeneration, generation : 0..MaxGeneration]

TypeOK ==
    /\ proc \in [Handles -> Proc]
    /\ workers \in [Handles -> SUBSET Worker]
    /\ readable \in [Handles -> BOOLEAN]
    /\ wanted \in [Handles -> Jobs \union {Empty}]
    /\ seen \in [Handles -> BOOLEAN]

\* A handle that holds nothing, at generation g.
Blank(g) == [done |-> FALSE, buffer |-> Empty, pid |-> 0, wake_fd |-> 0,
             generation |-> g]

Init ==
    /\ proc = [h \in Handles |-> Blank(0)]
    /\ workers = [h \in Handles |-> {}]
    /\ readable = [h \in Handles |-> FALSE]
    /\ wanted = [h \in Handles |-> Empty]
    /\ seen = [h \in Handles |-> FALSE]
-----------------------------------------------------------------------------
\* async_process_start, called by the main thread.  The child is spawned, the
\* handle published under the lock and the worker detached; no other thread
\* can tell these steps apart.  A run already in progress is not killed.
Start(h, job) ==
    /\ proc[h].generation < MaxGeneration
    /\ LET gen == proc[h].generation + 1 IN
       /\ proc' = [proc EXCEPT ![h] = [done |-> FALSE, buffer |-> Empty,
                                       pid |-> gen, wake_fd |-> gen,
                                       generation |-> gen]]
       /\ workers' = [workers EXCEPT ![h] = @ \union
                        {[gen |-> gen, job |-> job, child |-> "running",
                          reaped |-> FALSE]}]
    /\ readable' = [readable EXCEPT ![h] = FALSE]
    /\ wanted' = [wanted EXCEPT ![h] = job]
    /\ seen' = [seen EXCEPT ![h] = FALSE]

\* async_process_poll: drain the eventfd, then report done.
Poll(h) ==
    /\ readable' = [readable EXCEPT ![h] = FALSE]
    /\ seen' = [seen EXCEPT ![h] = @ \/ proc[h].done]
    /\ UNCHANGED <<proc, workers, wanted>>

\* Mutant of CancelWorkers: the child is detached instead of killed.
CancelWorkersDetached(h) == workers[h]

\* kill(proc.pid, SIGKILL) reaches the child whose pid the handle still holds.
CancelWorkers(h) ==
    {IF w.gen = proc[h].pid /\ w.child = "running"
     THEN [w EXCEPT !.child = "killed"] ELSE w : w \in workers[h]}

\* Mutant of CancelHandle: the generation is left as it is.
CancelHandleKeepsGeneration(h) == Blank(proc[h].generation)

CancelHandle(h) == Blank(proc[h].generation + 1)

\* async_process_cancel.
Cancel(h) ==
    /\ proc[h].generation < MaxGeneration
    /\ workers' = [workers EXCEPT ![h] = CancelWorkers(h)]
    /\ proc' = [proc EXCEPT ![h] = CancelHandle(h)]
    /\ readable' = [readable EXCEPT ![h] = FALSE]
    /\ wanted' = [wanted EXCEPT ![h] = Empty]
    /\ seen' = [seen EXCEPT ![h] = FALSE]
-----------------------------------------------------------------------------
\* The command ends by itself.
ChildExits(h) ==
    \E w \in workers[h] :
        /\ w.child = "running"
        /\ workers' = [workers EXCEPT ![h] =
                         (@ \ {w}) \union {[w EXCEPT !.child = "exited"]}]
        /\ UNCHANGED <<proc, readable, wanted, seen>>

\* The worker reads end of file and waitpid returns.
WorkerReaps(h) ==
    \E w \in workers[h] :
        /\ w.child # "running"
        /\ ~w.reaped
        /\ workers' = [workers EXCEPT ![h] =
                         (@ \ {w}) \union {[w EXCEPT !.reaped = TRUE]}]
        /\ UNCHANGED <<proc, readable, wanted, seen>>

OutputOf(w) == IF w.child = "killed" THEN Truncated ELSE w.job

\* Mutant of Published: the pid of the reaped child stays in the handle.
PublishedWithPid(h, out) ==
    [done |-> TRUE, buffer |-> out, pid |-> proc[h].pid,
     wake_fd |-> proc[h].wake_fd, generation |-> proc[h].generation]

Published(h, out) ==
    [done |-> TRUE, buffer |-> out, pid |-> 0,
     wake_fd |-> proc[h].wake_fd, generation |-> proc[h].generation]

\* Mutant of Deliver: no write to the eventfd.
DeliverSilently(h, w) ==
    /\ proc' = [proc EXCEPT ![h] = Published(h, OutputOf(w))]
    /\ UNCHANGED readable

\* The worker's result is the current one: publish it and wake the poll loop.
Deliver(h, w) ==
    /\ proc' = [proc EXCEPT ![h] = Published(h, OutputOf(w))]
    /\ readable' = [readable EXCEPT ![h] = TRUE]

\* Mutant of WorkerEnds: the generation is not looked at.
WorkerEndsUnchecked(h) ==
    \E w \in workers[h] :
        /\ w.reaped
        /\ Deliver(h, w)
        /\ workers' = [workers EXCEPT ![h] = @ \ {w}]
        /\ UNCHANGED <<wanted, seen>>

\* The worker takes the lock, looks at the generation and ends.
WorkerEnds(h) ==
    \E w \in workers[h] :
        /\ w.reaped
        /\ IF proc[h].generation = w.gen
           THEN Deliver(h, w)
           ELSE UNCHANGED <<proc, readable>>
        /\ workers' = [workers EXCEPT ![h] = @ \ {w}]
        /\ UNCHANGED <<wanted, seen>>

\* The poll loop finds wake_fd readable.
WakePoll(h) == readable[h] /\ Poll(h)
-----------------------------------------------------------------------------
Caller(h) ==
    \/ \E job \in Jobs : Start(h, job)
    \/ Poll(h)
    \/ Cancel(h)

Background(h) == ChildExits(h) \/ WorkerReaps(h) \/ WorkerEnds(h)

Next == \E h \in Handles : Caller(h) \/ Background(h)

\* Worker threads run and the main loop serves a readable descriptor; nothing
\* makes a command end, and nothing makes the caller start or cancel.
Fairness ==
    \A h \in Handles : /\ WF_vars(WorkerReaps(h))
                       /\ WF_vars(WorkerEnds(h))
                       /\ WF_vars(WakePoll(h))

Spec == Init /\ [][Next]_vars /\ Fairness
-----------------------------------------------------------------------------
\* A finished handle holds the complete output of the last job started, and
\* never one that a cancelled or restarted run left behind.
ResultIsCurrent ==
    \A h \in Handles :
        proc[h].done => wanted[h] # Empty /\ proc[h].buffer = wanted[h]

\* The worker of the current generation, while it lives, owns the handle's pid
\* and eventfd: cancel kills that worker's child and no other, and the only
\* thread that writes the eventfd writes the open one, not a closed number.
CurrentWorkerOwnsHandle ==
    \A h \in Handles :
        /\ \A w \in workers[h] :
              w.gen = proc[h].generation =>
                /\ proc[h].pid = w.gen
                /\ proc[h].wake_fd = w.gen
                /\ w.child # "killed"
        /\ proc[h].pid # 0 =>
              \E w \in workers[h] : w.gen = proc[h].pid /\ w.gen = proc[h].generation

\* "A cancelled background process must be killed, not just detached": once
\* the handle wants nothing, the run it last held is not left running.
CancelledIsKilled ==
    \A h \in Handles : \A w \in workers[h] :
        wanted[h] = Empty /\ w.gen = proc[h].generation - 1 => w.child # "running"

\* A completion is never lost: an unseen result keeps the descriptor readable.
CompletionWakes ==
    \A h \in Handles : proc[h].done /\ ~seen[h] => readable[h]

\* When the current command ends, the caller gets to see its result unless it
\* cancels or restarts first.
ExitIsNoticed ==
    \A h \in Handles : \A g \in Runs :
        (\E w \in workers[h] : w.gen = g /\ w.gen = proc[h].generation
                                 /\ w.child = "exited")
          ~> (seen[h] \/ proc[h].generation # g)

\* The handle as its owner sees it through the pid, the buffer and the eventfd.
Handle(h) ==
    [gen |-> proc[h].generation,
     status |-> IF proc[h].done THEN "done"
                ELSE IF wanted[h] = Empty THEN "idle" ELSE "running",
     job |-> IF proc[h].done THEN proc[h].buffer ELSE wanted[h],
     wake |-> readable[h],
     unreaped |-> {w.gen : w \in {v \in workers[h] : ~v.reaped}}]

Abstract ==
    INSTANCE JobHandle WITH handle <- [h \in Handles |-> Handle(h)],
                            Nothing <- Empty

\* What the owner of a handle relies on: it runs or is done exactly while its
\* last start still counts, it reports that start's output, its completion
\* makes the descriptor readable until it is polled, and a run whose child was
\* waited for reports in the end.
ImplementsJobHandle == Abstract!Spec
=============================================================================
