------------------------------ MODULE JobHandle ------------------------------
(***************************************************************************)
(* What a handle of core/async_process promises to the component that owns *)
(* it: the last job started is the one it reports, cancelling forgets it,  *)
(* and a completion makes the handle's descriptor readable until it is     *)
(* polled.  The children of cancelled and superseded runs linger in        *)
(* unreaped until a worker has waited for them.  AsyncProcess implements   *)
(* this specification; LauncherSearch is built on its operators.           *)
(***************************************************************************)
EXTENDS Naturals

CONSTANTS Handles, Jobs, Nothing, MaxGeneration

VARIABLE handle

Runs == 1..MaxGeneration

Handle ==
    [gen : 0..MaxGeneration, status : {"idle", "running", "done"},
     job : Jobs \union {Nothing}, wake : BOOLEAN, unreaped : SUBSET Runs]

TypeOK == handle \in [Handles -> Handle]

Fresh == [gen |-> 0, status |-> "idle", job |-> Nothing, wake |-> FALSE,
          unreaped |-> {}]

Started(x, job) ==
    [gen |-> x.gen + 1, status |-> "running", job |-> job, wake |-> FALSE,
     unreaped |-> x.unreaped \union {x.gen + 1}]

Cancelled(x) ==
    [gen |-> x.gen + 1, status |-> "idle", job |-> Nothing, wake |-> FALSE,
     unreaped |-> x.unreaped]

\* What a cancel returns: the run whose child it killed, 0 if there was none.
KilledBy(x) == IF x.status = "running" THEN x.gen ELSE 0

Polled(x) == [x EXCEPT !.wake = FALSE]

Init == handle = [h \in Handles |-> Fresh]

Start(h, job) ==
    /\ handle[h].gen < MaxGeneration
    /\ handle' = [handle EXCEPT ![h] = Started(@, job)]

Cancel(h) ==
    /\ handle[h].gen < MaxGeneration
    /\ handle' = [handle EXCEPT ![h] = Cancelled(@)]

Poll(h) == handle' = [handle EXCEPT ![h] = Polled(@)]

\* Some child of the handle is gone.
Reap(h) ==
    \E g \in handle[h].unreaped :
        handle' = [handle EXCEPT ![h].unreaped = @ \ {g}]

\* The job's worker, its child waited for, reports.
Finish(h) ==
    /\ handle[h].status = "running"
    /\ handle[h].gen \notin handle[h].unreaped
    /\ handle' = [handle EXCEPT ![h].status = "done", ![h].wake = TRUE]

Next ==
    \E h \in Handles :
        \/ \E job \in Jobs : Start(h, job)
        \/ Cancel(h) \/ Poll(h) \/ Reap(h) \/ Finish(h)

Spec == Init /\ [][Next]_handle /\ \A h \in Handles : WF_handle(Finish(h))
=============================================================================
