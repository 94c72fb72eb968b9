---------------------------- MODULE DeferredCall ----------------------------
(***************************************************************************)
(* core/deferred_call.cpp and the part of the main loop (kokusei.cpp) that *)
(* serves it.  Worker threads push a callback under a mutex and then write *)
(* one byte to a non-blocking self pipe; the main loop polls the pipe,     *)
(* empties it, swaps the list out under the mutex and runs the callbacks.  *)
(* The push and the write are two steps, so a worker can be interrupted    *)
(* between them by a whole drain of the main thread.                       *)
(***************************************************************************)
EXTENDS Naturals, Sequences

CONSTANTS
    Workers,        \* the threads other than the main one that post callbacks
    Main,           \* the main thread: its callbacks may post callbacks too
    PipeCapacity,   \* bytes the pipe holds; a write to a full pipe is dropped
    ReadChunk,      \* sizeof(buf) in drain
    MaxCalls        \* bound: calls each thread posts

ASSUME DeferredCallAssumption ==
    /\ Main \notin Workers
    /\ PipeCapacity \in Nat \ {0}
    /\ ReadChunk \in Nat \ {0}
    /\ MaxCalls \in Nat

Posters == Workers \union {Main}

VARIABLES
    fd_ok,          \* pipe() succeeded in init: both fds are valid
    running,        \* app.running
    pipe,           \* bytes waiting in the pipe
    pending,        \* the mutex-protected vector of callbacks
    fns,            \* the local vector of drain: swapped out, not yet run
    wpc,            \* [Workers -> {"idle", "pushed"}] inside call_later or not
    pc,             \* where the main thread is
    sent            \* [Posters -> Nat] calls posted so far

vars == <<fd_ok, running, pipe, pending, fns, wpc, pc, sent>>

MainPC == {"poll", "read", "swap", "run", "incall", "pushed", "exit"}

TypeOK ==
    /\ fd_ok \in BOOLEAN
    /\ running \in BOOLEAN
    /\ pipe \in 0..PipeCapacity
    /\ pending \in Seq(Posters \X Nat)
    /\ fns \in Seq(Posters \X Nat)
    /\ wpc \in [Workers -> {"idle", "pushed"}]
    /\ pc \in MainPC
    /\ sent \in [Posters -> Nat]
-----------------------------------------------------------------------------
\* DeferredCall::init: without a pipe both fds stay -1.
Init ==
    /\ fd_ok \in BOOLEAN
    /\ running = TRUE
    /\ pipe = 0
    /\ pending = <<>>
    /\ fns = <<>>
    /\ wpc = [w \in Workers |-> "idle"]
    /\ pc = "poll"
    /\ sent = [p \in Posters |-> 0]

\* call_later, first half: the callback is appended under the mutex.
Push(p) ==
    /\ sent[p] < MaxCalls
    /\ sent' = [sent EXCEPT ![p] = @ + 1]
    /\ pending' = Append(pending, <<p, sent[p] + 1>>)

\* Mutant of WriteByte: the write is taken to succeed whatever the pipe holds.
WriteByteUnbounded == pipe' = IF fd_ok THEN pipe + 1 ELSE pipe

\* call_later, second half: one byte; EAGAIN on a full pipe is ignored.
WriteByte ==
    pipe' = IF fd_ok /\ pipe < PipeCapacity THEN pipe + 1 ELSE pipe

WorkerPush(w) ==
    /\ wpc[w] = "idle"
    /\ Push(w)
    /\ wpc' = [wpc EXCEPT ![w] = "pushed"]
    /\ UNCHANGED <<fd_ok, running, pipe, fns, pc>>

WorkerWrite(w) ==
    /\ wpc[w] = "pushed"
    /\ WriteByte
    /\ wpc' = [wpc EXCEPT ![w] = "idle"]
    /\ UNCHANGED <<fd_ok, running, pending, fns, pc, sent>>
-----------------------------------------------------------------------------
\* poll() reports the pipe readable: the poll source calls drain.
Wake ==
    /\ pc = "poll"
    /\ fd_ok
    /\ pipe > 0
    /\ pc' = "read"
    /\ UNCHANGED <<fd_ok, running, pipe, pending, fns, wpc, sent>>

\* Another source of the same iteration (the "kill" verb, a closed bar)
\* clears app.running; the sources found ready by this poll still run.
Stop ==
    /\ pc = "poll"
    /\ running' = FALSE
    /\ pc' = IF fd_ok /\ pipe > 0 THEN "read" ELSE "exit"
    /\ UNCHANGED <<fd_ok, pipe, pending, fns, wpc, sent>>

\* drain: read until the pipe is empty ...
ReadPipe ==
    /\ pc = "read"
    /\ IF pipe > 0
       THEN /\ pipe' = IF pipe > ReadChunk THEN pipe - ReadChunk ELSE 0
            /\ pc' = "read"
       ELSE /\ pc' = "swap"
            /\ UNCHANGED pipe
    /\ UNCHANGED <<fd_ok, running, pending, fns, wpc, sent>>

\* Mutant of SwapPending: the vector is copied out and never cleared.
SwapPendingCopies ==
    /\ pc = "swap"
    /\ fns' = pending
    /\ pc' = "run"
    /\ UNCHANGED <<fd_ok, running, pipe, pending, wpc, sent>>

\* ... and only then take the callbacks.
SwapPending ==
    /\ pc = "swap"
    /\ fns' = pending
    /\ pending' = <<>>
    /\ pc' = "run"
    /\ UNCHANGED <<fd_ok, running, pipe, wpc, sent>>

\* for (auto &fn : fns) fn();
RunCall ==
    /\ pc = "run"
    /\ fns # <<>>
    /\ fns' = Tail(fns)
    /\ pc' = "incall"
    /\ UNCHANGED <<fd_ok, running, pipe, pending, wpc, sent>>

\* The callback posts another callback from the main thread.
CallPush ==
    /\ pc = "incall"
    /\ Push(Main)
    /\ pc' = "pushed"
    /\ UNCHANGED <<fd_ok, running, pipe, fns, wpc>>

\* Mutant of CallWrite: the main thread "needs no wakeup" for its own posts.
CallWriteSkipped ==
    /\ pc = "pushed"
    /\ pc' = "incall"
    /\ UNCHANGED <<fd_ok, running, pipe, pending, fns, wpc, sent>>

CallWrite ==
    /\ pc = "pushed"
    /\ WriteByte
    /\ pc' = "incall"
    /\ UNCHANGED <<fd_ok, running, pending, fns, wpc, sent>>

CallReturn ==
    /\ pc = "incall"
    /\ pc' = "run"
    /\ UNCHANGED <<fd_ok, running, pipe, pending, fns, wpc, sent>>

\* drain returns; the loop goes round or ends.
DrainDone ==
    /\ pc = "run"
    /\ fns = <<>>
    /\ pc' = IF running THEN "poll" ELSE "exit"
    /\ UNCHANGED <<fd_ok, running, pipe, pending, fns, wpc, sent>>
-----------------------------------------------------------------------------
MainStep ==
    \/ Wake \/ ReadPipe \/ SwapPending \/ RunCall
    \/ CallPush \/ CallWrite \/ CallReturn \/ DrainDone

Next ==
    \/ MainStep
    \/ Stop
    \/ \E w \in Workers : WorkerPush(w) \/ WorkerWrite(w)

\* The main thread keeps running; a worker that pushed goes on to write; a
\* callback that can return does so (it does not post for ever).
Fairness ==
    /\ WF_vars(MainStep)
    /\ WF_vars(CallReturn)
    /\ \A w \in Workers : WF_vars(WorkerWrite(w))

Spec == Init /\ [][Next]_vars /\ Fairness
-----------------------------------------------------------------------------
\* No lost wakeup: whenever the main thread is outside the read-and-swap of
\* drain and callbacks are waiting, either the pipe is readable, so the next
\* poll returns at once, or some thread has pushed and not yet written its
\* byte.  Bytes read before the list is swapped are what makes this true.
NoLostWakeup ==
    /\ fd_ok
    /\ pending # <<>>
    /\ pc \in {"poll", "run", "incall"}
    => pipe > 0 \/ \E w \in Workers : wpc[w] = "pushed"

\* The local vector of drain is empty outside drain, and without a pipe drain
\* is never entered.
DrainLocal ==
    /\ fns # <<>> => pc \in {"run", "incall", "pushed"}
    /\ ~fd_ok => pc \in {"poll", "exit"}

\* Callbacks run once each, in the order they were pushed across all threads,
\* and every pushed callback is eventually run unless the loop stops: the
\* calls swapped out followed by those pending are the abstract queue.
Queue == INSTANCE Mailbox WITH
    queue <- fns \o pending,
    open <- fd_ok /\ pc # "exit"

RunsInOrder == Queue!Spec
=============================================================================
