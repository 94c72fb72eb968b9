------------------------------- MODULE Mailbox -------------------------------
(***************************************************************************)
(* What core/deferred_call promises: a queue of callbacks that any thread  *)
(* may extend and that the main thread runs one at a time, each once, in   *)
(* the order in which they were posted, for as long as the main loop runs. *)
(***************************************************************************)
EXTENDS Naturals, Sequences

CONSTANT Posters          \* the threads that post callbacks

VARIABLES
    queue,                \* the calls posted and not yet run, oldest first
    sent,                 \* [Posters -> Nat] how many calls each has posted
    open                  \* the main loop can still run calls

vars == <<queue, sent, open>>

\* The n-th call posted by p.
Call == Posters \X Nat

Init ==
    /\ queue = <<>>
    /\ sent = [p \in Posters |-> 0]
    /\ open \in BOOLEAN

Post(p) ==
    /\ sent' = [sent EXCEPT ![p] = @ + 1]
    /\ queue' = Append(queue, <<p, sent[p] + 1>>)
    /\ UNCHANGED open

Run ==
    /\ open
    /\ queue # <<>>
    /\ queue' = Tail(queue)
    /\ UNCHANGED <<sent, open>>

Close ==
    /\ open
    /\ open' = FALSE
    /\ UNCHANGED <<queue, sent>>

Next == Run \/ Close \/ \E p \in Posters : Post(p)

Spec == Init /\ [][Next]_vars /\ WF_vars(Run)
=============================================================================
