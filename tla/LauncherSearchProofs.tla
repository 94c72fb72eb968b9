------------------------ MODULE LauncherSearchProofs ------------------------
(***************************************************************************)
(* Proofs about LauncherSearch, for any texts and any number of inputs.    *)
(*                                                                         *)
(* The four invariants are the ends of one argument: where a text that was *)
(* typed is on its way (in the debounce, in a restart that waits, in the   *)
(* commands that run, or on screen) and which query the handles work for.  *)
(***************************************************************************)
EXTENDS LauncherSearch, TLAPS

(* A handle is restarted or cancelled at most twice for each input: a key's
   tick cancels it and the restart starts it. *)
GenerationsCounted ==
    \A p \in Parts :
        handle[p].gen + (IF dirty THEN 2 ELSE 0) + (IF awaiting THEN 1 ELSE 0)
            <= 2 * (MaxInputs - inputs)

(* The search that runs is for a query, its commands are those that were
   started for it, and a restart does not wait while one runs. *)
SearchForQuery ==
    /\ running => query # Nothing
    /\ running => \A p \in spawned : handle[p].job = query
    /\ awaiting => pending # Nothing
    /\ ~(running /\ awaiting)

(* The text typed last is on its way to the results. *)
TextOnItsWay ==
    text \in Queries /\ ~dropped =>
        \/ dirty /\ effective = text
        \/ ~dirty /\ awaiting /\ pending = text
        \/ ~dirty /\ ~awaiting /\ running /\ query = text
        \/ ~dirty /\ ~awaiting /\ ~running
             /\ results # Nothing /\ results.query = text

Inductive ==
    /\ TypeOK
    /\ GenerationsCounted
    /\ SearchForQuery
    /\ NoOrphanSearch
    /\ ResultsOneQuery
    /\ TextOnItsWay
-----------------------------------------------------------------------------
(* What starting, cancelling and polling a handle make of it. *)
LEMMA StartedHolds ==
    ASSUME NEW x \in Job!Handle, NEW q \in Queries
    PROVE  /\ x.gen < MaxGeneration => Job!Started(x, q) \in Job!Handle
           /\ Job!Started(x, q).gen = x.gen + 1
           /\ Job!Started(x, q).job = q
<1>1. MaxGeneration \in Nat
  BY LauncherAssumption DEF LauncherAssumption, MaxGeneration
<1>2. x.gen \in 0..MaxGeneration /\ x.unreaped \in SUBSET Job!Runs
  BY DEF Job!Handle
<1>3. ASSUME x.gen < MaxGeneration
      PROVE  Job!Started(x, q) \in Job!Handle
  <2>1. x.gen + 1 \in 0..MaxGeneration /\ x.gen + 1 \in Job!Runs
    BY <1>1, <1>2, <1>3 DEF Job!Runs
  <2>2. x.unreaped \union {x.gen + 1} \in SUBSET Job!Runs
    BY <1>2, <2>1
  <2> QED
    BY <2>1, <2>2 DEF Job!Started, Job!Handle
<1> QED
  BY <1>3 DEF Job!Started

LEMMA CancelledHolds ==
    ASSUME NEW x \in Job!Handle
    PROVE  /\ x.gen < MaxGeneration => Job!Cancelled(x) \in Job!Handle
           /\ Job!Cancelled(x).gen = x.gen + 1
           /\ Job!Cancelled(x).status = "idle" /\ ~Job!Cancelled(x).wake
           /\ Job!KilledBy(x) \in 0..MaxGeneration
<1>1. MaxGeneration \in Nat
  BY LauncherAssumption DEF LauncherAssumption, MaxGeneration
<1>2. x.gen \in 0..MaxGeneration /\ x.unreaped \in SUBSET Job!Runs
  BY DEF Job!Handle
<1>3. x.gen < MaxGeneration => x.gen + 1 \in 0..MaxGeneration
  BY <1>1, <1>2
<1>4. x.gen < MaxGeneration => Job!Cancelled(x) \in Job!Handle
  BY <1>2, <1>3 DEF Job!Cancelled, Job!Handle
<1>5. Job!KilledBy(x) \in 0..MaxGeneration
  BY <1>1, <1>2 DEF Job!KilledBy
<1> QED
  BY <1>4, <1>5 DEF Job!Cancelled

LEMMA PolledHolds ==
    ASSUME NEW x \in Job!Handle
    PROVE  /\ Job!Polled(x) \in Job!Handle
           /\ Job!Polled(x).gen = x.gen /\ Job!Polled(x).job = x.job
           /\ Job!Polled(x).status = x.status /\ ~Job!Polled(x).wake
BY DEF Job!Polled, Job!Handle

LEMMA HandleTypes ==
    ASSUME TypeOK, NEW p \in Parts
    PROVE  /\ handle[p] \in Job!Handle /\ handle[p].gen \in Nat
           /\ handle[p].job \in Texts /\ handle[p].wake \in BOOLEAN
BY DEF TypeOK, Job!TypeOK, Job!Handle, Texts

(* A start begins the search of its query, on the parts whose start worked. *)
LEMMA StartNowHolds ==
    ASSUME TypeOK, NEW q \in Queries, StartNow(q),
           \A p \in Parts : handle[p].gen < MaxGeneration
    PROVE  /\ handle' \in [Parts -> Job!Handle]
           /\ \A p \in Parts : handle'[p].gen <= handle[p].gen + 1
           /\ spawned' \in SUBSET Parts
           /\ \A p \in spawned' : handle'[p].job = q
           /\ query' = q /\ running' = TRUE
<1>1. PICK S \in SUBSET Parts :
         /\ spawned' = S
         /\ handle' = [p \in Parts |-> IF p \in S THEN Job!Started(handle[p], q)
                                       ELSE handle[p]]
  BY DEF StartNow
<1>2. \A p \in Parts : handle[p] \in Job!Handle /\ handle[p].gen \in Nat
  BY HandleTypes
<1>3. \A p \in Parts : handle'[p] \in Job!Handle /\ handle'[p].gen <= handle[p].gen + 1
  <2> SUFFICES ASSUME NEW p \in Parts
               PROVE  handle'[p] \in Job!Handle /\ handle'[p].gen <= handle[p].gen + 1
    OBVIOUS
  <2>1. handle'[p] = IF p \in S THEN Job!Started(handle[p], q) ELSE handle[p]
    BY <1>1
  <2>2. /\ Job!Started(handle[p], q) \in Job!Handle
        /\ Job!Started(handle[p], q).gen = handle[p].gen + 1
    BY <1>2, StartedHolds
  <2> QED
    BY <1>2, <2>1, <2>2
<1>4. \A p \in spawned' : handle'[p].job = q
  BY <1>1, <1>2, StartedHolds
<1>5. handle' \in [Parts -> Job!Handle]
  BY <1>1, <1>3
<1> QED
  BY <1>1, <1>3, <1>4, <1>5 DEF StartNow

(* Cancelling leaves no part running and nothing to read. *)
LEMMA CancelAllHolds ==
    ASSUME TypeOK, CancelAll, \A p \in Parts : handle[p].gen < MaxGeneration
    PROVE  /\ handle' \in [Parts -> Job!Handle]
           /\ \A p \in Parts :
                 /\ handle'[p].gen = handle[p].gen + 1
                 /\ handle'[p].status # "running" /\ ~handle'[p].wake
<1>1. \A p \in Parts : handle'[p] = Job!Cancelled(handle[p])
  BY DEF CancelAll
<1>2. \A p \in Parts : /\ Job!Cancelled(handle[p]) \in Job!Handle
                        /\ Job!Cancelled(handle[p]).gen = handle[p].gen + 1
                        /\ Job!Cancelled(handle[p]).status = "idle"
                        /\ ~Job!Cancelled(handle[p]).wake
  BY HandleTypes, CancelledHolds
<1>3. handle' \in [Parts -> Job!Handle]
  BY <1>2 DEF CancelAll
<1> QED
  BY <1>1, <1>2, <1>3

(* What the workers may do to a handle. *)
LEMMA WorkerHolds ==
    ASSUME TypeOK, NEW p \in Parts, Job!Finish(p) \/ Job!Reap(p)
    PROVE  /\ handle' \in [Parts -> Job!Handle]
           /\ \A r \in Parts :
                 /\ handle'[r].gen = handle[r].gen
                 /\ handle'[r].job = handle[r].job
                 /\ handle'[r].status = "running" \/ handle'[r].wake
                       => handle[r].status = "running" \/ handle[r].wake
<1>1. handle \in [Parts -> Job!Handle] /\ handle[p] \in Job!Handle
  BY DEF TypeOK, Job!TypeOK
<1>2. CASE Job!Finish(p)
  <2> DEFINE x == [handle[p] EXCEPT !.status = "done", !.wake = TRUE]
  <2>1. handle' = [handle EXCEPT ![p] = x] /\ handle[p].status = "running"
    BY <1>1, <1>2 DEF Job!Finish
  <2>2. x \in Job!Handle /\ x.gen = handle[p].gen /\ x.job = handle[p].job
    BY <1>1 DEF Job!Handle
  <2> HIDE DEF x
  <2> QED
    BY <1>1, <2>1, <2>2
<1>3. ASSUME NEW g \in handle[p].unreaped,
             handle' = [handle EXCEPT ![p].unreaped = @ \ {g}]
      PROVE  /\ handle' \in [Parts -> Job!Handle]
             /\ \A r \in Parts :
                   /\ handle'[r].gen = handle[r].gen
                   /\ handle'[r].job = handle[r].job
                   /\ handle'[r].status = "running" \/ handle'[r].wake
                         => handle[r].status = "running" \/ handle[r].wake
  <2> DEFINE x == [handle[p] EXCEPT !.unreaped = @ \ {g}]
  <2>1. handle' = [handle EXCEPT ![p] = x]
    BY <1>1, <1>3
  <2>2. /\ x \in Job!Handle /\ x.gen = handle[p].gen /\ x.job = handle[p].job
        /\ x.status = handle[p].status /\ x.wake = handle[p].wake
    BY <1>1 DEF Job!Handle
  <2> HIDE DEF x
  <2> QED
    BY <1>1, <2>1, <2>2
<1> QED
  BY <1>2, <1>3 DEF Job!Reap
-----------------------------------------------------------------------------
LEMMA InitHolds == Init => Inductive
<1> SUFFICES ASSUME Init PROVE Inductive
  OBVIOUS
<1>1. /\ 0 \in 0..MaxGeneration /\ MaxInputs \in 0..MaxInputs
      /\ 2 * (MaxInputs - MaxInputs) = 0
  BY LauncherAssumption DEF LauncherAssumption, MaxGeneration
<1>2. handle \in [Parts -> Job!Handle] /\ \A p \in Parts : handle[p] = Job!Fresh
  BY <1>1 DEF Init, Job!Init, Job!Fresh, Job!Handle
<1>3. TypeOK
  BY <1>1, <1>2 DEF Init, TypeOK, Job!TypeOK, Texts, NoKill
<1>4. GenerationsCounted
  BY <1>1, <1>2 DEF Init, GenerationsCounted, Job!Fresh
<1>5. NoOrphanSearch
  BY <1>2 DEF NoOrphanSearch, Job!Fresh
<1>6. SearchForQuery /\ ResultsOneQuery /\ TextOnItsWay
  BY LauncherAssumption
     DEF Init, SearchForQuery, ResultsOneQuery, TextOnItsWay, LauncherAssumption
<1> QED
  BY <1>3, <1>4, <1>5, <1>6 DEF Inductive

(* Whoever may restart or cancel a handle has a generation left for it. *)
LEMMA GenerationLeft ==
    ASSUME TypeOK, GenerationsCounted, dirty \/ awaiting \/ inputs > 0
    PROVE  \A p \in Parts : handle[p].gen < MaxGeneration
<1> SUFFICES ASSUME NEW p \in Parts PROVE handle[p].gen < MaxGeneration
  OBVIOUS
<1>1. /\ MaxInputs \in Nat /\ inputs \in 0..MaxInputs /\ handle[p].gen \in Nat
      /\ dirty \in BOOLEAN /\ awaiting \in BOOLEAN
  BY HandleTypes, LauncherAssumption DEF TypeOK, LauncherAssumption
<1>2. handle[p].gen + (IF dirty THEN 2 ELSE 0) + (IF awaiting THEN 1 ELSE 0)
         <= 2 * (MaxInputs - inputs)
  BY DEF GenerationsCounted
<1> QED
  BY <1>1, <1>2 DEF MaxGeneration

(* The debounce of the last key: the search of its text starts, waits for a
   restart, or there is nothing to search. *)
LEMMA TickHolds ==
    ASSUME Inductive, Tick
    PROVE  Inductive'
<1>1. /\ TypeOK /\ GenerationsCounted /\ SearchForQuery /\ NoOrphanSearch
      /\ ResultsOneQuery /\ TextOnItsWay
  BY DEF Inductive
<1>2. /\ dirty /\ dirty' = FALSE /\ effective \in Texts
      /\ UNCHANGED <<text, effective, ui, dropped, inputs>>
  BY <1>1 DEF Tick, TypeOK
<1>3. \A p \in Parts : handle[p].gen < MaxGeneration /\ handle[p].gen \in Nat
  BY <1>1, <1>2, GenerationLeft, HandleTypes
<1>4. MaxInputs \in Nat /\ inputs \in 0..MaxInputs
  BY <1>1, LauncherAssumption DEF TypeOK, LauncherAssumption
<1>5. CASE effective = Nothing
  <2>1. results' = Nothing /\ UNCHANGED <<handle, running, query, restart, spawned>>
    BY <1>5 DEF Tick
  <2>2. TypeOK'
    BY <1>1, <1>2, <2>1 DEF TypeOK, Job!TypeOK, restart, ui
  <2>3. GenerationsCounted'
    BY <1>1, <1>2, <1>3, <1>4, <2>1 DEF GenerationsCounted, restart
  <2>4. TextOnItsWay'
    BY <1>1, <1>2, <1>5, LauncherAssumption DEF TextOnItsWay, LauncherAssumption
  <2>5. SearchForQuery' /\ NoOrphanSearch' /\ ResultsOneQuery'
    BY <1>1, <2>1 DEF SearchForQuery, NoOrphanSearch, ResultsOneQuery, restart
  <2> QED
    BY <2>2, <2>3, <2>4, <2>5 DEF Inductive
<1>6. CASE effective # Nothing
  <2>1. SearchStart /\ results' = results /\ effective \in Queries
    BY <1>2, <1>6 DEF Tick, Texts
  <2>2. CASE /\ awaiting /\ pending' = effective
             /\ UNCHANGED <<handle, running, query, awaiting, killed, grace, spawned>>
    <3>1. TypeOK'
      BY <1>1, <1>2, <2>1, <2>2 DEF TypeOK, Job!TypeOK, ui
    <3>2. GenerationsCounted'
      BY <1>1, <1>2, <1>3, <1>4, <2>2 DEF GenerationsCounted
    <3>3. SearchForQuery' /\ NoOrphanSearch' /\ ResultsOneQuery'
      BY <1>1, <1>6, <2>1, <2>2 DEF SearchForQuery, NoOrphanSearch, ResultsOneQuery
    <3>4. TextOnItsWay'
      BY <1>1, <1>2, <2>2 DEF TextOnItsWay
    <3> QED
      BY <3>1, <3>2, <3>3, <3>4 DEF Inductive
  <2>3. CASE /\ ~awaiting /\ running /\ CancelAll
             /\ killed' = [p \in Parts |-> Job!KilledBy(handle[p])]
             /\ grace' = FALSE /\ pending' = effective
             /\ running' = FALSE /\ awaiting' = TRUE
             /\ UNCHANGED <<query, spawned>>
    <3>1. /\ handle' \in [Parts -> Job!Handle]
          /\ \A p \in Parts : /\ handle'[p].gen = handle[p].gen + 1
                              /\ handle'[p].status # "running" /\ ~handle'[p].wake
      BY <1>1, <1>3, <2>3, CancelAllHolds
    <3>2. killed' \in [Parts -> 0..MaxGeneration]
      BY <1>1, <2>3, HandleTypes, CancelledHolds
    <3>3. TypeOK'
      BY <1>1, <1>2, <2>1, <2>3, <3>1, <3>2 DEF TypeOK, Job!TypeOK, ui
    <3>4. GenerationsCounted'
      BY <1>1, <1>2, <1>3, <1>4, <2>3, <3>1 DEF GenerationsCounted
    <3>5. SearchForQuery' /\ NoOrphanSearch' /\ ResultsOneQuery'
      BY <1>1, <1>6, <2>1, <2>3, <3>1 DEF SearchForQuery, NoOrphanSearch, ResultsOneQuery
    <3>6. TextOnItsWay'
      BY <1>1, <1>2, <2>3 DEF TextOnItsWay
    <3> QED
      BY <3>3, <3>4, <3>5, <3>6 DEF Inductive
  <2>4. CASE ~awaiting /\ ~running /\ StartNow(effective) /\ UNCHANGED restart
    <3>1. /\ handle' \in [Parts -> Job!Handle]
          /\ \A p \in Parts : handle'[p].gen <= handle[p].gen + 1
          /\ spawned' \in SUBSET Parts
          /\ \A p \in spawned' : handle'[p].job = effective
          /\ query' = effective /\ running' = TRUE
      BY <1>1, <1>3, <2>1, <2>4, StartNowHolds
    <3>2. TypeOK'
      BY <1>1, <1>2, <2>1, <2>4, <3>1 DEF TypeOK, Job!TypeOK, ui, restart
    <3>3. GenerationsCounted'
      <4> SUFFICES ASSUME NEW p \in Parts
                   PROVE  handle'[p].gen + 0 + 0 <= 2 * (MaxInputs - inputs)
        BY <1>2, <2>4 DEF GenerationsCounted, restart
      <4>1. handle'[p].gen <= handle[p].gen + 1 /\ handle'[p].gen \in Nat
        BY <3>1 DEF Job!Handle
      <4> QED
        BY <1>1, <1>2, <1>3, <1>4, <2>4, <4>1 DEF GenerationsCounted
    <3>4. SearchForQuery' /\ NoOrphanSearch' /\ ResultsOneQuery'
      BY <1>1, <1>6, <2>1, <2>4, <3>1
         DEF SearchForQuery, NoOrphanSearch, ResultsOneQuery, restart
    <3>5. TextOnItsWay'
      BY <1>1, <1>2, <2>4, <3>1 DEF TextOnItsWay, restart
    <3> QED
      BY <3>2, <3>3, <3>4, <3>5 DEF Inductive
  <2> QED
    BY <2>1, <2>2, <2>3, <2>4 DEF SearchStart
<1> QED
  BY <1>5, <1>6

(* The restart that waited. *)
LEMMA SearchStartPendingHolds ==
    ASSUME Inductive, SearchStartPending
    PROVE  Inductive'
<1>1. /\ TypeOK /\ GenerationsCounted /\ SearchForQuery /\ NoOrphanSearch
      /\ ResultsOneQuery /\ TextOnItsWay
  BY DEF Inductive
<1>2. /\ awaiting /\ awaiting' = FALSE /\ effective' = pending /\ ~running
      /\ killed' = NoKill /\ pending \in Queries
      /\ dropped' = (dropped \/ (dirty /\ effective # pending))
      /\ UNCHANGED <<text, dirty, pending, grace, results, ui, inputs>>
  BY <1>1 DEF SearchStartPending, SearchForQuery, TypeOK, Texts
<1>3. \A p \in Parts : handle[p].gen < MaxGeneration /\ handle[p].gen \in Nat
  BY <1>1, <1>2, GenerationLeft, HandleTypes
<1>4. /\ handle' \in [Parts -> Job!Handle]
      /\ \A p \in Parts : handle'[p].gen <= handle[p].gen + 1
      /\ spawned' \in SUBSET Parts
      /\ \A p \in spawned' : handle'[p].job = pending
      /\ query' = pending /\ running' = TRUE
  BY <1>1, <1>2, <1>3, StartNowHolds DEF SearchStartPending
<1>5. TypeOK'
  <2>1. /\ {text', effective', query', pending'} \subseteq Texts
        /\ {dirty', running', awaiting', grace', open', fading', surface', destroying',
            dropped'} \subseteq BOOLEAN
    BY <1>1, <1>2, <1>4 DEF TypeOK, ui, Texts
  <2>2. killed' \in [Parts -> 0..MaxGeneration]
    BY <1>2, LauncherAssumption DEF NoKill, MaxGeneration, LauncherAssumption
  <2> QED
    BY <1>1, <1>2, <1>4, <2>1, <2>2 DEF TypeOK, Job!TypeOK
<1>6. GenerationsCounted'
  <2> SUFFICES ASSUME NEW p \in Parts
               PROVE  handle'[p].gen + (IF dirty THEN 2 ELSE 0) + 0
                        <= 2 * (MaxInputs - inputs)
    BY <1>2 DEF GenerationsCounted
  <2>1. handle'[p].gen <= handle[p].gen + 1 /\ handle'[p].gen \in Nat
    BY <1>4 DEF Job!Handle
  <2>2. MaxInputs \in Nat /\ inputs \in 0..MaxInputs /\ dirty \in BOOLEAN
    BY <1>1, LauncherAssumption DEF TypeOK, LauncherAssumption
  <2> QED
    BY <1>1, <1>2, <1>3, <2>1, <2>2 DEF GenerationsCounted
<1>7. SearchForQuery' /\ NoOrphanSearch' /\ ResultsOneQuery'
  BY <1>1, <1>2, <1>4, LauncherAssumption
     DEF SearchForQuery, NoOrphanSearch, ResultsOneQuery, LauncherAssumption
<1>8. TextOnItsWay'
  BY <1>1, <1>2, <1>4 DEF TextOnItsWay
<1> QED
  BY <1>5, <1>6, <1>7, <1>8 DEF Inductive

(* The results of both commands are scored against the query they ran for. *)
LEMMA SearchPollHolds ==
    ASSUME Inductive, SearchPoll
    PROVE  Inductive'
<1>1. /\ TypeOK /\ GenerationsCounted /\ SearchForQuery /\ NoOrphanSearch
      /\ ResultsOneQuery /\ TextOnItsWay
  BY DEF Inductive
<1>2. /\ running /\ ~awaiting /\ query \in Queries /\ Collect
      /\ UNCHANGED <<text, effective, dirty, query, restart, ui, history, inputs>>
  BY <1>1 DEF SearchPoll, SearchForQuery, TypeOK, Texts
<1>3. /\ handle' \in [Parts -> Job!Handle]
      /\ \A p \in Parts : /\ handle'[p].gen = handle[p].gen
                          /\ handle'[p].job = handle[p].job
                          /\ handle'[p].status = handle[p].status
                          /\ ~handle'[p].wake
  BY <1>1, HandleTypes, PolledHolds DEF SearchPoll
<1>4. GenerationsCounted'
  BY <1>1, <1>2, <1>3 DEF GenerationsCounted, restart
<1>5. CASE running' = running /\ results' = results
  <2>1. TypeOK'
    BY <1>1, <1>2, <1>3, <1>5 DEF TypeOK, Job!TypeOK, ui, restart, history
  <2>2. SearchForQuery'
    BY <1>1, <1>2, <1>3, <1>5 DEF SearchForQuery, TypeOK, restart, history
  <2>3. NoOrphanSearch' /\ ResultsOneQuery' /\ TextOnItsWay'
    BY <1>1, <1>2, <1>3, <1>5
       DEF NoOrphanSearch, ResultsOneQuery, TextOnItsWay, restart, history
  <2> QED
    BY <1>4, <2>1, <2>2, <2>3 DEF Inductive
<1>6. CASE /\ \A p \in Parts : handle[p].status = "done"
           /\ running' = FALSE
           /\ results' = [query |-> query, out |-> [p \in Parts |-> Output(p)],
                          from |-> spawned]
  <2>1. \A p \in Parts : Output(p) \in Texts
    BY <1>1, HandleTypes DEF Output, Texts
  <2>2. results' \in Results
    BY <1>1, <1>2, <1>6, <2>1 DEF Results, TypeOK
  <2>3. TypeOK'
    BY <1>1, <1>2, <1>3, <1>6, <2>2 DEF TypeOK, Job!TypeOK, ui, restart, history
  <2>4. \A p \in spawned : Output(p) = query
    BY <1>1, <1>2, <1>6 DEF Output, SearchForQuery, TypeOK
  <2>5. ResultsOneQuery'
    BY <1>1, <1>6, <2>4 DEF ResultsOneQuery, TypeOK
  <2>6. results' # Nothing /\ results'.query = query
    BY <1>6, <2>2, NothingAssumption
  <2>7. NoOrphanSearch'
    BY <1>3, <1>6 DEF NoOrphanSearch
  <2>8. SearchForQuery'
    BY <1>1, <1>2, <1>6 DEF SearchForQuery, restart
  <2>9. TextOnItsWay'
    BY <1>1, <1>2, <1>6, <2>6 DEF TextOnItsWay, restart, history
  <2> QED
    BY <1>4, <2>3, <2>5, <2>7, <2>8, <2>9 DEF Inductive
<1> QED
  BY <1>2, <1>5, <1>6 DEF Collect

(* A step that touches neither the handles nor the results. *)
LEMMA ResultsKept ==
    ASSUME NoOrphanSearch, ResultsOneQuery, UNCHANGED <<handle, running, results>>
    PROVE  NoOrphanSearch' /\ ResultsOneQuery'
BY DEF NoOrphanSearch, ResultsOneQuery

(* A generation is counted for every input: a key's goes to the debounce. *)
LEMMA InputCounts ==
    ASSUME TypeOK, GenerationsCounted, Input
    PROVE  /\ inputs' \in 0..MaxInputs
           /\ \A p \in Parts :
                 handle[p].gen + (IF dirty THEN 2 ELSE 0) + (IF awaiting THEN 1 ELSE 0) + 2
                    <= 2 * (MaxInputs - inputs')
<1>1. /\ MaxInputs \in Nat /\ inputs \in 0..MaxInputs
      /\ dirty \in BOOLEAN /\ awaiting \in BOOLEAN
      /\ inputs > 0 /\ inputs' = inputs - 1
  BY LauncherAssumption DEF TypeOK, LauncherAssumption, Input
<1>2. \A p \in Parts : handle[p].gen \in Nat
  BY HandleTypes
<1>3. 2 * (MaxInputs - inputs) + 2 = 2 * (MaxInputs - inputs')
  BY <1>1
<1> SUFFICES ASSUME NEW p \in Parts
             PROVE  handle[p].gen + (IF dirty THEN 2 ELSE 0)
                        + (IF awaiting THEN 1 ELSE 0) + 2 <= 2 * (MaxInputs - inputs')
  BY <1>1
<1>4. handle[p].gen + (IF dirty THEN 2 ELSE 0) + (IF awaiting THEN 1 ELSE 0)
         <= 2 * (MaxInputs - inputs)
  BY DEF GenerationsCounted
<1>5. ASSUME NEW d \in Nat, NEW a \in Nat, NEW g \in Nat, NEW m \in Nat,
             g + d + a <= m
      PROVE  g + d + a + 2 <= m + 2
  BY <1>5
<1>6. /\ (IF dirty THEN 2 ELSE 0) \in Nat /\ (IF awaiting THEN 1 ELSE 0) \in Nat
      /\ 2 * (MaxInputs - inputs) \in Nat
  BY <1>1
<1> QED
  BY <1>2, <1>3, <1>4, <1>5, <1>6

(* What the user does: a key, a toggle either way, an unplugged output. *)
LEMMA UserHolds ==
    ASSUME Inductive, User
    PROVE  Inductive'
<1>1. /\ TypeOK /\ GenerationsCounted /\ SearchForQuery /\ NoOrphanSearch
      /\ ResultsOneQuery /\ TextOnItsWay
  BY DEF Inductive
<1>2. /\ Input /\ inputs' \in 0..MaxInputs
      /\ \A p \in Parts :
            handle[p].gen + (IF dirty THEN 2 ELSE 0) + (IF awaiting THEN 1 ELSE 0) + 2
               <= 2 * (MaxInputs - inputs')
  BY <1>1, InputCounts DEF User, Type, Close, Open, OutputRemoved
<1>3. \A p \in Parts : handle[p].gen < MaxGeneration /\ handle[p].gen \in Nat
  BY <1>1, <1>2, GenerationLeft, HandleTypes DEF Input, TypeOK
<1>4. dirty \in BOOLEAN /\ awaiting \in BOOLEAN /\ MaxInputs - inputs' \in Nat
  <2>1. MaxInputs \in Nat /\ inputs' \in 0..MaxInputs
    BY <1>2, LauncherAssumption DEF LauncherAssumption
  <2>2. \A m \in Nat : \A i \in 0..m : m - i \in Nat
    OBVIOUS
  <2>3. MaxInputs - inputs' \in Nat
    BY <2>1, <2>2
  <2> QED
    BY <1>1, <2>3 DEF TypeOK
<1>5. ASSUME NEW t \in Texts, Type(t)
      PROVE  Inductive'
  <2>1. /\ text' = t /\ effective' = t /\ dirty' = TRUE /\ dropped' = FALSE
        /\ UNCHANGED <<handle, running, query, restart, results, ui, spawned>>
    BY <1>5 DEF Type
  <2>2. TypeOK'
    BY <1>1, <1>2, <2>1 DEF TypeOK, Job!TypeOK, restart, ui
  <2>3. GenerationsCounted'
    <3> SUFFICES ASSUME NEW p \in Parts
                 PROVE  handle[p].gen + 2 + (IF awaiting THEN 1 ELSE 0)
                          <= 2 * (MaxInputs - inputs')
      BY <2>1 DEF GenerationsCounted, restart
    <3> QED
      BY <1>2, <1>3, <1>4
  <2>4. SearchForQuery' /\ TextOnItsWay'
    BY <1>1, <2>1 DEF SearchForQuery, TextOnItsWay, restart
  <2> QED
    BY <1>1, <2>1, <2>2, <2>3, <2>4, ResultsKept DEF Inductive
<1>6. CASE Close
  <2>1. /\ dirty' = FALSE /\ CancelAll /\ running' = FALSE /\ awaiting' = FALSE
        /\ killed' = NoKill /\ fading' = TRUE /\ dropped' = TRUE
        /\ UNCHANGED <<text, effective, query, pending, grace, results, open,
                       surface, destroying, spawned>>
    BY <1>6 DEF Close, CloseSearch
  <2>2. /\ handle' \in [Parts -> Job!Handle]
        /\ \A p \in Parts : /\ handle'[p].gen = handle[p].gen + 1
                            /\ handle'[p].status # "running" /\ ~handle'[p].wake
    BY <1>1, <1>3, <2>1, CancelAllHolds
  <2>3. killed' \in [Parts -> 0..MaxGeneration]
    BY <2>1, LauncherAssumption DEF NoKill, MaxGeneration, LauncherAssumption
  <2>4. TypeOK'
    BY <1>1, <1>2, <2>1, <2>2, <2>3 DEF TypeOK, Job!TypeOK
  <2>5. GenerationsCounted'
    <3> SUFFICES ASSUME NEW p \in Parts
                 PROVE  handle[p].gen + 1 + 0 + 0 <= 2 * (MaxInputs - inputs')
      BY <2>1, <2>2 DEF GenerationsCounted
    <3> QED
      BY <1>2, <1>3, <1>4
  <2>6. SearchForQuery' /\ NoOrphanSearch' /\ ResultsOneQuery' /\ TextOnItsWay'
    BY <1>1, <2>1, <2>2 DEF SearchForQuery, NoOrphanSearch, ResultsOneQuery, TextOnItsWay
  <2> QED
    BY <2>4, <2>5, <2>6 DEF Inductive
<1>7. CASE Open \/ OutputRemoved
  <2>1. /\ UNCHANGED <<handle, text, effective, dirty, running, query, restart,
                       results, destroying, history>>
        /\ {surface', open', fading'} \subseteq BOOLEAN
    BY <1>1, <1>7 DEF Open, OutputRemoved, TypeOK
  <2>2. TypeOK'
    BY <1>1, <1>2, <2>1 DEF TypeOK, Job!TypeOK, restart, history
  <2>3. GenerationsCounted'
    <3> SUFFICES ASSUME NEW p \in Parts
                 PROVE  handle[p].gen + (IF dirty THEN 2 ELSE 0)
                            + (IF awaiting THEN 1 ELSE 0) <= 2 * (MaxInputs - inputs')
      BY <2>1 DEF GenerationsCounted, restart
    <3> QED
      BY <1>2, <1>3, <1>4
  <2>4. SearchForQuery' /\ TextOnItsWay'
    BY <1>1, <2>1 DEF SearchForQuery, TextOnItsWay, restart, history
  <2> QED
    BY <1>1, <2>1, <2>2, <2>3, <2>4, ResultsKept DEF Inductive
<1> QED
  BY <1>5, <1>6, <1>7 DEF User

(* The fade that ends, the call it queued, the grace period and the workers. *)
LEMMA OthersHold ==
    ASSUME Inductive, FadeDone \/ DestroySurface \/ GraceElapses \/ Worker
    PROVE  Inductive'
<1>1. /\ TypeOK /\ GenerationsCounted /\ SearchForQuery /\ NoOrphanSearch
      /\ ResultsOneQuery /\ TextOnItsWay
  BY DEF Inductive
<1>2. CASE FadeDone
  <2>1. /\ text' = Nothing /\ effective' = Nothing /\ results' = Nothing
        /\ fading' = FALSE /\ open' = FALSE /\ destroying' = TRUE /\ dropped' = FALSE
        /\ UNCHANGED <<handle, dirty, running, query, restart, surface, spawned, inputs>>
    BY <1>2 DEF FadeDone
  <2>2. TypeOK'
    BY <1>1, <2>1 DEF TypeOK, Job!TypeOK, restart, Texts
  <2>3. GenerationsCounted' /\ SearchForQuery'
    BY <1>1, <2>1 DEF GenerationsCounted, SearchForQuery, restart
  <2>4. NoOrphanSearch' /\ ResultsOneQuery' /\ TextOnItsWay'
    BY <1>1, <2>1, LauncherAssumption
       DEF NoOrphanSearch, ResultsOneQuery, TextOnItsWay, LauncherAssumption
  <2> QED
    BY <2>2, <2>3, <2>4 DEF Inductive
<1>3. CASE DestroySurface \/ GraceElapses
  <2>1. /\ {destroying', surface', grace'} \subseteq BOOLEAN
        /\ UNCHANGED <<handle, text, effective, dirty, running, query, awaiting,
                       pending, killed, results, open, fading, history, inputs>>
    BY <1>1, <1>3 DEF DestroySurface, GraceElapses, TypeOK, restart, ui
  <2>2. TypeOK'
    BY <1>1, <2>1 DEF TypeOK, Job!TypeOK, history
  <2>3. GenerationsCounted' /\ SearchForQuery' /\ TextOnItsWay'
    BY <1>1, <2>1 DEF GenerationsCounted, SearchForQuery, TextOnItsWay, history
  <2> QED
    BY <1>1, <2>1, <2>2, <2>3, ResultsKept DEF Inductive
<1>4. CASE Worker
  <2>1. /\ handle' \in [Parts -> Job!Handle]
        /\ \A r \in Parts :
              /\ handle'[r].gen = handle[r].gen
              /\ handle'[r].job = handle[r].job
              /\ handle'[r].status = "running" \/ handle'[r].wake
                    => handle[r].status = "running" \/ handle[r].wake
    BY <1>1, <1>4, WorkerHolds DEF Worker
  <2>2. UNCHANGED <<text, effective, dirty, running, query, restart, results, ui,
                   history, inputs>>
    BY <1>4 DEF Worker
  <2>3. TypeOK'
    BY <1>1, <2>1, <2>2 DEF TypeOK, Job!TypeOK, restart, ui, history
  <2>4. GenerationsCounted'
    BY <1>1, <2>1, <2>2 DEF GenerationsCounted, restart
  <2>5. SearchForQuery'
    BY <1>1, <2>1, <2>2 DEF SearchForQuery, TypeOK, restart, history
  <2>6. NoOrphanSearch' /\ ResultsOneQuery' /\ TextOnItsWay'
    BY <1>1, <2>1, <2>2
       DEF NoOrphanSearch, ResultsOneQuery, TextOnItsWay, restart, history
  <2> QED
    BY <2>3, <2>4, <2>5, <2>6 DEF Inductive
<1> QED
  BY <1>2, <1>3, <1>4

LEMMA IdleHolds ==
    ASSUME Inductive, UNCHANGED vars
    PROVE  Inductive'
<1>1. /\ TypeOK /\ GenerationsCounted /\ SearchForQuery /\ NoOrphanSearch
      /\ ResultsOneQuery /\ TextOnItsWay
  BY DEF Inductive
<1>2. TypeOK'
  BY <1>1 DEF vars, restart, ui, history, TypeOK, Job!TypeOK
<1>3. GenerationsCounted' /\ SearchForQuery' /\ TextOnItsWay'
  BY <1>1 DEF vars, restart, history, GenerationsCounted, SearchForQuery, TextOnItsWay
<1> QED
  BY <1>1, <1>2, <1>3, ResultsKept DEF vars, Inductive
-----------------------------------------------------------------------------
(* Inductive is an inductive invariant of the launcher's search. *)
THEOREM InductiveHolds == Spec => []Inductive
<1>1. Inductive /\ [Next]_vars => Inductive'
  BY TickHolds, SearchStartPendingHolds, SearchPollHolds, UserHolds, OthersHold,
     IdleHolds
     DEF Next, Loop
<1> QED
  BY <1>1, InitHolds, PTL DEF Spec

(* The search keeps its types: for one, no handle is started or cancelled    *)
(* more than twice for each thing the user does.                             *)
THEOREM TypeCorrect == Spec => []TypeOK
<1>1. Inductive => TypeOK
  BY DEF Inductive
<1> QED
  BY <1>1, InductiveHolds, PTL

(* launcher_search_poll never scores the output of a command against a query *)
(* other than the one it was started for.                                    *)
THEOREM ResultsAlwaysOneQuery == Spec => []ResultsOneQuery
<1>1. Inductive => ResultsOneQuery
  BY DEF Inductive
<1> QED
  BY <1>1, InductiveHolds, PTL

(* No command of fd is left running, and no descriptor readable, for a search *)
(* that nobody waits for: the main loop would spin on such a descriptor.      *)
THEOREM NeverOrphanSearch == Spec => []NoOrphanSearch
<1>1. Inductive => NoOrphanSearch
  BY DEF Inductive
<1> QED
  BY <1>1, InductiveHolds, PTL

(* Once typing has settled the launcher shows the results of the text typed, *)
(* unless a close or an older restart dropped its search.                    *)
THEOREM AlwaysSettledShowsText == Spec => []SettledShowsText
<1>1. Inductive => SettledShowsText
  BY DEF Inductive, TextOnItsWay, SettledShowsText
<1> QED
  BY <1>1, InductiveHolds, PTL
=============================================================================
