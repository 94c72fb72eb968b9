--------------------------- MODULE ServicesProofs ---------------------------
(***************************************************************************)
(* Proofs about the configuration watch, for every set of configurations   *)
(* and every number of edits, and about three guests of MCServices: the    *)
(* text input, the batteries and the media players.  Each guest has an     *)
(* inductive invariant of its own, a lemma for its start and one for its   *)
(* steps; MCServicesProofs does the same for the others and joins them.    *)
(***************************************************************************)
EXTENDS MCServices, SequenceTheorems, FiniteSetTheorems, WellFoundedInduction, TLAPS

\* What load_config answers is a configuration.
LEMMA LoadIsConfig == \A f : Load(f) \in Values \union {Default}
  BY DEF Load

\* A watch set up anew is on the path or is none.
LEMMA WatchInitIsFresh == \A f : WatchInit(f) \in {"path", "none"}
  BY DEF WatchInit

\* The bound on edits, by itself.
LEMMA BoundIsNat == MaxEdits \in Nat
  BY ConfigAssumption

\* Renaming over or deleting the path keeps the watch well typed.
LEMMA UnlinkedIsTyped ==
    ASSUME TypeOK, InodeUnlinked
    PROVE  /\ editor' \in {"none", "path", "orphan"}
           /\ watch' \in {"path", "open", "freed", "none"}
           /\ events' \subseteq {"changed", "removed"}
<1>1. editor' \in {"none", "path", "orphan"}
  BY DEF TypeOK, InodeUnlinked
<1>2. CASE watch = "path" /\ editor # "path"
  <2>1. watch' = "freed" /\ events' = events \union {"removed"}
    BY <1>2 DEF InodeUnlinked
  <2>2. QED
    BY <2>1, <1>1 DEF TypeOK
<1>3. CASE watch = "path" /\ editor = "path"
  BY <1>3, <1>1 DEF TypeOK, InodeUnlinked
<1>4. CASE watch # "path"
  BY <1>4, <1>1 DEF TypeOK, InodeUnlinked
<1>5. QED
  BY <1>2, <1>3, <1>4

\* The type invariant of the file, the shell's copy of it and the watch.
THEOREM TypeCorrect == Spec => []TypeOK
<1>1. Init => TypeOK
  <2> SUFFICES ASSUME Init PROVE TypeOK
    OBVIOUS
  <2>1. cfg \in Values \union {Default} /\ watch \in {"path", "none"}
    BY LoadIsConfig, WatchInitIsFresh DEF Init
  <2>2. file \in Values \union {Torn, Missing}
    BY DEF Init
  <2>3. edits \in 0..MaxEdits
    BY BoundIsNat DEF Init
  <2>4. QED
    BY <2>1, <2>2, <2>3 DEF Init, TypeOK
<1>2. TypeOK /\ [Next]_vars => TypeOK'
  <2> SUFFICES ASSUME TypeOK, [Next]_vars PROVE TypeOK'
    OBVIOUS
  <2> USE DEF TypeOK, Edit
  <2>1. ASSUME NEW v \in Values, SaveAndApply(v) PROVE TypeOK'
    <3>1. CASE file' = v /\ InodeUnlinked /\ writer' = "shell"
      BY <2>1, <3>1, BoundIsNat, UnlinkedIsTyped DEF SaveAndApply
    <3>2. CASE UNCHANGED <<file, editor, watch, events>> /\ writer' = "unsaved"
      BY <2>1, <3>2, BoundIsNat DEF SaveAndApply
    <3>3. QED
      BY <2>1, <3>1, <3>2 DEF SaveAndApply, WriteFileAtomic
  <2>2. ASSUME ConfigEvents PROVE TypeOK'
    BY <2>2, LoadIsConfig, WatchInitIsFresh DEF ConfigEvents, Reader
  <2>3. ASSUME EditorOpens PROVE TypeOK'
    BY <2>3, BoundIsNat DEF EditorOpens, Noticed
  <2>4. ASSUME EditorClosesOrphan PROVE TypeOK'
    BY <2>4 DEF EditorClosesOrphan
  <2>5. ASSUME Delete PROVE TypeOK'
    BY <2>5, BoundIsNat, UnlinkedIsTyped DEF Delete
  <2>6. ASSUME NEW v \in Values, EditorCloses(v) PROVE TypeOK'
    BY <2>6 DEF EditorCloses, Noticed
  <2>7. ASSUME NEW v \in Values, Replace(v) PROVE TypeOK'
    BY <2>7, BoundIsNat, UnlinkedIsTyped DEF Replace
  <2>8. CASE UNCHANGED vars
    BY <2>8 DEF vars
  <2>9. QED
    BY <2>1, <2>2, <2>3, <2>4, <2>5, <2>6, <2>7, <2>8 DEF Next, Others
<1>3. QED
  BY <1>1, <1>2, PTL DEF Spec

\* No save of the panel, and no event of an inode the file has left behind,
\* makes the shell run anything but what its own file says.
THEOREM SavedAlwaysApplied == Spec => []SavedIsApplied
<1>1. Init => SavedIsApplied
  BY DEF Init, SavedIsApplied
<1>2. SavedIsApplied /\ [Next]_vars => SavedIsApplied'
  <2> SUFFICES ASSUME SavedIsApplied, [Next]_vars PROVE SavedIsApplied'
    OBVIOUS
  <2> USE DEF SavedIsApplied, Load
  <2>1. ASSUME NEW v \in Values, SaveAndApply(v) PROVE SavedIsApplied'
    BY <2>1 DEF SaveAndApply, WriteFileAtomic
  <2>2. ASSUME ConfigEvents PROVE SavedIsApplied'
    BY <2>2 DEF ConfigEvents
  <2>3. ASSUME Others PROVE SavedIsApplied'
    BY <2>3 DEF Others, EditorOpens, EditorCloses, EditorClosesOrphan, Replace,
                Delete
  <2>4. CASE UNCHANGED vars
    BY <2>4 DEF vars
  <2>5. QED
    BY <2>1, <2>2, <2>3, <2>4 DEF Next
<1>3. QED
  BY <1>1, <1>2, PTL DEF Spec

\* A rename, an editor that outlives it and a deletion, in any order, leave the
\* watch on the path or on its way to an event that renews it.
THEOREM WatchAlwaysFollowsPath == Spec => []WatchFollowsPath
<1>1. Init => WatchFollowsPath
  BY WatchInitIsFresh DEF Init, WatchFollowsPath
<1>2. TypeOK /\ WatchFollowsPath /\ [Next]_vars => WatchFollowsPath'
  <2> SUFFICES ASSUME TypeOK, WatchFollowsPath, [Next]_vars
               PROVE  WatchFollowsPath'
    OBVIOUS
  <2> USE DEF WatchFollowsPath
  <2>1. ASSUME NEW v \in Values, SaveAndApply(v) PROVE WatchFollowsPath'
    BY <2>1 DEF SaveAndApply, WriteFileAtomic, InodeUnlinked
  <2>2. ASSUME ConfigEvents PROVE WatchFollowsPath'
    BY <2>2, WatchInitIsFresh DEF ConfigEvents
  <2>3. ASSUME EditorOpens PROVE WatchFollowsPath'
    BY <2>3 DEF EditorOpens, Noticed
  <2>4. ASSUME EditorClosesOrphan PROVE WatchFollowsPath'
    BY <2>4 DEF EditorClosesOrphan
  <2>5. ASSUME Delete PROVE WatchFollowsPath'
    BY <2>5 DEF Delete, InodeUnlinked
  <2>6. ASSUME NEW v \in Values, EditorCloses(v) PROVE WatchFollowsPath'
    BY <2>6 DEF EditorCloses, Noticed
  <2>7. ASSUME NEW v \in Values, Replace(v) PROVE WatchFollowsPath'
    BY <2>7 DEF Replace, InodeUnlinked
  <2>8. CASE UNCHANGED vars
    BY <2>8 DEF vars
  <2>9. QED
    BY <2>1, <2>2, <2>3, <2>4, <2>5, <2>6, <2>7, <2>8 DEF Next, Others
<1>3. QED
  BY <1>1, <1>2, TypeCorrect, PTL DEF Spec
-----------------------------------------------------------------------------
(* What a queue gains at its end and loses at its head.                    *)

LEMMA Grows ==
    ASSUME NEW S, NEW q \in Seq(S), NEW e \in S
    PROVE  LET t == Append(q, e)
           IN  /\ t \in Seq(S) /\ Len(q) \in Nat /\ Len(t) = Len(q) + 1
               /\ DOMAIN q = 1..Len(q) /\ DOMAIN t = 1..Len(t)
               /\ t[Len(q) + 1] = e /\ \A i \in 1..Len(q) : t[i] = q[i]
  OBVIOUS

LEMMA Shrinks ==
    ASSUME NEW S, NEW q \in Seq(S), q # <<>>
    PROVE  LET t == Tail(q)
           IN  /\ t \in Seq(S) /\ Len(q) \in Nat \ {0} /\ Len(t) = Len(q) - 1
               /\ DOMAIN q = 1..Len(q) /\ DOMAIN t = 1..Len(t)
               /\ Head(q) = q[1] /\ q[1] \in S /\ \A i \in 1..Len(t) : t[i] = q[i + 1]
  BY HeadTailProperties, EmptySeq

-----------------------------------------------------------------------------
(* The text input.  The events under way lead from the focus the shell     *)
(* knows to the one the compositor has; the requests under way bring the   *)
(* compositor's serial to the shell's; and what is enabled is the text     *)
(* input of a surface that has the focus or will be left.                  *)

\* The two surfaces the shell takes to have the focus, as the events move them.
View == [keyboard : Ime!Maybe, entered : Ime!Maybe]
ShellView == [keyboard |-> ime.keyboard, entered |-> ime.entered]
ServerView == [keyboard |-> imeServer.focus, entered |-> imeServer.focus]

ImeEvent == [kind : Ime!EventKinds, surface : Ime!Maybe, serial : Nat]
Asked == {"enable", "disable", "commit"}

(* What an event makes of a view: the compositor announces a move as a     *)
(* leave and an enter of the keyboard, then of the text input.              *)
Seen(v, e, w) ==
    \/ /\ e.kind = "keyboard_leave" /\ v.keyboard = e.surface /\ v.entered = e.surface
       /\ w.keyboard = NoSurface /\ w.entered = v.entered
    \/ /\ e.kind = "keyboard_enter" /\ v.keyboard = NoSurface
       /\ w.keyboard = e.surface /\ w.entered = v.entered
    \/ /\ e.kind = "leave" /\ v.entered = e.surface /\ v.keyboard # e.surface
       /\ w.entered = NoSurface /\ w.keyboard = v.keyboard
    \/ /\ e.kind = "enter" /\ v.entered = NoSurface /\ v.keyboard = e.surface
       /\ w.entered = e.surface /\ w.keyboard = v.keyboard
    \/ e.kind \in {"edit", "done"} /\ w = v

LeaveIn(q, i, f) ==
    \E j \in 1..Len(q) : i <= j /\ q[j].kind = "leave" /\ q[j].surface = f
Calm(q) == \A j \in 1..Len(q) : q[j].kind # "leave"

Focuses(v, f) == f \in Surfaces /\ f \in {v.keyboard, v.entered}

(* The events lead from one view to another, and a surface seen on the way  *)
(* is seen at the end or will be left.                                      *)
Leads(p, q, v, w) ==
    /\ p \in [1..(Len(q) + 1) -> View]
    /\ p[1] = v /\ p[Len(q) + 1] = w
    /\ \A i \in 1..Len(q) : Seen(p[i], q[i], p[i + 1])
    /\ \A i \in 1..(Len(q) + 1) : \A f : Focuses(p[i], f) => Focuses(w, f) \/ LeaveIn(q, i, f)
Route(q, v, w) == \E p : Leads(p, q, v, w)

\* A request to enable or disable is always committed next.
Paired(q, staged) ==
    /\ \A i \in 1..Len(q) : q[i] # "commit" => i + 1 \in 1..Len(q) /\ q[i + 1] = "commit"
    /\ staged # "none" => Len(q) > 0 /\ q[1] = "commit"

\* The commits of q bring a serial from m to n.
Counts(k, q, m, n) ==
    /\ k \in [1..(Len(q) + 1) -> Nat]
    /\ k[1] = m /\ k[Len(q) + 1] = n
    /\ \A i \in 1..Len(q) : k[i + 1] = IF q[i] = "commit" THEN k[i] + 1 ELSE k[i]
Counted(q, m, n) == \E k : Counts(k, q, m, n)

(* The compositor is on, or will be once it has the requests.               *)
TurnsOn(q, server) ==
    \/ \E i \in 1..Len(q) : q[i] = "enable" /\ \A j \in 1..Len(q) : j > i => q[j] # "disable"
    \/ /\ \A j \in 1..Len(q) : q[j] # "disable"
       /\ server.staged = "enable" \/ (server.staged = "none" /\ server.on)

RequestsOK(q, serial, server) ==
    /\ q \in Seq(Asked) /\ serial \in Nat
    /\ Paired(q, server.staged) /\ Counted(q, server.commits, serial)

\* What is enabled is a surface the shell takes to have a focus.
Aware(s) ==
    /\ s.active # NoSurface /\ s.active = s.entered => s.enabled
    /\ s.enabled => Ime!Accepts(s)

ImeInv ==
    /\ Ime!TypeOK
    /\ Route(imeEvents, ShellView, ServerView)
    /\ RequestsOK(imeRequests, ime.serial, imeServer)
    /\ Aware(ime)
    /\ ime.enabled /\ Calm(imeEvents) => TurnsOn(imeRequests, imeServer)

\* The view an event has led to is the view of the shell that handles it.
LEMMA RouteTail ==
    ASSUME NEW q \in Seq(ImeEvent), q # <<>>, NEW v, NEW w, Route(q, v, w)
    PROVE  \E x \in View : Seen(v, Head(q), x) /\ Route(Tail(q), x, w)
<1> DEFINE t == Tail(q)
<1>1. PICK p : Leads(p, q, v, w)
  BY DEF Route
<1>2. /\ Len(q) \in Nat \ {0} /\ Len(t) = Len(q) - 1 /\ Head(q) = q[1]
      /\ \A i \in 1..Len(t) : t[i] = q[i + 1]
  BY Shrinks
<1> HIDE DEF t
<1> DEFINE r == [i \in 1..(Len(t) + 1) |-> p[i + 1]]
<1>3. Len(t) + 1 = Len(q) /\ 1 \in 1..Len(q)
  BY <1>2
<1>4. /\ r \in [1..(Len(t) + 1) -> View] /\ r[1] = p[2] /\ r[Len(t) + 1] = w
      /\ \A i \in 1..Len(q) : r[i] = p[i + 1]
  BY <1>1, <1>2, <1>3 DEF Leads
<1>5. Seen(v, Head(q), p[2]) /\ p[2] \in View
  <2>1. Seen(p[1], q[1], p[1 + 1])
    BY <1>1, <1>3 DEF Leads
  <2>2. 1 + 1 = 2 /\ 2 \in 1..(Len(q) + 1)
    BY <1>2
  <2> QED
    BY <1>1, <1>2, <2>1, <2>2 DEF Leads
<1> HIDE DEF r
<1>6. \A i \in 1..Len(t) : Seen(r[i], t[i], r[i + 1])
  <2> SUFFICES ASSUME NEW i \in 1..Len(t) PROVE Seen(r[i], t[i], r[i + 1])
    OBVIOUS
  <2>1. i \in 1..Len(q) /\ i + 1 \in 1..Len(q)
    BY <1>2
  <2>2. Seen(p[i + 1], q[i + 1], p[(i + 1) + 1])
    BY <1>1, <2>1 DEF Leads
  <2> QED
    BY <1>2, <1>4, <2>1, <2>2
<1>7. ASSUME NEW i \in 1..(Len(t) + 1), NEW f, Focuses(r[i], f)
      PROVE  Focuses(w, f) \/ LeaveIn(t, i, f)
  <2>1. i \in Nat /\ i + 1 \in 1..(Len(q) + 1) /\ Focuses(p[i + 1], f)
    BY <1>2, <1>3, <1>4, <1>7
  <2>2. Focuses(w, f) \/ LeaveIn(q, i + 1, f)
    BY <1>1, <2>1 DEF Leads
  <2>3. ASSUME LeaveIn(q, i + 1, f) PROVE LeaveIn(t, i, f)
    <3>1. PICK j \in 1..Len(q) : i + 1 <= j /\ q[j].kind = "leave" /\ q[j].surface = f
      BY <2>3 DEF LeaveIn
    <3>2. j - 1 \in 1..Len(t) /\ i <= j - 1 /\ t[j - 1] = q[j]
      BY <1>2, <2>1, <3>1
    <3> QED
      BY <3>1, <3>2 DEF LeaveIn
  <2> QED
    BY <2>2, <2>3
<1>8. Leads(r, t, p[2], w)
  BY <1>3, <1>4, <1>6, <1>7 DEF Leads
<1> QED
  BY <1>5, <1>8 DEF Route, t

\* One more event leads one view further.
LEMMA RouteAppend ==
    ASSUME NEW q \in Seq(ImeEvent), NEW e \in ImeEvent, NEW v, NEW w, NEW x \in View,
           Route(q, v, w), Seen(w, e, x),
           \A f : Focuses(w, f) => Focuses(x, f) \/ (e.kind = "leave" /\ e.surface = f)
    PROVE  Route(Append(q, e), v, x)
<1> DEFINE t == Append(q, e)
<1>1. PICK p : Leads(p, q, v, w)
  BY DEF Route
<1>2. /\ Len(q) \in Nat /\ Len(t) = Len(q) + 1 /\ t[Len(q) + 1] = e
      /\ \A i \in 1..Len(q) : t[i] = q[i]
  BY Grows
<1> HIDE DEF t
<1> DEFINE n == Len(q) + 1
           r == [i \in 1..(Len(t) + 1) |-> IF i = n + 1 THEN x ELSE p[i]]
<1>3. n \in Nat \ {0} /\ Len(t) = n /\ Len(q) = n - 1 /\ n + 1 # n /\ n + 1 # 1
  BY <1>2
<1>4. p \in [1..n -> View] /\ p[1] = v /\ p[n] = w
  BY <1>1 DEF Leads
<1> HIDE DEF n
<1>5. /\ r \in [1..(Len(t) + 1) -> View] /\ r[1] = v /\ r[Len(t) + 1] = x
      /\ \A i \in 1..n : r[i] = p[i]
  BY <1>3, <1>4
<1> HIDE DEF r
<1>6. \A i \in 1..Len(t) : Seen(r[i], t[i], r[i + 1])
  <2> SUFFICES ASSUME NEW i \in 1..Len(t) PROVE Seen(r[i], t[i], r[i + 1])
    OBVIOUS
  <2>1. CASE i = n
    <3>1. r[i] = w /\ t[i] = e /\ r[i + 1] = x
      BY <1>2, <1>3, <1>4, <1>5, <2>1 DEF n
    <3> QED
      BY <3>1
  <2>2. CASE i # n
    <3>1. i \in 1..Len(q) /\ i \in 1..n /\ i + 1 \in 1..n
      BY <1>3, <2>2
    <3> QED
      BY <1>1, <1>2, <1>5, <3>1 DEF Leads
  <2> QED
    BY <2>1, <2>2
<1>7. ASSUME NEW i \in 1..(Len(t) + 1), NEW f, Focuses(r[i], f)
      PROVE  Focuses(x, f) \/ LeaveIn(t, i, f)
  <2>1. CASE i = n + 1
    BY <1>3, <1>5, <1>7, <2>1
  <2>2. CASE i # n + 1
    <3>1. i \in 1..n /\ Focuses(p[i], f)
      BY <1>3, <1>5, <1>7, <2>2
    <3>2. Focuses(w, f) \/ LeaveIn(q, i, f)
      BY <1>1, <3>1 DEF Leads, n
    <3>3. ASSUME e.kind = "leave" /\ e.surface = f PROVE LeaveIn(t, i, f)
      <4>1. n \in 1..Len(t) /\ i <= n /\ t[n] = e
        BY <1>2, <1>3, <3>1 DEF n
      <4> QED
        BY <3>3, <4>1 DEF LeaveIn
    <3>4. ASSUME LeaveIn(q, i, f) PROVE LeaveIn(t, i, f)
      <4>1. PICK j \in 1..Len(q) : i <= j /\ q[j].kind = "leave" /\ q[j].surface = f
        BY <3>4 DEF LeaveIn
      <4>2. j \in 1..Len(t) /\ t[j] = q[j]
        BY <1>2, <1>3
      <4> QED
        BY <4>1, <4>2 DEF LeaveIn
    <3> QED
      BY <3>2, <3>3, <3>4
  <2> QED
    BY <2>1, <2>2
<1>8. Leads(r, t, v, x)
  BY <1>5, <1>6, <1>7 DEF Leads
<1> QED
  BY <1>8 DEF Route, t

LEMMA CalmAppend ==
    ASSUME NEW q \in Seq(ImeEvent), NEW e \in ImeEvent
    PROVE  Calm(Append(q, e)) <=> Calm(q) /\ e.kind # "leave"
<1> DEFINE t == Append(q, e)
<1>1. /\ Len(q) \in Nat /\ Len(t) = Len(q) + 1 /\ t[Len(q) + 1] = e
      /\ \A i \in 1..Len(q) : t[i] = q[i]
  BY Grows
<1> HIDE DEF t
<1>2. Len(q) + 1 \in 1..Len(t) /\ \A i \in 1..Len(t) : i = Len(q) + 1 \/ i \in 1..Len(q)
  BY <1>1
<1>3. \A i \in 1..Len(q) : i \in 1..Len(t)
  BY <1>1
<1> QED
  BY <1>1, <1>2, <1>3 DEF Calm, t

LEMMA CalmTail ==
    ASSUME NEW q \in Seq(ImeEvent), q # <<>>, Calm(Tail(q)), Head(q).kind # "leave"
    PROVE  Calm(q)
<1> DEFINE t == Tail(q)
<1>1. /\ Len(q) \in Nat \ {0} /\ Len(t) = Len(q) - 1 /\ Head(q) = q[1]
      /\ \A i \in 1..Len(t) : t[i] = q[i + 1]
  BY Shrinks
<1>2. Calm(t)
  OBVIOUS
<1> HIDE DEF t
<1> SUFFICES ASSUME NEW j \in 1..Len(q) PROVE q[j].kind # "leave"
  BY DEF Calm
<1>3. CASE j = 1
  BY <1>1, <1>3
<1>4. CASE j # 1
  <2>1. j - 1 \in 1..Len(t) /\ t[j - 1] = q[j]
    BY <1>1, <1>4
  <2> QED
    BY <1>2, <2>1 DEF Calm
<1> QED
  BY <1>3, <1>4

\* A pair of requests, or a commit, at the end of a queue leaves it in order.
LEMMA CommitAppended ==
    ASSUME NEW q, NEW n, NEW server, RequestsOK(q, n, server)
    PROVE  /\ RequestsOK(Append(q, "commit"), n + 1, server)
           /\ TurnsOn(q, server) => TurnsOn(Append(q, "commit"), server)
<1> DEFINE t == Append(q, "commit")
<1>1. /\ t \in Seq(Asked) /\ Len(q) \in Nat /\ Len(t) = Len(q) + 1
      /\ t[Len(q) + 1] = "commit" /\ \A i \in 1..Len(q) : t[i] = q[i]
  BY Grows DEF RequestsOK, Asked
<1>2. PICK k : Counts(k, q, server.commits, n)
  BY DEF RequestsOK, Counted
<1>3. n \in Nat /\ Paired(q, server.staged)
  BY DEF RequestsOK
<1> HIDE DEF t
<1> DEFINE l == Len(q) + 1
           r == [i \in 1..(Len(t) + 1) |-> IF i = l + 1 THEN n + 1 ELSE k[i]]
<1>4. l \in Nat \ {0} /\ Len(t) = l /\ Len(q) = l - 1 /\ l + 1 # l /\ l + 1 # 1
  BY <1>1
<1>5. k \in [1..l -> Nat] /\ k[1] = server.commits /\ k[l] = n
  BY <1>2 DEF Counts
<1> HIDE DEF l
<1>6. /\ r \in [1..(Len(t) + 1) -> Nat] /\ r[1] = server.commits
      /\ r[Len(t) + 1] = n + 1 /\ \A i \in 1..l : r[i] = k[i]
  BY <1>3, <1>4, <1>5
<1> HIDE DEF r
<1>7. \A i \in 1..Len(t) : r[i + 1] = IF t[i] = "commit" THEN r[i] + 1 ELSE r[i]
  <2> SUFFICES ASSUME NEW i \in 1..Len(t)
               PROVE  r[i + 1] = IF t[i] = "commit" THEN r[i] + 1 ELSE r[i]
    OBVIOUS
  <2>1. CASE i = l
    <3>1. t[i] = "commit" /\ r[i] = n /\ r[i + 1] = n + 1
      BY <1>1, <1>4, <1>5, <1>6, <2>1 DEF l
    <3> QED
      BY <3>1
  <2>2. CASE i # l
    <3>1. i \in 1..Len(q) /\ i \in 1..l /\ i + 1 \in 1..l
      BY <1>4, <2>2
    <3> QED
      BY <1>1, <1>2, <1>6, <3>1 DEF Counts
  <2> QED
    BY <2>1, <2>2
<1>8. Counted(t, server.commits, n + 1)
  BY <1>6, <1>7 DEF Counted, Counts
<1>9. Paired(t, server.staged)
  <2>1. ASSUME NEW i \in 1..Len(t), t[i] # "commit"
        PROVE  i + 1 \in 1..Len(t) /\ t[i + 1] = "commit"
    <3>1. i \in 1..Len(q)
      BY <1>1, <2>1
    <3>2. i + 1 \in 1..Len(q) /\ q[i + 1] = "commit"
      BY <1>1, <1>3, <2>1, <3>1 DEF Paired
    <3> QED
      BY <1>1, <3>2
  <2>2. Len(t) > 0 /\ (Len(q) > 0 => t[1] = q[1])
    BY <1>1
  <2> QED
    BY <1>3, <2>1, <2>2, <1>1 DEF Paired
<1>10. ASSUME TurnsOn(q, server) PROVE TurnsOn(t, server)
  <2>1. \A j \in 1..Len(t) : j \in 1..Len(q) \/ t[j] = "commit"
    BY <1>1
  <2>2. CASE \A j \in 1..Len(q) : q[j] # "disable"
    <3>1. \A j \in 1..Len(t) : t[j] # "disable"
      BY <1>1, <2>1, <2>2
    <3>2. \A i \in 1..Len(q) : i \in 1..Len(t)
      BY <1>1
    <3>3. CASE \E i \in 1..Len(q) : q[i] = "enable"
      BY <1>1, <3>1, <3>2, <3>3 DEF TurnsOn
    <3>4. CASE ~\E i \in 1..Len(q) : q[i] = "enable"
      BY <1>10, <3>1, <3>4 DEF TurnsOn
    <3> QED
      BY <3>3, <3>4
  <2>3. CASE ~\A j \in 1..Len(q) : q[j] # "disable"
    <3>1. PICK i \in 1..Len(q) : q[i] = "enable" /\ \A j \in 1..Len(q) : j > i => q[j] # "disable"
      BY <1>10, <2>3 DEF TurnsOn
    <3>2. i \in 1..Len(t) /\ t[i] = "enable" /\ \A j \in 1..Len(t) : j > i => t[j] # "disable"
      BY <1>1, <2>1, <3>1
    <3> QED
      BY <3>2 DEF TurnsOn
  <2> QED
    BY <2>2, <2>3
<1> QED
  BY <1>1, <1>3, <1>8, <1>9, <1>10 DEF RequestsOK, t

LEMMA PairAppended ==
    ASSUME NEW q, NEW n, NEW server, RequestsOK(q, n, server),
           NEW x \in {"enable", "disable"}
    PROVE  LET t == Append(Append(q, x), "commit")
           IN  RequestsOK(t, n + 1, server) /\ (x = "enable" => TurnsOn(t, server))
<1> DEFINE s == Append(q, x)
           t == Append(s, "commit")
<1>1. /\ s \in Seq(Asked) /\ Len(q) \in Nat /\ Len(s) = Len(q) + 1
      /\ s[Len(q) + 1] = x /\ \A i \in 1..Len(q) : s[i] = q[i]
  BY Grows DEF RequestsOK, Asked
<1> HIDE DEF s
<1>2. /\ t \in Seq(Asked) /\ Len(t) = Len(s) + 1
      /\ t[Len(s) + 1] = "commit" /\ \A i \in 1..Len(s) : t[i] = s[i]
  BY <1>1, Grows DEF Asked
<1> HIDE DEF t
<1>3. /\ Len(t) = Len(q) + 2 /\ t[Len(q) + 1] = x /\ t[Len(q) + 2] = "commit"
      /\ \A i \in 1..Len(q) : t[i] = q[i]
  BY <1>1, <1>2
<1>4. PICK k : Counts(k, q, server.commits, n)
  BY DEF RequestsOK, Counted
<1>5. n \in Nat /\ Paired(q, server.staged)
  BY DEF RequestsOK
<1> DEFINE l == Len(q) + 1
           r == [i \in 1..(Len(t) + 1) |-> IF i = l + 2 THEN n + 1
                                           ELSE IF i = l + 1 THEN n ELSE k[i]]
<1>6. /\ l \in Nat \ {0} /\ Len(t) = l + 1 /\ Len(q) = l - 1
      /\ l + 1 # l /\ l + 1 # 1 /\ l + 2 # 1 /\ l + 2 # l /\ l + 2 # l + 1
  BY <1>1, <1>3
<1>7. k \in [1..l -> Nat] /\ k[1] = server.commits /\ k[l] = n
  BY <1>4 DEF Counts
<1>71. t[l] = x /\ t[l + 1] = "commit"
  BY <1>1, <1>3
<1> HIDE DEF l
<1>8. /\ r \in [1..(Len(t) + 1) -> Nat] /\ r[1] = server.commits
      /\ r[Len(t) + 1] = n + 1 /\ r[l + 1] = n /\ r[l + 2] = n + 1
      /\ \A i \in 1..l : r[i] = k[i]
  BY <1>5, <1>6, <1>7
<1> HIDE DEF r
<1>9. \A i \in 1..Len(t) : r[i + 1] = IF t[i] = "commit" THEN r[i] + 1 ELSE r[i]
  <2> SUFFICES ASSUME NEW i \in 1..Len(t)
               PROVE  r[i + 1] = IF t[i] = "commit" THEN r[i] + 1 ELSE r[i]
    OBVIOUS
  <2>1. CASE i = l
    <3>1. t[i] # "commit" /\ r[i] = n /\ r[i + 1] = n
      BY <1>6, <1>7, <1>71, <1>8, <2>1
    <3> QED
      BY <3>1
  <2>2. CASE i = l + 1
    <3>1. t[i] = "commit" /\ r[i] = n /\ r[i + 1] = n + 1
      BY <1>6, <1>71, <1>8, <2>2
    <3> QED
      BY <3>1
  <2>3. CASE i # l /\ i # l + 1
    <3>1. i \in 1..Len(q) /\ i \in 1..l /\ i + 1 \in 1..l
      BY <1>6, <2>3
    <3> QED
      BY <1>3, <1>4, <1>8, <3>1 DEF Counts
  <2> QED
    BY <2>1, <2>2, <2>3
<1>10. Counted(t, server.commits, n + 1)
  BY <1>8, <1>9 DEF Counted, Counts
<1>11. Paired(t, server.staged)
  <2>1. ASSUME NEW i \in 1..Len(t), t[i] # "commit"
        PROVE  i + 1 \in 1..Len(t) /\ t[i + 1] = "commit"
    <3>1. CASE i \in 1..Len(q)
      <4>1. i + 1 \in 1..Len(q) /\ q[i + 1] = "commit"
        BY <1>3, <1>5, <2>1, <3>1 DEF Paired
      <4> QED
        BY <1>1, <1>3, <4>1
    <3>2. CASE i = l
      BY <1>6, <1>71, <3>2
    <3>3. CASE i = l + 1
      BY <1>71, <2>1, <3>3
    <3> QED
      BY <1>6, <3>1, <3>2, <3>3
  <2>2. Len(t) > 0 /\ (Len(q) > 0 => t[1] = q[1])
    BY <1>1, <1>3
  <2> QED
    BY <1>5, <2>1, <2>2 DEF Paired
<1>12. ASSUME x = "enable" PROVE TurnsOn(t, server)
  <2>1. l \in 1..Len(t) /\ \A j \in 1..Len(t) : j > l => j = l + 1
    BY <1>6
  <2> QED
    BY <1>12, <1>71, <2>1 DEF TurnsOn
<1> QED
  BY <1>2, <1>5, <1>10, <1>11, <1>12 DEF RequestsOK, s, t

\* What the compositor becomes with a request.
Heard(server, r) ==
    IF r = "commit"
    THEN [server EXCEPT
            !.commits = @ + 1, !.staged = "none",
            !.on = IF server.focus = NoSurface \/ server.staged = "none"
                   THEN @ ELSE server.staged = "enable"]
    ELSE [server EXCEPT !.staged = r]

ImeServer == [focus : Ime!Maybe, on : BOOLEAN,
              staged : {"none", "enable", "disable"}, commits : Nat]

LEMMA RequestTaken ==
    ASSUME NEW q, NEW n, NEW server \in ImeServer, RequestsOK(q, n, server), q # <<>>
    PROVE  LET h == Heard(server, Head(q))
           IN  /\ h \in ImeServer /\ h.focus = server.focus
               /\ RequestsOK(Tail(q), n, h)
               /\ TurnsOn(q, server) /\ server.focus # NoSurface => TurnsOn(Tail(q), h)
<1> DEFINE r == Head(q)
           t == Tail(q)
           h == Heard(server, r)
<1>1. q \in Seq(Asked) /\ n \in Nat /\ Paired(q, server.staged)
  BY DEF RequestsOK
<1>2. /\ t \in Seq(Asked) /\ Len(q) \in Nat \ {0} /\ Len(t) = Len(q) - 1
      /\ r = q[1] /\ r \in Asked /\ \A i \in 1..Len(t) : t[i] = q[i + 1]
  BY <1>1, Shrinks
<1> HIDE DEF r, t
<1>3. /\ h \in ImeServer /\ h.focus = server.focus
      /\ h.commits = (IF r = "commit" THEN server.commits + 1 ELSE server.commits)
      /\ h.staged = (IF r = "commit" THEN "none" ELSE r)
      /\ r = "commit" /\ server.focus # NoSurface /\ server.staged = "enable" => h.on
      /\ r = "commit" /\ server.staged = "none" => h.on = server.on
  <2> DEFINE on == IF server.focus = NoSurface \/ server.staged = "none"
                   THEN server.on ELSE server.staged = "enable"
  <2>1. on \in BOOLEAN
    BY DEF ImeServer
  <2>2. /\ server.focus # NoSurface /\ server.staged = "enable" => on
        /\ server.staged = "none" => on = server.on
    OBVIOUS
  <2>3. h = IF r = "commit"
            THEN [server EXCEPT !.commits = @ + 1, !.staged = "none", !.on = on]
            ELSE [server EXCEPT !.staged = r]
    BY DEF Heard
  <2> HIDE DEF on, h
  <2>4. CASE r = "commit"
    <3>1. h = [server EXCEPT !.commits = @ + 1, !.staged = "none", !.on = on]
      BY <2>3, <2>4
    <3>2. h = [focus |-> server.focus, on |-> on, staged |-> "none",
               commits |-> server.commits + 1]
      BY <3>1 DEF ImeServer
    <3>3. server.commits + 1 \in Nat
      BY DEF ImeServer
    <3>4. h \in ImeServer
      BY <2>1, <3>2, <3>3, Zenon DEF ImeServer
    <3>5. /\ h.focus = server.focus /\ h.on = on
          /\ h.commits = server.commits + 1 /\ h.staged = "none"
      BY <3>2
    <3> QED
      BY <2>2, <2>4, <3>4, <3>5
  <2>5. CASE r # "commit"
    <3>1. h = [server EXCEPT !.staged = r] /\ r \in {"enable", "disable"}
      BY <1>2, <2>3, <2>5 DEF Asked
    <3>2. /\ h \in ImeServer /\ h.focus = server.focus
          /\ h.commits = server.commits /\ h.staged = r
      BY <3>1 DEF ImeServer
    <3> QED
      BY <2>5, <3>2
  <2> QED
    BY <2>4, <2>5
<1> HIDE DEF h
<1>4. PICK k : Counts(k, q, server.commits, n)
  BY DEF RequestsOK, Counted
<1> DEFINE c == [i \in 1..(Len(t) + 1) |-> k[i + 1]]
<1>5. Len(t) + 1 = Len(q) /\ 1 \in 1..Len(q)
  BY <1>2
<1>6. /\ c \in [1..(Len(t) + 1) -> Nat] /\ c[Len(t) + 1] = n /\ c[1] = k[2]
      /\ \A i \in 1..Len(q) : c[i] = k[i + 1]
  BY <1>2, <1>4, <1>5 DEF Counts
<1> HIDE DEF c
<1>7. k[2] = h.commits
  <2>1. k[1 + 1] = IF q[1] = "commit" THEN k[1] + 1 ELSE k[1]
    BY <1>4, <1>5 DEF Counts
  <2>2. k[1] = server.commits /\ 1 + 1 = 2
    BY <1>4 DEF Counts
  <2> QED
    BY <1>2, <1>3, <2>1, <2>2
<1>8. \A i \in 1..Len(t) : c[i + 1] = IF t[i] = "commit" THEN c[i] + 1 ELSE c[i]
  <2> SUFFICES ASSUME NEW i \in 1..Len(t)
               PROVE  c[i + 1] = IF t[i] = "commit" THEN c[i] + 1 ELSE c[i]
    OBVIOUS
  <2>1. i \in 1..Len(q) /\ i + 1 \in 1..Len(q)
    BY <1>2
  <2>2. k[(i + 1) + 1] = IF q[i + 1] = "commit" THEN k[i + 1] + 1 ELSE k[i + 1]
    BY <1>4, <2>1 DEF Counts
  <2> QED
    BY <1>2, <1>6, <2>1, <2>2
<1>9. Counted(t, h.commits, n)
  BY <1>6, <1>7, <1>8 DEF Counted, Counts
<1>10. Paired(t, h.staged)
  <2>1. ASSUME NEW i \in 1..Len(t), t[i] # "commit"
        PROVE  i + 1 \in 1..Len(t) /\ t[i + 1] = "commit"
    <3>1. i + 1 \in 1..Len(q) /\ q[i + 1] # "commit"
      BY <1>2, <2>1
    <3>2. (i + 1) + 1 \in 1..Len(q) /\ q[(i + 1) + 1] = "commit"
      BY <1>1, <3>1 DEF Paired
    <3>3. i + 1 \in 1..Len(t)
      BY <1>2, <3>2
    <3> QED
      BY <1>2, <3>2, <3>3
  <2>2. ASSUME h.staged # "none" PROVE Len(t) > 0 /\ t[1] = "commit"
    <3>1. q[1] # "commit"
      BY <1>2, <1>3, <2>2
    <3>2. 1 + 1 \in 1..Len(q) /\ q[1 + 1] = "commit"
      BY <1>1, <1>5, <3>1 DEF Paired
    <3>3. Len(t) > 0 /\ 1 \in 1..Len(t)
      BY <1>2, <3>2
    <3> QED
      BY <1>2, <3>2, <3>3
  <2> QED
    BY <2>1, <2>2 DEF Paired
<1>11. ASSUME TurnsOn(q, server), server.focus # NoSurface PROVE TurnsOn(t, h)
  <2>1. \A j \in 1..Len(t) : j + 1 \in 1..Len(q) /\ t[j] = q[j + 1]
    BY <1>2
  <2>2. CASE \E i \in 1..Len(q) :
                i # 1 /\ q[i] = "enable" /\ \A j \in 1..Len(q) : j > i => q[j] # "disable"
    <3>1. PICK i \in 1..Len(q) :
              i # 1 /\ q[i] = "enable" /\ \A j \in 1..Len(q) : j > i => q[j] # "disable"
      BY <2>2
    <3>2. i - 1 \in 1..Len(t) /\ t[i - 1] = "enable"
      BY <1>2, <3>1
    <3>3. \A j \in 1..Len(t) : j > i - 1 => j + 1 > i
      BY <1>2
    <3>4. \A j \in 1..Len(t) : j > i - 1 => t[j] # "disable"
      BY <2>1, <3>1, <3>3
    <3> QED
      BY <3>2, <3>4 DEF TurnsOn
  <2>3. CASE q[1] = "enable" /\ \A j \in 1..Len(q) : j > 1 => q[j] # "disable"
    <3>1. \A j \in 1..Len(t) : j + 1 > 1
      BY <1>2
    <3>2. \A j \in 1..Len(t) : t[j] # "disable"
      BY <2>1, <2>3, <3>1
    <3>3. h.staged = "enable"
      BY <1>2, <1>3, <2>3
    <3> QED
      BY <3>2, <3>3 DEF TurnsOn
  <2>4. CASE /\ \A j \in 1..Len(q) : q[j] # "disable"
             /\ server.staged = "enable" \/ (server.staged = "none" /\ server.on)
    <3>1. \A j \in 1..Len(t) : t[j] # "disable"
      BY <2>1, <2>4
    <3>2. q[1] # "disable"
      BY <1>5, <2>4
    <3>3. h.staged = "enable" \/ (h.staged = "none" /\ h.on)
      BY <1>2, <1>3, <1>11, <2>4, <3>2 DEF Asked
    <3> QED
      BY <3>1, <3>3 DEF TurnsOn
  <2> QED
    BY <1>11, <2>2, <2>3, <2>4 DEF TurnsOn
<1> QED
  BY <1>1, <1>2, <1>3, <1>9, <1>10, <1>11 DEF RequestsOK, r, t, h

(* The service in the middle of a handler: what it has sent so far is in    *)
(* order behind the requests under way, and turns the compositor on when    *)
(* the service is enabled and no leave, as calm says, is under way.         *)
ImeDoing == [entered : Ime!Maybe, keyboard : Ime!Maybe, active : Ime!Maybe,
             enabled : BOOLEAN, pending : BOOLEAN, serial : Nat, sent : Seq(Asked)]

Sound(s, calm) ==
    /\ s \in ImeDoing /\ imeRequests \in Seq(Asked)
    /\ RequestsOK(imeRequests \o s.sent, s.serial, imeServer)
    /\ s.enabled /\ calm => TurnsOn(imeRequests \o s.sent, imeServer)

SameFocus(s, t) ==
    t.entered = s.entered /\ t.keyboard = s.keyboard /\ t.active = s.active

LEMMA SentLater ==
    ASSUME NEW q \in Seq(Asked), NEW r \in Seq(Asked), NEW x \in Asked, NEW y \in Asked
    PROVE  /\ q \o (r \o <<x>>) = Append(q \o r, x)
           /\ q \o ((r \o <<x>>) \o <<y>>) = Append(Append(q \o r, x), y)
           /\ r \o <<x>> \in Seq(Asked) /\ (r \o <<x>>) \o <<y>> \in Seq(Asked)
<1>1. <<x>> \in Seq(Asked) /\ <<y>> \in Seq(Asked)
  OBVIOUS
<1>2. /\ q \o r \in Seq(Asked) /\ r \o <<x>> \in Seq(Asked)
      /\ (r \o <<x>>) \o <<y>> \in Seq(Asked)
  BY <1>1, ConcatProperties
<1>3. /\ q \o (r \o <<x>>) = (q \o r) \o <<x>>
      /\ q \o ((r \o <<x>>) \o <<y>>) = (q \o (r \o <<x>>)) \o <<y>>
  BY <1>1, <1>2, ConcatAssociative
<1>4. (q \o r) \o <<x>> = Append(q \o r, x)
  BY <1>2, AppendIsConcat
<1>5. Append(q \o r, x) \in Seq(Asked)
  BY <1>2, AppendProperties
<1>6. Append(q \o r, x) \o <<y>> = Append(Append(q \o r, x), y)
  BY <1>5, AppendIsConcat
<1> QED
  BY <1>2, <1>3, <1>4, <1>6

\* One field of the service set, the others kept.
LEMMA SetsEntered ==
    ASSUME NEW s \in ImeDoing, NEW x \in Ime!Maybe
    PROVE  LET t == [s EXCEPT !.entered = x]
           IN  /\ t \in ImeDoing /\ t.entered = x
               /\ t.keyboard = s.keyboard /\ t.active = s.active /\ t.enabled = s.enabled
               /\ t.pending = s.pending /\ t.serial = s.serial /\ t.sent = s.sent
  BY DEF ImeDoing

LEMMA SetsKeyboard ==
    ASSUME NEW s \in ImeDoing, NEW x \in Ime!Maybe
    PROVE  LET t == [s EXCEPT !.keyboard = x]
           IN  /\ t \in ImeDoing /\ t.keyboard = x
               /\ t.entered = s.entered /\ t.active = s.active /\ t.enabled = s.enabled
               /\ t.pending = s.pending /\ t.serial = s.serial /\ t.sent = s.sent
  BY DEF ImeDoing

LEMMA SetsActive ==
    ASSUME NEW s \in ImeDoing, NEW x \in Ime!Maybe
    PROVE  LET t == [s EXCEPT !.active = x]
           IN  /\ t \in ImeDoing /\ t.active = x
               /\ t.entered = s.entered /\ t.keyboard = s.keyboard /\ t.enabled = s.enabled
               /\ t.pending = s.pending /\ t.serial = s.serial /\ t.sent = s.sent
  BY DEF ImeDoing

LEMMA SetsEnabled ==
    ASSUME NEW s \in ImeDoing, NEW x \in BOOLEAN
    PROVE  LET t == [s EXCEPT !.enabled = x]
           IN  /\ t \in ImeDoing /\ t.enabled = x
               /\ t.entered = s.entered /\ t.keyboard = s.keyboard /\ t.active = s.active
               /\ t.pending = s.pending /\ t.serial = s.serial /\ t.sent = s.sent
  BY DEF ImeDoing

LEMMA SetsPending ==
    ASSUME NEW s \in ImeDoing, NEW x \in BOOLEAN
    PROVE  LET t == [s EXCEPT !.pending = x]
           IN  /\ t \in ImeDoing /\ t.pending = x
               /\ t.entered = s.entered /\ t.keyboard = s.keyboard /\ t.active = s.active
               /\ t.enabled = s.enabled /\ t.serial = s.serial /\ t.sent = s.sent
  BY DEF ImeDoing

LEMMA SetsSerial ==
    ASSUME NEW s \in ImeDoing, NEW x \in Nat
    PROVE  LET t == [s EXCEPT !.serial = x]
           IN  /\ t \in ImeDoing /\ t.serial = x
               /\ t.entered = s.entered /\ t.keyboard = s.keyboard /\ t.active = s.active
               /\ t.enabled = s.enabled /\ t.pending = s.pending /\ t.sent = s.sent
  BY DEF ImeDoing

LEMMA SetsSent ==
    ASSUME NEW s \in ImeDoing, NEW x \in Seq(Asked)
    PROVE  LET t == [s EXCEPT !.sent = x]
           IN  /\ t \in ImeDoing /\ t.sent = x
               /\ t.entered = s.entered /\ t.keyboard = s.keyboard /\ t.active = s.active
               /\ t.enabled = s.enabled /\ t.pending = s.pending /\ t.serial = s.serial
  BY DEF ImeDoing

LEMMA Committed ==
    ASSUME NEW s, NEW calm, Sound(s, calm)
    PROVE  LET t == Ime!CommitProtocolState(s)
           IN  Sound(t, calm) /\ SameFocus(s, t) /\ t.enabled = s.enabled
<1> DEFINE u == s.sent \o <<"commit">>
           a == [s EXCEPT !.sent = u]
           t == [a EXCEPT !.serial = a.serial + 1]
<1>1. s \in ImeDoing /\ s.sent \in Seq(Asked) /\ s.serial \in Nat /\ imeRequests \in Seq(Asked)
  BY DEF Sound, ImeDoing
<1>2. /\ imeRequests \o u = Append(imeRequests \o s.sent, "commit")
      /\ u \in Seq(Asked)
  BY <1>1, SentLater DEF Asked
<1>3. Ime!CommitProtocolState(s) = t
  BY DEF Ime!CommitProtocolState, Ime!Send
<1> HIDE DEF u
<1>4. /\ a \in ImeDoing /\ a.sent = u /\ a.serial = s.serial /\ a.enabled = s.enabled
      /\ a.entered = s.entered /\ a.keyboard = s.keyboard /\ a.active = s.active
  BY <1>1, <1>2, SetsSent
<1> HIDE DEF a
<1>5. a.serial + 1 \in Nat
  BY <1>1, <1>4
<1>6. /\ t \in ImeDoing /\ t.serial = s.serial + 1 /\ t.enabled = s.enabled /\ t.sent = u
      /\ t.entered = s.entered /\ t.keyboard = s.keyboard /\ t.active = s.active
  BY <1>4, <1>5, SetsSerial
<1> HIDE DEF t
<1>7. /\ RequestsOK(Append(imeRequests \o s.sent, "commit"), s.serial + 1, imeServer)
      /\ TurnsOn(imeRequests \o s.sent, imeServer)
           => TurnsOn(Append(imeRequests \o s.sent, "commit"), imeServer)
  BY CommitAppended DEF Sound
<1>8. Sound(t, calm)
  BY <1>1, <1>2, <1>6, <1>7 DEF Sound
<1> QED
  BY <1>3, <1>6, <1>8 DEF SameFocus

\* A request just made, and its commit.
LEMMA PairSent ==
    ASSUME NEW s \in ImeDoing, imeRequests \in Seq(Asked),
           NEW r \in Seq(Asked), RequestsOK(imeRequests \o r, s.serial, imeServer),
           NEW x \in {"enable", "disable"}, s.sent = r \o <<x>>
    PROVE  LET t == Ime!CommitProtocolState(s)
           IN  /\ t \in ImeDoing /\ RequestsOK(imeRequests \o t.sent, t.serial, imeServer)
               /\ SameFocus(s, t) /\ t.enabled = s.enabled
               /\ x = "enable" => TurnsOn(imeRequests \o t.sent, imeServer)
<1> DEFINE u == s.sent \o <<"commit">>
           a == [s EXCEPT !.sent = u]
           t == [a EXCEPT !.serial = a.serial + 1]
           q == imeRequests \o r
<1>1. s.serial \in Nat
  BY DEF ImeDoing
<1>2. imeRequests \o u = Append(Append(q, x), "commit") /\ u \in Seq(Asked)
  <2>1. x \in Asked /\ "commit" \in Asked
    BY DEF Asked
  <2> QED
    BY <2>1, SentLater
<1>3. Ime!CommitProtocolState(s) = t
  BY DEF Ime!CommitProtocolState, Ime!Send
<1> HIDE DEF u
<1>4. /\ a \in ImeDoing /\ a.sent = u /\ a.serial = s.serial /\ a.enabled = s.enabled
      /\ a.entered = s.entered /\ a.keyboard = s.keyboard /\ a.active = s.active
  BY <1>2, SetsSent
<1> HIDE DEF a
<1>5. a.serial + 1 \in Nat
  BY <1>1, <1>4
<1>6. /\ t \in ImeDoing /\ t.serial = s.serial + 1 /\ t.enabled = s.enabled /\ t.sent = u
      /\ t.entered = s.entered /\ t.keyboard = s.keyboard /\ t.active = s.active
  BY <1>4, <1>5, SetsSerial
<1> HIDE DEF t
<1>7. /\ RequestsOK(Append(Append(q, x), "commit"), s.serial + 1, imeServer)
      /\ x = "enable" => TurnsOn(Append(Append(q, x), "commit"), imeServer)
  BY PairAppended
<1> QED
  BY <1>2, <1>3, <1>6, <1>7 DEF SameFocus

LEMMA ActiveCommitted ==
    ASSUME NEW s, NEW calm, Sound(s, calm)
    PROVE  LET t == Ime!CommitActiveState(s)
           IN  Sound(t, calm) /\ SameFocus(s, t) /\ t.enabled = s.enabled
<1>1. CASE s.enabled /\ Ime!Accepts(s)
  BY <1>1, Committed DEF Ime!CommitActiveState
<1>2. CASE ~(s.enabled /\ Ime!Accepts(s))
  BY <1>2 DEF Ime!CommitActiveState, SameFocus
<1> QED
  BY <1>1, <1>2

\* enable_active enables what accepts, and nothing else.
LEMMA ActiveEnabled ==
    ASSUME NEW s, NEW calm, Sound(s, calm)
    PROVE  LET t == Ime!EnableActive(s)
           IN  /\ Sound(t, calm) /\ SameFocus(s, t)
               /\ t.enabled <=> s.enabled \/ Ime!Accepts(s)
<1>1. CASE ~Ime!Accepts(s)
  BY <1>1 DEF Ime!EnableActive, SameFocus
<1>2. CASE Ime!Accepts(s) /\ s.enabled
  BY <1>2, ActiveCommitted DEF Ime!EnableActive
<1>3. CASE Ime!Accepts(s) /\ ~s.enabled
  <2> DEFINE u == s.sent \o <<"enable">>
             a == [s EXCEPT !.sent = u]
             e == [a EXCEPT !.enabled = TRUE]
  <2>1. s \in ImeDoing /\ s.sent \in Seq(Asked) /\ u \in Seq(Asked) /\ imeRequests \in Seq(Asked)
    BY SentLater DEF Sound, ImeDoing, Asked
  <2>2. /\ a \in ImeDoing /\ a.sent = u /\ a.serial = s.serial
        /\ a.entered = s.entered /\ a.keyboard = s.keyboard /\ a.active = s.active
    BY <2>1, SetsSent
  <2>3. [Ime!Send(s, <<"enable">>) EXCEPT !.enabled = TRUE] = e
    BY DEF Ime!Send
  <2> HIDE DEF a, u
  <2>4. /\ e \in ImeDoing /\ e.sent = u /\ e.serial = s.serial /\ e.enabled
        /\ SameFocus(s, e)
    BY <2>2, SetsEnabled DEF SameFocus
  <2> HIDE DEF e
  <2>5. Ime!Accepts(e)
    BY <1>3, <2>4 DEF Ime!Accepts, SameFocus
  <2>6. Ime!EnableActive(s) = Ime!CommitProtocolState(e)
    BY <1>3, <2>3, <2>4, <2>5 DEF Ime!EnableActive, Ime!CommitActiveState
  <2> DEFINE t == Ime!CommitProtocolState(e)
  <2>7. /\ t \in ImeDoing /\ RequestsOK(imeRequests \o t.sent, t.serial, imeServer)
        /\ SameFocus(e, t) /\ t.enabled = e.enabled
        /\ TurnsOn(imeRequests \o t.sent, imeServer)
    <3>1. RequestsOK(imeRequests \o s.sent, e.serial, imeServer)
      BY <2>4 DEF Sound
    <3>2. e.sent = s.sent \o <<"enable">>
      BY <2>4 DEF u
    <3> QED
      BY <2>1, <2>4, <3>1, <3>2, PairSent
  <2> HIDE DEF t
  <2>8. Sound(t, calm) /\ SameFocus(s, t) /\ t.enabled
    BY <2>1, <2>4, <2>7 DEF Sound, SameFocus
  <2> QED
    BY <1>3, <2>6, <2>8 DEF t
<1> QED
  BY <1>1, <1>2, <1>3

LEMMA ActiveDisabled ==
    ASSUME NEW s, NEW calm, Sound(s, calm)
    PROVE  LET t == Ime!DisableActive(s)
           IN  Sound(t, calm) /\ SameFocus(s, t) /\ ~t.enabled
<1>1. CASE s.enabled /\ Ime!Accepts(s)
  <2> DEFINE u == s.sent \o <<"disable">>
             a == [s EXCEPT !.sent = u]
             d == Ime!CommitProtocolState(a)
             t == [d EXCEPT !.enabled = FALSE]
  <2>1. s \in ImeDoing /\ s.sent \in Seq(Asked) /\ u \in Seq(Asked) /\ imeRequests \in Seq(Asked)
    BY SentLater DEF Sound, ImeDoing, Asked
  <2>2. Ime!DisableActive(s) = t
    BY <1>1 DEF Ime!DisableActive, Ime!Send
  <2>3. a \in ImeDoing /\ a.sent = u /\ a.serial = s.serial /\ SameFocus(s, a)
    BY <2>1, SetsSent DEF SameFocus
  <2>4. a.sent = s.sent \o <<"disable">>
    BY <2>3
  <2> HIDE DEF a, u
  <2>5. /\ d \in ImeDoing /\ RequestsOK(imeRequests \o d.sent, d.serial, imeServer)
        /\ SameFocus(a, d)
    <3>1. RequestsOK(imeRequests \o s.sent, a.serial, imeServer)
      BY <2>3 DEF Sound
    <3> QED
      BY <2>1, <2>3, <2>4, <3>1, PairSent
  <2> HIDE DEF d
  <2>6. /\ t \in ImeDoing /\ t.sent = d.sent /\ t.serial = d.serial /\ ~t.enabled
        /\ SameFocus(s, t)
    BY <2>3, <2>5, SetsEnabled DEF SameFocus
  <2> HIDE DEF t
  <2>7. Sound(t, calm)
    BY <2>1, <2>5, <2>6 DEF Sound
  <2> QED
    BY <2>2, <2>6, <2>7
<1>2. CASE ~(s.enabled /\ Ime!Accepts(s))
  <2> DEFINE d == [s EXCEPT !.enabled = FALSE]
  <2>1. Ime!DisableActive(s) = d
    BY <1>2 DEF Ime!DisableActive
  <2>2. /\ d \in ImeDoing /\ d.sent = s.sent /\ d.serial = s.serial /\ ~d.enabled
        /\ SameFocus(s, d)
    BY DEF Sound, ImeDoing, SameFocus
  <2>3. Sound(d, calm)
    BY <2>2 DEF Sound
  <2> QED
    BY <2>1, <2>2, <2>3
<1> QED
  BY <1>1, <1>2

\* The focus a handler notes before it enables anything.
LEMMA Refocused ==
    ASSUME NEW s, NEW calm, Sound(s, calm),
           NEW entered \in Ime!Maybe, NEW keyboard \in Ime!Maybe, NEW active \in Ime!Maybe
    PROVE  /\ Sound([s EXCEPT !.entered = entered], calm)
           /\ Sound([s EXCEPT !.keyboard = keyboard], calm)
           /\ Sound([s EXCEPT !.active = active], calm)
           /\ \A pending \in BOOLEAN : Sound([s EXCEPT !.pending = pending], calm)
           /\ Sound([s EXCEPT !.enabled = FALSE], calm)
<1>1. s \in ImeDoing
  BY DEF Sound
<1>2. Sound([s EXCEPT !.entered = entered], calm)
  BY <1>1, SetsEntered DEF Sound
<1>3. Sound([s EXCEPT !.keyboard = keyboard], calm)
  BY <1>1, SetsKeyboard DEF Sound
<1>4. Sound([s EXCEPT !.active = active], calm)
  BY <1>1, SetsActive DEF Sound
<1>5. ASSUME NEW pending \in BOOLEAN PROVE Sound([s EXCEPT !.pending = pending], calm)
  BY <1>1, SetsPending DEF Sound
<1>6. Sound([s EXCEPT !.enabled = FALSE], calm)
  BY <1>1, SetsEnabled DEF Sound
<1> QED
  BY <1>2, <1>3, <1>4, <1>5, <1>6

\* The handlers keep the service sound and aware.
LEMMA AwareAlike ==
    ASSUME NEW s, NEW t, SameFocus(s, t), t.enabled = s.enabled, Aware(s)
    PROVE  Aware(t)
  BY DEF Aware, SameFocus, Ime!Accepts

LEMMA AwareEnabled ==
    ASSUME NEW s, NEW calm, Sound(s, calm), s.enabled => Ime!Accepts(s)
    PROVE  LET t == Ime!EnableActive(s)
           IN  Sound(t, calm) /\ SameFocus(s, t) /\ Aware(t)
<1> DEFINE t == Ime!EnableActive(s)
<1>1. /\ Sound(t, calm) /\ SameFocus(s, t)
      /\ t.enabled <=> s.enabled \/ Ime!Accepts(s)
  BY ActiveEnabled
<1> HIDE DEF t
<1>2. Aware(t)
  BY <1>1 DEF Aware, SameFocus, Ime!Accepts
<1> QED
  BY <1>1, <1>2 DEF t

LEMMA FocusSet ==
    ASSUME NEW s, NEW calm, Sound(s, calm), Aware(s), NEW f \in Surfaces
    PROVE  LET t == Ime!SetFocusedClient(s, f)
           IN  Sound(t, calm) /\ Aware(t) /\ t.keyboard = s.keyboard /\ t.entered = s.entered
<1> DEFINE t == Ime!SetFocusedClient(s, f)
<1>1. CASE s.active = f /\ s.enabled
  <2>1. t = Ime!CommitActiveState(s)
    BY <1>1 DEF Ime!SetFocusedClient
  <2>2. Sound(t, calm) /\ SameFocus(s, t) /\ t.enabled = s.enabled
    BY <2>1, ActiveCommitted
  <2> HIDE DEF t
  <2>3. Aware(t)
    BY <2>2, AwareAlike
  <2> QED
    BY <2>2, <2>3 DEF SameFocus, t
<1>2. CASE s.active = f /\ ~s.enabled
  <2>1. t = Ime!EnableActive(s)
    BY <1>2 DEF Ime!SetFocusedClient
  <2>2. Sound(t, calm) /\ SameFocus(s, t) /\ Aware(t)
    BY <1>2, <2>1, AwareEnabled
  <2> QED
    BY <2>2 DEF SameFocus
<1>3. CASE s.active # f
  <2> DEFINE a == Ime!DisableActive(s)
             b == [a EXCEPT !.active = f]
  <2>1. t = Ime!EnableActive(b)
    BY <1>3 DEF Ime!SetFocusedClient
  <2> HIDE DEF t
  <2>2. Sound(a, calm) /\ SameFocus(s, a) /\ ~a.enabled
    BY ActiveDisabled
  <2>3. f \in Ime!Maybe /\ a \in ImeDoing
    BY <2>2 DEF Ime!Maybe, Sound
  <2> HIDE DEF a
  <2>4. Sound(b, calm)
    BY <2>2, <2>3, Refocused
  <2>5. ~b.enabled /\ b.keyboard = s.keyboard /\ b.entered = s.entered
    BY <2>2, <2>3, SetsActive DEF SameFocus
  <2> HIDE DEF b
  <2>6. Sound(t, calm) /\ SameFocus(b, t) /\ Aware(t)
    BY <2>1, <2>4, <2>5, AwareEnabled
  <2> QED
    BY <2>5, <2>6 DEF SameFocus, t
<1> QED
  BY <1>1, <1>2, <1>3

LEMMA FocusCleared ==
    ASSUME NEW s, NEW calm, Sound(s, calm), Aware(s), NEW f \in Surfaces, s.active = f
    PROVE  LET t == Ime!ClearFocusedClient(s, f)
           IN  Sound(t, calm) /\ Aware(t) /\ t.keyboard = s.keyboard /\ t.entered = s.entered
<1> DEFINE a == Ime!DisableActive(s)
           b == [a EXCEPT !.active = NoSurface]
           t == [b EXCEPT !.pending = FALSE]
<1>1. Ime!ClearFocusedClient(s, f) = t
  BY DEF Ime!ClearFocusedClient
<1>2. Sound(a, calm) /\ SameFocus(s, a) /\ ~a.enabled
  BY ActiveDisabled
<1>3. NoSurface \in Ime!Maybe /\ a \in ImeDoing
  BY <1>2 DEF Ime!Maybe, Sound
<1> HIDE DEF a
<1>4. Sound(b, calm)
  BY <1>2, <1>3, Refocused
<1>5. /\ b \in ImeDoing /\ ~b.enabled /\ b.active = NoSurface
      /\ b.keyboard = s.keyboard /\ b.entered = s.entered
  BY <1>2, <1>3, SetsActive DEF SameFocus
<1> HIDE DEF b
<1>6. Sound(t, calm)
  BY <1>3, <1>4, Refocused
<1>7. /\ ~t.enabled /\ t.active = NoSurface
      /\ t.keyboard = s.keyboard /\ t.entered = s.entered
  BY <1>5, SetsPending
<1> HIDE DEF t
<1> QED
  BY <1>1, <1>6, <1>7 DEF Aware

LEMMA KeyboardEntered ==
    ASSUME NEW s, NEW calm, Sound(s, calm), Aware(s), NEW f \in Ime!Maybe,
           s.keyboard = NoSurface
    PROVE  LET t == Ime!OnKeyboardFocus(s, f, TRUE)
           IN  Sound(t, calm) /\ Aware(t) /\ t.keyboard = f /\ t.entered = s.entered
<1> DEFINE a == [s EXCEPT !.keyboard = f]
           t == Ime!EnableActive(a)
<1>1. Ime!OnKeyboardFocus(s, f, TRUE) = t
  BY DEF Ime!OnKeyboardFocus
<1>2. Sound(a, calm)
  BY Refocused
<1>3. /\ a.keyboard = f /\ a.entered = s.entered /\ a.active = s.active
      /\ a.enabled = s.enabled
  BY SetsKeyboard DEF Sound
<1> HIDE DEF a
<1>4. a.enabled => Ime!Accepts(a)
  BY <1>3 DEF Aware, Ime!Accepts
<1>5. Sound(t, calm) /\ SameFocus(a, t) /\ Aware(t)
  BY <1>2, <1>4, AwareEnabled
<1> QED
  BY <1>1, <1>3, <1>5 DEF SameFocus

LEMMA KeyboardLeft ==
    ASSUME NEW s, NEW calm, Sound(s, calm), Aware(s), NEW f \in Ime!Maybe,
           s.keyboard = f, s.entered = f
    PROVE  LET t == Ime!OnKeyboardFocus(s, f, FALSE)
           IN  Sound(t, calm) /\ Aware(t) /\ t.keyboard = NoSurface /\ t.entered = s.entered
<1> DEFINE t == [s EXCEPT !.keyboard = NoSurface]
<1>1. Ime!OnKeyboardFocus(s, f, FALSE) = t
  BY DEF Ime!OnKeyboardFocus
<1>2. NoSurface \in Ime!Maybe
  BY DEF Ime!Maybe
<1>3. Sound(t, calm)
  BY <1>2, Refocused
<1>4. /\ t.keyboard = NoSurface /\ t.entered = s.entered /\ t.active = s.active
      /\ t.enabled = s.enabled
  BY <1>2, SetsKeyboard DEF Sound
<1> HIDE DEF t
<1>5. Aware(t)
  BY <1>4 DEF Aware, Ime!Accepts
<1> QED
  BY <1>1, <1>3, <1>4, <1>5

LEMMA SurfaceEntered ==
    ASSUME NEW s, NEW calm, Sound(s, calm), Aware(s), NEW f \in Ime!Maybe,
           s.entered = NoSurface, s.keyboard = f
    PROVE  LET t == Ime!HandleEnter(s, f)
           IN  Sound(t, calm) /\ Aware(t) /\ t.keyboard = s.keyboard /\ t.entered = f
<1> DEFINE a == [s EXCEPT !.entered = f]
           b == [a EXCEPT !.pending = FALSE]
           t == Ime!HandleEnter(s, f)
<1>1. t = IF s.active = f THEN Ime!EnableActive(b) ELSE b
  BY DEF Ime!HandleEnter
<1> HIDE DEF t
<1>2. Sound(a, calm)
  BY Refocused
<1>3. /\ a \in ImeDoing /\ a.keyboard = s.keyboard /\ a.entered = f /\ a.active = s.active
      /\ a.enabled = s.enabled
  BY SetsEntered DEF Sound
<1> HIDE DEF a
<1>4. Sound(b, calm)
  BY <1>2, <1>3, Refocused
<1>5. /\ b.keyboard = s.keyboard /\ b.entered = f /\ b.active = s.active
      /\ b.enabled = s.enabled
  BY <1>3, SetsPending
<1> HIDE DEF b
<1>6. b.enabled => Ime!Accepts(b)
  BY <1>5 DEF Aware, Ime!Accepts
<1>7. CASE s.active = f
  <2>1. Sound(t, calm) /\ SameFocus(b, t) /\ Aware(t)
    BY <1>1, <1>4, <1>6, <1>7, AwareEnabled
  <2> QED
    BY <1>5, <2>1 DEF SameFocus, t
<1>8. CASE s.active # f
  <2>1. Aware(b)
    BY <1>5, <1>6, <1>8 DEF Aware
  <2> QED
    BY <1>1, <1>4, <1>5, <1>8, <2>1 DEF t
<1> QED
  BY <1>7, <1>8

LEMMA SurfaceLeft ==
    ASSUME NEW s, NEW calm, Sound(s, FALSE), Aware(s), NEW f \in Ime!Maybe,
           s.entered = f, s.keyboard # f
    PROVE  LET t == Ime!HandleLeave(s, f)
           IN  Sound(t, calm) /\ Aware(t) /\ t.keyboard = s.keyboard /\ t.entered = NoSurface
<1> DEFINE a == [s EXCEPT !.entered = NoSurface]
           b == [a EXCEPT !.enabled = FALSE]
           t == [b EXCEPT !.pending = FALSE]
<1>1. Ime!HandleLeave(s, f) = t
  BY DEF Ime!HandleLeave
<1>2. NoSurface \in Ime!Maybe
  BY DEF Ime!Maybe
<1>3. Sound(a, FALSE)
  BY <1>2, Refocused
<1>4. a \in ImeDoing /\ a.keyboard = s.keyboard /\ a.entered = NoSurface
  BY <1>2, SetsEntered DEF Sound
<1> HIDE DEF a
<1>5. Sound(b, FALSE)
  BY <1>2, <1>3, Refocused
<1>6. b \in ImeDoing /\ b.keyboard = s.keyboard /\ b.entered = NoSurface /\ ~b.enabled
  BY <1>4, SetsEnabled
<1> HIDE DEF b
<1>7. Sound(t, FALSE)
  BY <1>2, <1>5, Refocused
<1>8. /\ t \in ImeDoing /\ t.keyboard = s.keyboard /\ t.entered = NoSurface
      /\ ~t.enabled
  BY <1>6, SetsPending
<1> HIDE DEF t
<1>9. Sound(t, calm)
  BY <1>7, <1>8 DEF Sound
<1>10. Aware(t)
  BY <1>8 DEF Aware
<1> QED
  BY <1>1, <1>8, <1>9, <1>10

LEMMA EditNoted ==
    ASSUME NEW s, NEW calm, Sound(s, calm), Aware(s), NEW edited \in BOOLEAN
    PROVE  LET t == [s EXCEPT !.pending = edited]
           IN  /\ Sound(t, calm) /\ Aware(t)
               /\ t.keyboard = s.keyboard /\ t.entered = s.entered
<1> DEFINE t == [s EXCEPT !.pending = edited]
<1>1. NoSurface \in Ime!Maybe
  BY DEF Ime!Maybe
<1>2. Sound(t, calm)
  BY <1>1, Refocused
<1>3. SameFocus(s, t) /\ t.enabled = s.enabled
  BY SetsPending DEF Sound, SameFocus
<1> HIDE DEF t
<1>4. Aware(t)
  BY <1>3, AwareAlike
<1> QED
  BY <1>2, <1>3, <1>4 DEF SameFocus, t

LEMMA EditDone ==
    ASSUME NEW s, NEW calm, Sound(s, calm), Aware(s), NEW serial
    PROVE  LET t == Ime!HandleDone(s, serial)
           IN  /\ Sound(t, calm) /\ Aware(t)
               /\ t.keyboard = s.keyboard /\ t.entered = s.entered
<1> DEFINE a == [s EXCEPT !.pending = FALSE]
           b == Ime!CommitActiveState(a)
           t == Ime!HandleDone(s, serial)
<1>1. t = a \/ t = b
  BY DEF Ime!HandleDone
<1> HIDE DEF t
<1>2. Sound(a, calm) /\ Aware(a) /\ a.keyboard = s.keyboard /\ a.entered = s.entered
  BY EditNoted
<1> HIDE DEF a
<1>3. Sound(b, calm) /\ SameFocus(a, b) /\ b.enabled = a.enabled
  BY <1>2, ActiveCommitted
<1> HIDE DEF b
<1>4. Aware(b) /\ b.keyboard = s.keyboard /\ b.entered = s.entered
  BY <1>2, <1>3, AwareAlike DEF SameFocus
<1> QED
  BY <1>1, <1>2, <1>3, <1>4 DEF t

\* An event leads the shell from the view before it to the view after it.
Meets(s, calm, e, v, x) ==
    /\ Aware(s) /\ e \in ImeEvent /\ x \in View
    /\ Sound(s, FALSE) /\ (e.kind # "leave" => Sound(s, calm))
    /\ v.keyboard = s.keyboard /\ v.entered = s.entered /\ Seen(v, e, x)

LEMMA EventHandled ==
    ASSUME NEW s, NEW calm, NEW e, NEW v, NEW x, Meets(s, calm, e, v, x)
    PROVE  LET t == Ime!HandleEvent(s, e)
           IN  /\ Sound(t, calm) /\ Aware(t)
               /\ t.keyboard = x.keyboard /\ t.entered = x.entered
<1> DEFINE t == Ime!HandleEvent(s, e)
<1>1. /\ e.surface \in Ime!Maybe /\ e.kind \in Ime!EventKinds
      /\ Aware(s) /\ Sound(s, FALSE) /\ (e.kind # "leave" => Sound(s, calm))
  BY DEF ImeEvent, Meets
<1>2. v.keyboard = s.keyboard /\ v.entered = s.entered
  BY DEF Meets
<1>3. Seen(v, e, x)
  BY DEF Meets
<1>4. CASE e.kind = "keyboard_enter"
  <2>1. t = Ime!OnKeyboardFocus(s, e.surface, TRUE)
    BY <1>4 DEF Ime!HandleEvent
  <2>2. s.keyboard = NoSurface /\ x.keyboard = e.surface /\ x.entered = s.entered
    BY <1>2, <1>3, <1>4 DEF Seen
  <2>3. Sound(s, calm)
    BY <1>1, <1>4
  <2> QED
    BY <1>1, <2>1, <2>2, <2>3, KeyboardEntered
<1>5. CASE e.kind = "keyboard_leave"
  <2>1. t = Ime!OnKeyboardFocus(s, e.surface, FALSE)
    BY <1>5 DEF Ime!HandleEvent
  <2>2. /\ s.keyboard = e.surface /\ s.entered = e.surface
        /\ x.keyboard = NoSurface /\ x.entered = s.entered
    BY <1>2, <1>3, <1>5 DEF Seen
  <2>3. Sound(s, calm)
    BY <1>1, <1>5
  <2> QED
    BY <1>1, <2>1, <2>2, <2>3, KeyboardLeft
<1>6. CASE e.kind = "enter"
  <2>1. t = Ime!HandleEnter(s, e.surface)
    BY <1>6 DEF Ime!HandleEvent
  <2>2. /\ s.entered = NoSurface /\ s.keyboard = e.surface
        /\ x.entered = e.surface /\ x.keyboard = s.keyboard
    BY <1>2, <1>3, <1>6 DEF Seen
  <2>3. Sound(s, calm)
    BY <1>1, <1>6
  <2> QED
    BY <1>1, <2>1, <2>2, <2>3, SurfaceEntered
<1>7. CASE e.kind = "leave"
  <2>1. t = Ime!HandleLeave(s, e.surface)
    BY <1>7 DEF Ime!HandleEvent
  <2>2. /\ s.entered = e.surface /\ s.keyboard # e.surface
        /\ x.entered = NoSurface /\ x.keyboard = s.keyboard
    BY <1>2, <1>3, <1>7 DEF Seen
  <2>3. Sound(s, FALSE)
    BY <1>1, <1>7
  <2> QED
    BY <1>1, <2>1, <2>2, <2>3, SurfaceLeft
<1>8. CASE e.kind = "edit"
  <2>1. t = [s EXCEPT !.pending = TRUE]
    BY <1>8 DEF Ime!HandleEvent
  <2>2. x.entered = s.entered /\ x.keyboard = s.keyboard
    BY <1>2, <1>3, <1>8 DEF Seen
  <2>3. Sound(s, calm)
    BY <1>1, <1>8
  <2>4. LET u == [s EXCEPT !.pending = TRUE]
        IN  Sound(u, calm) /\ Aware(u) /\ u.keyboard = s.keyboard /\ u.entered = s.entered
    BY <1>1, <2>3, EditNoted
  <2> QED
    BY <2>1, <2>2, <2>4
<1>9. CASE e.kind = "done"
  <2>1. t = Ime!HandleDone(s, e.serial)
    BY <1>9 DEF Ime!HandleEvent
  <2>2. x.entered = s.entered /\ x.keyboard = s.keyboard
    BY <1>2, <1>3, <1>9 DEF Seen
  <2>3. Sound(s, calm)
    BY <1>1, <1>9
  <2> QED
    BY <1>1, <2>1, <2>2, <2>3, EditDone
<1> QED
  BY <1>1, <1>4, <1>5, <1>6, <1>7, <1>8, <1>9 DEF Ime!EventKinds

\* A handler starts sound, and what it leaves behind is the invariant.
LEMMA HandlerStarts ==
    ASSUME ImeInv
    PROVE  LET s == Ime!Sending
           IN  /\ Sound(s, Calm(imeEvents)) /\ Aware(s)
               /\ s.keyboard = ime.keyboard /\ s.entered = ime.entered
               /\ s.active = ime.active /\ s.enabled = ime.enabled
<1> DEFINE s == Ime!Sending
<1>1. /\ s.keyboard = ime.keyboard /\ s.entered = ime.entered /\ s.serial = ime.serial
      /\ s.active = ime.active /\ s.enabled = ime.enabled /\ s.sent = <<>>
  BY DEF Ime!Sending
<1>2. s \in ImeDoing
  BY DEF Ime!Sending, ImeDoing, ImeInv, Ime!TypeOK
<1> HIDE DEF s
<1>3. imeRequests \in Seq(Asked)
  BY DEF ImeInv, Ime!TypeOK, Asked
<1>4. imeRequests \o s.sent = imeRequests
  BY <1>1, <1>3, ConcatEmptySeq
<1>5. Sound(s, Calm(imeEvents))
  BY <1>1, <1>2, <1>3, <1>4 DEF Sound, ImeInv
<1>6. Aware(s)
  BY <1>1 DEF Aware, ImeInv, Ime!Accepts
<1> QED
  BY <1>1, <1>5, <1>6 DEF s

LEMMA HandlerEnds ==
    ASSUME NEW t, Ime!Becomes(t), UNCHANGED imeServer, ImeInv,
           Sound(t, Calm(imeEvents')), Aware(t),
           NEW x \in View, x.keyboard = t.keyboard, x.entered = t.entered,
           Route(imeEvents', x, ServerView),
           imeEvents' \in Seq(ImeEvent),
           imeWork' \in [moves : 0..MaxFocusMoves, edits : 0..MaxImeEdits]
    PROVE  ImeInv'
<1>1. /\ ime'.keyboard = t.keyboard /\ ime'.entered = t.entered /\ ime'.serial = t.serial
      /\ ime'.active = t.active /\ ime'.enabled = t.enabled
      /\ imeRequests' = imeRequests \o t.sent
  BY DEF Ime!Becomes
<1>2. t \in ImeDoing /\ imeRequests' \in Seq(Asked)
  BY <1>1, ConcatProperties DEF Sound, ImeDoing
<1>3. ime' \in [entered : Ime!Maybe, keyboard : Ime!Maybe, active : Ime!Maybe,
                enabled : BOOLEAN, pending : BOOLEAN, serial : Nat]
  BY <1>2, Zenon DEF Ime!Becomes, ImeDoing
<1>4. Ime!TypeOK'
  BY <1>2, <1>3 DEF Ime!TypeOK, ImeInv, ImeEvent, Asked
<1>5. ShellView' = x /\ ServerView' = ServerView
  BY <1>1 DEF ShellView, ServerView, View
<1>6. Route(imeEvents', ShellView', ServerView')
  BY <1>5
<1>7. RequestsOK(imeRequests', ime'.serial, imeServer')
  BY <1>1 DEF Sound
<1>8. Aware(ime')
  BY <1>1 DEF Aware, Ime!Accepts
<1>9. ime'.enabled /\ Calm(imeEvents') => TurnsOn(imeRequests', imeServer')
  BY <1>1 DEF Sound
<1> QED
  BY <1>4, <1>6, <1>7, <1>8, <1>9 DEF ImeInv

\* The bounds left are numbers, and a move takes one of them.
LEMMA MovesLeft ==
    ASSUME Ime!TypeOK, Ime!Move
    PROVE  imeWork' \in [moves : 0..MaxFocusMoves, edits : 0..MaxImeEdits]
<1>1. MaxFocusMoves \in Nat
  BY ServicesAssumption
<1> QED
  BY <1>1 DEF Ime!TypeOK, Ime!Move

LEMMA ImeEventsTyped ==
    ASSUME ImeInv
    PROVE  /\ imeEvents \in Seq(ImeEvent) /\ imeServer \in ImeServer
           /\ ShellView \in View /\ ServerView \in View
           /\ imeWork \in [moves : 0..MaxFocusMoves, edits : 0..MaxImeEdits]
           /\ NoSurface \notin Surfaces /\ NoSurface \in Ime!Maybe
  BY ServicesAssumption
     DEF ImeInv, Ime!TypeOK, ImeEvent, ImeServer, ShellView, ServerView, View, Ime!Maybe

LEMMA FieldFocusedKeeps ==
    ASSUME ImeInv, NEW f \in Surfaces, Ime!FieldFocused(f)
    PROVE  ImeInv'
<1> DEFINE t == Ime!SetFocusedClient(Ime!Sending, f)
<1>1. Ime!Becomes(t) /\ UNCHANGED <<imeServer, imeEvents>> /\ Ime!Move
  BY DEF Ime!FieldFocused
<1>2. /\ Sound(t, Calm(imeEvents)) /\ Aware(t)
      /\ t.keyboard = ime.keyboard /\ t.entered = ime.entered
  BY HandlerStarts, FocusSet
<1> HIDE DEF t
<1>3. ShellView.keyboard = ime.keyboard /\ ShellView.entered = ime.entered
  BY DEF ShellView
<1>4. Route(imeEvents', ShellView, ServerView)
  BY <1>1 DEF ImeInv
<1>5. imeWork' \in [moves : 0..MaxFocusMoves, edits : 0..MaxImeEdits]
  BY <1>1, MovesLeft DEF ImeInv
<1> QED
  BY <1>1, <1>2, <1>3, <1>4, <1>5, HandlerEnds, ImeEventsTyped

LEMMA FieldBlurredKeeps ==
    ASSUME ImeInv, NEW f \in Surfaces, Ime!FieldBlurred(f)
    PROVE  ImeInv'
<1> DEFINE t == Ime!ClearFocusedClient(Ime!Sending, f)
<1>1. Ime!Becomes(t) /\ UNCHANGED <<imeServer, imeEvents>> /\ Ime!Move /\ ime.active = f
  BY DEF Ime!FieldBlurred
<1>2. /\ Sound(t, Calm(imeEvents)) /\ Aware(t)
      /\ t.keyboard = ime.keyboard /\ t.entered = ime.entered
  BY <1>1, HandlerStarts, FocusCleared
<1> HIDE DEF t
<1>3. ShellView.keyboard = ime.keyboard /\ ShellView.entered = ime.entered
  BY DEF ShellView
<1>4. Route(imeEvents', ShellView, ServerView)
  BY <1>1 DEF ImeInv
<1>5. imeWork' \in [moves : 0..MaxFocusMoves, edits : 0..MaxImeEdits]
  BY <1>1, MovesLeft DEF ImeInv
<1> QED
  BY <1>1, <1>2, <1>3, <1>4, <1>5, HandlerEnds, ImeEventsTyped

LEMMA DispatchKeeps ==
    ASSUME ImeInv, Ime!Dispatch
    PROVE  ImeInv'
<1> DEFINE e == Head(imeEvents)
           t == Ime!HandleEvent(Ime!Sending, e)
<1>1. /\ imeEvents # <<>> /\ Ime!Becomes(t) /\ imeEvents' = Tail(imeEvents)
      /\ UNCHANGED <<imeServer, imeWork>>
  BY DEF Ime!Dispatch
<1>2. imeEvents \in Seq(ImeEvent) /\ Route(imeEvents, ShellView, ServerView)
  BY ImeEventsTyped DEF ImeInv
<1>3. PICK x \in View : Seen(ShellView, e, x) /\ Route(imeEvents', x, ServerView)
  BY <1>1, <1>2, RouteTail
<1>4. e \in ImeEvent /\ imeEvents' \in Seq(ImeEvent)
  BY <1>1, <1>2, Shrinks
<1>5. Calm(imeEvents') /\ e.kind # "leave" => Calm(imeEvents)
  BY <1>1, <1>2, CalmTail
<1> HIDE DEF e
<1> DEFINE s == Ime!Sending
<1>6. /\ Sound(s, Calm(imeEvents)) /\ Aware(s)
      /\ s.keyboard = ime.keyboard /\ s.entered = ime.entered
  BY HandlerStarts
<1>7. ShellView.keyboard = s.keyboard /\ ShellView.entered = s.entered
  BY <1>6 DEF ShellView
<1> HIDE DEF s
<1>8. Sound(s, FALSE) /\ (e.kind # "leave" => Sound(s, Calm(imeEvents')))
  BY <1>5, <1>6 DEF Sound
<1>10. /\ Sound(t, Calm(imeEvents')) /\ Aware(t)
       /\ x.keyboard = t.keyboard /\ x.entered = t.entered
  <2> DEFINE c == Calm(imeEvents')
             u == Ime!HandleEvent(s, e)
  <2>1. Sound(s, FALSE) /\ (e.kind # "leave" => Sound(s, c))
    BY <1>8
  <2> HIDE DEF c
  <2>2. Sound(u, c) /\ Aware(u) /\ u.keyboard = x.keyboard /\ u.entered = x.entered
    <3>1. Meets(s, c, e, ShellView, x)
      BY <1>3, <1>4, <1>6, <1>7, <2>1 DEF Meets
    <3> QED
      BY <3>1, EventHandled
  <2> HIDE DEF u
  <2>3. u = t
    BY DEF u, s
  <2> QED
    BY <2>2, <2>3 DEF c
<1> HIDE DEF t
<1>11. imeWork' \in [moves : 0..MaxFocusMoves, edits : 0..MaxImeEdits]
  BY <1>1, ImeEventsTyped
<1> QED
  BY <1>1, <1>3, <1>4, <1>10, <1>11, HandlerEnds

\* What the compositor tells of a surface leads to the next view.
LEMMA ToldRoute ==
    ASSUME NEW q \in Seq(ImeEvent), NEW v, NEW w \in View, NEW x \in View, Route(q, v, w),
           NEW kind \in Ime!EventKinds, NEW f \in Ime!Maybe,
           f = NoSurface => x = w,
           f # NoSurface => /\ Seen(w, Ime!Event(kind, f), x)
                            /\ \A g : Focuses(w, g) => Focuses(x, g) \/ (kind = "leave" /\ g = f)
    PROVE  LET t == q \o Ime!Told(kind, f)
           IN  /\ t \in Seq(ImeEvent) /\ Route(t, v, x)
               /\ Calm(t) <=> Calm(q) /\ (f = NoSurface \/ kind # "leave")
<1> DEFINE e == Ime!Event(kind, f)
<1>1. CASE f = NoSurface
  <2>1. Ime!Told(kind, f) = <<>> /\ q \o <<>> = q
    BY <1>1, ConcatEmptySeq DEF Ime!Told
  <2> QED
    BY <1>1, <2>1
<1>2. CASE f # NoSurface
  <2>1. e \in ImeEvent /\ e.kind = kind /\ e.surface = f
    BY DEF Ime!Event, ImeEvent
  <2>2. Ime!Told(kind, f) = <<e>>
    BY <1>2 DEF Ime!Told
  <2> HIDE DEF e
  <2>3. q \o Ime!Told(kind, f) = Append(q, e)
    BY <2>1, <2>2, AppendIsConcat
  <2>4. Append(q, e) \in Seq(ImeEvent)
    BY <2>1, Grows
  <2>5. Route(Append(q, e), v, x)
    <3>1. Seen(w, e, x)
      BY <1>2 DEF e
    <3>2. \A g : Focuses(w, g) => Focuses(x, g) \/ (e.kind = "leave" /\ e.surface = g)
      BY <1>2, <2>1
    <3> QED
      BY <2>1, <3>1, <3>2, RouteAppend
  <2>6. Calm(Append(q, e)) <=> Calm(q) /\ e.kind # "leave"
    BY <2>1, CalmAppend
  <2> QED
    BY <1>2, <2>1, <2>3, <2>4, <2>5, <2>6
<1> QED
  BY <1>1, <1>2

\* While nothing is left, what the shell sees the compositor has.
LEMMA CalmFocus ==
    ASSUME ImeInv, ime.enabled, Calm(imeEvents)
    PROVE  imeServer.focus # NoSurface
<1> DEFINE q == imeEvents
<1>1. PICK p : Leads(p, q, ShellView, ServerView)
  BY DEF ImeInv, Route
<1>2. 1 \in 1..(Len(q) + 1)
  BY ImeEventsTyped
<1>3. ime.active \in Surfaces /\ ime.active \in {ime.entered, ime.keyboard}
  BY DEF ImeInv, Aware, Ime!Accepts, Ime!TypeOK, Ime!Maybe
<1>4. Focuses(ShellView, ime.active)
  BY <1>3 DEF Focuses, ShellView
<1>5. Focuses(ServerView, ime.active) \/ LeaveIn(q, 1, ime.active)
  BY <1>1, <1>2, <1>4 DEF Leads
<1>6. ~LeaveIn(q, 1, ime.active)
  BY DEF LeaveIn, Calm
<1>7. ime.active = imeServer.focus
  BY <1>5, <1>6 DEF Focuses, ServerView
<1> QED
  BY <1>3, <1>7, ImeEventsTyped

LEMMA FocusMovesKeeps ==
    ASSUME ImeInv, NEW f \in Ime!Maybe, Ime!FocusMoves(f)
    PROVE  ImeInv'
<1> DEFINE old == imeServer.focus
           q1 == imeEvents \o Ime!Told("keyboard_leave", old)
           q2 == q1 \o Ime!Told("keyboard_enter", f)
           q3 == q2 \o Ime!Told("leave", old)
           q4 == q3 \o Ime!Told("enter", f)
           v1 == [keyboard |-> NoSurface, entered |-> old]
           v2 == [keyboard |-> f, entered |-> old]
           v3 == [keyboard |-> f, entered |-> NoSurface]
           v4 == [keyboard |-> f, entered |-> f]
<1>1. /\ f # old /\ old \in Ime!Maybe /\ imeEvents' = q4 /\ UNCHANGED <<ime, imeRequests>>
      /\ imeServer' = [imeServer EXCEPT !.focus = f, !.on = FALSE, !.staged = "none"]
      /\ Ime!Move
  BY ImeEventsTyped DEF Ime!FocusMoves, ImeServer
<1>2. {v1, v2, v3, v4} \subseteq View /\ ServerView = [keyboard |-> old, entered |-> old]
  BY <1>1, ImeEventsTyped DEF View, ServerView
<1> DEFINE v0 == [keyboard |-> old, entered |-> old]
<1>3. /\ v0.keyboard = old /\ v0.entered = old /\ v1.keyboard = NoSurface /\ v1.entered = old
      /\ v2.keyboard = f /\ v2.entered = old /\ v3.keyboard = f /\ v3.entered = NoSurface
      /\ v4.keyboard = f /\ v4.entered = f
  OBVIOUS
<1>4. v0 \in View /\ Route(imeEvents, ShellView, v0) /\ imeEvents \in Seq(ImeEvent)
  BY <1>2, ImeEventsTyped DEF ImeInv
<1>5. /\ old = NoSurface => v1 = v0 /\ v3 = v2
      /\ f = NoSurface => v2 = v1 /\ v4 = v3
  OBVIOUS
<1>6. \A kind, g : Ime!Event(kind, g).kind = kind /\ Ime!Event(kind, g).surface = g
  BY DEF Ime!Event
<1>7. {"keyboard_leave", "keyboard_enter", "leave", "enter"} \subseteq Ime!EventKinds
  BY DEF Ime!EventKinds
<1>8. NoSurface \notin Surfaces
  BY ServicesAssumption
<1> HIDE DEF v0, v1, v2, v3, v4, q1, q2, q3, q4
<1>9. q1 \in Seq(ImeEvent) /\ Route(q1, ShellView, v1) /\ (Calm(q1) <=> Calm(imeEvents))
  <2>1. old # NoSurface => Seen(v0, Ime!Event("keyboard_leave", old), v1)
    BY <1>3, <1>6 DEF Seen
  <2>2. \A g : Focuses(v0, g) => Focuses(v1, g)
    BY <1>3 DEF Focuses
  <2> QED
    BY <1>1, <1>2, <1>4, <1>5, <1>7, <2>1, <2>2, ToldRoute DEF q1
<1>10. q2 \in Seq(ImeEvent) /\ Route(q2, ShellView, v2) /\ (Calm(q2) <=> Calm(q1))
  <2>1. f # NoSurface => Seen(v1, Ime!Event("keyboard_enter", f), v2)
    BY <1>3, <1>6 DEF Seen
  <2>2. \A g : Focuses(v1, g) => Focuses(v2, g)
    BY <1>3, <1>8 DEF Focuses
  <2> QED
    BY <1>1, <1>2, <1>5, <1>7, <1>9, <2>1, <2>2, ToldRoute DEF q2
<1>11. /\ q3 \in Seq(ImeEvent) /\ Route(q3, ShellView, v3)
       /\ Calm(q3) <=> Calm(q2) /\ old = NoSurface
  <2>1. old # NoSurface => Seen(v2, Ime!Event("leave", old), v3)
    BY <1>1, <1>3, <1>6 DEF Seen
  <2>2. \A g : Focuses(v2, g) => Focuses(v3, g) \/ g = old
    BY <1>3 DEF Focuses
  <2> QED
    BY <1>1, <1>2, <1>5, <1>7, <1>10, <2>1, <2>2, ToldRoute DEF q3
<1>12. q4 \in Seq(ImeEvent) /\ Route(q4, ShellView, v4) /\ (Calm(q4) <=> Calm(q3))
  <2>1. f # NoSurface => Seen(v3, Ime!Event("enter", f), v4)
    BY <1>3, <1>6 DEF Seen
  <2>2. \A g : Focuses(v3, g) => Focuses(v4, g)
    BY <1>3, <1>8 DEF Focuses
  <2> QED
    BY <1>1, <1>2, <1>5, <1>7, <1>11, <2>1, <2>2, ToldRoute DEF q4
<1>13. /\ imeServer' \in ImeServer /\ imeServer'.focus = f
       /\ imeServer'.staged = "none" /\ imeServer'.commits = imeServer.commits
  BY <1>1, ImeEventsTyped DEF ImeServer
<1>14. ShellView' = ShellView /\ ServerView' = v4
  BY <1>1, <1>13 DEF ShellView, ServerView, v4
<1>15. Route(imeEvents', ShellView', ServerView')
  BY <1>1, <1>12, <1>14
<1>16. RequestsOK(imeRequests', ime'.serial, imeServer')
  <2>1. RequestsOK(imeRequests, ime.serial, imeServer)
    BY DEF ImeInv
  <2>2. Paired(imeRequests, "none")
    BY <2>1 DEF RequestsOK, Paired
  <2> QED
    BY <1>1, <1>13, <2>1, <2>2 DEF RequestsOK
<1>17. ~(ime'.enabled /\ Calm(imeEvents'))
  BY <1>1, <1>9, <1>10, <1>11, <1>12, CalmFocus
<1>18. imeWork' \in [moves : 0..MaxFocusMoves, edits : 0..MaxImeEdits]
  BY <1>1, MovesLeft DEF ImeInv
<1>19. Ime!TypeOK'
  BY <1>1, <1>12, <1>13, <1>18 DEF Ime!TypeOK, ImeInv, ImeServer, ImeEvent
<1>20. Aware(ime')
  BY <1>1 DEF ImeInv
<1> QED
  BY <1>15, <1>16, <1>17, <1>19, <1>20 DEF ImeInv

LEMMA RequestArrivesKeeps ==
    ASSUME ImeInv, Ime!RequestArrives
    PROVE  ImeInv'
<1>1. /\ imeRequests # <<>> /\ imeRequests' = Tail(imeRequests)
      /\ imeServer' = Heard(imeServer, Head(imeRequests))
      /\ UNCHANGED <<ime, imeEvents, imeWork>>
  BY DEF Ime!RequestArrives, Heard
<1>2. imeServer \in ImeServer /\ RequestsOK(imeRequests, ime.serial, imeServer)
  BY ImeEventsTyped DEF ImeInv
<1>3. /\ imeServer' \in ImeServer /\ imeServer'.focus = imeServer.focus
      /\ RequestsOK(imeRequests', ime.serial, imeServer')
      /\ TurnsOn(imeRequests, imeServer) /\ imeServer.focus # NoSurface
           => TurnsOn(imeRequests', imeServer')
  BY <1>1, <1>2, RequestTaken
<1>4. ShellView' = ShellView /\ ServerView' = ServerView
  BY <1>1, <1>3 DEF ShellView, ServerView
<1>5. Route(imeEvents', ShellView', ServerView')
  BY <1>1, <1>4 DEF ImeInv
<1>6. ime'.enabled /\ Calm(imeEvents') => TurnsOn(imeRequests', imeServer')
  BY <1>1, <1>3, CalmFocus DEF ImeInv
<1>7. Ime!TypeOK'
  <2>1. imeRequests' \in Seq(Asked)
    BY <1>3 DEF RequestsOK
  <2> QED
    BY <1>1, <1>3, <2>1 DEF Ime!TypeOK, ImeInv, ImeServer, Asked
<1> QED
  BY <1>1, <1>3, <1>5, <1>6, <1>7 DEF ImeInv

LEMMA EditKeeps ==
    ASSUME ImeInv, Ime!Edit
    PROVE  ImeInv'
<1> DEFINE a == Ime!Event("edit", imeServer.focus)
           b == [Ime!Event("done", imeServer.focus) EXCEPT !.serial = imeServer.commits]
           q == Append(imeEvents, a)
<1>1. /\ imeEvents' = imeEvents \o <<a, b>> /\ UNCHANGED <<ime, imeServer, imeRequests>>
      /\ imeWork.edits > 0 /\ imeWork' = [imeWork EXCEPT !.edits = @ - 1]
  BY DEF Ime!Edit
<1>2. imeEvents \in Seq(ImeEvent) /\ imeServer \in ImeServer
  BY ImeEventsTyped
<1>3. /\ a \in ImeEvent /\ a.kind = "edit" /\ b \in ImeEvent /\ b.kind = "done"
  BY <1>2 DEF Ime!Event, ImeEvent, ImeServer, Ime!EventKinds
<1> HIDE DEF a, b
<1>4. q \in Seq(ImeEvent) /\ imeEvents' = Append(q, b)
  <2>1. <<a, b>> = <<a>> \o <<b>>
    <3>1. <<a, b>> \in Seq(ImeEvent) /\ Len(<<a, b>>) = 2
      BY <1>3
    <3>2. <<a>> \o <<b>> \in Seq(ImeEvent) /\ Len(<<a>> \o <<b>>) = 2
      BY <1>3
    <3>3. \A i \in 1..2 : <<a, b>>[i] = (<<a>> \o <<b>>)[i]
      BY <1>3
    <3> QED
      BY <3>1, <3>2, <3>3, SeqEqual
  <2>5. <<a>> \in Seq(ImeEvent) /\ <<b>> \in Seq(ImeEvent)
    BY <1>3
  <2>2. imeEvents \o (<<a>> \o <<b>>) = (imeEvents \o <<a>>) \o <<b>>
    BY <1>2, <2>5, ConcatAssociative
  <2>3. imeEvents \o <<a>> = q /\ q \in Seq(ImeEvent)
    BY <1>2, <1>3, AppendIsConcat, AppendProperties
  <2>4. q \o <<b>> = Append(q, b)
    BY <1>3, <2>3, AppendIsConcat
  <2> QED
    BY <1>1, <2>1, <2>2, <2>3, <2>4
<1>5. \A v, e : e.kind \in {"edit", "done"} => Seen(v, e, v)
  BY DEF Seen
<1>6. Route(q, ShellView, ServerView)
  <2>1. ServerView \in View /\ Route(imeEvents, ShellView, ServerView)
    BY ImeEventsTyped DEF ImeInv
  <2>2. Seen(ServerView, a, ServerView)
    BY <1>3, <1>5
  <2> QED
    BY <1>2, <1>3, <2>1, <2>2, RouteAppend
<1>7. Calm(q) <=> Calm(imeEvents)
  BY <1>2, <1>3, CalmAppend
<1> HIDE DEF q
<1>8. Route(imeEvents', ShellView, ServerView)
  <2>1. ServerView \in View
    BY ImeEventsTyped
  <2>2. Seen(ServerView, b, ServerView)
    BY <1>3, <1>5
  <2> QED
    BY <1>3, <1>4, <1>6, <2>1, <2>2, RouteAppend
<1>9. Calm(imeEvents') <=> Calm(imeEvents)
  BY <1>3, <1>4, <1>7, CalmAppend
<1>10. imeEvents' \in Seq(ImeEvent)
  BY <1>3, <1>4, Grows
<1>11. imeWork' \in [moves : 0..MaxFocusMoves, edits : 0..MaxImeEdits]
  <2>1. MaxImeEdits \in Nat
    BY ServicesAssumption
  <2> QED
    BY <1>1, <2>1, ImeEventsTyped
<1>12. Ime!TypeOK'
  BY <1>1, <1>10, <1>11 DEF Ime!TypeOK, ImeInv, ImeEvent
<1>13. ShellView' = ShellView /\ ServerView' = ServerView
  BY <1>1 DEF ShellView, ServerView
<1> QED
  BY <1>1, <1>8, <1>9, <1>12, <1>13 DEF ImeInv

LEMMA ImeInitially == Ime!Init => ImeInv
<1> SUFFICES ASSUME Ime!Init PROVE ImeInv
  OBVIOUS
<1> USE DEF Ime!Init
<1>1. NoSurface \in Ime!Maybe /\ MaxFocusMoves \in Nat /\ MaxImeEdits \in Nat
  BY ServicesAssumption DEF Ime!Maybe
<1>2. Ime!TypeOK
  BY <1>1 DEF Ime!TypeOK
<1>3. Route(imeEvents, ShellView, ServerView)
  <2> DEFINE v == [keyboard |-> NoSurface, entered |-> NoSurface]
             p == [i \in 1..1 |-> v]
  <2>1. ShellView = v /\ ServerView = v /\ v \in View
    BY <1>1 DEF ShellView, ServerView, View
  <2>2. Len(imeEvents) = 0
    OBVIOUS
  <2>3. Leads(p, imeEvents, v, v)
    BY <2>1, <2>2 DEF Leads
  <2> QED
    BY <2>1, <2>3 DEF Route
<1>4. RequestsOK(imeRequests, ime.serial, imeServer)
  <2> DEFINE k == [i \in 1..1 |-> 0]
  <2>1. Len(imeRequests) = 0 /\ imeServer.commits = 0 /\ ime.serial = 0
        /\ imeServer.staged = "none" /\ imeRequests \in Seq(Asked)
    OBVIOUS
  <2>2. Counts(k, imeRequests, 0, 0)
    BY <2>1 DEF Counts
  <2> QED
    BY <2>1, <2>2 DEF RequestsOK, Counted, Paired
<1> QED
  BY <1>2, <1>3, <1>4 DEF ImeInv, Aware

LEMMA ImeStep == ImeInv /\ Ime!Next => ImeInv'
  BY FieldFocusedKeeps, FieldBlurredKeeps, DispatchKeeps, FocusMovesKeeps,
     RequestArrivesKeeps, EditKeeps
     DEF Ime!Next

LEMMA ImeStays == ImeInv /\ UNCHANGED imeVars => ImeInv'
  BY DEF ImeInv, imeVars, Ime!TypeOK, ShellView, ServerView, Aware, Ime!Accepts

LEMMA ImeSettled == ImeInv => Ime!ImeFollowsFocus
<1> SUFFICES ASSUME ImeInv, Ime!ImeQuiet
             PROVE  /\ ime.serial = imeServer.commits
                    /\ (ime.active = imeServer.focus /\ ime.active # NoSurface)
                         => ime.enabled /\ imeServer.on
  BY DEF Ime!ImeFollowsFocus
<1>1. Len(imeEvents) = 0 /\ Len(imeRequests) = 0
  BY DEF Ime!ImeQuiet
<1>2. PICK k : Counts(k, imeRequests, imeServer.commits, ime.serial)
  BY DEF ImeInv, RequestsOK, Counted
<1>3. ime.serial = imeServer.commits
  BY <1>1, <1>2 DEF Counts
<1>4. PICK p : Leads(p, imeEvents, ShellView, ServerView)
  BY DEF ImeInv, Route
<1>5. ShellView = ServerView
  BY <1>1, <1>4 DEF Leads
<1>6. ime.entered = imeServer.focus
  BY <1>5 DEF ShellView, ServerView
<1>7. ASSUME ime.active = imeServer.focus, ime.active # NoSurface
      PROVE  ime.enabled /\ imeServer.on
  <2>1. ime.enabled
    BY <1>6, <1>7 DEF ImeInv, Aware
  <2>2. TurnsOn(imeRequests, imeServer)
    BY <1>1, <2>1 DEF ImeInv, Calm
  <2>3. imeServer.staged = "none"
    BY <1>1, ImeEventsTyped DEF ImeInv, RequestsOK, Paired, ImeServer
  <2> QED
    BY <1>1, <2>1, <2>2, <2>3 DEF TurnsOn
<1> QED
  BY <1>3, <1>7
-----------------------------------------------------------------------------
(* The services of UPower: what a queue of messages makes, step by step,   *)
(* of a value that each of them may change.                                *)

\* A set of numbers has a least one.
LEMMA Least ==
    ASSUME NEW S, S \subseteq Nat, S # {}
    PROVE  \E m \in S : \A k \in S : m <= k
<1>1. PICK m \in S : \A k \in S : ~(<<k, m>> \in OpToRel(<, Nat))
  BY NatLessThanWellFounded, WFMin
<1>2. \A k \in S : ~(k < m)
  BY <1>1 DEF OpToRel
<1> QED
  BY <1>2

(* T holds the steps <<before, message, after>> that are possible.          *)
Walks(l, q, v, w, V, T) ==
    /\ l \in [1..(Len(q) + 1) -> V] /\ l[1] = v /\ l[Len(q) + 1] = w
    /\ \A i \in 1..Len(q) : <<l[i], q[i], l[i + 1]>> \in T
Walk(q, v, w, V, T) == \E l : Walks(l, q, v, w, V, T)

LEMMA WalkTail ==
    ASSUME NEW M, NEW q \in Seq(M), q # <<>>, NEW V, NEW T, NEW v, NEW w, Walk(q, v, w, V, T)
    PROVE  \E x \in V : <<v, Head(q), x>> \in T /\ Walk(Tail(q), x, w, V, T)
<1> DEFINE t == Tail(q)
<1>1. PICK p : Walks(p, q, v, w, V, T)
  BY DEF Walk
<1>2. /\ Len(q) \in Nat \ {0} /\ Len(t) = Len(q) - 1 /\ Head(q) = q[1]
      /\ \A i \in 1..Len(t) : t[i] = q[i + 1]
  BY Shrinks
<1> HIDE DEF t
<1> DEFINE r == [i \in 1..(Len(t) + 1) |-> p[i + 1]]
<1>3. Len(t) + 1 = Len(q) /\ 1 \in 1..Len(q)
  BY <1>2
<1>4. /\ r \in [1..(Len(t) + 1) -> V] /\ r[1] = p[2] /\ r[Len(t) + 1] = w
      /\ \A i \in 1..Len(q) : r[i] = p[i + 1]
  BY <1>1, <1>2, <1>3 DEF Walks
<1>5. <<v, Head(q), p[2]>> \in T /\ p[2] \in V
  <2>1. <<p[1], q[1], p[1 + 1]>> \in T
    BY <1>1, <1>3 DEF Walks
  <2>2. 1 + 1 = 2 /\ 2 \in 1..(Len(q) + 1)
    BY <1>2
  <2> QED
    BY <1>1, <1>2, <2>1, <2>2 DEF Walks
<1> HIDE DEF r
<1>6. \A i \in 1..Len(t) : <<r[i], t[i], r[i + 1]>> \in T
  <2> SUFFICES ASSUME NEW i \in 1..Len(t) PROVE <<r[i], t[i], r[i + 1]>> \in T
    OBVIOUS
  <2>1. i \in 1..Len(q) /\ i + 1 \in 1..Len(q)
    BY <1>2
  <2>2. <<p[i + 1], q[i + 1], p[(i + 1) + 1]>> \in T
    BY <1>1, <2>1 DEF Walks
  <2>3. r[i] = p[i + 1] /\ r[i + 1] = p[(i + 1) + 1] /\ t[i] = q[i + 1]
    BY <1>2, <1>4, <2>1
  <2> QED
    BY <2>2, <2>3
<1>7. Walks(r, t, p[2], w, V, T)
  BY <1>3, <1>4, <1>6 DEF Walks
<1> QED
  BY <1>5, <1>7 DEF Walk, t

LEMMA WalkAppend ==
    ASSUME NEW M, NEW q \in Seq(M), NEW e \in M, NEW V, NEW T,
           NEW v, NEW w, NEW x \in V, Walk(q, v, w, V, T), <<w, e, x>> \in T
    PROVE  Walk(Append(q, e), v, x, V, T)
<1> DEFINE t == Append(q, e)
<1>1. PICK p : Walks(p, q, v, w, V, T)
  BY DEF Walk
<1>2. /\ Len(q) \in Nat /\ Len(t) = Len(q) + 1 /\ t[Len(q) + 1] = e
      /\ \A i \in 1..Len(q) : t[i] = q[i]
  BY Grows
<1> HIDE DEF t
<1> DEFINE n == Len(q) + 1
           r == [i \in 1..(Len(t) + 1) |-> IF i = n + 1 THEN x ELSE p[i]]
<1>3. n \in Nat \ {0} /\ Len(t) = n /\ Len(q) = n - 1 /\ n + 1 # n /\ n + 1 # 1
  BY <1>2
<1>4. p \in [1..n -> V] /\ p[1] = v /\ p[n] = w
  BY <1>1 DEF Walks
<1> HIDE DEF n
<1>5. /\ r \in [1..(Len(t) + 1) -> V] /\ r[1] = v /\ r[Len(t) + 1] = x
      /\ \A i \in 1..n : r[i] = p[i]
  BY <1>3, <1>4
<1> HIDE DEF r
<1>6. \A i \in 1..Len(t) : <<r[i], t[i], r[i + 1]>> \in T
  <2> SUFFICES ASSUME NEW i \in 1..Len(t) PROVE <<r[i], t[i], r[i + 1]>> \in T
    OBVIOUS
  <2>1. CASE i = n
    <3>1. r[i] = w /\ t[i] = e /\ r[i + 1] = x
      BY <1>2, <1>3, <1>4, <1>5, <2>1 DEF n
    <3> QED
      BY <3>1
  <2>2. CASE i # n
    <3>1. i \in 1..Len(q) /\ i \in 1..n /\ i + 1 \in 1..n
      BY <1>3, <2>2
    <3>2. r[i] = p[i] /\ r[i + 1] = p[i + 1] /\ t[i] = q[i]
      BY <1>2, <1>5, <3>1
    <3>3. <<p[i], q[i], p[i + 1]>> \in T
      BY <1>1, <3>1 DEF Walks
    <3> QED
      BY <3>2, <3>3
  <2> QED
    BY <2>1, <2>2
<1>7. Walks(r, t, v, x, V, T)
  BY <1>5, <1>6 DEF Walks
<1> QED
  BY <1>7 DEF Walk, t

\* A queue of which every message has been replaced by one that steps alike.
LEMMA WalkReplaced ==
    ASSUME NEW q, NEW r, NEW V, NEW T, NEW v, NEW w, Walk(q, v, w, V, T),
           Len(r) = Len(q),
           \A i \in 1..Len(q) : \A a, b \in V : <<a, q[i], b>> \in T => <<a, r[i], b>> \in T,
           Len(q) \in Nat
    PROVE  Walk(r, v, w, V, T)
<1>1. PICK l : Walks(l, q, v, w, V, T)
  BY DEF Walk
<1>2. \A i \in 1..Len(q) : <<l[i], r[i], l[i + 1]>> \in T
  <2> SUFFICES ASSUME NEW i \in 1..Len(q) PROVE <<l[i], r[i], l[i + 1]>> \in T
    OBVIOUS
  <2>1. i \in 1..(Len(q) + 1) /\ i + 1 \in 1..(Len(q) + 1)
    OBVIOUS
  <2>2. l[i] \in V /\ l[i + 1] \in V
    BY <1>1, <2>1 DEF Walks
  <2> QED
    BY <1>1, <2>2 DEF Walks
<1>3. Walks(l, r, v, w, V, T)
  BY <1>1, <1>2 DEF Walks
<1> QED
  BY <1>3 DEF Walk

\* A walk that ends elsewhere than it began has a step that leaves where it began.
LEMMA WalkLeaves ==
    ASSUME NEW q, Len(q) \in Nat, NEW V, NEW T, NEW v, NEW w, Walk(q, v, w, V, T), v # w
    PROVE  \E i \in 1..Len(q) : \E x \in V : x # v /\ <<v, q[i], x>> \in T
<1>1. PICK l : Walks(l, q, v, w, V, T)
  BY DEF Walk
<1> DEFINE S == {i \in 1..(Len(q) + 1) : l[i] # v}
<1>2. Len(q) + 1 \in S /\ S \subseteq Nat
  BY <1>1 DEF Walks
<1>3. PICK m \in S : \A k \in S : m <= k
  BY <1>2, Least
<1>4. m # 1 /\ m \in 1..(Len(q) + 1) /\ l[m] # v
  BY <1>1 DEF Walks
<1>5. m - 1 \in 1..Len(q) /\ m - 1 \notin S /\ (m - 1) + 1 = m
  BY <1>3, <1>4
<1>6. l[m - 1] = v /\ l[m] \in V
  BY <1>1, <1>4, <1>5 DEF Walks
<1>7. <<l[m - 1], q[m - 1], l[(m - 1) + 1]>> \in T
  BY <1>1, <1>5 DEF Walks
<1> QED
  BY <1>4, <1>5, <1>6, <1>7

-----------------------------------------------------------------------------
(* UPower.  A device is there for the shell as its comings and goings under *)
(* way say; and of whatever is there, the shell shows the level, or the     *)
(* last word under way brings it.                                          *)

UpMessage ==
    {m \in [kind : {"reply", "changed", "added", "removed"},
            of : Power!Objects \union {Power!Nobody},
            value : Power!Levels \union Power!Supplies \union {Power!Absent}] :
        /\ m.kind \in {"added", "removed"} => m.of \in Power!Paths
        /\ m.kind = "changed" => m.of \in Power!Objects
        /\ m.kind = "reply" =>
              /\ m.of = "display" => m.value \in Power!Levels
              /\ m.of = "manager" => m.value \in Power!Supplies
              /\ m.of \in Power!Paths => m.value \in Power!Levels \union {Power!Absent}}

Presences == {"gone", "there"}
Presence(v) == IF v = Power!Absent THEN "gone" ELSE "there"

\* What a message of UPower makes of the presence of p.
UpSteps(p) ==
    {t \in Presences \X UpMessage \X Presences :
        \/ t[2].kind = "added" /\ t[2].of = p /\ t[1] = "gone" /\ t[3] = "there"
        \/ t[2].kind = "removed" /\ t[2].of = p /\ t[1] = "there" /\ t[3] = "gone"
        \/ ~(t[2].kind \in {"added", "removed"} /\ t[2].of = p) /\ t[1] = t[3]}

Held(o) == IF o = "display" THEN upowerd.display
           ELSE IF o = "manager" THEN upowerd.supply ELSE upowerd.devices[o]
Shown(o) == IF o = "display" THEN upower.display
            ELSE IF o = "manager" THEN upower.supply ELSE upower.devices[o]

IsReply(m, o) == m.kind = "reply" /\ m.of = o
IsNews(m, o) == m.kind \in {"changed", "added"} /\ m.of = o

(* The value held will be read, or the last reply brings it, or it is shown. *)
Will(o, q, c, held, shown) ==
    \/ \E i \in 1..Len(c) : c[i] = o
    \/ \E i \in 1..Len(q) : IsNews(q[i], o)
    \/ \E i \in 1..Len(q) : /\ IsReply(q[i], o) /\ q[i].value = held
                            /\ \A j \in 1..Len(q) : j > i => ~IsReply(q[j], o)
    \/ shown = held /\ \A j \in 1..Len(q) : ~IsReply(q[j], o)

UpLives ==
    \A p \in Power!Paths :
        Walk(upInbox, Presence(upower.devices[p]), Presence(upowerd.devices[p]),
             Presences, UpSteps(p))
UpComes ==
    \A o \in Power!Objects :
        Held(o) # Power!Absent => Will(o, upInbox, upCalls, Held(o), Shown(o))
UpPainted ==
    ~upower.dirty /\ ~battery.due =>
        battery.pill = upower.display /\ battery.rows = Power!Rows(upower)

UpInv ==
    /\ Power!TypeOK /\ upInbox \in Seq(UpMessage)
    /\ UpLives /\ UpComes /\ UpPainted

LEMMA UpNames ==
    /\ "display" \notin Power!Paths /\ "manager" \notin Power!Paths
    /\ Power!Nobody \notin Power!Objects /\ Power!Paths \subseteq Power!Objects
    /\ \A o \in Power!Objects : o = "display" \/ o = "manager" \/ o \in Power!Paths
    /\ MaxPowerChanges \in Nat
  BY ServicesAssumption DEF Power!Paths, Power!Objects, Power!Nobody

LEMMA UpValues ==
    /\ Power!Absent \notin Power!Levels /\ Power!Absent \notin Power!Supplies
    /\ Power!Blank \notin Power!Levels /\ Power!Absent # Power!Blank
  BY DEF Power!Absent, Power!Levels, Power!Supplies, Power!Blank

\* How a queue that grows or shrinks keeps its word about o.
LEMMA WillGrows ==
    ASSUME NEW M, NEW q \in Seq(M), NEW e \in M, NEW o, NEW c, NEW held, NEW shown
    PROVE  /\ IsNews(e, o) => Will(o, Append(q, e), c, held, shown)
           /\ IsReply(e, o) /\ e.value = held => Will(o, Append(q, e), c, held, shown)
           /\ ~IsReply(e, o) /\ Will(o, q, c, held, shown) => Will(o, Append(q, e), c, held, shown)
<1> DEFINE t == Append(q, e)
<1>1. /\ Len(q) \in Nat /\ Len(t) = Len(q) + 1 /\ t[Len(q) + 1] = e
      /\ \A i \in 1..Len(q) : t[i] = q[i]
  BY Grows
<1> HIDE DEF t
<1>2. Len(q) + 1 \in 1..Len(t) /\ \A i \in 1..Len(t) : i = Len(q) + 1 \/ i \in 1..Len(q)
  BY <1>1
<1>3. \A i \in 1..Len(q) : i \in 1..Len(t)
  BY <1>1
<1>4. \A j \in 1..Len(t) : ~(j > Len(q) + 1)
  BY <1>1
<1>5. IsNews(e, o) => Will(o, t, c, held, shown)
  BY <1>1, <1>2 DEF Will
<1>6. IsReply(e, o) /\ e.value = held => Will(o, t, c, held, shown)
  BY <1>1, <1>2, <1>4 DEF Will
<1>7. ASSUME ~IsReply(e, o), Will(o, q, c, held, shown) PROVE Will(o, t, c, held, shown)
  <2>1. CASE \E i \in 1..Len(c) : c[i] = o
    BY <2>1 DEF Will
  <2>2. CASE \E i \in 1..Len(q) : IsNews(q[i], o)
    BY <1>1, <1>3, <2>2 DEF Will
  <2>3. CASE \E i \in 1..Len(q) : /\ IsReply(q[i], o) /\ q[i].value = held
                                  /\ \A j \in 1..Len(q) : j > i => ~IsReply(q[j], o)
    <3>1. PICK i \in 1..Len(q) : /\ IsReply(q[i], o) /\ q[i].value = held
                                 /\ \A j \in 1..Len(q) : j > i => ~IsReply(q[j], o)
      BY <2>3
    <3>2. \A j \in 1..Len(t) : j > i => ~IsReply(t[j], o)
      BY <1>1, <1>2, <1>7, <3>1
    <3>3. i \in 1..Len(t) /\ IsReply(t[i], o) /\ t[i].value = held
      BY <1>1, <1>3, <3>1
    <3> QED
      BY <3>2, <3>3 DEF Will
  <2>4. CASE shown = held /\ \A j \in 1..Len(q) : ~IsReply(q[j], o)
    <3>1. \A j \in 1..Len(t) : ~IsReply(t[j], o)
      BY <1>1, <1>2, <1>7, <2>4
    <3> QED
      BY <2>4, <3>1 DEF Will
  <2> QED
    BY <1>7, <2>1, <2>2, <2>3, <2>4 DEF Will
<1> QED
  BY <1>5, <1>6, <1>7 DEF t

LEMMA WillShrinks ==
    ASSUME NEW M, NEW q \in Seq(M), q # <<>>, NEW o, NEW c, NEW held, NEW shown,
           Will(o, q, c, held, shown), ~IsNews(Head(q), o), NEW now,
           IsReply(Head(q), o) => now = Head(q).value \/ Head(q).value # held,
           ~IsReply(Head(q), o) => now = shown
    PROVE  Will(o, Tail(q), c, held, now)
<1> DEFINE t == Tail(q)
<1>1. /\ Len(q) \in Nat \ {0} /\ Len(t) = Len(q) - 1 /\ Head(q) = q[1]
      /\ \A i \in 1..Len(t) : t[i] = q[i + 1]
  BY Shrinks
<1> HIDE DEF t
<1>2. \A i \in 1..Len(q) : i = 1 \/ (i - 1 \in 1..Len(t) /\ t[i - 1] = q[i])
  BY <1>1
<1>3. \A j \in 1..Len(t) : j + 1 \in 1..Len(q) /\ t[j] = q[j + 1] /\ j + 1 > 1
  BY <1>1
<1>4. 1 \in 1..Len(q)
  BY <1>1
<1>5. CASE \E i \in 1..Len(c) : c[i] = o
  BY <1>5 DEF Will, t
<1>6. CASE \E i \in 1..Len(q) : IsNews(q[i], o)
  BY <1>1, <1>2, <1>6 DEF Will, t
<1>7. CASE \E i \in 1..Len(q) : /\ IsReply(q[i], o) /\ q[i].value = held
                                /\ \A j \in 1..Len(q) : j > i => ~IsReply(q[j], o)
  <2>1. PICK i \in 1..Len(q) : /\ IsReply(q[i], o) /\ q[i].value = held
                               /\ \A j \in 1..Len(q) : j > i => ~IsReply(q[j], o)
    BY <1>7
  <2>2. CASE i = 1
    <3>1. now = held
      BY <1>1, <2>1, <2>2
    <3>2. \A j \in 1..Len(t) : ~IsReply(t[j], o)
      BY <1>3, <2>1, <2>2
    <3> QED
      BY <3>1, <3>2 DEF Will, t
  <2>3. CASE i # 1
    <3>1. i - 1 \in 1..Len(t) /\ t[i - 1] = q[i]
      BY <1>2, <2>1, <2>3
    <3>2. \A j \in 1..Len(t) : j > i - 1 => j + 1 > i
      BY <1>1, <3>1
    <3>3. \A j \in 1..Len(t) : j > i - 1 => ~IsReply(t[j], o)
      BY <1>3, <2>1, <3>2
    <3> QED
      BY <2>1, <3>1, <3>3 DEF Will, t
  <2> QED
    BY <2>2, <2>3
<1>8. CASE shown = held /\ \A j \in 1..Len(q) : ~IsReply(q[j], o)
  <2>1. now = held
    BY <1>1, <1>4, <1>8
  <2>2. \A j \in 1..Len(t) : ~IsReply(t[j], o)
    BY <1>3, <1>8
  <2> QED
    BY <2>1, <2>2 DEF Will, t
<1> QED
  BY <1>5, <1>6, <1>7, <1>8 DEF Will

LEMMA WillCalls ==
    ASSUME NEW C, NEW c \in Seq(C), NEW x \in C, NEW o, NEW q, NEW held, NEW shown
    PROVE  /\ Will(x, q, Append(c, x), held, shown)
           /\ Will(o, q, c, held, shown) => Will(o, q, Append(c, x), held, shown)
<1> DEFINE t == Append(c, x)
<1>1. /\ Len(c) \in Nat /\ Len(t) = Len(c) + 1 /\ t[Len(c) + 1] = x
      /\ \A i \in 1..Len(c) : t[i] = c[i]
  BY Grows
<1> HIDE DEF t
<1>2. Len(c) + 1 \in 1..Len(t) /\ \A i \in 1..Len(c) : i \in 1..Len(t)
  BY <1>1
<1> QED
  BY <1>1, <1>2 DEF Will, t

LEMMA WillCalled ==
    ASSUME NEW C, NEW c \in Seq(C), c # <<>>, NEW o, NEW q, NEW held, NEW shown,
           Will(o, q, c, held, shown), Head(c) # o
    PROVE  Will(o, q, Tail(c), held, shown)
<1> DEFINE t == Tail(c)
<1>1. /\ Len(c) \in Nat \ {0} /\ Len(t) = Len(c) - 1 /\ Head(c) = c[1]
      /\ \A i \in 1..Len(t) : t[i] = c[i + 1]
  BY Shrinks
<1> HIDE DEF t
<1>2. \A i \in 1..Len(c) : i = 1 \/ (i - 1 \in 1..Len(t) /\ t[i - 1] = c[i])
  BY <1>1
<1> QED
  BY <1>1, <1>2 DEF Will, t

\* A queue of such messages has the type TypeOK gives it.
LEMMA UpMessages ==
    ASSUME NEW q \in Seq(UpMessage)
    PROVE  q \in Seq([kind : {"reply", "changed", "added", "removed"},
                      of : Power!Objects \union {Power!Nobody},
                      value : Power!Levels \union Power!Supplies \union {Power!Absent}])
<1> DEFINE R == [kind : {"reply", "changed", "added", "removed"},
                 of : Power!Objects \union {Power!Nobody},
                 value : Power!Levels \union Power!Supplies \union {Power!Absent}]
<1>1. UpMessage \subseteq R
  BY DEF UpMessage
<1> HIDE DEF R
<1>2. q \in Seq(R)
  BY <1>1
<1> QED
  BY <1>2 DEF R

\* What the two sides hold, by type.
LEMMA UpTyped ==
    ASSUME UpInv
    PROVE  /\ upInbox \in Seq(UpMessage) /\ upCalls \in Seq(Power!Objects \union {Power!Nobody})
           /\ upower.devices \in [Power!Paths -> Power!Levels \union {Power!Absent, Power!Blank}]
           /\ upowerd.devices \in [Power!Paths -> Power!Levels \union {Power!Absent}]
           /\ upower.display \in Power!Levels \union {Power!Absent} /\ upower.supply \in Power!Supplies
           /\ upowerd.display \in Power!Levels /\ upowerd.supply \in Power!Supplies
           /\ upower.dirty \in BOOLEAN
  BY DEF UpInv, Power!TypeOK

\* A device that is gone for the shell and there for UPower has been announced.
LEMMA Announced ==
    ASSUME NEW q \in Seq(UpMessage), NEW p \in Power!Paths,
           Walk(q, "gone", "there", Presences, UpSteps(p))
    PROVE  \E i \in 1..Len(q) : IsNews(q[i], p)
<1>1. Len(q) \in Nat
  OBVIOUS
<1>2. PICK i \in 1..Len(q) : \E x \in Presences : x # "gone" /\ <<"gone", q[i], x>> \in UpSteps(p)
  BY <1>1, WalkLeaves
<1>3. q[i].kind = "added" /\ q[i].of = p
  BY <1>2 DEF UpSteps, Presences
<1> QED
  BY <1>3 DEF IsNews

LEMMA RowsAlike ==
    ASSUME NEW u, NEW w, u.supply = w.supply,
           \A p \in Power!Paths : u.devices[p] = w.devices[p]
               \/ {u.devices[p], w.devices[p]} \subseteq {Power!Absent, Power!Blank}
    PROVE  Power!Rows(u) = Power!Rows(w)
<1>1. Power!Batteries(u) = Power!Batteries(w)
  BY UpValues DEF Power!Batteries
<1>2. \A p \in Power!Batteries(u) : u.devices[p] = w.devices[p]
  BY UpValues DEF Power!Batteries
<1>3. Power!AllFull(u) = Power!AllFull(w)
  BY <1>1, <1>2 DEF Power!AllFull
<1>4. {<<p, u.devices[p]>> : p \in Power!Batteries(u)} = {<<p, w.devices[p]>> : p \in Power!Batteries(w)}
  BY <1>1, <1>2
<1> QED
  BY <1>1, <1>3, <1>4 DEF Power!Rows

\* The first message, as the types and the walks have it.
LEMMA UpHead ==
    ASSUME UpInv, upInbox # <<>>
    PROVE  LET m == Head(upInbox)
           IN  /\ m \in UpMessage /\ Tail(upInbox) \in Seq(UpMessage)
               /\ \A p \in Power!Paths :
                    \E x \in Presences :
                       /\ <<Presence(upower.devices[p]), m, x>> \in UpSteps(p)
                       /\ Walk(Tail(upInbox), x, Presence(upowerd.devices[p]), Presences, UpSteps(p))
<1> DEFINE m == Head(upInbox)
<1>1. m \in UpMessage /\ Tail(upInbox) \in Seq(UpMessage) /\ upInbox \in Seq(UpMessage)
  BY UpTyped, Shrinks
<1>2. ASSUME NEW p \in Power!Paths
      PROVE  \E x \in Presences :
                 /\ <<Presence(upower.devices[p]), m, x>> \in UpSteps(p)
                 /\ Walk(Tail(upInbox), x, Presence(upowerd.devices[p]), Presences, UpSteps(p))
  <2>1. Walk(upInbox, Presence(upower.devices[p]), Presence(upowerd.devices[p]),
             Presences, UpSteps(p))
    BY DEF UpInv, UpLives
  <2> QED
    BY <1>1, <2>1, WalkTail
<1> QED
  BY <1>1, <1>2

\* A message that brings no device and takes none leaves the walk where it was.
LEMMA UpIdleTail ==
    ASSUME UpInv, upInbox # <<>>, ~(Head(upInbox).kind \in {"added", "removed"})
    PROVE  \A p \in Power!Paths :
               Walk(Tail(upInbox), Presence(upower.devices[p]), Presence(upowerd.devices[p]),
                    Presences, UpSteps(p))
<1> DEFINE m == Head(upInbox)
<1> SUFFICES ASSUME NEW p \in Power!Paths
             PROVE  Walk(Tail(upInbox), Presence(upower.devices[p]), Presence(upowerd.devices[p]),
                         Presences, UpSteps(p))
  OBVIOUS
<1>1. PICK x \in Presences :
          /\ <<Presence(upower.devices[p]), m, x>> \in UpSteps(p)
          /\ Walk(Tail(upInbox), x, Presence(upowerd.devices[p]), Presences, UpSteps(p))
  BY UpHead
<1>2. x = Presence(upower.devices[p])
  BY <1>1 DEF UpSteps
<1> QED
  BY <1>1, <1>2

\* The cases of Refreshed, one at a time.
LEMMA RefreshedCases ==
    ASSUME NEW u, NEW m
    PROVE  /\ m.of = "display" =>
                 Power!Refreshed(u, m) = [u EXCEPT !.display = m.value,
                                                   !.dirty = @ \/ m.value # u.display]
           /\ m.of = "manager" =>
                 Power!Refreshed(u, m) = [u EXCEPT !.supply = m.value, !.dirty = TRUE]
           /\ m.of \in Power!Paths =>
                 Power!Refreshed(u, m) = IF u.devices[m.of] = Power!Absent THEN u
                                         ELSE [u EXCEPT !.devices[m.of] = m.value, !.dirty = TRUE]
           /\ m.of = Power!Nobody => Power!Refreshed(u, m) = u
<1> DEFINE a == [u EXCEPT !.display = m.value, !.dirty = @ \/ m.value # u.display]
           b == [u EXCEPT !.supply = m.value, !.dirty = TRUE]
           c == IF u.devices[m.of] = Power!Absent THEN u
                ELSE [u EXCEPT !.devices[m.of] = m.value, !.dirty = TRUE]
<1>1. Power!Refreshed(u, m) = CASE m.of = "display" -> a
                                [] m.of = "manager" -> b
                                [] m.of \in Power!Paths -> c
                                [] m.of = Power!Nobody -> u
  BY DEF Power!Refreshed
<1> HIDE DEF a, b, c
<1>2. Power!Nobody \notin {"display", "manager"}
  BY DEF Power!Nobody
<1>3. Power!Nobody \notin Power!Paths
  BY UpNames
<1>4. m.of = "display" => Power!Refreshed(u, m) = a
  <2> SUFFICES ASSUME m.of = "display" PROVE Power!Refreshed(u, m) = a
    OBVIOUS
  <2>1. m.of # "manager" /\ m.of \notin Power!Paths /\ m.of # Power!Nobody
    BY <1>2, UpNames
  <2> QED
    BY <1>1, <2>1
<1>5. m.of = "manager" => Power!Refreshed(u, m) = b
  <2> SUFFICES ASSUME m.of = "manager" PROVE Power!Refreshed(u, m) = b
    OBVIOUS
  <2>1. m.of # "display" /\ m.of \notin Power!Paths /\ m.of # Power!Nobody
    BY <1>2, UpNames
  <2> QED
    BY <1>1, <2>1
<1>6. m.of \in Power!Paths => Power!Refreshed(u, m) = c
  BY <1>1, <1>3, UpNames
<1>7. m.of = Power!Nobody => Power!Refreshed(u, m) = u
  BY <1>1, <1>2, <1>3, UpNames
<1> QED
  BY <1>4, <1>5, <1>6, <1>7 DEF a, b, c

LEMMA UpReplyKeeps ==
    ASSUME UpInv, Power!Reply
    PROVE  UpInv'
<1> DEFINE m == Head(upInbox)
           t == Tail(upInbox)
<1>1. /\ upInbox # <<>> /\ m.kind = "reply" /\ upInbox' = t
      /\ upower' = IF Power!Unreadable(m) THEN upower ELSE Power!Refreshed(upower, m)
      /\ UNCHANGED <<upCalls, upowerd, battery, upWork>>
  BY DEF Power!Reply
<1>2. m \in UpMessage /\ t \in Seq(UpMessage)
  BY <1>1, UpHead
<1>3. \A p \in Power!Paths : Walk(t, Presence(upower.devices[p]), Presence(upowerd.devices[p]),
                                  Presences, UpSteps(p))
  BY <1>1, UpIdleTail
<1>4. m.of \in Power!Objects \union {Power!Nobody}
      /\ (m.of = "display" => m.value \in Power!Levels)
      /\ (m.of = "manager" => m.value \in Power!Supplies)
      /\ (m.of \in Power!Paths => m.value \in Power!Levels \union {Power!Absent})
  BY <1>1, <1>2 DEF UpMessage
<1> HIDE DEF m, t
<1> DEFINE read == m.of \in Power!Paths /\ m.value # Power!Absent /\ upower.devices[m.of] # Power!Absent
<1>5. \/ m.of = "display" /\ upower' = [upower EXCEPT !.display = m.value,
                                                      !.dirty = @ \/ m.value # upower.display]
      \/ m.of = "manager" /\ upower' = [upower EXCEPT !.supply = m.value, !.dirty = TRUE]
      \/ read /\ upower' = [upower EXCEPT !.devices[m.of] = m.value, !.dirty = TRUE]
      \/ upower' = upower /\ m.of \notin {"display", "manager"} /\ ~read
  <2>1. CASE m.of = "display"
    <3>1. ~Power!Unreadable(m)
      BY <2>1, UpNames DEF Power!Unreadable
    <3>2. upower' = [upower EXCEPT !.display = m.value, !.dirty = @ \/ m.value # upower.display]
      BY <1>1, <2>1, <3>1, RefreshedCases
    <3> QED
      BY <2>1, <3>2
  <2>2. CASE m.of = "manager"
    <3>1. ~Power!Unreadable(m)
      BY <2>2, UpNames DEF Power!Unreadable
    <3>2. upower' = [upower EXCEPT !.supply = m.value, !.dirty = TRUE]
      BY <1>1, <2>2, <3>1, RefreshedCases
    <3> QED
      BY <2>2, <3>2
  <2>3. CASE m.of \in Power!Paths
    <3>1. CASE m.value = Power!Absent
      BY <1>1, <2>3, <3>1, UpNames DEF Power!Unreadable
    <3>2. CASE m.value # Power!Absent /\ upower.devices[m.of] = Power!Absent
      <4>1. upower' = upower
        BY <1>1, <2>3, <3>2, RefreshedCases
      <4> QED
        BY <2>3, <3>2, <4>1, UpNames
    <3>3. CASE read
      <4>1. ~Power!Unreadable(m)
        BY <3>3 DEF Power!Unreadable
      <4>2. upower' = [upower EXCEPT !.devices[m.of] = m.value, !.dirty = TRUE]
        BY <1>1, <3>3, <4>1, RefreshedCases
      <4> QED
        BY <3>3, <4>2
    <3> QED
      BY <2>3, <3>1, <3>2, <3>3
  <2>4. CASE m.of = Power!Nobody
    <3>1. upower' = upower
      BY <1>1, <2>4, RefreshedCases
    <3>2. m.of \notin {"display", "manager"} /\ m.of \notin Power!Paths
      BY <2>4, UpNames DEF Power!Nobody
    <3> QED
      BY <3>1, <3>2
  <2> QED
    BY <1>4, <2>1, <2>2, <2>3, <2>4, UpNames
<1>6. upower \in [display : Power!Levels \union {Power!Absent}, supply : Power!Supplies,
                  dirty : BOOLEAN,
                  devices : [Power!Paths -> Power!Levels \union {Power!Absent, Power!Blank}]]
  BY DEF UpInv, Power!TypeOK
<1>7. /\ upower' \in [display : Power!Levels \union {Power!Absent}, supply : Power!Supplies,
                      dirty : BOOLEAN,
                      devices : [Power!Paths -> Power!Levels \union {Power!Absent, Power!Blank}]]
      /\ upower'.display = IF m.of = "display" THEN m.value ELSE upower.display
      /\ upower'.supply = IF m.of = "manager" THEN m.value ELSE upower.supply
      /\ \A p \in Power!Paths : upower'.devices[p] = IF read /\ p = m.of THEN m.value
                                                     ELSE upower.devices[p]
      /\ upower'.dirty \/ (~upower.dirty /\ upower'.display = upower.display
                           /\ upower'.supply = upower.supply /\ upower'.devices = upower.devices)
  <2>1. CASE m.of = "display"
    <3>1. PICK d \in BOOLEAN : d = (upower.dirty \/ m.value # upower.display)
      BY <1>6
    <3>2. upower' = [upower EXCEPT !.display = m.value, !.dirty = d]
      BY <1>5, <2>1, <3>1, UpNames
    <3>3. ~read
      BY <2>1, UpNames
    <3>4. /\ upower' \in [display : Power!Levels \union {Power!Absent}, supply : Power!Supplies,
                          dirty : BOOLEAN,
                          devices : [Power!Paths -> Power!Levels \union {Power!Absent, Power!Blank}]]
          /\ upower'.display = m.value /\ upower'.supply = upower.supply
          /\ upower'.devices = upower.devices /\ upower'.dirty = d
      BY <1>4, <1>6, <2>1, <3>1, <3>2
    <3> QED
      BY <2>1, <3>1, <3>3, <3>4
  <2>2. CASE m.of = "manager"
    BY <1>4, <1>5, <1>6, <2>2, UpNames
  <2>3. CASE read /\ m.of \in Power!Paths
    <3>1. upower' = [upower EXCEPT !.devices[m.of] = m.value, !.dirty = TRUE]
      BY <1>5, <2>3, UpNames
    <3>2. m.value \in Power!Levels
      BY <1>4, <2>3
    <3> QED
      BY <1>6, <2>3, <3>1, <3>2, UpNames
  <2>4. CASE m.of \notin {"display", "manager"} /\ ~read
    <3>1. upower' = upower
      BY <1>5, <2>4
    <3> QED
      BY <1>6, <2>4, <3>1
  <2> QED
    BY <2>1, <2>2, <2>3, <2>4
<1> HIDE DEF read
<1>8. \A p \in Power!Paths : Presence(upower'.devices[p]) = Presence(upower.devices[p])
  BY <1>7 DEF Presence, read
<1>9. UpLives'
  BY <1>1, <1>3, <1>8 DEF UpLives
<1>10. UpComes'
  <2> SUFFICES ASSUME NEW o \in Power!Objects, Held(o)' # Power!Absent
               PROVE  Will(o, t, upCalls, Held(o), Shown(o)')
    BY <1>1 DEF UpComes, Held
  <2>1. Held(o)' = Held(o) /\ Held(o) # Power!Absent
    BY <1>1 DEF Held
  <2>2. upInbox \in Seq(UpMessage) /\ Will(o, upInbox, upCalls, Held(o), Shown(o))
    BY <2>1, UpTyped DEF UpInv, UpComes
  <2>3. ~IsNews(m, o)
    BY <1>1 DEF IsNews
  <2>4. IsReply(m, o) <=> m.of = o
    BY <1>1 DEF IsReply
  <2>5. m.of # o => Shown(o)' = Shown(o)
    BY <1>7, UpNames DEF Shown
  <2>6. CASE m.of = o => Shown(o)' = m.value \/ m.value # Held(o)
    BY <1>1, <2>2, <2>3, <2>4, <2>5, <2>6, WillShrinks DEF m, t
  <2>7. CASE m.of = o /\ Shown(o)' # m.value /\ m.value = Held(o)
    <3>1. o \in Power!Paths /\ ~read
      BY <1>7, <2>7, UpNames DEF Shown
    <3>2. upower.devices[o] = Power!Absent /\ upowerd.devices[o] # Power!Absent
      BY <2>1, <2>7, <3>1, UpNames DEF read, Held
    <3>3. Walk(t, "gone", "there", Presences, UpSteps(o))
      BY <1>3, <3>1, <3>2 DEF Presence
    <3> QED
      BY <1>2, <3>1, <3>3, Announced DEF Will
  <2> QED
    BY <2>6, <2>7
<1>11. UpPainted'
  <2>1. CASE upower'.dirty
    BY <2>1 DEF UpPainted
  <2>2. CASE ~upower.dirty /\ upower'.display = upower.display
             /\ upower'.supply = upower.supply /\ upower'.devices = upower.devices
    <3>1. Power!Rows(upower') = Power!Rows(upower)
      BY <2>2, RowsAlike
    <3> QED
      BY <1>1, <2>2, <3>1 DEF UpInv, UpPainted
  <2> QED
    BY <1>7, <2>1, <2>2
<1>12. Power!TypeOK'
  <2>1. upInbox' \in Seq([kind : {"reply", "changed", "added", "removed"},
                          of : Power!Objects \union {Power!Nobody},
                          value : Power!Levels \union Power!Supplies \union {Power!Absent}])
    BY <1>1, <1>2, UpMessages
  <2> QED
    BY <1>1, <1>7, <2>1 DEF UpInv, Power!TypeOK
<1> QED
  BY <1>1, <1>2, <1>9, <1>10, <1>11, <1>12 DEF UpInv

LEMMA UpChangedKeeps ==
    ASSUME UpInv, Power!PropertiesChanged
    PROVE  UpInv'
<1> DEFINE m == Head(upInbox)
           t == Tail(upInbox)
           unknown == m.of \in Power!Paths /\ upower.devices[m.of] = Power!Absent
<1>1. /\ upInbox # <<>> /\ m.kind = "changed" /\ upInbox' = t
      /\ UNCHANGED <<upower, upowerd, battery, upWork>>
      /\ upCalls' = IF unknown THEN upCalls ELSE Append(upCalls, m.of)
  BY DEF Power!PropertiesChanged, Power!RefreshDevice
<1>2. m \in UpMessage /\ t \in Seq(UpMessage)
  BY <1>1, UpHead
<1>3. \A p \in Power!Paths : Walk(t, Presence(upower.devices[p]), Presence(upowerd.devices[p]),
                                  Presences, UpSteps(p))
  BY <1>1, UpIdleTail
<1>4. m.of \in Power!Objects
  BY <1>1, <1>2 DEF UpMessage
<1>5. upCalls \in Seq(Power!Objects \union {Power!Nobody})
      /\ upCalls' \in Seq(Power!Objects \union {Power!Nobody})
  <2>1. upCalls \in Seq(Power!Objects \union {Power!Nobody})
    BY UpTyped
  <2> QED
    BY <1>1, <1>4, <2>1
<1> HIDE DEF m, t
<1>6. UpLives'
  BY <1>1, <1>3 DEF UpLives
<1>7. UpComes'
  <2> SUFFICES ASSUME NEW o \in Power!Objects, Held(o) # Power!Absent
               PROVE  Will(o, t, upCalls', Held(o), Shown(o))
    BY <1>1 DEF UpComes, Held, Shown
  <2>1. upInbox \in Seq(UpMessage) /\ Will(o, upInbox, upCalls, Held(o), Shown(o))
    BY UpTyped DEF UpInv, UpComes
  <2>2. ~IsReply(m, o)
    BY <1>1 DEF IsReply
  <2>3. CASE m.of # o
    <3>1. ~IsNews(m, o)
      BY <2>3 DEF IsNews
    <3>2. Will(o, t, upCalls, Held(o), Shown(o))
      BY <1>1, <2>1, <2>2, <3>1, WillShrinks DEF m, t
    <3>3. m.of \in Power!Objects \union {Power!Nobody}
      BY <1>4
    <3>4. Will(o, t, Append(upCalls, m.of), Held(o), Shown(o))
      BY <1>5, <3>2, <3>3, WillCalls
    <3> QED
      BY <1>1, <3>2, <3>4
  <2>4. CASE m.of = o /\ ~unknown
    <3>1. o \in Power!Objects \union {Power!Nobody}
      OBVIOUS
    <3>2. Will(o, t, Append(upCalls, o), Held(o), Shown(o))
      BY <1>5, <3>1, WillCalls
    <3> QED
      BY <1>1, <2>4, <3>2
  <2>5. CASE m.of = o /\ unknown
    <3>1. o \in Power!Paths /\ upower.devices[o] = Power!Absent /\ upowerd.devices[o] # Power!Absent
      BY <2>5, UpNames DEF Held
    <3>2. Walk(t, "gone", "there", Presences, UpSteps(o))
      BY <1>3, <3>1 DEF Presence
    <3> QED
      BY <1>2, <3>1, <3>2, Announced DEF Will
  <2> QED
    BY <2>3, <2>4, <2>5
<1>8. UpPainted'
  BY <1>1 DEF UpInv, UpPainted
<1>9. Power!TypeOK'
  <2>1. upInbox' \in Seq([kind : {"reply", "changed", "added", "removed"},
                          of : Power!Objects \union {Power!Nobody},
                          value : Power!Levels \union Power!Supplies \union {Power!Absent}])
    BY <1>1, <1>2, UpMessages
  <2> QED
    BY <1>1, <1>5, <2>1 DEF UpInv, Power!TypeOK
<1> QED
  BY <1>1, <1>2, <1>6, <1>7, <1>8, <1>9 DEF UpInv

LEMMA UpAddedKeeps ==
    ASSUME UpInv, Power!DeviceAdded
    PROVE  UpInv'
<1> DEFINE m == Head(upInbox)
           t == Tail(upInbox)
           p == m.of
<1>1. /\ upInbox # <<>> /\ m.kind = "added" /\ upInbox' = t
      /\ UNCHANGED <<upowerd, battery, upWork>>
      /\ IF upower.devices[p] # Power!Absent THEN UNCHANGED <<upower, upCalls>>
         ELSE /\ upower' = [upower EXCEPT !.devices[p] = Power!Blank]
              /\ upCalls' = IF upower'.devices[p] = Power!Absent THEN upCalls
                            ELSE Append(upCalls, p)
  BY DEF Power!DeviceAdded, Power!RefreshDevice
<1>2. m \in UpMessage /\ t \in Seq(UpMessage)
  BY <1>1, UpHead
<1>3. p \in Power!Paths /\ p \in Power!Objects
  BY <1>1, <1>2, UpNames DEF UpMessage
<1>4. \A r \in Power!Paths :
          \E x \in Presences : /\ <<Presence(upower.devices[r]), m, x>> \in UpSteps(r)
                               /\ Walk(t, x, Presence(upowerd.devices[r]), Presences, UpSteps(r))
  BY <1>1, UpHead
<1> HIDE DEF t
<1>5. PICK x \in Presences : /\ <<Presence(upower.devices[p]), m, x>> \in UpSteps(p)
                             /\ Walk(t, x, Presence(upowerd.devices[p]), Presences, UpSteps(p))
  BY <1>3, <1>4
<1>6. Presence(upower.devices[p]) = "gone" /\ x = "there"
  BY <1>1, <1>5 DEF UpSteps
<1>7. upower.devices[p] = Power!Absent
  BY <1>6 DEF Presence
<1>8. upower \in [display : Power!Levels \union {Power!Absent}, supply : Power!Supplies,
                  dirty : BOOLEAN,
                  devices : [Power!Paths -> Power!Levels \union {Power!Absent, Power!Blank}]]
      /\ upCalls \in Seq(Power!Objects \union {Power!Nobody})
  BY DEF UpInv, Power!TypeOK
<1>9. upower' = [upower EXCEPT !.devices[p] = Power!Blank]
  BY <1>1, <1>7
<1>10. /\ upower' \in [display : Power!Levels \union {Power!Absent}, supply : Power!Supplies,
                       dirty : BOOLEAN,
                       devices : [Power!Paths -> Power!Levels \union {Power!Absent, Power!Blank}]]
       /\ upower'.display = upower.display /\ upower'.supply = upower.supply
       /\ upower'.dirty = upower.dirty /\ upower'.devices[p] = Power!Blank
       /\ \A r \in Power!Paths : r # p => upower'.devices[r] = upower.devices[r]
  BY <1>3, <1>8, <1>9
<1>11. upCalls' = Append(upCalls, p)
  BY <1>1, <1>7, <1>10, UpValues
<1>12. p \in Power!Objects \union {Power!Nobody}
  BY <1>3
<1>13. UpLives'
  <2> SUFFICES ASSUME NEW r \in Power!Paths
               PROVE  Walk(t, Presence(upower'.devices[r]), Presence(upowerd.devices[r]),
                           Presences, UpSteps(r))
    BY <1>1 DEF UpLives
  <2>1. CASE r = p
    <3>1. Presence(upower'.devices[r]) = "there"
      BY <1>10, <2>1, UpValues DEF Presence
    <3> QED
      BY <1>5, <1>6, <2>1, <3>1
  <2>2. CASE r # p
    <3>1. PICK y \in Presences : /\ <<Presence(upower.devices[r]), m, y>> \in UpSteps(r)
                                 /\ Walk(t, y, Presence(upowerd.devices[r]), Presences, UpSteps(r))
      BY <1>4
    <3>2. y = Presence(upower.devices[r])
      BY <2>2, <3>1 DEF UpSteps
    <3> QED
      BY <1>10, <2>2, <3>1, <3>2
  <2> QED
    BY <2>1, <2>2
<1>14. UpComes'
  <2> SUFFICES ASSUME NEW o \in Power!Objects, Held(o) # Power!Absent
               PROVE  Will(o, t, upCalls', Held(o), Shown(o)')
    BY <1>1 DEF UpComes, Held
  <2>1. CASE o = p
    <3>1. Will(p, t, Append(upCalls, p), Held(o), Shown(o)')
      BY <1>8, <1>12, WillCalls
    <3> QED
      BY <1>11, <2>1, <3>1
  <2>2. CASE o # p
    <3>1. upInbox \in Seq(UpMessage) /\ Will(o, upInbox, upCalls, Held(o), Shown(o))
      BY UpTyped DEF UpInv, UpComes
    <3>2. ~IsReply(m, o) /\ ~IsNews(m, o)
      BY <1>1, <2>2 DEF IsReply, IsNews
    <3>3. Shown(o)' = Shown(o)
      BY <1>10, <2>2, UpNames DEF Shown
    <3>4. Will(o, t, upCalls, Held(o), Shown(o)')
      BY <1>1, <3>1, <3>2, <3>3, WillShrinks DEF t
    <3>5. Will(o, t, Append(upCalls, p), Held(o), Shown(o)')
      BY <1>8, <1>12, <3>4, WillCalls
    <3> QED
      BY <1>11, <3>5
  <2> QED
    BY <2>1, <2>2
<1>15. UpPainted'
  <2>1. \A r \in Power!Paths : upower'.devices[r] = upower.devices[r]
            \/ {upower'.devices[r], upower.devices[r]} \subseteq {Power!Absent, Power!Blank}
    BY <1>7, <1>10
  <2>2. Power!Rows(upower') = Power!Rows(upower)
    BY <1>10, <2>1, RowsAlike
  <2> QED
    BY <1>1, <1>10, <2>2 DEF UpInv, UpPainted
<1>16. Power!TypeOK'
  <2>1. upInbox' \in Seq([kind : {"reply", "changed", "added", "removed"},
                          of : Power!Objects \union {Power!Nobody},
                          value : Power!Levels \union Power!Supplies \union {Power!Absent}])
    BY <1>1, <1>2, UpMessages
  <2>2. upCalls' \in Seq(Power!Objects \union {Power!Nobody})
    BY <1>8, <1>11, <1>12
  <2> QED
    BY <1>1, <1>10, <2>1, <2>2 DEF UpInv, Power!TypeOK
<1> QED
  BY <1>1, <1>2, <1>13, <1>14, <1>15, <1>16 DEF UpInv

\* Queues of which some messages have been replaced by ones that are not about o.
LEMMA WillReplaced ==
    ASSUME NEW o, NEW q, NEW r, NEW c, NEW d, NEW held, NEW shown,
           Will(o, q, c, held, shown), Len(r) = Len(q), Len(d) = Len(c),
           \A i \in 1..Len(q) :
               /\ IsNews(q[i], o) => IsNews(r[i], o)
               /\ IsReply(r[i], o) <=> IsReply(q[i], o)
               /\ IsReply(q[i], o) => r[i].value = q[i].value,
           \A i \in 1..Len(c) : c[i] = o => d[i] = o
    PROVE  Will(o, r, d, held, shown)
<1>1. CASE \E i \in 1..Len(c) : c[i] = o
  BY <1>1 DEF Will
<1>2. CASE \E i \in 1..Len(q) : IsNews(q[i], o)
  BY <1>2 DEF Will
<1>3. CASE \E i \in 1..Len(q) : /\ IsReply(q[i], o) /\ q[i].value = held
                                /\ \A j \in 1..Len(q) : j > i => ~IsReply(q[j], o)
  BY <1>3 DEF Will
<1>4. CASE shown = held /\ \A j \in 1..Len(q) : ~IsReply(q[j], o)
  BY <1>4 DEF Will
<1> QED
  BY <1>1, <1>2, <1>3, <1>4 DEF Will

LEMMA UpRemovedKeeps ==
    ASSUME UpInv, Power!DeviceRemoved
    PROVE  UpInv'
<1> DEFINE m == Head(upInbox)
           t == Tail(upInbox)
           p == m.of
           lost == Power!Message("reply", Power!Nobody)
<1>1. /\ upInbox # <<>> /\ m.kind = "removed"
      /\ upInbox' = [i \in DOMAIN t |-> IF t[i].kind = "reply" /\ t[i].of = p THEN lost ELSE t[i]]
      /\ upCalls' = [i \in DOMAIN upCalls |-> IF upCalls[i] = p THEN Power!Nobody ELSE upCalls[i]]
      /\ UNCHANGED <<upowerd, battery, upWork>>
      /\ upower' = [upower EXCEPT !.devices[p] = Power!Absent,
                                  !.dirty = @ \/ upower.devices[p] # Power!Absent]
  BY DEF Power!DeviceRemoved, Power!Removed
<1>2. m \in UpMessage /\ t \in Seq(UpMessage)
  BY <1>1, UpHead
<1>3. p \in Power!Paths /\ p \in Power!Objects
  BY <1>1, <1>2, UpNames DEF UpMessage
<1>4. \A r \in Power!Paths :
          \E x \in Presences : /\ <<Presence(upower.devices[r]), m, x>> \in UpSteps(r)
                               /\ Walk(t, x, Presence(upowerd.devices[r]), Presences, UpSteps(r))
  BY <1>1, UpHead
<1>5. upower \in [display : Power!Levels \union {Power!Absent}, supply : Power!Supplies,
                  dirty : BOOLEAN,
                  devices : [Power!Paths -> Power!Levels \union {Power!Absent, Power!Blank}]]
      /\ upCalls \in Seq(Power!Objects \union {Power!Nobody})
  BY DEF UpInv, Power!TypeOK
<1>6. lost \in UpMessage /\ lost.kind = "reply" /\ lost.of = Power!Nobody
  BY UpNames DEF Power!Message, UpMessage, Power!Nobody
<1> HIDE DEF t, lost
<1>7. PICK x \in Presences : /\ <<Presence(upower.devices[p]), m, x>> \in UpSteps(p)
                             /\ Walk(t, x, Presence(upowerd.devices[p]), Presences, UpSteps(p))
  BY <1>3, <1>4
<1>8. Presence(upower.devices[p]) = "there" /\ x = "gone"
  BY <1>1, <1>7 DEF UpSteps
<1>9. upower.devices[p] # Power!Absent
  BY <1>8 DEF Presence
<1>10. upower' = [upower EXCEPT !.devices[p] = Power!Absent, !.dirty = TRUE]
  <2>1. (upower.dirty \/ upower.devices[p] # Power!Absent) = TRUE
    BY <1>9
  <2> QED
    BY <1>1, <2>1
<1>11. /\ upower' \in [display : Power!Levels \union {Power!Absent}, supply : Power!Supplies,
                       dirty : BOOLEAN,
                       devices : [Power!Paths -> Power!Levels \union {Power!Absent, Power!Blank}]]
       /\ upower'.display = upower.display /\ upower'.supply = upower.supply
       /\ upower'.dirty /\ upower'.devices[p] = Power!Absent
       /\ \A r \in Power!Paths : r # p => upower'.devices[r] = upower.devices[r]
  BY <1>3, <1>5, <1>10
<1> DEFINE t2 == upInbox'
           c2 == upCalls'
<1>12. /\ t2 \in Seq(UpMessage) /\ Len(t2) = Len(t) /\ Len(t) \in Nat
       /\ \A i \in 1..Len(t) : t2[i] = IF IsReply(t[i], p) THEN lost ELSE t[i]
  BY <1>1, <1>2, <1>6 DEF IsReply
<1>13. /\ c2 \in Seq(Power!Objects \union {Power!Nobody}) /\ Len(c2) = Len(upCalls)
       /\ \A i \in 1..Len(upCalls) : c2[i] = IF upCalls[i] = p THEN Power!Nobody ELSE upCalls[i]
  BY <1>1, <1>5
<1> HIDE DEF t2, c2
<1>14. \A r \in Power!Paths : \A a, b \in Presences : \A i \in 1..Len(t) :
           <<a, t[i], b>> \in UpSteps(r) => <<a, t2[i], b>> \in UpSteps(r)
  BY <1>6, <1>12 DEF UpSteps, IsReply
<1>15. \A r \in Power!Paths : Walk(t2, Presence(upower'.devices[r]), Presence(upowerd.devices[r]),
                                   Presences, UpSteps(r))
  <2> SUFFICES ASSUME NEW r \in Power!Paths
               PROVE  Walk(t2, Presence(upower'.devices[r]), Presence(upowerd.devices[r]),
                           Presences, UpSteps(r))
    OBVIOUS
  <2>1. Walk(t, Presence(upower'.devices[r]), Presence(upowerd.devices[r]), Presences, UpSteps(r))
    <3>1. CASE r = p
      BY <1>7, <1>8, <1>11, <3>1 DEF Presence
    <3>2. CASE r # p
      <4>1. PICK y \in Presences : /\ <<Presence(upower.devices[r]), m, y>> \in UpSteps(r)
                                   /\ Walk(t, y, Presence(upowerd.devices[r]), Presences, UpSteps(r))
        BY <1>4
      <4>2. y = Presence(upower.devices[r])
        BY <3>2, <4>1 DEF UpSteps
      <4> QED
        BY <1>11, <3>2, <4>1, <4>2
    <3> QED
      BY <3>1, <3>2
  <2>2. \A i \in 1..Len(t) : \A a, b \in Presences :
            <<a, t[i], b>> \in UpSteps(r) => <<a, t2[i], b>> \in UpSteps(r)
    BY <1>14
  <2> QED
    BY <1>12, <2>1, <2>2, WalkReplaced
<1>16. UpLives'
  BY <1>1, <1>15 DEF UpLives, t2
<1>17. UpComes'
  <2> SUFFICES ASSUME NEW o \in Power!Objects, Held(o) # Power!Absent
               PROVE  Will(o, t2, c2, Held(o), Shown(o)')
    BY <1>1 DEF UpComes, Held, t2, c2
  <2>1. CASE o = p
    <3>1. Walk(t2, "gone", "there", Presences, UpSteps(p))
      <4>1. upowerd.devices[p] # Power!Absent
        BY <1>3, <2>1, UpNames DEF Held
      <4> QED
        BY <1>3, <1>11, <1>15, <4>1 DEF Presence
    <3> QED
      BY <1>3, <1>12, <2>1, <3>1, Announced DEF Will
  <2>2. CASE o # p
    <3>1. upInbox \in Seq(UpMessage) /\ Will(o, upInbox, upCalls, Held(o), Shown(o))
      BY UpTyped DEF UpInv, UpComes
    <3>2. ~IsReply(m, o) /\ ~IsNews(m, o)
      BY <1>1 DEF IsReply, IsNews
    <3>3. Shown(o)' = Shown(o)
      BY <1>11, <2>2, UpNames DEF Shown
    <3>4. Will(o, t, upCalls, Held(o), Shown(o)')
      BY <1>1, <3>1, <3>2, <3>3, WillShrinks DEF t
    <3>5. Power!Nobody # o
      BY UpNames
    <3>6. \A i \in 1..Len(t) :
              /\ IsNews(t[i], o) => IsNews(t2[i], o)
              /\ IsReply(t2[i], o) <=> IsReply(t[i], o)
              /\ IsReply(t[i], o) => t2[i].value = t[i].value
      BY <1>6, <1>12, <2>2, <3>5 DEF IsNews, IsReply
    <3>7. \A i \in 1..Len(upCalls) : upCalls[i] = o => c2[i] = o
      BY <1>13, <2>2
    <3> QED
      BY <1>12, <1>13, <3>4, <3>6, <3>7, WillReplaced
  <2> QED
    BY <2>1, <2>2
<1>18. UpPainted'
  BY <1>11 DEF UpPainted
<1>19. Power!TypeOK'
  <2>1. upInbox' \in Seq([kind : {"reply", "changed", "added", "removed"},
                          of : Power!Objects \union {Power!Nobody},
                          value : Power!Levels \union Power!Supplies \union {Power!Absent}])
    BY <1>12, UpMessages DEF t2
  <2>2. upCalls' \in Seq(Power!Objects \union {Power!Nobody})
    BY <1>13 DEF c2
  <2> QED
    BY <1>1, <1>11, <2>1, <2>2 DEF UpInv, Power!TypeOK
<1>20. upInbox' \in Seq(UpMessage)
  BY <1>12 DEF t2
<1> QED
  BY <1>16, <1>17, <1>18, <1>19, <1>20 DEF UpInv

LEMMA UpRedrawKeeps ==
    ASSUME UpInv, Power!Redraw
    PROVE  UpInv'
<1>1. upower \in [display : Power!Levels \union {Power!Absent}, supply : Power!Supplies,
                  dirty : BOOLEAN,
                  devices : [Power!Paths -> Power!Levels \union {Power!Absent, Power!Blank}]]
      /\ battery \in [pill : Power!Levels \union {Power!Absent}, due : BOOLEAN,
                      rows : {<<>>} \union (BOOLEAN \X (SUBSET (Power!Paths \X Power!Levels)) \X BOOLEAN)]
  BY DEF UpInv, Power!TypeOK
<1>2. /\ upower' = [upower EXCEPT !.dirty = FALSE] /\ battery' = [battery EXCEPT !.due = TRUE]
      /\ UNCHANGED <<upowerd, upCalls, upInbox, upWork>>
  BY DEF Power!Redraw
<1>3. /\ upower' \in [display : Power!Levels \union {Power!Absent}, supply : Power!Supplies,
                      dirty : BOOLEAN,
                      devices : [Power!Paths -> Power!Levels \union {Power!Absent, Power!Blank}]]
      /\ upower'.display = upower.display /\ upower'.supply = upower.supply
      /\ upower'.devices = upower.devices
  BY <1>1, <1>2
<1>4. /\ battery' \in [pill : Power!Levels \union {Power!Absent}, due : BOOLEAN,
                       rows : {<<>>} \union (BOOLEAN \X (SUBSET (Power!Paths \X Power!Levels)) \X BOOLEAN)]
      /\ battery'.due
  BY <1>1, <1>2
<1>5. UpLives'
  BY <1>2, <1>3 DEF UpInv, UpLives
<1>6. \A o : Shown(o)' = Shown(o) /\ Held(o)' = Held(o)
  BY <1>2, <1>3 DEF Shown, Held
<1>7. UpComes'
  BY <1>2, <1>6 DEF UpInv, UpComes
<1>8. UpPainted'
  BY <1>4 DEF UpPainted
<1>9. Power!TypeOK'
  BY <1>2, <1>3, <1>4 DEF UpInv, Power!TypeOK
<1> QED
  BY <1>2, <1>5, <1>7, <1>8, <1>9 DEF UpInv

LEMMA RowsTyped ==
    ASSUME NEW u
    PROVE  Power!Rows(u) \in BOOLEAN \X (SUBSET (Power!Paths \X Power!Levels)) \X BOOLEAN
<1>1. Power!Batteries(u) \subseteq Power!Paths
      /\ \A p \in Power!Batteries(u) : u.devices[p] \in Power!Levels
  BY DEF Power!Batteries
<1>2. {<<p, u.devices[p]>> : p \in Power!Batteries(u)} \in SUBSET (Power!Paths \X Power!Levels)
  BY <1>1
<1>3. Power!AllFull(u) \in BOOLEAN
  BY DEF Power!AllFull
<1>4. (Power!Batteries(u) \intersect SystemBatteries # {}) \in BOOLEAN
  OBVIOUS
<1> DEFINE shown == {<<p, u.devices[p]>> : p \in Power!Batteries(u)}
           some == Power!Batteries(u) \intersect SystemBatteries # {}
<1>5. Power!Rows(u) = <<some, IF Power!AllFull(u) THEN {} ELSE shown, Power!AllFull(u)>>
  BY DEF Power!Rows
<1>6. shown \in SUBSET (Power!Paths \X Power!Levels) /\ some \in BOOLEAN
  BY <1>2, <1>4
<1> HIDE DEF shown, some
<1>7. (IF Power!AllFull(u) THEN {} ELSE shown) \in SUBSET (Power!Paths \X Power!Levels)
  BY <1>6
<1> QED
  BY <1>3, <1>5, <1>6, <1>7

LEMMA UpPaintKeeps ==
    ASSUME UpInv, Power!Paint
    PROVE  UpInv'
<1>1. /\ battery' = [pill |-> upower.display, rows |-> Power!Rows(upower), due |-> FALSE]
      /\ UNCHANGED <<upowerd, upCalls, upInbox, upower, upWork>>
  BY DEF Power!Paint
<1>2. upower.display \in Power!Levels \union {Power!Absent}
  BY UpTyped
<1> DEFINE rows == Power!Rows(upower)
<1>3. rows \in {<<>>} \union (BOOLEAN \X (SUBSET (Power!Paths \X Power!Levels)) \X BOOLEAN)
  BY RowsTyped
<1> HIDE DEF rows
<1>4. battery' \in [pill : Power!Levels \union {Power!Absent}, due : BOOLEAN,
                    rows : {<<>>} \union (BOOLEAN \X (SUBSET (Power!Paths \X Power!Levels)) \X BOOLEAN)]
      /\ battery'.pill = upower.display /\ battery'.rows = rows
  BY <1>1, <1>2, <1>3 DEF rows
<1>5. UpLives'
  BY <1>1 DEF UpInv, UpLives
<1>6. UpComes'
  BY <1>1 DEF UpInv, UpComes, Held, Shown
<1>7. UpPainted'
  BY <1>1, <1>4 DEF UpPainted, rows
<1>8. Power!TypeOK'
  BY <1>1, <1>4 DEF UpInv, Power!TypeOK
<1> QED
  BY <1>1, <1>5, <1>6, <1>7, <1>8 DEF UpInv

LEMMA UpAnswerKeeps ==
    ASSUME UpInv, Power!Answer
    PROVE  UpInv'
<1> DEFINE o == Head(upCalls)
           value == CASE o = "display" -> upowerd.display
                      [] o = "manager" -> upowerd.supply
                      [] o \in Power!Paths -> upowerd.devices[o]
                      [] o = Power!Nobody -> Power!Absent
           r == [kind |-> "reply", of |-> o, value |-> value]
           c == Tail(upCalls)
<1>1. /\ upCalls # <<>> /\ upInbox' = Append(upInbox, r) /\ upCalls' = c
      /\ UNCHANGED <<upowerd, upower, battery, upWork>>
  BY DEF Power!Answer
<1>2. /\ upCalls \in Seq(Power!Objects \union {Power!Nobody})
      /\ o \in Power!Objects \union {Power!Nobody} /\ c \in Seq(Power!Objects \union {Power!Nobody})
  BY <1>1, UpTyped, Shrinks
<1> HIDE DEF o, c
<1>3. Power!Nobody \notin {"display", "manager"} /\ Power!Nobody \notin Power!Paths
  BY UpNames DEF Power!Nobody
<1>4. (o = "display" => value = upowerd.display) /\ (o = "manager" => value = upowerd.supply)
  <2>1. CASE o = "display"
    <3>1. o # "manager" /\ o \notin Power!Paths /\ o # Power!Nobody
      BY <1>3, <2>1, UpNames
    <3> QED
      BY <2>1, <3>1
  <2>2. CASE o = "manager"
    <3>1. o # "display" /\ o \notin Power!Paths /\ o # Power!Nobody
      BY <1>3, <2>2, UpNames
    <3> QED
      BY <2>2, <3>1
  <2> QED
    BY <2>1, <2>2
<1>5. (o \in Power!Paths => value = upowerd.devices[o]) /\ (o = Power!Nobody => value = Power!Absent)
  <2>1. CASE o \in Power!Paths
    <3>1. o # "display" /\ o # "manager" /\ o # Power!Nobody
      BY <1>3, <2>1, UpNames
    <3> QED
      BY <2>1, <3>1
  <2>2. CASE o = Power!Nobody
    <3>1. o # "display" /\ o # "manager" /\ o \notin Power!Paths
      BY <1>3, <2>2, UpNames
    <3> QED
      BY <2>2, <3>1
  <2> QED
    BY <2>1, <2>2
<1> HIDE DEF value
<1>6. o # Power!Nobody => value = Held(o)
  <2> SUFFICES ASSUME o # Power!Nobody PROVE value = Held(o)
    OBVIOUS
  <2>1. o = "display" \/ o = "manager" \/ o \in Power!Paths
    BY <1>2, UpNames
  <2> QED
    BY <1>4, <1>5, <2>1, UpNames DEF Held
<1>7. /\ o = "display" => value \in Power!Levels
      /\ o = "manager" => value \in Power!Supplies
      /\ o \in Power!Paths => value \in Power!Levels \union {Power!Absent}
      /\ value \in Power!Levels \union Power!Supplies \union {Power!Absent}
  <2>1. (o = "display" => value \in Power!Levels) /\ (o = "manager" => value \in Power!Supplies)
    BY <1>4, UpTyped
  <2>2. o \in Power!Paths => value \in Power!Levels \union {Power!Absent}
    BY <1>5, UpTyped
  <2>3. o = "display" \/ o = "manager" \/ o \in Power!Paths \/ o = Power!Nobody
    BY <1>2, UpNames
  <2> QED
    BY <1>5, <2>1, <2>2, <2>3
<1>8. r \in UpMessage /\ r.kind = "reply" /\ r.of = o /\ r.value = value
  BY <1>2, <1>7 DEF UpMessage
<1> HIDE DEF r
<1>9. upInbox \in Seq(UpMessage) /\ upInbox' \in Seq(UpMessage)
  <2>1. upInbox \in Seq(UpMessage)
    BY UpTyped
  <2> QED
    BY <1>1, <1>8, <2>1
<1>10. UpLives'
  <2> SUFFICES ASSUME NEW p \in Power!Paths
               PROVE  Walk(Append(upInbox, r), Presence(upower.devices[p]),
                           Presence(upowerd.devices[p]), Presences, UpSteps(p))
    BY <1>1 DEF UpLives
  <2>1. Walk(upInbox, Presence(upower.devices[p]), Presence(upowerd.devices[p]),
             Presences, UpSteps(p))
    BY DEF UpInv, UpLives
  <2>2. Presence(upowerd.devices[p]) \in Presences
    BY DEF Presence, Presences
  <2>3. <<Presence(upowerd.devices[p]), r, Presence(upowerd.devices[p])>> \in UpSteps(p)
    BY <1>8, <2>2 DEF UpSteps
  <2> QED
    BY <1>8, <1>9, <2>1, <2>2, <2>3, WalkAppend
<1>11. UpComes'
  <2> SUFFICES ASSUME NEW x \in Power!Objects, Held(x) # Power!Absent
               PROVE  Will(x, Append(upInbox, r), c, Held(x), Shown(x))
    BY <1>1 DEF UpComes, Held, Shown
  <2>1. Will(x, upInbox, upCalls, Held(x), Shown(x))
    BY DEF UpInv, UpComes
  <2>2. CASE x = o
    <3>1. IsReply(r, x) /\ r.value = Held(x)
      BY <1>6, <1>8, <2>2, UpNames DEF IsReply
    <3> QED
      BY <1>8, <1>9, <3>1, WillGrows
  <2>3. CASE x # o
    <3>1. ~IsReply(r, x)
      BY <1>8, <2>3 DEF IsReply
    <3>2. Will(x, upInbox, c, Held(x), Shown(x))
      BY <1>1, <1>2, <2>1, <2>3, WillCalled DEF o, c
    <3> QED
      BY <1>8, <1>9, <3>1, <3>2, WillGrows
  <2> QED
    BY <2>2, <2>3
<1>12. UpPainted'
  BY <1>1 DEF UpInv, UpPainted
<1>13. Power!TypeOK'
  <2>1. upInbox' \in Seq([kind : {"reply", "changed", "added", "removed"},
                          of : Power!Objects \union {Power!Nobody},
                          value : Power!Levels \union Power!Supplies \union {Power!Absent}])
    BY <1>9, UpMessages
  <2> QED
    BY <1>1, <1>2, <2>1 DEF UpInv, Power!TypeOK
<1> QED
  BY <1>9, <1>10, <1>11, <1>12, <1>13 DEF UpInv

\* What UPower exports has changed, and a message that says so is under way.
LEMMA UpExports ==
    ASSUME UpInv, NEW e \in UpMessage, e.kind # "reply",
           upInbox' = Append(upInbox, e), UNCHANGED <<upCalls, upower, battery>>,
           upWork > 0, upWork' = upWork - 1,
           upowerd' \in [display : Power!Levels, supply : Power!Supplies,
                         devices : [Power!Paths -> Power!Levels \union {Power!Absent}]],
           \A o \in Power!Objects :
               Held(o)' = Held(o) \/ Held(o)' = Power!Absent \/ IsNews(e, o),
           \A p \in Power!Paths :
               <<Presence(upowerd.devices[p]), e, Presence(upowerd'.devices[p])>> \in UpSteps(p)
    PROVE  UpInv'
<1>1. upInbox \in Seq(UpMessage) /\ upInbox' \in Seq(UpMessage)
  <2>1. upInbox \in Seq(UpMessage)
    BY UpTyped
  <2> QED
    BY <2>1
<1>2. UpLives'
  <2> SUFFICES ASSUME NEW p \in Power!Paths
               PROVE  Walk(Append(upInbox, e), Presence(upower.devices[p]),
                           Presence(upowerd'.devices[p]), Presences, UpSteps(p))
    BY DEF UpLives
  <2>1. Walk(upInbox, Presence(upower.devices[p]), Presence(upowerd.devices[p]),
             Presences, UpSteps(p))
    BY DEF UpInv, UpLives
  <2>2. Presence(upowerd'.devices[p]) \in Presences
    BY DEF Presence, Presences
  <2> QED
    BY <1>1, <2>1, <2>2, WalkAppend
<1>3. UpComes'
  <2> SUFFICES ASSUME NEW o \in Power!Objects, Held(o)' # Power!Absent
               PROVE  Will(o, Append(upInbox, e), upCalls, Held(o)', Shown(o))
    BY DEF UpComes, Shown
  <2>1. ~IsReply(e, o)
    BY DEF IsReply
  <2>2. CASE IsNews(e, o)
    BY <1>1, <2>2, WillGrows
  <2>3. CASE Held(o)' = Held(o)
    <3>1. Will(o, upInbox, upCalls, Held(o)', Shown(o))
      BY <2>3 DEF UpInv, UpComes
    <3> QED
      BY <1>1, <2>1, <3>1, WillGrows
  <2> QED
    BY <2>2, <2>3
<1>4. UpPainted'
  BY DEF UpInv, UpPainted
<1>5. Power!TypeOK'
  <2>1. upInbox' \in Seq([kind : {"reply", "changed", "added", "removed"},
                          of : Power!Objects \union {Power!Nobody},
                          value : Power!Levels \union Power!Supplies \union {Power!Absent}])
    BY <1>1, UpMessages
  <2>2. upWork' \in 0..MaxPowerChanges
    BY UpNames DEF UpInv, Power!TypeOK
  <2> QED
    BY <2>1, <2>2 DEF UpInv, Power!TypeOK
<1> QED
  BY <1>1, <1>2, <1>3, <1>4, <1>5 DEF UpInv

LEMMA UpSignal ==
    ASSUME NEW k \in {"changed", "added", "removed"}, NEW o \in Power!Objects,
           k = "changed" \/ o \in Power!Paths
    PROVE  /\ Power!Message(k, o) \in UpMessage
           /\ Power!Message(k, o).kind = k /\ Power!Message(k, o).of = o
  BY DEF Power!Message, UpMessage

LEMMA UpServerTyped ==
    ASSUME UpInv
    PROVE  upowerd \in [display : Power!Levels, supply : Power!Supplies,
                        devices : [Power!Paths -> Power!Levels \union {Power!Absent}]]
  BY DEF UpInv, Power!TypeOK

\* A change that touches one device only, or none.
LEMMA UpDeviceSet ==
    ASSUME UpInv, NEW p \in Power!Paths, NEW x \in Power!Levels \union {Power!Absent},
           upowerd' = [upowerd EXCEPT !.devices[p] = x]
    PROVE  /\ upowerd' \in [display : Power!Levels, supply : Power!Supplies,
                            devices : [Power!Paths -> Power!Levels \union {Power!Absent}]]
           /\ upowerd'.devices[p] = x
           /\ \A r \in Power!Paths : r # p => upowerd'.devices[r] = upowerd.devices[r]
           /\ \A o \in Power!Objects : o # p => Held(o)' = Held(o)
           /\ Held(p)' = x
<1>1. /\ upowerd' \in [display : Power!Levels, supply : Power!Supplies,
                       devices : [Power!Paths -> Power!Levels \union {Power!Absent}]]
      /\ upowerd'.devices[p] = x /\ upowerd'.display = upowerd.display
      /\ upowerd'.supply = upowerd.supply
      /\ \A r \in Power!Paths : r # p => upowerd'.devices[r] = upowerd.devices[r]
  BY UpServerTyped
<1>2. \A o \in Power!Objects : o # p => Held(o)' = Held(o)
  BY <1>1, UpNames DEF Held
<1>3. Held(p)' = x
  BY <1>1, UpNames DEF Held
<1> QED
  BY <1>1, <1>2, <1>3

\* A message about p that moves it as its presence went; the others stay.
LEMMA UpStepsOne ==
    ASSUME NEW p \in Power!Paths, NEW e \in UpMessage, NEW d, NEW w,
           \A r \in Power!Paths : r # p => w[r] = d[r], e.of = p,
           \/ e.kind = "changed" /\ Presence(w[p]) = Presence(d[p])
           \/ e.kind = "added" /\ Presence(d[p]) = "gone" /\ Presence(w[p]) = "there"
           \/ e.kind = "removed" /\ Presence(d[p]) = "there" /\ Presence(w[p]) = "gone"
    PROVE  \A r \in Power!Paths : <<Presence(d[r]), e, Presence(w[r])>> \in UpSteps(r)
<1> SUFFICES ASSUME NEW r \in Power!Paths
             PROVE  <<Presence(d[r]), e, Presence(w[r])>> \in UpSteps(r)
  OBVIOUS
<1>1. Presence(d[r]) \in Presences /\ Presence(w[r]) \in Presences
  BY DEF Presence, Presences
<1>2. r # p => Presence(w[r]) = Presence(d[r])
  OBVIOUS
<1> DEFINE a == Presence(d[r])
           b == Presence(w[r])
<1>3. r = p => \/ e.kind = "changed" /\ a = b
               \/ e.kind = "added" /\ a = "gone" /\ b = "there"
               \/ e.kind = "removed" /\ a = "there" /\ b = "gone"
  OBVIOUS
<1>4. a \in Presences /\ b \in Presences /\ (r # p => a = b)
  BY <1>1, <1>2
<1> HIDE DEF a, b
<1>5. <<a, e, b>> \in UpSteps(r)
  BY <1>3, <1>4 DEF UpSteps
<1> QED
  BY <1>5 DEF a, b

LEMMA UpChargesKeeps ==
    ASSUME UpInv, NEW p \in Power!Paths, Power!Charges(p)
    PROVE  UpInv'
<1> DEFINE e == Power!Message("changed", p)
           x == IF upowerd.devices[p] = "low" THEN "full" ELSE "low"
<1>1. /\ upowerd.devices[p] # Power!Absent /\ upowerd' = [upowerd EXCEPT !.devices[p] = x]
      /\ upInbox' = Append(upInbox, e) /\ UNCHANGED <<upCalls, upower, battery>>
      /\ upWork > 0 /\ upWork' = upWork - 1
  BY DEF Power!Charges, Power!Exports
<1>2. x \in Power!Levels \union {Power!Absent} /\ x # Power!Absent
  BY DEF Power!Levels, Power!Absent
<1>3. p \in Power!Objects
  BY UpNames
<1>4. e \in UpMessage /\ e.kind = "changed" /\ e.of = p
  BY <1>3, UpSignal
<1> HIDE DEF e, x
<1>5. \A o \in Power!Objects :
          Held(o)' = Held(o) \/ Held(o)' = Power!Absent \/ IsNews(e, o)
  BY <1>1, <1>2, <1>4, UpDeviceSet DEF IsNews
<1>6. \A r \in Power!Paths :
          <<Presence(upowerd.devices[r]), e, Presence(upowerd'.devices[r])>> \in UpSteps(r)
  <2>1. Presence(upowerd'.devices[p]) = Presence(upowerd.devices[p])
    BY <1>1, <1>2, UpDeviceSet DEF Presence
  <2>2. \A r \in Power!Paths : r # p => upowerd'.devices[r] = upowerd.devices[r]
    BY <1>1, <1>2, UpDeviceSet
  <2> QED
    BY <1>4, <2>1, <2>2, UpStepsOne
<1>7. upowerd' \in [display : Power!Levels, supply : Power!Supplies,
                    devices : [Power!Paths -> Power!Levels \union {Power!Absent}]]
  BY <1>1, <1>2, UpDeviceSet
<1> QED
  BY <1>1, <1>4, <1>5, <1>6, <1>7, UpExports

LEMMA UpAppearsKeeps ==
    ASSUME UpInv, NEW p \in Power!Paths, Power!Appears(p)
    PROVE  UpInv'
<1> DEFINE e == Power!Message("added", p)
           x == "low"
<1>1. /\ upowerd.devices[p] = Power!Absent /\ upowerd' = [upowerd EXCEPT !.devices[p] = x]
      /\ upInbox' = Append(upInbox, e) /\ UNCHANGED <<upCalls, upower, battery>>
      /\ upWork > 0 /\ upWork' = upWork - 1
  BY DEF Power!Appears, Power!Exports
<1>2. x \in Power!Levels \union {Power!Absent} /\ x # Power!Absent
  BY DEF Power!Levels, Power!Absent
<1>3. p \in Power!Objects
  BY UpNames
<1>4. e \in UpMessage /\ e.kind = "added" /\ e.of = p
  BY <1>3, UpSignal
<1> HIDE DEF e, x
<1>5. \A o \in Power!Objects :
          Held(o)' = Held(o) \/ Held(o)' = Power!Absent \/ IsNews(e, o)
  BY <1>1, <1>2, <1>4, UpDeviceSet DEF IsNews
<1>6. \A r \in Power!Paths :
          <<Presence(upowerd.devices[r]), e, Presence(upowerd'.devices[r])>> \in UpSteps(r)
  <2>1. Presence(upowerd'.devices[p]) = "there" /\ Presence(upowerd.devices[p]) = "gone"
    BY <1>1, <1>2, UpDeviceSet DEF Presence
  <2>2. \A r \in Power!Paths : r # p => upowerd'.devices[r] = upowerd.devices[r]
    BY <1>1, <1>2, UpDeviceSet
  <2> QED
    BY <1>4, <2>1, <2>2, UpStepsOne
<1>7. upowerd' \in [display : Power!Levels, supply : Power!Supplies,
                    devices : [Power!Paths -> Power!Levels \union {Power!Absent}]]
  BY <1>1, <1>2, UpDeviceSet
<1> QED
  BY <1>1, <1>4, <1>5, <1>6, <1>7, UpExports

LEMMA UpDisappearsKeeps ==
    ASSUME UpInv, NEW p \in Power!Paths, Power!Disappears(p)
    PROVE  UpInv'
<1> DEFINE e == Power!Message("removed", p)
           x == Power!Absent
<1>1. /\ upowerd.devices[p] # Power!Absent /\ upowerd' = [upowerd EXCEPT !.devices[p] = x]
      /\ upInbox' = Append(upInbox, e) /\ UNCHANGED <<upCalls, upower, battery>>
      /\ upWork > 0 /\ upWork' = upWork - 1
  BY DEF Power!Disappears, Power!Exports
<1>2. x \in Power!Levels \union {Power!Absent} /\ x = Power!Absent
  OBVIOUS
<1>3. p \in Power!Objects
  BY UpNames
<1>4. e \in UpMessage /\ e.kind = "removed" /\ e.of = p
  BY <1>3, UpSignal
<1> HIDE DEF e, x
<1>5. \A o \in Power!Objects :
          Held(o)' = Held(o) \/ Held(o)' = Power!Absent \/ IsNews(e, o)
  BY <1>1, <1>2, UpDeviceSet
<1>6. \A r \in Power!Paths :
          <<Presence(upowerd.devices[r]), e, Presence(upowerd'.devices[r])>> \in UpSteps(r)
  <2>1. Presence(upowerd'.devices[p]) = "gone" /\ Presence(upowerd.devices[p]) = "there"
    BY <1>1, <1>2, UpDeviceSet DEF Presence
  <2>2. \A r \in Power!Paths : r # p => upowerd'.devices[r] = upowerd.devices[r]
    BY <1>1, <1>2, UpDeviceSet
  <2> QED
    BY <1>4, <2>1, <2>2, UpStepsOne
<1>7. upowerd' \in [display : Power!Levels, supply : Power!Supplies,
                    devices : [Power!Paths -> Power!Levels \union {Power!Absent}]]
  BY <1>1, <1>2, UpDeviceSet
<1> QED
  BY <1>1, <1>4, <1>5, <1>6, <1>7, UpExports

\* A change of the display device or of the supply.
LEMMA UpOtherKeeps ==
    ASSUME UpInv, Power!DisplayChanges \/ Power!PluggedIn
    PROVE  UpInv'
<1> DEFINE x == IF upowerd.display = "low" THEN "full" ELSE "low"
           y == IF upowerd.supply = "mains" THEN "battery" ELSE "mains"
<1>1. PICK o \in {"display", "manager"} :
          /\ upowerd' = IF o = "display" THEN [upowerd EXCEPT !.display = x]
                        ELSE [upowerd EXCEPT !.supply = y]
          /\ upInbox' = Append(upInbox, Power!Message("changed", o))
          /\ UNCHANGED <<upCalls, upower, battery>> /\ upWork > 0 /\ upWork' = upWork - 1
  BY DEF Power!DisplayChanges, Power!PluggedIn, Power!Exports
<1> DEFINE e == Power!Message("changed", o)
<1>2. o \in Power!Objects
  BY DEF Power!Objects
<1>3. e \in UpMessage /\ e.kind = "changed" /\ e.of = o
  BY <1>2, UpSignal
<1>4. x \in Power!Levels /\ y \in Power!Supplies
  BY DEF Power!Levels, Power!Supplies
<1> HIDE DEF e, x, y
<1>5. /\ upowerd' \in [display : Power!Levels, supply : Power!Supplies,
                       devices : [Power!Paths -> Power!Levels \union {Power!Absent}]]
      /\ upowerd'.devices = upowerd.devices
      /\ o # "display" => upowerd'.display = upowerd.display
      /\ o # "manager" => upowerd'.supply = upowerd.supply
  BY <1>1, <1>4, UpServerTyped
<1>6. \A z \in Power!Objects : z # o => Held(z)' = Held(z)
  BY <1>5 DEF Held
<1>7. \A z \in Power!Objects : Held(z)' = Held(z) \/ Held(z)' = Power!Absent \/ IsNews(e, z)
  BY <1>3, <1>6 DEF IsNews
<1>8. \A r \in Power!Paths :
          <<Presence(upowerd.devices[r]), e, Presence(upowerd'.devices[r])>> \in UpSteps(r)
  BY <1>3, <1>5 DEF UpSteps, Presence, Presences
<1>9. upInbox' = Append(upInbox, e)
  BY <1>1 DEF e
<1> QED
  BY <1>1, <1>3, <1>5, <1>7, <1>8, <1>9, UpExports

LEMMA WalkEmpty ==
    ASSUME NEW V, NEW T, NEW v \in V
    PROVE  Walk(<<>>, v, v, V, T)
<1> DEFINE l == [i \in 1..1 |-> v]
<1>1. Len(<<>>) = 0 /\ 0 + 1 = 1 /\ 1..0 = {}
  OBVIOUS
<1>2. l \in [1..1 -> V] /\ l[1] = v
  OBVIOUS
<1> HIDE DEF l
<1>3. Walks(l, <<>>, v, v, V, T)
  BY <1>1, <1>2 DEF Walks
<1> QED
  BY <1>3 DEF Walk

LEMMA WalkNowhere ==
    ASSUME NEW V, NEW T, NEW v, NEW w, Walk(<<>>, v, w, V, T)
    PROVE  v = w
<1>1. Len(<<>>) = 0 /\ 0 + 1 = 1
  OBVIOUS
<1> QED
  BY <1>1 DEF Walk, Walks

LEMMA UpInitially == Power!Init => UpInv
<1> SUFFICES ASSUME Power!Init PROVE UpInv
  OBVIOUS
<1> DEFINE listed == {p \in Power!Paths : upower.devices[p] = Power!Blank}
<1>1. PICK order \in [1..Power!Cardinality(listed) -> listed] :
          /\ \A p \in listed : \E i \in DOMAIN order : order[i] = p
          /\ upCalls = Append(Append(order, "display"), "manager")
  BY DEF Power!Init
<1>2. /\ upowerd \in [display : Power!Levels, supply : Power!Supplies,
                      devices : [Power!Paths -> {"low", Power!Absent}]]
      /\ upower = [display |-> Power!Absent, supply |-> "mains", dirty |-> FALSE,
                   devices |-> [p \in Power!Paths |-> IF upowerd.devices[p] = Power!Absent
                                                      THEN Power!Absent ELSE Power!Blank]]
      /\ upInbox = <<>>
      /\ battery = [pill |-> Power!Absent, rows |-> <<>>, due |-> TRUE]
      /\ upWork = MaxPowerChanges
  BY DEF Power!Init
<1>3. Power!Cardinality(listed) \in Nat
  <2>1. listed \subseteq Power!Paths /\ IsFiniteSet(Power!Paths)
    BY ServicesAssumption DEF Power!Paths
  <2>2. IsFiniteSet(listed)
    BY <2>1, FS_Subset
  <2>3. Cardinality(listed) \in Nat
    BY <2>2, FS_CardinalityType
  <2>4. Power!Cardinality(listed) = Cardinality(listed)
    BY DEF Power!Cardinality, Cardinality
  <2> QED
    BY <2>3, <2>4
<1>4. upowerd \in [display : Power!Levels, supply : Power!Supplies,
                   devices : [Power!Paths -> Power!Levels \union {Power!Absent}]]
  BY <1>2 DEF Power!Levels
<1>5. upower \in [display : Power!Levels \union {Power!Absent}, supply : Power!Supplies,
                  dirty : BOOLEAN,
                  devices : [Power!Paths -> Power!Levels \union {Power!Absent, Power!Blank}]]
  BY <1>2 DEF Power!Supplies
<1>6. /\ \A p \in Power!Paths : upower.devices[p] = IF upowerd.devices[p] = Power!Absent
                                                    THEN Power!Absent ELSE Power!Blank
      /\ ~upower.dirty
  BY <1>2
<1> DEFINE n == Power!Cardinality(listed)
           one == Append(order, "display")
           C == Power!Objects \union {Power!Nobody}
<1>7. order \in Seq(C)
  <2>1. listed \subseteq C
    BY UpNames
  <2> HIDE DEF listed, C
  <2>2. order \in Seq(listed)
    BY <1>1, <1>3
  <2> QED
    BY <2>1, <2>2
<1>8. "display" \in C /\ "manager" \in C
  BY DEF Power!Objects
<1>9. DOMAIN order = 1..Len(order)
  BY <1>7
<1>10. \A p \in listed : \E i \in 1..Len(order) : order[i] = p
  BY <1>1, <1>9
<1> HIDE DEF C, listed
<1>11. /\ one \in Seq(C) /\ Len(one) = Len(order) + 1 /\ Len(order) \in Nat
       /\ one[Len(order) + 1] = "display" /\ \A i \in 1..Len(order) : one[i] = order[i]
  BY <1>7, <1>8, Grows
<1> HIDE DEF one
<1>12. upCalls = Append(one, "manager")
  BY <1>1 DEF one
<1>13. /\ upCalls \in Seq(C) /\ Len(upCalls) = Len(one) + 1
       /\ upCalls[Len(one) + 1] = "manager" /\ \A i \in 1..Len(one) : upCalls[i] = one[i]
  BY <1>8, <1>11, <1>12, Grows
<1>14. \A i \in 1..Len(order) : i \in 1..Len(one) /\ i \in 1..Len(upCalls)
  BY <1>11, <1>13
<1>15. /\ Len(order) + 1 \in 1..Len(one) /\ Len(order) + 1 \in 1..Len(upCalls)
       /\ Len(one) + 1 \in 1..Len(upCalls)
  BY <1>11, <1>13
<1>16. UpLives
  <2> SUFFICES ASSUME NEW p \in Power!Paths
               PROVE  Walk(<<>>, Presence(upower.devices[p]), Presence(upowerd.devices[p]),
                           Presences, UpSteps(p))
    BY <1>2 DEF UpLives
  <2>1. Presence(upower.devices[p]) = Presence(upowerd.devices[p])
    BY <1>6, UpValues DEF Presence
  <2>2. Presence(upowerd.devices[p]) \in Presences
    BY DEF Presence, Presences
  <2> QED
    BY <2>1, <2>2, WalkEmpty
<1>17. UpComes
  <2> SUFFICES ASSUME NEW o \in Power!Objects, Held(o) # Power!Absent
               PROVE  \E i \in 1..Len(upCalls) : upCalls[i] = o
    BY DEF UpComes, Will
  <2>1. CASE o = "display"
    BY <1>11, <1>13, <1>15, <2>1
  <2>2. CASE o = "manager"
    BY <1>13, <1>15, <2>2
  <2>3. CASE o \in Power!Paths
    <3>1. upowerd.devices[o] # Power!Absent
      BY <2>3, UpNames DEF Held
    <3>2. o \in listed
      BY <1>6, <2>3, <3>1 DEF listed
    <3>3. PICK i \in 1..Len(order) : order[i] = o
      BY <1>10, <3>2
    <3> QED
      BY <1>11, <1>13, <1>14, <3>3
  <2> QED
    BY <2>1, <2>2, <2>3, UpNames
<1>18. UpPainted
  BY <1>2 DEF UpPainted
<1>19. upInbox \in Seq(UpMessage)
  BY <1>2
<1>20. Power!TypeOK
  <2>1. upCalls \in Seq(Power!Objects \union {Power!Nobody})
    BY <1>13 DEF C
  <2>2. upInbox \in Seq([kind : {"reply", "changed", "added", "removed"},
                         of : Power!Objects \union {Power!Nobody},
                         value : Power!Levels \union Power!Supplies \union {Power!Absent}])
    BY <1>2
  <2>3. battery \in [pill : Power!Levels \union {Power!Absent}, due : BOOLEAN,
                     rows : {<<>>} \union (BOOLEAN \X (SUBSET (Power!Paths \X Power!Levels)) \X BOOLEAN)]
    BY <1>2
  <2>4. upWork \in 0..MaxPowerChanges
    BY <1>2, UpNames
  <2> QED
    BY <1>4, <1>5, <2>1, <2>2, <2>3, <2>4 DEF Power!TypeOK
<1> QED
  BY <1>16, <1>17, <1>18, <1>19, <1>20 DEF UpInv

LEMMA UpStep == UpInv /\ Power!Next => UpInv'
<1> SUFFICES ASSUME UpInv, Power!Next PROVE UpInv'
  OBVIOUS
<1> QED
  BY UpReplyKeeps, UpChangedKeeps, UpAddedKeeps, UpRemovedKeeps, UpRedrawKeeps, UpPaintKeeps,
     UpAnswerKeeps, UpOtherKeeps, UpChargesKeeps, UpAppearsKeeps, UpDisappearsKeeps
     DEF Power!Next

LEMMA UpStays == UpInv /\ UNCHANGED upVars => UpInv'
  BY DEF UpInv, upVars, UpLives, UpComes, UpPainted, Held, Shown, Power!TypeOK

LEMMA UpSettled == UpInv => Power!Settles
<1> SUFFICES ASSUME UpInv, upCalls = <<>>, upInbox = <<>>, ~upower.dirty, ~battery.due
             PROVE  battery.pill = upowerd.display /\ battery.rows = Power!Rows(upowerd)
  BY DEF Power!Settles
<1>1. battery.pill = upower.display /\ battery.rows = Power!Rows(upower)
  BY DEF UpInv, UpPainted
<1>2. \A o \in Power!Objects : Held(o) # Power!Absent => Shown(o) = Held(o)
  <2>1. Len(upCalls) = 0 /\ Len(upInbox) = 0
    OBVIOUS
  <2> QED
    BY <2>1 DEF UpInv, UpComes, Will
<1>3. "display" \in Power!Objects /\ "manager" \in Power!Objects
  BY DEF Power!Objects
<1>4. upower.display = upowerd.display
  <2>1. Held("display") # Power!Absent
    BY UpTyped, UpValues DEF Held
  <2> QED
    BY <1>2, <1>3, <2>1 DEF Held, Shown
<1>5. upower.supply = upowerd.supply
  <2>1. Held("manager") # Power!Absent
    BY UpTyped, UpValues DEF Held
  <2> QED
    BY <1>2, <1>3, <2>1 DEF Held, Shown
<1>6. \A p \in Power!Paths : upower.devices[p] = upowerd.devices[p]
  <2> SUFFICES ASSUME NEW p \in Power!Paths PROVE upower.devices[p] = upowerd.devices[p]
    OBVIOUS
  <2>1. Presence(upower.devices[p]) = Presence(upowerd.devices[p])
    <3>1. Walk(<<>>, Presence(upower.devices[p]), Presence(upowerd.devices[p]),
               Presences, UpSteps(p))
      BY DEF UpInv, UpLives
    <3> QED
      BY <3>1, WalkNowhere
  <2>2. CASE upowerd.devices[p] = Power!Absent
    BY <2>1, <2>2 DEF Presence
  <2>3. CASE upowerd.devices[p] # Power!Absent
    BY <1>2, <2>3, UpNames DEF Held, Shown
  <2> QED
    BY <2>2, <2>3
<1>7. Power!Rows(upower) = Power!Rows(upowerd)
  BY <1>5, <1>6, RowsAlike
<1> QED
  BY <1>1, <1>4, <1>7

-----------------------------------------------------------------------------
(* Mpris.  The answers of the last scan are counted player by player; once  *)
(* no change of an owner is under way, the players the scan asks are those  *)
(* that are there.                                                          *)

\* How often a message of S is in the queue q.
Without(q, S) == \A i \in 1..Len(q) : q[i] \notin S
Once(q, S) == \A i, j \in 1..Len(q) : q[i] \in S /\ q[j] \in S => i = j

\* The last message of S says on, or there is none and on is what is shown.
LastWord(q, S, on, shown) ==
    \/ \E i \in 1..Len(q) : /\ q[i] \in S /\ q[i].playing = on
                            /\ \A j \in 1..Len(q) : j > i => q[j] \notin S
    \/ shown = on /\ Without(q, S)

ListCalls(g) == {c \in Player!Calls : c.op = "list" /\ c.mark = g}
Lists(g) == {m \in Player!Messages : m.op = "list" /\ m.mark = g}
ScanCalls(g) == {c \in Player!Calls : c.op = "scan" /\ c.mark = g}
Scans(g, p) == {m \in Player!Messages : m.op = "scan" /\ m.mark = g /\ m.from = p}
StatusCalls(x) == {c \in Player!Calls : c.op = "status" /\ c.mark = x}
Statuses(x) == {m \in Player!Messages : m.op = "status" /\ m.mark = x}
PositionCalls(x) == {c \in Player!Calls : c.op = "position" /\ c.mark = x}
Positions(x) == {m \in Player!Messages : m.op = "position" /\ m.mark = x}
Tells(x, p) == {m \in Player!Messages : \/ m.op = "status" /\ m.mark = x /\ ~m.err
                                        \/ m.op = "changed" /\ m.from = p}
Owners == {m \in Player!Messages : m.op = "owner"}

Candidate(p) == \E i \in 1..Len(mp.candidates) : mp.candidates[i].name = p
Listing == ~Without(calls["bus"], ListCalls(mp.gen)) \/ ~Without(inbox, Lists(mp.gen))
Joined == {p \in Players : \/ Candidate(p) \/ ~Without(calls[p], ScanCalls(mp.gen))
                           \/ ~Without(inbox, Scans(mp.gen, p))}

\* The calls are those the shell makes, and no mark is of the future.
CallFits(m, c, x) ==
    /\ x.op = "list" <=> c = "bus"
    /\ x.op \in {"list", "scan"} => x.mark <= m.gen
    /\ x.op = "status" => x.mark <= m.proxy
    /\ x \in StatusCalls(m.proxy) => c = m.player
MessageFits(m, x) ==
    /\ x.op = "scan" => x.from \in Players
    /\ x.op \in {"list", "scan"} => x.mark <= m.gen
    /\ x.op = "status" => x.mark <= m.proxy
    /\ x \in Statuses(m.proxy) => m.player # Player!NoPlayer
MpMarks ==
    /\ \A c \in Players \union {"bus"} : \A i \in 1..Len(calls[c]) : CallFits(mp, c, calls[c][i])
    /\ \A i \in 1..Len(inbox) : MessageFits(mp, inbox[i])

\* The names are asked for once, before anything else of the scan.
MpListing ==
    /\ Once(calls["bus"], ListCalls(mp.gen)) /\ Once(inbox, Lists(mp.gen))
    /\ Without(calls["bus"], ListCalls(mp.gen)) \/ Without(inbox, Lists(mp.gen))
    /\ Listing => Joined = {} /\ mp.expected = 0 /\ mp.candidates = <<>>

\* Each player is asked once.
MpOnce ==
    /\ \A i, j \in 1..Len(mp.candidates) :
          mp.candidates[i].name = mp.candidates[j].name => i = j
    /\ \A p \in Players :
          /\ Once(calls[p], ScanCalls(mp.gen)) /\ Once(inbox, Scans(mp.gen, p))
          /\ Without(calls[p], ScanCalls(mp.gen)) \/ Without(inbox, Scans(mp.gen, p))
          /\ Candidate(p) => /\ Without(calls[p], ScanCalls(mp.gen))
                             /\ Without(inbox, Scans(mp.gen, p))

\* Unless an owner has changed, the scan is of the players that are there.
MpNames ==
    Without(inbox, Owners) =>
        /\ \A i \in 1..Len(inbox) : inbox[i] \in Lists(mp.gen) => inbox[i].names = Player!Names
        /\ ~Listing => /\ Joined = Player!Names
                       /\ IF Player!Names = {}
                          THEN mp.player = Player!NoPlayer /\ ~mp.playing
                          ELSE /\ mp.expected = Player!Cardinality(Player!Names)
                               /\ Len(mp.candidates) >= mp.expected => mp.player \in Player!Names

MpTold ==
    mp.player # Player!NoPlayer /\ mp.since = owner[mp.player] /\ mp.since # 0 =>
        \/ ~Without(calls[mp.player], StatusCalls(mp.proxy))
        \/ LastWord(inbox, Tells(mp.proxy, mp.player), playing[mp.player], mp.playing)

MpPast ==
    /\ \A p \in Players : owner[p] <= mpWork.owners + 1
    /\ mp.since <= mpWork.owners + 1 /\ mp.polled <= mp.proxy

MpPolled ==
    mp.inflight /\ mp.polled = mp.proxy =>
        /\ mp.player \in Players
        /\ \/ ~Without(calls[mp.player], PositionCalls(mp.proxy))
           \/ ~Without(inbox, Positions(mp.proxy))

MpInv ==
    /\ Player!TypeOK /\ MpMarks /\ MpListing /\ MpOnce /\ MpNames /\ MpTold /\ MpPast
    /\ MpPolled

LEMMA WithoutAppend ==
    ASSUME NEW M, NEW q \in Seq(M), NEW e \in M, NEW S
    PROVE  /\ Without(Append(q, e), S) <=> Without(q, S) /\ e \notin S
           /\ Once(q, S) /\ (e \in S => Without(q, S)) => Once(Append(q, e), S)
<1> DEFINE t == Append(q, e)
<1>1. /\ Len(q) \in Nat /\ Len(t) = Len(q) + 1 /\ t[Len(q) + 1] = e
      /\ \A i \in 1..Len(q) : t[i] = q[i]
  BY Grows
<1> HIDE DEF t
<1>2. /\ Len(q) + 1 \in 1..Len(t) /\ \A i \in 1..Len(q) : i \in 1..Len(t)
      /\ \A i \in 1..Len(t) : i = Len(q) + 1 \/ i \in 1..Len(q)
  BY <1>1
<1>3. Without(t, S) <=> Without(q, S) /\ e \notin S
  BY <1>1, <1>2 DEF Without
<1>4. ASSUME Once(q, S), e \in S => Without(q, S) PROVE Once(t, S)
  BY <1>1, <1>2, <1>4 DEF Once, Without
<1> QED
  BY <1>3, <1>4 DEF t

LEMMA WithoutTail ==
    ASSUME NEW M, NEW q \in Seq(M), q # <<>>, NEW S
    PROVE  /\ Without(q, S) <=> Head(q) \notin S /\ Without(Tail(q), S)
           /\ Once(q, S) => Once(Tail(q), S)
           /\ Once(q, S) /\ Head(q) \in S => Without(Tail(q), S)
<1> DEFINE t == Tail(q)
<1>1. /\ Len(q) \in Nat \ {0} /\ Len(t) = Len(q) - 1 /\ Head(q) = q[1]
      /\ \A i \in 1..Len(t) : t[i] = q[i + 1]
  BY Shrinks
<1> HIDE DEF t
<1>2. /\ 1 \in 1..Len(q) /\ \A i \in 1..Len(t) : i + 1 \in 1..Len(q) /\ i + 1 # 1
      /\ \A i \in 1..Len(q) : i = 1 \/ (i - 1 \in 1..Len(t) /\ t[i - 1] = q[i])
  BY <1>1
<1>3. Without(q, S) <=> Head(q) \notin S /\ Without(t, S)
  BY <1>1, <1>2 DEF Without
<1>4. ASSUME Once(q, S) PROVE Once(t, S)
  <2> SUFFICES ASSUME NEW i \in 1..Len(t), NEW j \in 1..Len(t), t[i] \in S, t[j] \in S PROVE i = j
    BY DEF Once
  <2>1. i + 1 = j + 1
    BY <1>1, <1>2, <1>4 DEF Once
  <2> QED
    BY <2>1
<1>5. ASSUME Once(q, S), Head(q) \in S PROVE Without(t, S)
  BY <1>1, <1>2, <1>5 DEF Once, Without
<1> QED
  BY <1>3, <1>4, <1>5 DEF t

LEMMA Joins ==
    ASSUME NEW M, NEW q \in Seq(M), NEW r \in Seq(M)
    PROVE  LET t == q \o r
           IN  /\ t \in Seq(M) /\ Len(q) \in Nat /\ Len(r) \in Nat /\ Len(t) = Len(q) + Len(r)
               /\ \A i \in 1..Len(q) : t[i] = q[i]
               /\ \A i \in 1..Len(r) : t[Len(q) + i] = r[i]
  OBVIOUS

\* A sequence made from another one, element by element.
LEMMA Mapped ==
    ASSUME NEW T, NEW n \in Nat, NEW r, r = [i \in 1..n |-> r[i]], \A i \in 1..n : r[i] \in T
    PROVE  r \in Seq(T) /\ Len(r) = n
  OBVIOUS

LEMMA WithoutConcat ==
    ASSUME NEW M, NEW q \in Seq(M), NEW r \in Seq(M), NEW S
    PROVE  /\ Without(q \o r, S) <=> Without(q, S) /\ Without(r, S)
           /\ Once(q, S) /\ Once(r, S) /\ (Without(q, S) \/ Without(r, S)) => Once(q \o r, S)
<1> DEFINE t == q \o r
<1>1. /\ Len(q) \in Nat /\ Len(r) \in Nat /\ Len(t) = Len(q) + Len(r)
      /\ \A i \in 1..Len(q) : t[i] = q[i]
      /\ \A i \in 1..Len(r) : t[Len(q) + i] = r[i]
  BY Joins
<1> HIDE DEF t
<1>2. /\ \A i \in 1..Len(q) : i \in 1..Len(t)
      /\ \A i \in 1..Len(r) : Len(q) + i \in 1..Len(t)
      /\ \A i \in 1..Len(t) : i \in 1..Len(q) \/ (i - Len(q) \in 1..Len(r) /\ t[i] = r[i - Len(q)])
  <2>1. \A i \in 1..Len(t) : i \in 1..Len(q) \/ (i - Len(q) \in 1..Len(r) /\ Len(q) + (i - Len(q)) = i)
    BY <1>1
  <2>2. \A i \in 1..Len(t) : i \in 1..Len(q) \/ (i - Len(q) \in 1..Len(r) /\ t[i] = r[i - Len(q)])
    BY <1>1, <2>1
  <2>3. \A i \in 1..Len(r) : Len(q) + i \in 1..Len(t)
    BY <1>1
  <2> QED
    BY <1>1, <2>2, <2>3
<1>3. Without(t, S) <=> Without(q, S) /\ Without(r, S)
  <2>1. ASSUME Without(t, S) PROVE Without(q, S) /\ Without(r, S)
    BY <1>1, <1>2, <2>1 DEF Without
  <2>2. ASSUME Without(q, S), Without(r, S) PROVE Without(t, S)
    BY <1>1, <1>2, <2>2 DEF Without
  <2> QED
    BY <2>1, <2>2
<1>4. ASSUME Once(q, S), Once(r, S), Without(q, S) \/ Without(r, S) PROVE Once(t, S)
  <2> SUFFICES ASSUME NEW i \in 1..Len(t), NEW j \in 1..Len(t), t[i] \in S, t[j] \in S PROVE i = j
    BY DEF Once
  <2>1. CASE Without(q, S)
    <3>1. /\ i - Len(q) \in 1..Len(r) /\ r[i - Len(q)] \in S
          /\ j - Len(q) \in 1..Len(r) /\ r[j - Len(q)] \in S
      BY <1>1, <1>2, <2>1 DEF Without
    <3>2. i - Len(q) = j - Len(q)
      BY <1>4, <3>1 DEF Once
    <3> QED
      BY <1>1, <3>2
  <2>2. CASE Without(r, S)
    <3>1. i \in 1..Len(q) /\ j \in 1..Len(q) /\ q[i] \in S /\ q[j] \in S
      BY <1>1, <1>2, <2>2 DEF Without
    <3> QED
      BY <1>4, <3>1 DEF Once
  <2> QED
    BY <1>4, <2>1, <2>2
<1> QED
  BY <1>3, <1>4 DEF t

LEMMA LastWordAppend ==
    ASSUME NEW M, NEW q \in Seq(M), NEW e \in M, NEW S, NEW on, NEW shown
    PROVE  /\ e \in S /\ e.playing = on => LastWord(Append(q, e), S, on, shown)
           /\ e \notin S /\ LastWord(q, S, on, shown) => LastWord(Append(q, e), S, on, shown)
<1> DEFINE t == Append(q, e)
<1>1. /\ Len(q) \in Nat /\ Len(t) = Len(q) + 1 /\ t[Len(q) + 1] = e
      /\ \A i \in 1..Len(q) : t[i] = q[i]
  BY Grows
<1>2. Without(q, S) /\ e \notin S => Without(t, S)
  BY WithoutAppend
<1> HIDE DEF t
<1>3. /\ Len(q) + 1 \in 1..Len(t) /\ \A i \in 1..Len(q) : i \in 1..Len(t)
      /\ \A i \in 1..Len(t) : i = Len(q) + 1 \/ i \in 1..Len(q)
      /\ \A j \in 1..Len(t) : ~(j > Len(q) + 1)
  BY <1>1
<1>4. e \in S /\ e.playing = on => LastWord(t, S, on, shown)
  BY <1>1, <1>3 DEF LastWord
<1>5. ASSUME e \notin S, NEW i \in 1..Len(q), q[i] \in S, q[i].playing = on,
             \A j \in 1..Len(q) : j > i => q[j] \notin S
      PROVE  LastWord(t, S, on, shown)
  <2>1. \A j \in 1..Len(t) : j > i => t[j] \notin S
    BY <1>1, <1>3, <1>5
  <2>2. i \in 1..Len(t) /\ t[i] \in S /\ t[i].playing = on
    BY <1>1, <1>3, <1>5
  <2> QED
    BY <2>1, <2>2 DEF LastWord
<1>6. e \notin S /\ LastWord(q, S, on, shown) => LastWord(t, S, on, shown)
  BY <1>2, <1>5 DEF LastWord
<1> QED
  BY <1>4, <1>6 DEF t

LEMMA LastWordTail ==
    ASSUME NEW M, NEW q \in Seq(M), q # <<>>, NEW S, NEW on, NEW shown, NEW now,
           LastWord(q, S, on, shown),
           now = IF Head(q) \in S THEN Head(q).playing ELSE shown
    PROVE  LastWord(Tail(q), S, on, now)
<1> DEFINE t == Tail(q)
<1>1. /\ Len(q) \in Nat \ {0} /\ Len(t) = Len(q) - 1 /\ Head(q) = q[1]
      /\ \A i \in 1..Len(t) : t[i] = q[i + 1]
  BY Shrinks
<1>2. Without(q, S) => Without(t, S) /\ Head(q) \notin S
  BY WithoutTail
<1> HIDE DEF t
<1>3. /\ \A i \in 1..Len(t) : i + 1 \in 1..Len(q) /\ i + 1 > 1
      /\ \A i \in 1..Len(q) : i = 1 \/ (i - 1 \in 1..Len(t) /\ t[i - 1] = q[i])
  BY <1>1
<1>4. ASSUME NEW i \in 1..Len(q), q[i] \in S, q[i].playing = on,
             \A j \in 1..Len(q) : j > i => q[j] \notin S
      PROVE  LastWord(t, S, on, now)
  <2>1. CASE i = 1
    <3>1. now = on
      BY <1>1, <1>4, <2>1
    <3>2. Without(t, S)
      BY <1>1, <1>3, <1>4, <2>1 DEF Without
    <3> QED
      BY <3>1, <3>2 DEF LastWord
  <2>2. CASE i # 1
    <3>1. i - 1 \in 1..Len(t) /\ t[i - 1] = q[i]
      BY <1>3, <2>2
    <3>2. \A j \in 1..Len(t) : j > i - 1 => j + 1 > i
      BY <1>1
    <3>3. \A j \in 1..Len(t) : j > i - 1 => t[j] \notin S
      BY <1>1, <1>3, <1>4, <3>2
    <3> QED
      BY <1>4, <3>1, <3>3 DEF LastWord
  <2> QED
    BY <2>1, <2>2
<1>5. CASE shown = on /\ Without(q, S)
  BY <1>2, <1>5 DEF LastWord, t
<1> QED
  BY <1>4, <1>5 DEF LastWord, t

LEMMA LastWordConcat ==
    ASSUME NEW M, NEW q \in Seq(M), NEW r \in Seq(M), NEW S, NEW on, NEW shown,
           LastWord(q, S, on, shown), Without(r, S)
    PROVE  LastWord(q \o r, S, on, shown)
<1> DEFINE t == q \o r
<1>1. /\ Len(q) \in Nat /\ Len(r) \in Nat /\ Len(t) = Len(q) + Len(r)
      /\ \A i \in 1..Len(q) : t[i] = q[i]
      /\ \A i \in 1..Len(r) : t[Len(q) + i] = r[i]
  BY Joins
<1>2. Without(q, S) => Without(t, S)
  BY WithoutConcat
<1> HIDE DEF t
<1>3. /\ \A i \in 1..Len(q) : i \in 1..Len(t)
      /\ \A i \in 1..Len(t) : i \in 1..Len(q) \/ t[i] \notin S
  <2>1. \A i \in 1..Len(t) : i \in 1..Len(q) \/ (i - Len(q) \in 1..Len(r) /\ Len(q) + (i - Len(q)) = i)
    BY <1>1
  <2>2. \A i \in 1..Len(t) : i \in 1..Len(q) \/ t[i] \notin S
    BY <1>1, <2>1 DEF Without
  <2> QED
    BY <1>1, <2>2
<1>4. ASSUME NEW i \in 1..Len(q), q[i] \in S, q[i].playing = on,
             \A j \in 1..Len(q) : j > i => q[j] \notin S
      PROVE  LastWord(t, S, on, shown)
  BY <1>1, <1>3, <1>4 DEF LastWord
<1> QED
  BY <1>2, <1>4 DEF LastWord, t

LEMMA MpNumbers ==
    /\ MaxOwners \in Nat /\ MaxToggles \in Nat /\ Player!Cardinality(Players) \in Nat
    /\ Player!NoPlayer \notin Players /\ Player!Bus \notin Players
    /\ Player!Bus = "bus" /\ Player!NoPlayer # "bus"
<1>1. Cardinality(Players) \in Nat
  BY ServicesAssumption, FS_CardinalityType
<1>2. Player!Cardinality(Players) = Cardinality(Players)
  BY DEF Player!Cardinality, Cardinality
<1> QED
  BY <1>1, <1>2, ServicesAssumption DEF Player!NoPlayer, Player!Bus

MpRecords == [player : Players \union {Player!NoPlayer}, proxy : Nat, since : 0..(MaxOwners + 1),
              playing : BOOLEAN, gen : Nat, expected : 0..Player!Cardinality(Players),
              candidates : Seq([name : Players, playing : BOOLEAN]),
              inflight : BOOLEAN, polled : Nat]

LEMMA MpTyped ==
    ASSUME MpInv
    PROVE  /\ owner \in [Players -> 0..(MaxOwners + 1)] /\ playing \in [Players -> BOOLEAN]
           /\ calls \in [Players \union {"bus"} -> Seq(Player!Calls)]
           /\ inbox \in Seq(Player!Messages) /\ mp \in MpRecords
           /\ Len(mp.candidates) <= Player!Cardinality(Players)
           /\ mpWork \in [owners : 0..MaxOwners, toggles : 0..MaxToggles]
           /\ \A c \in Players \union {"bus"} : calls[c] \in Seq(Player!Calls)
  BY DEF MpInv, Player!TypeOK, MpRecords, Player!Bus

\* What a scan has gathered, and what it chose, is as it was.
SameScan ==
    /\ mp'.player = mp.player /\ mp'.proxy = mp.proxy /\ mp'.since = mp.since
    /\ mp'.gen = mp.gen /\ mp'.expected = mp.expected /\ mp'.candidates = mp.candidates
    /\ mp.player = Player!NoPlayer => mp'.playing = mp.playing

Pending(p) == ~Without(calls[p], ScanCalls(mp.gen)) \/ ~Without(inbox, Scans(mp.gen, p))

\* A step that moves calls and answers along, and loses none of a scan.
LEMMA MpRelayed ==
    ASSUME MpInv, SameScan,
           Once(calls'["bus"], ListCalls(mp.gen)), Once(inbox', Lists(mp.gen)),
           Without(calls'["bus"], ListCalls(mp.gen)) \/ Without(inbox', Lists(mp.gen)),
           Listing' <=> Listing,
           \A p \in Players :
               /\ Once(calls'[p], ScanCalls(mp.gen)) /\ Once(inbox', Scans(mp.gen, p))
               /\ Without(calls'[p], ScanCalls(mp.gen)) \/ Without(inbox', Scans(mp.gen, p))
               /\ Pending(p)' <=> Pending(p),
           Without(inbox', Owners) =>
               /\ owner' = owner /\ Without(inbox, Owners)
               /\ \A i \in 1..Len(inbox') : inbox'[i] \in Lists(mp.gen) =>
                      \/ inbox'[i].names = Player!Names
                      \/ \E j \in 1..Len(inbox) : inbox[j] = inbox'[i]
    PROVE  MpListing' /\ MpOnce' /\ MpNames'
<1>1. \A p : Candidate(p)' <=> Candidate(p)
  BY DEF SameScan, Candidate
<1>2. \A p \in Players : p \in Joined <=> Candidate(p) \/ Pending(p)
  BY DEF Joined, Pending
<1>3. \A p \in Players : p \in Joined' <=> Candidate(p)' \/ Pending(p)'
  BY DEF Joined, Pending
<1>4. Joined' = Joined
  <2>1. Joined \subseteq Players /\ Joined' \subseteq Players
    BY DEF Joined
  <2> QED
    BY <1>1, <1>2, <1>3, <2>1
<1>5. MpListing'
  BY <1>4 DEF MpListing, MpInv, SameScan
<1>6. MpOnce'
  <2>1. \A p \in Players : Candidate(p)' =>
            Without(calls'[p], ScanCalls(mp.gen)) /\ Without(inbox', Scans(mp.gen, p))
    <3> SUFFICES ASSUME NEW p \in Players, Candidate(p)
                 PROVE  Without(calls'[p], ScanCalls(mp.gen)) /\ Without(inbox', Scans(mp.gen, p))
      BY <1>1
    <3>1. ~Pending(p)
      BY DEF MpInv, MpOnce, Pending
    <3>2. ~Pending(p)'
      BY <3>1
    <3> QED
      BY <3>2 DEF Pending, SameScan
  <2> QED
    BY <2>1 DEF MpInv, MpOnce, SameScan
<1>7. MpNames'
  <2> SUFFICES ASSUME Without(inbox', Owners)
               PROVE  /\ \A i \in 1..Len(inbox') :
                             inbox'[i] \in Lists(mp.gen) => inbox'[i].names = Player!Names'
                      /\ ~Listing' => /\ Joined' = Player!Names'
                                      /\ IF Player!Names' = {}
                                         THEN mp'.player = Player!NoPlayer /\ ~mp'.playing
                                         ELSE /\ mp'.expected = Player!Cardinality(Player!Names')
                                              /\ Len(mp'.candidates) >= mp'.expected
                                                    => mp'.player \in Player!Names'
    BY DEF MpNames, SameScan
  <2>1. Player!Names' = Player!Names
    BY DEF Player!Names
  <2>2. \A i \in 1..Len(inbox') : inbox'[i] \in Lists(mp.gen) => inbox'[i].names = Player!Names
    BY DEF MpInv, MpNames
  <2>3. ~Listing => /\ Joined = Player!Names
                    /\ IF Player!Names = {}
                       THEN mp.player = Player!NoPlayer /\ ~mp.playing
                       ELSE /\ mp.expected = Player!Cardinality(Player!Names)
                            /\ Len(mp.candidates) >= mp.expected => mp.player \in Player!Names
    BY DEF MpInv, MpNames
  <2>4. ~Listing' => ~Listing
    OBVIOUS
  <2> QED
    BY <1>4, <2>1, <2>2, <2>3, <2>4 DEF SameScan
<1> QED
  BY <1>5, <1>6, <1>7

\* The same when the queues are as they were, but for calls and messages of no scan.
LEMMA MpAside ==
    ASSUME MpInv, SameScan, owner' = owner,
           \A c \in Players \union {"bus"} : \A g :
               /\ Once(calls[c], ListCalls(g)) => Once(calls'[c], ListCalls(g))
               /\ Once(calls[c], ScanCalls(g)) => Once(calls'[c], ScanCalls(g))
               /\ Without(calls'[c], ListCalls(g)) <=> Without(calls[c], ListCalls(g))
               /\ Without(calls'[c], ScanCalls(g)) <=> Without(calls[c], ScanCalls(g)),
           \/ inbox' = inbox
           \/ \E e \in Player!Messages : e.op \in {"changed", "status", "position"}
                                         /\ inbox' = Append(inbox, e)
    PROVE  MpListing' /\ MpOnce' /\ MpNames'
<1> DEFINE g == mp.gen
<1>1. /\ Once(inbox, Lists(g)) => Once(inbox', Lists(g))
      /\ Without(inbox', Lists(g)) <=> Without(inbox, Lists(g))
      /\ Without(inbox', Owners) <=> Without(inbox, Owners)
      /\ \A p \in Players : /\ Once(inbox, Scans(g, p)) => Once(inbox', Scans(g, p))
                            /\ Without(inbox', Scans(g, p)) <=> Without(inbox, Scans(g, p))
      /\ \A i \in 1..Len(inbox') : inbox'[i] \in Lists(g) =>
             \E j \in 1..Len(inbox) : inbox[j] = inbox'[i]
  <2>1. CASE inbox' = inbox
    BY <2>1
  <2>2. ASSUME NEW e \in Player!Messages, e.op \in {"changed", "status", "position"},
               inbox' = Append(inbox, e)
        PROVE  <1>1!:
    <3>1. e \notin Lists(g) /\ e \notin Owners /\ \A p \in Players : e \notin Scans(g, p)
      BY <2>2 DEF Lists, Owners, Scans
    <3>2. inbox \in Seq(Player!Messages)
      BY MpTyped
    <3>3. \A S : e \notin S => /\ Once(inbox, S) => Once(inbox', S)
                               /\ Without(inbox', S) <=> Without(inbox, S)
      BY <2>2, <3>2, WithoutAppend
    <3>4. \A i \in 1..Len(inbox') : inbox'[i] \in Lists(g) =>
              \E j \in 1..Len(inbox) : inbox[j] = inbox'[i]
      <4>1. /\ Len(inbox) \in Nat /\ Len(inbox') = Len(inbox) + 1 /\ inbox'[Len(inbox) + 1] = e
            /\ \A i \in 1..Len(inbox) : inbox'[i] = inbox[i]
        BY <2>2, <3>2, Grows
      <4> QED
        BY <3>1, <4>1
    <3> QED
      BY <3>1, <3>3, <3>4
  <2> QED
    BY <2>1, <2>2
<1>2. Listing' <=> Listing
  BY <1>1 DEF Listing, SameScan
<1>3. \A p \in Players : Pending(p)' <=> Pending(p)
  BY <1>1 DEF Pending, SameScan
<1>4. /\ Once(calls'["bus"], ListCalls(g)) /\ Once(inbox', Lists(g))
      /\ Without(calls'["bus"], ListCalls(g)) \/ Without(inbox', Lists(g))
  BY <1>1 DEF MpInv, MpListing
<1>5. \A p \in Players :
          /\ Once(calls'[p], ScanCalls(g)) /\ Once(inbox', Scans(g, p))
          /\ Without(calls'[p], ScanCalls(g)) \/ Without(inbox', Scans(g, p))
  BY <1>1 DEF MpInv, MpOnce
<1> QED
  BY <1>1, <1>2, <1>3, <1>4, <1>5, MpRelayed

\* What one more call, or one less, makes of the queues of calls.
LEMMA MpCalled ==
    ASSUME MpInv, NEW c \in Players \union {"bus"}, NEW e \in Player!Calls,
           calls' = [calls EXCEPT ![c] = Append(@, e)]
    PROVE  /\ calls' \in [Players \union {"bus"} -> Seq(Player!Calls)]
           /\ \A d \in Players \union {"bus"} : \A S :
                /\ Without(calls'[d], S) <=> Without(calls[d], S) /\ (d = c => e \notin S)
                /\ Once(calls[d], S) /\ (d = c /\ e \in S => Without(calls[d], S))
                      => Once(calls'[d], S)
           /\ \A d \in Players \union {"bus"} : \A i \in 1..Len(calls'[d]) :
                \/ d = c /\ calls'[d][i] = e
                \/ \E j \in 1..Len(calls[d]) : calls'[d][i] = calls[d][j]
<1>1. calls \in [Players \union {"bus"} -> Seq(Player!Calls)] /\ calls[c] \in Seq(Player!Calls)
  BY MpTyped
<1> DEFINE t == Append(calls[c], e)
<1>2. /\ t \in Seq(Player!Calls) /\ Len(calls[c]) \in Nat /\ Len(t) = Len(calls[c]) + 1
      /\ t[Len(calls[c]) + 1] = e /\ \A i \in 1..Len(calls[c]) : t[i] = calls[c][i]
  BY <1>1, Grows
<1>3. \A S : /\ Without(t, S) <=> Without(calls[c], S) /\ e \notin S
             /\ Once(calls[c], S) /\ (e \in S => Without(calls[c], S)) => Once(t, S)
  BY <1>1, WithoutAppend
<1>4. calls' = [calls EXCEPT ![c] = t]
  OBVIOUS
<1> HIDE DEF t
<1>5. /\ calls' \in [Players \union {"bus"} -> Seq(Player!Calls)] /\ calls'[c] = t
      /\ \A d \in Players \union {"bus"} : d # c => calls'[d] = calls[d]
  BY <1>1, <1>2, <1>4
<1>6. \A d \in Players \union {"bus"} : \A S :
          /\ Without(calls'[d], S) <=> Without(calls[d], S) /\ (d = c => e \notin S)
          /\ Once(calls[d], S) /\ (d = c /\ e \in S => Without(calls[d], S)) => Once(calls'[d], S)
  BY <1>3, <1>5
<1>7. \A i \in 1..Len(t) : t[i] = e \/ \E j \in 1..Len(calls[c]) : t[i] = calls[c][j]
  BY <1>2
<1>8. \A d \in Players \union {"bus"} : \A i \in 1..Len(calls'[d]) :
          \/ d = c /\ calls'[d][i] = e
          \/ \E j \in 1..Len(calls[d]) : calls'[d][i] = calls[d][j]
  BY <1>5, <1>7
<1> QED
  BY <1>5, <1>6, <1>8

LEMMA MpTaken ==
    ASSUME MpInv, NEW c \in Players \union {"bus"}, calls[c] # <<>>,
           calls' = [calls EXCEPT ![c] = Tail(@)]
    PROVE  /\ calls' \in [Players \union {"bus"} -> Seq(Player!Calls)]
           /\ Head(calls[c]) \in Player!Calls /\ CallFits(mp, c, Head(calls[c]))
           /\ \A d \in Players \union {"bus"} : \A S :
                /\ Without(calls[d], S) <=> Without(calls'[d], S) /\ (d = c => Head(calls[c]) \notin S)
                /\ Once(calls[d], S) => Once(calls'[d], S)
                /\ Once(calls[d], S) /\ d = c /\ Head(calls[c]) \in S => Without(calls'[d], S)
           /\ \A d \in Players \union {"bus"} : \A i \in 1..Len(calls'[d]) :
                \E j \in 1..Len(calls[d]) : calls'[d][i] = calls[d][j]
<1>1. calls \in [Players \union {"bus"} -> Seq(Player!Calls)] /\ calls[c] \in Seq(Player!Calls)
  BY MpTyped
<1> DEFINE t == Tail(calls[c])
<1>2. /\ t \in Seq(Player!Calls) /\ Len(calls[c]) \in Nat \ {0} /\ Len(t) = Len(calls[c]) - 1
      /\ Head(calls[c]) = calls[c][1] /\ \A i \in 1..Len(t) : t[i] = calls[c][i + 1]
      /\ Head(calls[c]) \in Player!Calls
  BY <1>1, Shrinks
<1>3. \A S : /\ Without(calls[c], S) <=> Head(calls[c]) \notin S /\ Without(t, S)
             /\ Once(calls[c], S) => Once(t, S)
             /\ Once(calls[c], S) /\ Head(calls[c]) \in S => Without(t, S)
  BY <1>1, WithoutTail
<1>4. calls' = [calls EXCEPT ![c] = t]
  OBVIOUS
<1>5. CallFits(mp, c, Head(calls[c]))
  BY <1>2 DEF MpInv, MpMarks
<1> HIDE DEF t
<1>6. /\ calls' \in [Players \union {"bus"} -> Seq(Player!Calls)] /\ calls'[c] = t
      /\ \A d \in Players \union {"bus"} : d # c => calls'[d] = calls[d]
  BY <1>1, <1>2, <1>4
<1>7. \A d \in Players \union {"bus"} : \A S :
          /\ Without(calls[d], S) <=> Without(calls'[d], S) /\ (d = c => Head(calls[c]) \notin S)
          /\ Once(calls[d], S) => Once(calls'[d], S)
          /\ Once(calls[d], S) /\ d = c /\ Head(calls[c]) \in S => Without(calls'[d], S)
  BY <1>3, <1>6
<1>8. \A i \in 1..Len(t) : \E j \in 1..Len(calls[c]) : t[i] = calls[c][j]
  <2>1. \A i \in 1..Len(t) : i + 1 \in 1..Len(calls[c])
    BY <1>2
  <2> QED
    BY <1>2, <2>1
<1>9. \A d \in Players \union {"bus"} : \A i \in 1..Len(calls'[d]) :
          \E j \in 1..Len(calls[d]) : calls'[d][i] = calls[d][j]
  BY <1>6, <1>8
<1> QED
  BY <1>2, <1>5, <1>6, <1>7, <1>9

\* What one more message makes of the inbox.
LEMMA MpToldOf ==
    ASSUME MpInv, NEW e \in Player!Messages, inbox' = Append(inbox, e)
    PROVE  /\ inbox' \in Seq(Player!Messages)
           /\ \A S : /\ Without(inbox', S) <=> Without(inbox, S) /\ e \notin S
                     /\ Once(inbox, S) /\ (e \in S => Without(inbox, S)) => Once(inbox', S)
           /\ \A S : \A on, shown : /\ e \in S /\ e.playing = on => LastWord(inbox', S, on, shown)
                                    /\ e \notin S /\ LastWord(inbox, S, on, shown)
                                          => LastWord(inbox', S, on, shown)
           /\ \A i \in 1..Len(inbox') :
                inbox'[i] = e \/ \E j \in 1..Len(inbox) : inbox[j] = inbox'[i]
<1>1. inbox \in Seq(Player!Messages)
  BY MpTyped
<1>2. /\ inbox' \in Seq(Player!Messages) /\ Len(inbox) \in Nat /\ Len(inbox') = Len(inbox) + 1
      /\ inbox'[Len(inbox) + 1] = e /\ \A i \in 1..Len(inbox) : inbox'[i] = inbox[i]
  BY <1>1, Grows
<1>3. \A S : /\ Without(inbox', S) <=> Without(inbox, S) /\ e \notin S
             /\ Once(inbox, S) /\ (e \in S => Without(inbox, S)) => Once(inbox', S)
  BY <1>1, WithoutAppend
<1>4. \A S : \A on, shown : /\ e \in S /\ e.playing = on => LastWord(inbox', S, on, shown)
                            /\ e \notin S /\ LastWord(inbox, S, on, shown)
                                  => LastWord(inbox', S, on, shown)
  BY <1>1, LastWordAppend
<1>5. \A i \in 1..Len(inbox') :
          inbox'[i] = e \/ \E j \in 1..Len(inbox) : inbox[j] = inbox'[i]
  BY <1>2
<1> QED
  BY <1>2, <1>3, <1>4, <1>5

LEMMA FitsAlike ==
    ASSUME SameScan
    PROVE  /\ \A c, x : CallFits(mp', c, x) <=> CallFits(mp, c, x)
           /\ \A x : MessageFits(mp', x) <=> MessageFits(mp, x)
  BY DEF SameScan, CallFits, MessageFits

LEMMA MarksKept ==
    ASSUME MpInv, SameScan,
           \A d \in Players \union {"bus"} : \A i \in 1..Len(calls'[d]) :
               \/ CallFits(mp, d, calls'[d][i])
               \/ \E j \in 1..Len(calls[d]) : calls'[d][i] = calls[d][j],
           \A i \in 1..Len(inbox') :
               MessageFits(mp, inbox'[i]) \/ \E j \in 1..Len(inbox) : inbox[j] = inbox'[i]
    PROVE  MpMarks'
<1>1. \A d \in Players \union {"bus"} : \A i \in 1..Len(calls'[d]) : CallFits(mp, d, calls'[d][i])
  BY DEF MpInv, MpMarks
<1>2. \A i \in 1..Len(inbox') : MessageFits(mp, inbox'[i])
  BY DEF MpInv, MpMarks
<1>3. \A d \in Players \union {"bus"} : \A i \in 1..Len(calls'[d]) : CallFits(mp', d, calls'[d][i])
  BY <1>1, FitsAlike
<1>4. \A i \in 1..Len(inbox') : MessageFits(mp', inbox'[i])
  BY <1>2, FitsAlike
<1> QED
  BY <1>3, <1>4 DEF MpMarks

LEMMA MpRequestKeeps ==
    ASSUME MpInv, Player!PollPosition \/ Player!PlayPause
    PROVE  MpInv'
<1> DEFINE p == mp.player
<1>1. PICK e \in Player!Calls :
          /\ e.op \in {"position", "toggle"} /\ e.mark = mp.proxy
          /\ calls' = [calls EXCEPT ![p] = Append(@, e)]
          /\ UNCHANGED <<owner, playing, inbox>> /\ p # Player!NoPlayer
          /\ \/ e.op = "position" /\ mp' = [mp EXCEPT !.inflight = TRUE, !.polled = mp.proxy]
             \/ mp' = mp
          /\ \/ mpWork' = mpWork
             \/ mpWork.toggles < MaxToggles /\ mpWork' = [mpWork EXCEPT !.toggles = @ + 1]
  <2>1. mp.proxy \in Nat
    BY MpTyped DEF MpRecords
  <2>2. Player!Call("position", mp.proxy) \in Player!Calls
        /\ Player!Call("toggle", mp.proxy) \in Player!Calls
    BY <2>1 DEF Player!Call, Player!Calls, Player!Called
  <2>3. CASE Player!PollPosition
    BY <2>2, <2>3 DEF Player!PollPosition, Player!CallPlayer, Player!Call
  <2>4. CASE Player!PlayPause
    BY <2>2, <2>4 DEF Player!PlayPause, Player!CallPlayer, Player!Call
  <2> QED
    BY <2>3, <2>4
<1>2. mp \in MpRecords /\ mpWork \in [owners : 0..MaxOwners, toggles : 0..MaxToggles]
  BY MpTyped
<1>3. /\ mp' \in MpRecords /\ SameScan /\ mp'.playing = mp.playing
      /\ \/ e.op = "position" /\ mp'.inflight /\ mp'.polled = mp.proxy
         \/ mp' = mp
  <2>1. CASE mp' = mp
    BY <1>2, <2>1 DEF SameScan
  <2>2. CASE e.op = "position" /\ mp' = [mp EXCEPT !.inflight = TRUE, !.polled = mp.proxy]
    BY <1>2, <2>2 DEF SameScan, MpRecords
  <2> QED
    BY <1>1, <2>1, <2>2
<1>4. mpWork' \in [owners : 0..MaxOwners, toggles : 0..MaxToggles] /\ mpWork'.owners = mpWork.owners
  BY <1>1, <1>2, MpNumbers
<1>5. p \in Players /\ p \in Players \union {"bus"}
  BY <1>1, <1>2 DEF MpRecords
<1>6. /\ calls' \in [Players \union {"bus"} -> Seq(Player!Calls)]
      /\ \A d \in Players \union {"bus"} : \A S :
           /\ Without(calls'[d], S) <=> Without(calls[d], S) /\ (d = p => e \notin S)
           /\ Once(calls[d], S) /\ (d = p /\ e \in S => Without(calls[d], S))
                 => Once(calls'[d], S)
      /\ \A d \in Players \union {"bus"} : \A i \in 1..Len(calls'[d]) :
           \/ d = p /\ calls'[d][i] = e
           \/ \E j \in 1..Len(calls[d]) : calls'[d][i] = calls[d][j]
  BY <1>1, <1>5, MpCalled
<1> HIDE DEF p
<1>7. \A g : e \notin ListCalls(g) /\ e \notin ScanCalls(g) /\ e \notin StatusCalls(g)
  BY <1>1 DEF ListCalls, ScanCalls, StatusCalls
<1>8. MpListing' /\ MpOnce' /\ MpNames'
  BY <1>1, <1>3, <1>6, <1>7, MpAside
<1>9. MpMarks'
  <2>1. CallFits(mp, p, e)
    BY <1>1, <1>5, <1>7, MpNumbers DEF CallFits
  <2> QED
    BY <1>1, <1>3, <1>6, <2>1, MarksKept
<1>10. MpTold'
  <2>1. Without(calls'[p], StatusCalls(mp.proxy)) <=> Without(calls[p], StatusCalls(mp.proxy))
    BY <1>5, <1>6, <1>7
  <2> QED
    BY <1>1, <1>3, <2>1 DEF MpInv, MpTold, SameScan, p
<1>11. MpPast'
  BY <1>1, <1>2, <1>3, <1>4 DEF MpInv, MpPast, SameScan, MpRecords
<1>12. MpPolled'
  <2>1. ~Without(calls[p], PositionCalls(mp.proxy)) => ~Without(calls'[p], PositionCalls(mp.proxy))
    BY <1>5, <1>6
  <2>2. CASE mp' = mp
    BY <1>1, <2>1, <2>2 DEF MpInv, MpPolled, p
  <2>3. CASE e.op = "position"
    <3>1. e \in PositionCalls(mp.proxy)
      BY <1>1, <2>3 DEF PositionCalls
    <3>2. ~Without(calls'[p], PositionCalls(mp.proxy))
      BY <1>5, <1>6, <3>1
    <3> QED
      BY <1>3, <1>5, <3>2 DEF MpPolled, SameScan, p
  <2> QED
    BY <1>3, <2>2, <2>3
<1>13. Player!TypeOK'
  <2>1. Len(mp'.candidates) <= Player!Cardinality(Players)
    BY <1>3, MpTyped DEF SameScan
  <2> QED
    BY <1>1, <1>3, <1>4, <1>6, <2>1, MpTyped DEF Player!TypeOK, MpRecords, Player!Bus
<1> QED
  BY <1>8, <1>9, <1>10, <1>11, <1>12, <1>13 DEF MpInv

\* A change of its status that a player tells, when the shell is subscribed.
LEMMA MpToggled ==
    ASSUME MpInv, NEW p \in Players, Player!Toggle(p)
    PROVE  /\ playing' \in [Players -> BOOLEAN]
           /\ \A q \in Players : q # p => playing'[q] = playing[q]
           /\ \/ inbox' = inbox /\ mp.player # p
              \/ /\ mp.player = p
                 /\ \E e \in Player!Messages :
                       /\ e.op = "changed" /\ e.from = p /\ e.playing = playing'[p]
                       /\ inbox' = Append(inbox, e)
<1>1. playing \in [Players -> BOOLEAN]
  BY MpTyped
<1>2. PICK on \in BOOLEAN : on = ~playing[p]
  BY <1>1
<1>3. playing' = [playing EXCEPT ![p] = on]
  BY <1>2 DEF Player!Toggle
<1>4. playing' \in [Players -> BOOLEAN] /\ playing'[p] = on
      /\ \A q \in Players : q # p => playing'[q] = playing[q]
  BY <1>1, <1>3
<1> DEFINE e == Player!Notice("changed", p, on)
<1>5. e \in Player!Messages /\ e.op = "changed" /\ e.from = p /\ e.playing = on
  BY DEF Player!Notice, Player!Reply, Player!Call, Player!Messages, Player!Called
<1>6. inbox' = IF mp.player = p THEN Append(inbox, e) ELSE inbox
  BY <1>2 DEF Player!Toggle
<1> HIDE DEF e
<1> QED
  BY <1>4, <1>5, <1>6

LEMMA MpToggleTold ==
    ASSUME MpInv, NEW p \in Players, Player!Toggle(p), mp' = mp, owner' = owner,
           \A d \in Players : \A g :
               /\ ~Without(calls[d], StatusCalls(g)) => ~Without(calls'[d], StatusCalls(g))
               /\ ~Without(calls[d], PositionCalls(g)) => ~Without(calls'[d], PositionCalls(g))
    PROVE  MpTold' /\ MpPolled'
<1>1. /\ \A q \in Players : q # p => playing'[q] = playing[q]
      /\ \/ inbox' = inbox /\ mp.player # p
         \/ /\ mp.player = p
            /\ \E e \in Player!Messages :
                  /\ e.op = "changed" /\ e.from = p /\ e.playing = playing'[p]
                  /\ inbox' = Append(inbox, e)
  BY MpToggled
<1>2. mp.player \in Players \union {Player!NoPlayer}
  BY MpTyped DEF MpRecords
<1>3. CASE inbox' = inbox /\ mp.player # p
  BY <1>1, <1>2, <1>3 DEF MpInv, MpTold, MpPolled
<1>4. CASE mp.player = p /\ inbox' # inbox
  <2>1. PICK e \in Player!Messages :
            /\ e.op = "changed" /\ e.from = p /\ e.playing = playing'[p]
            /\ inbox' = Append(inbox, e)
    BY <1>1, <1>4
  <2>2. e \in Tells(mp.proxy, p)
    BY <2>1 DEF Tells
  <2>3. LastWord(inbox', Tells(mp.proxy, p), playing'[p], mp.playing)
    BY <2>1, <2>2, MpToldOf
  <2>4. ~Without(inbox, Positions(mp.proxy)) => ~Without(inbox', Positions(mp.proxy))
    BY <2>1, MpToldOf
  <2>5. MpTold'
    BY <1>4, <2>3 DEF MpTold
  <2>6. MpPolled'
    BY <1>4, <2>4 DEF MpInv, MpPolled
  <2> QED
    BY <2>5, <2>6
<1> QED
  BY <1>1, <1>3, <1>4

LEMMA MpTogglesKeeps ==
    ASSUME MpInv, NEW p \in Players, Player!PlayerToggles(p)
    PROVE  MpInv'
<1>1. /\ Player!Toggle(p) /\ UNCHANGED <<owner, calls, mp>> /\ mpWork.toggles < MaxToggles
      /\ mpWork' = [mpWork EXCEPT !.toggles = @ + 1]
  BY DEF Player!PlayerToggles
<1>2. mpWork' \in [owners : 0..MaxOwners, toggles : 0..MaxToggles] /\ mpWork'.owners = mpWork.owners
  BY <1>1, MpTyped, MpNumbers
<1>3. /\ playing' \in [Players -> BOOLEAN]
      /\ \/ inbox' = inbox /\ mp.player # p
         \/ /\ mp.player = p
            /\ \E e \in Player!Messages :
                  /\ e.op = "changed" /\ e.from = p /\ e.playing = playing'[p]
                  /\ inbox' = Append(inbox, e)
  BY <1>1, MpToggled
<1>4. SameScan
  BY <1>1 DEF SameScan
<1>5. MpTold' /\ MpPolled'
  BY <1>1, MpToggleTold
<1>6. MpListing' /\ MpOnce' /\ MpNames'
  <2>1. \/ inbox' = inbox
        \/ \E e \in Player!Messages : e.op \in {"changed", "status", "position"}
                                      /\ inbox' = Append(inbox, e)
    BY <1>3
  <2>2. \A c \in Players \union {"bus"} : \A g :
            /\ Once(calls[c], ListCalls(g)) => Once(calls'[c], ListCalls(g))
            /\ Once(calls[c], ScanCalls(g)) => Once(calls'[c], ScanCalls(g))
            /\ Without(calls'[c], ListCalls(g)) <=> Without(calls[c], ListCalls(g))
            /\ Without(calls'[c], ScanCalls(g)) <=> Without(calls[c], ScanCalls(g))
    BY <1>1
  <2> QED
    BY <1>1, <1>4, <2>1, <2>2, MpAside
<1>7. /\ inbox' \in Seq(Player!Messages)
      /\ \A i \in 1..Len(inbox') :
             MessageFits(mp, inbox'[i]) \/ \E j \in 1..Len(inbox) : inbox[j] = inbox'[i]
  <2>1. CASE inbox' = inbox
    BY <2>1, MpTyped
  <2>2. ASSUME NEW e \in Player!Messages, e.op = "changed", inbox' = Append(inbox, e) PROVE <1>7!:
    <3>1. MessageFits(mp, e)
      BY <2>2 DEF MessageFits, Statuses
    <3> QED
      BY <2>2, <3>1, MpToldOf
  <2> QED
    BY <1>3, <2>1, <2>2
<1>8. MpMarks'
  <2>1. \A d \in Players \union {"bus"} : \A i \in 1..Len(calls'[d]) :
            \/ CallFits(mp, d, calls'[d][i])
            \/ \E j \in 1..Len(calls[d]) : calls'[d][i] = calls[d][j]
    BY <1>1
  <2> QED
    BY <1>4, <1>7, <2>1, MarksKept
<1>9. MpPast'
  BY <1>1, <1>2 DEF MpInv, MpPast
<1>10. Player!TypeOK'
  BY <1>1, <1>2, <1>3, <1>7 DEF MpInv, Player!TypeOK
<1> QED
  BY <1>5, <1>6, <1>8, <1>9, <1>10 DEF MpInv

\* A PlayPause that reaches its player, or one that has gone.
LEMMA MpPlayPausedKeeps ==
    ASSUME MpInv, NEW p \in Players, Player!PlayerAnswers(p), Head(calls[p]).op = "toggle"
    PROVE  MpInv'
<1>1. /\ calls[p] # <<>> /\ calls' = [calls EXCEPT ![p] = Tail(@)]
      /\ UNCHANGED <<owner, mp, mpWork>>
      /\ IF owner[p] # 0 THEN Player!Toggle(p) ELSE UNCHANGED <<playing, inbox>>
  BY DEF Player!PlayerAnswers
<1>2. p \in Players \union {"bus"}
  OBVIOUS
<1>3. /\ calls' \in [Players \union {"bus"} -> Seq(Player!Calls)]
      /\ \A d \in Players \union {"bus"} : \A S :
            /\ Without(calls[d], S) <=> Without(calls'[d], S) /\ (d = p => Head(calls[p]) \notin S)
            /\ Once(calls[d], S) => Once(calls'[d], S)
      /\ \A d \in Players \union {"bus"} : \A i \in 1..Len(calls'[d]) :
            \E j \in 1..Len(calls[d]) : calls'[d][i] = calls[d][j]
  BY <1>1, <1>2, MpTaken
<1>4. \A g : /\ Head(calls[p]) \notin ListCalls(g) /\ Head(calls[p]) \notin ScanCalls(g)
             /\ Head(calls[p]) \notin StatusCalls(g) /\ Head(calls[p]) \notin PositionCalls(g)
  BY DEF ListCalls, ScanCalls, StatusCalls, PositionCalls
<1>5. \A d \in Players \union {"bus"} : \A g :
          /\ Without(calls'[d], StatusCalls(g)) <=> Without(calls[d], StatusCalls(g))
          /\ Without(calls'[d], PositionCalls(g)) <=> Without(calls[d], PositionCalls(g))
          /\ Without(calls'[d], ListCalls(g)) <=> Without(calls[d], ListCalls(g))
          /\ Without(calls'[d], ScanCalls(g)) <=> Without(calls[d], ScanCalls(g))
          /\ Once(calls[d], ListCalls(g)) => Once(calls'[d], ListCalls(g))
          /\ Once(calls[d], ScanCalls(g)) => Once(calls'[d], ScanCalls(g))
  BY <1>3, <1>4
<1>6. /\ playing' \in [Players -> BOOLEAN]
      /\ \/ inbox' = inbox
         \/ \E e \in Player!Messages : e.op = "changed" /\ inbox' = Append(inbox, e)
  <2>1. CASE owner[p] # 0
    BY <1>1, <2>1, MpToggled
  <2>2. CASE owner[p] = 0
    BY <1>1, <2>2, MpTyped
  <2> QED
    BY <2>1, <2>2
<1>7. SameScan
  BY <1>1 DEF SameScan
<1>8. MpTold' /\ MpPolled'
  <2>1. CASE owner[p] # 0
    BY <1>1, <1>5, <2>1, MpToggleTold
  <2>2. CASE owner[p] = 0
    <3>1. mp.player \in Players \union {Player!NoPlayer}
      BY MpTyped DEF MpRecords
    <3>2. UNCHANGED <<owner, playing, inbox, mp>>
      BY <1>1, <2>2
    <3>3. MpTold'
      BY <1>5, <3>1, <3>2 DEF MpInv, MpTold
    <3>4. MpPolled'
      BY <1>5, <3>1, <3>2 DEF MpInv, MpPolled
    <3> QED
      BY <3>3, <3>4
  <2> QED
    BY <2>1, <2>2
<1>9. MpListing' /\ MpOnce' /\ MpNames'
  <2>1. \/ inbox' = inbox
        \/ \E e \in Player!Messages : e.op \in {"changed", "status", "position"}
                                      /\ inbox' = Append(inbox, e)
    BY <1>6
  <2> QED
    BY <1>1, <1>5, <1>7, <2>1, MpAside
<1>10. /\ inbox' \in Seq(Player!Messages)
       /\ \A i \in 1..Len(inbox') :
             MessageFits(mp, inbox'[i]) \/ \E j \in 1..Len(inbox) : inbox[j] = inbox'[i]
  <2>1. CASE inbox' = inbox
    BY <2>1, MpTyped
  <2>2. ASSUME NEW e \in Player!Messages, e.op = "changed", inbox' = Append(inbox, e) PROVE <1>10!:
    <3>1. MessageFits(mp, e)
      BY <2>2 DEF MessageFits, Statuses
    <3> QED
      BY <2>2, <3>1, MpToldOf
  <2> QED
    BY <1>6, <2>1, <2>2
<1>11. MpMarks'
  BY <1>3, <1>7, <1>10, MarksKept
<1>12. MpPast'
  BY <1>1 DEF MpInv, MpPast
<1>13. Player!TypeOK'
  BY <1>1, <1>3, <1>6, <1>10 DEF MpInv, Player!TypeOK, Player!Bus
<1> QED
  BY <1>8, <1>9, <1>11, <1>12, <1>13 DEF MpInv

LEMMA MpAnswersKeeps ==
    ASSUME MpInv, NEW p \in Players, Player!PlayerAnswers(p), Head(calls[p]).op # "toggle"
    PROVE  MpInv'
<1> DEFINE x == Head(calls[p])
           e == Player!Reply(x, p, owner[p] = 0, playing[p], {})
           g == mp.gen
<1>1. /\ calls[p] # <<>> /\ calls' = [calls EXCEPT ![p] = Tail(@)]
      /\ UNCHANGED <<owner, playing, mp, mpWork>> /\ inbox' = Append(inbox, e)
  BY DEF Player!PlayerAnswers
<1>2. p \in Players \union {"bus"} /\ p # "bus" /\ "bus" \in Players \union {"bus"}
  BY MpNumbers
<1>3. /\ calls' \in [Players \union {"bus"} -> Seq(Player!Calls)]
      /\ x \in Player!Calls /\ CallFits(mp, p, x)
      /\ \A d \in Players \union {"bus"} : \A S :
            /\ Without(calls[d], S) <=> Without(calls'[d], S) /\ (d = p => x \notin S)
            /\ Once(calls[d], S) => Once(calls'[d], S)
            /\ Once(calls[d], S) /\ d = p /\ x \in S => Without(calls'[d], S)
      /\ \A d \in Players \union {"bus"} : \A i \in 1..Len(calls'[d]) :
            \E j \in 1..Len(calls[d]) : calls'[d][i] = calls[d][j]
  BY <1>1, <1>2, MpTaken
<1>4. x.op \in {"scan", "status", "position"} /\ x.mark \in Nat
  BY <1>2, <1>3 DEF CallFits, Player!Calls, Player!Called
<1>5. /\ e \in Player!Messages /\ e.op = x.op /\ e.mark = x.mark /\ e.from = p
      /\ e.err = (owner[p] = 0) /\ e.playing = playing[p]
  <2>1. PICK err \in BOOLEAN : err = (owner[p] = 0)
    OBVIOUS
  <2>2. playing[p] \in BOOLEAN
    BY MpTyped
  <2>3. e = [op |-> x.op, mark |-> x.mark, from |-> p, err |-> err, playing |-> playing[p], names |-> {}]
    BY <2>1 DEF Player!Reply
  <2> HIDE DEF x, e
  <2> QED
    BY <1>2, <1>4, <2>1, <2>2, <2>3 DEF Player!Messages, Player!Called, Player!Bus
<1> HIDE DEF x, e
<1>6. /\ inbox' \in Seq(Player!Messages)
      /\ \A S : /\ Without(inbox', S) <=> Without(inbox, S) /\ e \notin S
                /\ Once(inbox, S) /\ (e \in S => Without(inbox, S)) => Once(inbox', S)
      /\ \A S : \A on, shown : /\ e \in S /\ e.playing = on => LastWord(inbox', S, on, shown)
                               /\ e \notin S /\ LastWord(inbox, S, on, shown)
                                     => LastWord(inbox', S, on, shown)
      /\ \A i \in 1..Len(inbox') :
           inbox'[i] = e \/ \E j \in 1..Len(inbox) : inbox[j] = inbox'[i]
  BY <1>1, <1>5, MpToldOf
<1>7. /\ e \notin Lists(g) /\ e \notin Owners
      /\ \A q \in Players : e \in Scans(g, q) <=> q = p /\ x \in ScanCalls(g)
      /\ \A m : e \in Positions(m) <=> x \in PositionCalls(m)
      /\ \A m : e \in Statuses(m) <=> x \in StatusCalls(m)
      /\ \A m, q : e \in Tells(m, q) => x \in StatusCalls(m)
      /\ \A m, q : x \in StatusCalls(m) /\ ~e.err => e \in Tells(m, q)
  BY <1>3, <1>4, <1>5
     DEF Lists, Owners, Scans, ScanCalls, Positions, PositionCalls, Statuses, StatusCalls, Tells
<1>8. SameScan
  BY <1>1 DEF SameScan
<1>9. /\ Once(calls'["bus"], ListCalls(g)) /\ Once(inbox', Lists(g))
      /\ Without(calls'["bus"], ListCalls(g)) \/ Without(inbox', Lists(g))
      /\ Listing' <=> Listing
  <2>1. /\ Once(calls["bus"], ListCalls(g)) /\ Once(inbox, Lists(g))
        /\ Without(calls["bus"], ListCalls(g)) \/ Without(inbox, Lists(g))
    BY DEF MpInv, MpListing
  <2>2. /\ Without(calls'["bus"], ListCalls(g)) <=> Without(calls["bus"], ListCalls(g))
        /\ Without(inbox', Lists(g)) <=> Without(inbox, Lists(g))
        /\ Once(calls'["bus"], ListCalls(g)) /\ Once(inbox', Lists(g))
    BY <1>2, <1>3, <1>6, <1>7, <2>1
  <2> QED
    BY <1>1, <2>1, <2>2 DEF Listing, SameScan
<1>10. \A q \in Players :
           /\ Once(calls'[q], ScanCalls(g)) /\ Once(inbox', Scans(g, q))
           /\ Without(calls'[q], ScanCalls(g)) \/ Without(inbox', Scans(g, q))
           /\ Pending(q)' <=> Pending(q)
  <2> SUFFICES ASSUME NEW q \in Players
               PROVE  /\ Once(calls'[q], ScanCalls(g)) /\ Once(inbox', Scans(g, q))
                      /\ Without(calls'[q], ScanCalls(g)) \/ Without(inbox', Scans(g, q))
                      /\ Pending(q)' <=> Pending(q)
    OBVIOUS
  <2>1. /\ Once(calls[q], ScanCalls(g)) /\ Once(inbox, Scans(g, q))
        /\ Without(calls[q], ScanCalls(g)) \/ Without(inbox, Scans(g, q))
    BY DEF MpInv, MpOnce
  <2>2. /\ Once(calls'[q], ScanCalls(g))
        /\ Without(calls[q], ScanCalls(g)) <=>
               Without(calls'[q], ScanCalls(g)) /\ (q = p => x \notin ScanCalls(g))
        /\ q = p /\ x \in ScanCalls(g) => Without(calls'[q], ScanCalls(g))
    BY <1>3, <2>1
  <2>3. /\ Without(inbox', Scans(g, q)) <=> Without(inbox, Scans(g, q)) /\ e \notin Scans(g, q)
        /\ Once(inbox', Scans(g, q))
    BY <1>6, <1>7, <2>1, <2>2
  <2>4. Pending(q) <=> ~Without(calls[q], ScanCalls(g)) \/ ~Without(inbox, Scans(g, q))
    BY DEF Pending
  <2>5. Pending(q)' <=> ~Without(calls'[q], ScanCalls(g)) \/ ~Without(inbox', Scans(g, q))
    BY <1>1 DEF Pending
  <2> QED
    BY <1>7, <2>1, <2>2, <2>3, <2>4, <2>5
<1>11. MpListing' /\ MpOnce' /\ MpNames'
  <2>1. Without(inbox', Owners) =>
            /\ owner' = owner /\ Without(inbox, Owners)
            /\ \A i \in 1..Len(inbox') : inbox'[i] \in Lists(g) =>
                   \/ inbox'[i].names = Player!Names
                   \/ \E j \in 1..Len(inbox) : inbox[j] = inbox'[i]
    BY <1>1, <1>6, <1>7
  <2> QED
    BY <1>8, <1>9, <1>10, <2>1, MpRelayed
<1>12. MpMarks'
  <2>1. MessageFits(mp, e)
    <3>1. x \in StatusCalls(mp.proxy) => mp.player # Player!NoPlayer
      BY <1>3, MpNumbers DEF CallFits
    <3> QED
      BY <1>3, <1>5, <1>7, <3>1 DEF MessageFits, CallFits
  <2> QED
    BY <1>3, <1>6, <1>8, <2>1, MarksKept
<1>13. MpTold'
  <2> SUFFICES ASSUME mp.player # Player!NoPlayer, mp.since = owner[mp.player], mp.since # 0
               PROVE  \/ ~Without(calls'[mp.player], StatusCalls(mp.proxy))
                      \/ LastWord(inbox', Tells(mp.proxy, mp.player), playing[mp.player], mp.playing)
    BY <1>1 DEF MpTold
  <2>1. mp.player \in Players
    BY MpTyped DEF MpRecords
  <2>2. \/ ~Without(calls[mp.player], StatusCalls(mp.proxy))
        \/ LastWord(inbox, Tells(mp.proxy, mp.player), playing[mp.player], mp.playing)
    BY DEF MpInv, MpTold
  <2>3. CASE x \in StatusCalls(mp.proxy)
    <3>1. p = mp.player
      BY <1>3, <2>3 DEF CallFits
    <3>2. ~e.err
      BY <1>5, <3>1
    <3> QED
      BY <1>5, <1>6, <1>7, <2>3, <3>1, <3>2
  <2>4. CASE x \notin StatusCalls(mp.proxy)
    <3>1. Without(calls'[mp.player], StatusCalls(mp.proxy)) => Without(calls[mp.player], StatusCalls(mp.proxy))
      BY <1>3, <2>1, <2>4
    <3>2. e \notin Tells(mp.proxy, mp.player)
      BY <1>7, <2>4
    <3> QED
      BY <1>6, <2>2, <3>1, <3>2
  <2> QED
    BY <2>3, <2>4
<1>14. MpPolled'
  <2> SUFFICES ASSUME mp.inflight, mp.polled = mp.proxy
               PROVE  /\ mp.player \in Players
                      /\ \/ ~Without(calls'[mp.player], PositionCalls(mp.proxy))
                         \/ ~Without(inbox', Positions(mp.proxy))
    BY <1>1 DEF MpPolled
  <2>1. /\ mp.player \in Players
        /\ \/ ~Without(calls[mp.player], PositionCalls(mp.proxy))
           \/ ~Without(inbox, Positions(mp.proxy))
    BY DEF MpInv, MpPolled
  <2>2. Without(calls[mp.player], PositionCalls(mp.proxy)) <=>
            /\ Without(calls'[mp.player], PositionCalls(mp.proxy))
            /\ mp.player = p => x \notin PositionCalls(mp.proxy)
    BY <1>3, <2>1
  <2> QED
    BY <1>6, <1>7, <2>1, <2>2
<1>15. MpPast'
  BY <1>1 DEF MpInv, MpPast
<1>16. Player!TypeOK'
  BY <1>1, <1>3, <1>6 DEF MpInv, Player!TypeOK, Player!Bus
<1> QED
  BY <1>11, <1>12, <1>13, <1>14, <1>15, <1>16 DEF MpInv

LEMMA MpBusAnswersKeeps ==
    ASSUME MpInv, Player!BusAnswers
    PROVE  MpInv'
<1> DEFINE x == Head(calls["bus"])
           e == Player!Reply(x, "bus", FALSE, FALSE, Player!Names)
           g == mp.gen
<1>1. /\ calls["bus"] # <<>> /\ calls' = [calls EXCEPT !["bus"] = Tail(@)]
      /\ UNCHANGED <<owner, playing, mp, mpWork>> /\ inbox' = Append(inbox, e)
  BY DEF Player!BusAnswers, Player!Bus
<1>2. "bus" \in Players \union {"bus"} /\ "bus" \notin Players
  BY MpNumbers
<1>3. /\ calls' \in [Players \union {"bus"} -> Seq(Player!Calls)]
      /\ x \in Player!Calls /\ CallFits(mp, "bus", x)
      /\ \A d \in Players \union {"bus"} : \A S :
            /\ Without(calls[d], S) <=> Without(calls'[d], S) /\ (d = "bus" => x \notin S)
            /\ Once(calls[d], S) => Once(calls'[d], S)
            /\ Once(calls[d], S) /\ d = "bus" /\ x \in S => Without(calls'[d], S)
      /\ \A d \in Players \union {"bus"} : \A i \in 1..Len(calls'[d]) :
            \E j \in 1..Len(calls[d]) : calls'[d][i] = calls[d][j]
  BY <1>1, <1>2, MpTaken
<1>4. x.op = "list" /\ x.mark \in Nat /\ x.mark <= mp.gen
  BY <1>3 DEF CallFits, Player!Calls
<1>5. /\ e \in Player!Messages /\ e.op = "list" /\ e.mark = x.mark /\ e.names = Player!Names
  <2>1. Player!Names \in SUBSET Players
    BY DEF Player!Names
  <2>2. e = [op |-> "list", mark |-> x.mark, from |-> "bus", err |-> FALSE, playing |-> FALSE,
             names |-> Player!Names]
    BY <1>4 DEF Player!Reply
  <2> HIDE DEF x, e
  <2> QED
    BY <1>4, <2>1, <2>2 DEF Player!Messages, Player!Called, Player!Bus
<1> HIDE DEF x, e
<1>6. /\ inbox' \in Seq(Player!Messages)
      /\ \A S : /\ Without(inbox', S) <=> Without(inbox, S) /\ e \notin S
                /\ Once(inbox, S) /\ (e \in S => Without(inbox, S)) => Once(inbox', S)
      /\ \A S : \A on, shown : /\ e \in S /\ e.playing = on => LastWord(inbox', S, on, shown)
                               /\ e \notin S /\ LastWord(inbox, S, on, shown)
                                     => LastWord(inbox', S, on, shown)
      /\ \A i \in 1..Len(inbox') :
           inbox'[i] = e \/ \E j \in 1..Len(inbox) : inbox[j] = inbox'[i]
  BY <1>1, <1>5, MpToldOf
<1>7. /\ e \in Lists(g) <=> x \in ListCalls(g)
      /\ e \notin Owners /\ \A q : e \notin Scans(g, q)
      /\ \A m, q : e \notin Tells(m, q) /\ e \notin Statuses(m)
  BY <1>3, <1>4, <1>5 DEF Lists, ListCalls, Owners, Scans, Tells, Statuses
<1>8. SameScan
  BY <1>1 DEF SameScan
<1>9. /\ Once(calls'["bus"], ListCalls(g)) /\ Once(inbox', Lists(g))
      /\ Without(calls'["bus"], ListCalls(g)) \/ Without(inbox', Lists(g))
      /\ Listing' <=> Listing
  <2>1. /\ Once(calls["bus"], ListCalls(g)) /\ Once(inbox, Lists(g))
        /\ Without(calls["bus"], ListCalls(g)) \/ Without(inbox, Lists(g))
    BY DEF MpInv, MpListing
  <2>2. /\ Once(calls'["bus"], ListCalls(g))
        /\ Without(calls["bus"], ListCalls(g)) <=>
               Without(calls'["bus"], ListCalls(g)) /\ x \notin ListCalls(g)
        /\ x \in ListCalls(g) => Without(calls'["bus"], ListCalls(g))
    BY <1>2, <1>3, <2>1
  <2>3. /\ Without(inbox', Lists(g)) <=> Without(inbox, Lists(g)) /\ e \notin Lists(g)
        /\ Once(inbox', Lists(g))
    BY <1>6, <1>7, <2>1, <2>2
  <2>4. Listing <=> ~Without(calls["bus"], ListCalls(g)) \/ ~Without(inbox, Lists(g))
    BY DEF Listing
  <2>5. Listing' <=> ~Without(calls'["bus"], ListCalls(g)) \/ ~Without(inbox', Lists(g))
    BY <1>1 DEF Listing
  <2> QED
    BY <1>7, <2>1, <2>2, <2>3, <2>4, <2>5
<1>10. \A q \in Players :
           /\ Once(calls'[q], ScanCalls(g)) /\ Once(inbox', Scans(g, q))
           /\ Without(calls'[q], ScanCalls(g)) \/ Without(inbox', Scans(g, q))
           /\ Pending(q)' <=> Pending(q)
  <2> SUFFICES ASSUME NEW q \in Players
               PROVE  /\ Once(calls'[q], ScanCalls(g)) /\ Once(inbox', Scans(g, q))
                      /\ Without(calls'[q], ScanCalls(g)) \/ Without(inbox', Scans(g, q))
                      /\ Pending(q)' <=> Pending(q)
    OBVIOUS
  <2>1. /\ Once(calls[q], ScanCalls(g)) /\ Once(inbox, Scans(g, q))
        /\ Without(calls[q], ScanCalls(g)) \/ Without(inbox, Scans(g, q))
    BY DEF MpInv, MpOnce
  <2>2. q # "bus" /\ q \in Players \union {"bus"}
    BY <1>2
  <2>3. /\ Once(calls'[q], ScanCalls(g)) /\ Once(inbox', Scans(g, q))
        /\ Without(calls'[q], ScanCalls(g)) <=> Without(calls[q], ScanCalls(g))
        /\ Without(inbox', Scans(g, q)) <=> Without(inbox, Scans(g, q))
    BY <1>3, <1>6, <1>7, <2>1, <2>2
  <2>4. Pending(q) <=> ~Without(calls[q], ScanCalls(g)) \/ ~Without(inbox, Scans(g, q))
    BY DEF Pending
  <2>5. Pending(q)' <=> ~Without(calls'[q], ScanCalls(g)) \/ ~Without(inbox', Scans(g, q))
    BY <1>1 DEF Pending
  <2> QED
    BY <2>1, <2>3, <2>4, <2>5
<1>11. MpListing' /\ MpOnce' /\ MpNames'
  <2>1. Without(inbox', Owners) =>
            /\ owner' = owner /\ Without(inbox, Owners)
            /\ \A i \in 1..Len(inbox') : inbox'[i] \in Lists(g) =>
                   \/ inbox'[i].names = Player!Names
                   \/ \E j \in 1..Len(inbox) : inbox[j] = inbox'[i]
    BY <1>1, <1>5, <1>6, <1>7
  <2> QED
    BY <1>8, <1>9, <1>10, <2>1, MpRelayed
<1>12. MpMarks'
  <2>1. MessageFits(mp, e)
    BY <1>4, <1>5, <1>7 DEF MessageFits
  <2> QED
    BY <1>3, <1>6, <1>8, <2>1, MarksKept
<1>13. mp.player # Player!NoPlayer => mp.player \in Players /\ mp.player # "bus"
  BY <1>2, MpTyped DEF MpRecords
<1>14. \A d \in Players : \A S : Without(calls'[d], S) <=> Without(calls[d], S)
  BY <1>2, <1>3
<1>15. MpTold'
  BY <1>1, <1>6, <1>7, <1>13, <1>14 DEF MpInv, MpTold
<1>16. MpPolled'
  BY <1>1, <1>6, <1>13, <1>14 DEF MpInv, MpPolled
<1>17. MpPast'
  BY <1>1 DEF MpInv, MpPast
<1>18. Player!TypeOK'
  BY <1>1, <1>3, <1>6 DEF MpInv, Player!TypeOK, Player!Bus
<1> QED
  BY <1>11, <1>12, <1>15, <1>16, <1>17, <1>18 DEF MpInv

\* A message that an owner has changed is under way: nothing else is known of the names.
LEMMA MpOwnerNotice ==
    /\ Player!Notice("owner", Player!Bus, FALSE) \in Player!Messages
    /\ Player!Notice("owner", Player!Bus, FALSE).op = "owner"
    /\ Player!Notice("owner", Player!Bus, FALSE) \in Owners
  BY DEF Player!Notice, Player!Reply, Player!Call, Player!Messages, Player!Called, Owners

LEMMA MpStartsKeeps ==
    ASSUME MpInv, NEW p \in Players, Player!PlayerStarts(p)
    PROVE  MpInv'
<1> DEFINE e == Player!Notice("owner", Player!Bus, FALSE)
           g == mp.gen
           n == mpWork.owners + 2
<1>1. /\ UNCHANGED <<playing, calls, mp>> /\ inbox' = Append(inbox, e)
      /\ owner' = [owner EXCEPT ![p] = n] /\ mpWork.owners < MaxOwners
      /\ mpWork' = [mpWork EXCEPT !.owners = @ + 1]
  BY DEF Player!PlayerStarts, Player!OwnerChange
<1>2. owner \in [Players -> 0..(MaxOwners + 1)]
      /\ mpWork \in [owners : 0..MaxOwners, toggles : 0..MaxToggles] /\ mp \in MpRecords
  BY MpTyped
<1>3. /\ mpWork' \in [owners : 0..MaxOwners, toggles : 0..MaxToggles]
      /\ mpWork'.owners = mpWork.owners + 1 /\ mpWork.owners \in Nat
      /\ n \in 0..(MaxOwners + 1) /\ n = mpWork'.owners + 1
  BY <1>1, <1>2, MpNumbers
<1>4. e \in Player!Messages /\ e.op = "owner" /\ e \in Owners
  BY MpOwnerNotice
<1> HIDE DEF e, n
<1>5. /\ owner' \in [Players -> 0..(MaxOwners + 1)] /\ owner'[p] = n
      /\ \A q \in Players : q # p => owner'[q] = owner[q]
  BY <1>1, <1>2, <1>3
<1>6. /\ inbox' \in Seq(Player!Messages)
      /\ \A S : /\ Without(inbox', S) <=> Without(inbox, S) /\ e \notin S
                /\ Once(inbox, S) /\ (e \in S => Without(inbox, S)) => Once(inbox', S)
      /\ \A S : \A on, shown : /\ e \in S /\ e.playing = on => LastWord(inbox', S, on, shown)
                               /\ e \notin S /\ LastWord(inbox, S, on, shown)
                                     => LastWord(inbox', S, on, shown)
      /\ \A i \in 1..Len(inbox') :
           inbox'[i] = e \/ \E j \in 1..Len(inbox) : inbox[j] = inbox'[i]
  BY <1>1, <1>4, MpToldOf
<1>7. /\ \A m : e \notin Lists(m) /\ e \notin Statuses(m) /\ e \notin Positions(m)
      /\ \A m, q : e \notin Scans(m, q) /\ e \notin Tells(m, q)
  BY <1>4 DEF Lists, Statuses, Positions, Scans, Tells
<1>8. SameScan
  BY <1>1 DEF SameScan
<1>9. /\ Once(calls'["bus"], ListCalls(g)) /\ Once(inbox', Lists(g))
      /\ Without(calls'["bus"], ListCalls(g)) \/ Without(inbox', Lists(g))
      /\ Listing' <=> Listing
  BY <1>1, <1>6, <1>7 DEF Listing, MpInv, MpListing
<1>10. \A q \in Players :
           /\ Once(calls'[q], ScanCalls(g)) /\ Once(inbox', Scans(g, q))
           /\ Without(calls'[q], ScanCalls(g)) \/ Without(inbox', Scans(g, q))
           /\ Pending(q)' <=> Pending(q)
  BY <1>1, <1>6, <1>7 DEF Pending, MpInv, MpOnce
<1>11. ~Without(inbox', Owners)
  BY <1>4, <1>6
<1>12. MpListing' /\ MpOnce' /\ MpNames'
  BY <1>8, <1>9, <1>10, <1>11, MpRelayed
<1>13. MpMarks'
  <2>1. MessageFits(mp, e)
    BY <1>4, <1>7 DEF MessageFits
  <2>2. \A d \in Players \union {"bus"} : \A i \in 1..Len(calls'[d]) :
            \/ CallFits(mp, d, calls'[d][i])
            \/ \E j \in 1..Len(calls[d]) : calls'[d][i] = calls[d][j]
    BY <1>1
  <2> QED
    BY <1>6, <1>8, <2>1, <2>2, MarksKept
<1>14. MpPast'
  <2>1. \A q \in Players : owner'[q] <= mpWork'.owners + 1
    <3> SUFFICES ASSUME NEW q \in Players PROVE owner'[q] <= mpWork'.owners + 1
      OBVIOUS
    <3>1. owner[q] \in 0..(MaxOwners + 1) /\ owner[q] <= mpWork.owners + 1
      BY <1>2 DEF MpInv, MpPast
    <3>2. owner'[q] = n \/ owner'[q] = owner[q]
      BY <1>5
    <3> QED
      BY <1>3, <3>1, <3>2, MpNumbers
  <2>2. mp.since \in 0..(MaxOwners + 1) /\ mp.since <= mpWork.owners + 1
    BY <1>2 DEF MpRecords, MpInv, MpPast
  <2>3. mp.since <= mpWork'.owners + 1
    BY <1>3, <2>2, MpNumbers
  <2> QED
    BY <1>1, <2>1, <2>3 DEF MpInv, MpPast
<1>15. MpTold'
  <2> SUFFICES ASSUME mp.player # Player!NoPlayer, mp.since = owner'[mp.player], mp.since # 0
               PROVE  \/ ~Without(calls[mp.player], StatusCalls(mp.proxy))
                      \/ LastWord(inbox', Tells(mp.proxy, mp.player), playing[mp.player], mp.playing)
    BY <1>1 DEF MpTold
  <2>1. mp.player \in Players /\ mp.since \in 0..(MaxOwners + 1) /\ mp.since <= mpWork.owners + 1
    BY <1>2 DEF MpRecords, MpInv, MpPast
  <2>2. mp.player # p
    BY <1>3, <1>5, <2>1, MpNumbers
  <2>3. mp.since = owner[mp.player]
    BY <1>5, <2>1, <2>2
  <2> QED
    BY <1>6, <1>7, <2>3 DEF MpInv, MpTold
<1>16. MpPolled'
  BY <1>1, <1>6 DEF MpInv, MpPolled
<1>17. Player!TypeOK'
  BY <1>1, <1>3, <1>5, <1>6 DEF MpInv, Player!TypeOK
<1> QED
  BY <1>12, <1>13, <1>14, <1>15, <1>16, <1>17 DEF MpInv

\* What a player that exits leaves: every call it did not answer has failed.
LEMMA MpFailed ==
    ASSUME MpInv, NEW p \in Players, NEW failed,
           failed = [i \in DOMAIN calls[p] |-> Player!Reply(calls[p][i], p, TRUE, FALSE, {})]
    PROVE  /\ failed \in Seq(Player!Messages)
           /\ \A g : /\ Without(failed, Scans(g, p)) <=> Without(calls[p], ScanCalls(g))
                     /\ Once(calls[p], ScanCalls(g)) => Once(failed, Scans(g, p))
                     /\ Without(failed, Lists(g))
                     /\ Without(failed, Positions(g)) => Without(calls[p], PositionCalls(g))
           /\ \A g, q : Without(failed, Tells(g, q)) /\ (q # p => Without(failed, Scans(g, q)))
           /\ \A i \in 1..Len(failed) : MessageFits(mp, failed[i])
<1> DEFINE c == calls[p]
<1>1. c \in Seq(Player!Calls) /\ p # "bus"
  BY MpTyped, MpNumbers
<1>2. failed = [i \in DOMAIN c |-> Player!Reply(c[i], p, TRUE, FALSE, {})]
  OBVIOUS
<1>3. \A i \in 1..Len(c) : c[i] \in Player!Calls /\ CallFits(mp, p, c[i])
  BY <1>1 DEF MpInv, MpMarks
<1> HIDE DEF c
<1>4. \A x \in Player!Calls :
          LET r == Player!Reply(x, p, TRUE, FALSE, {})
          IN  /\ r \in Player!Messages /\ r.op = x.op /\ r.mark = x.mark
              /\ r.from = p /\ r.err = TRUE
  BY DEF Player!Reply, Player!Messages, Player!Calls, Player!Called
<1>5. DOMAIN c = 1..Len(c) /\ Len(c) \in Nat
  BY <1>1
<1>6. \A i \in 1..Len(c) :
          /\ failed[i] \in Player!Messages
          /\ failed[i].op = c[i].op /\ failed[i].mark = c[i].mark
          /\ failed[i].from = p /\ failed[i].err = TRUE
  <2> SUFFICES ASSUME NEW i \in 1..Len(c)
               PROVE  /\ failed[i] \in Player!Messages
                      /\ failed[i].op = c[i].op /\ failed[i].mark = c[i].mark
                      /\ failed[i].from = p /\ failed[i].err = TRUE
    OBVIOUS
  <2> DEFINE r == Player!Reply(c[i], p, TRUE, FALSE, {})
  <2>1. failed[i] = r
    BY <1>2, <1>5
  <2>2. /\ r \in Player!Messages /\ r.op = c[i].op /\ r.mark = c[i].mark
        /\ r.from = p /\ r.err = TRUE
    BY <1>3, <1>4
  <2> HIDE DEF r
  <2> QED
    BY <2>1, <2>2
<1>7. failed \in Seq(Player!Messages) /\ Len(failed) = Len(c)
  <2>1. failed = [i \in 1..Len(c) |-> failed[i]]
    BY <1>2, <1>5
  <2>2. \A i \in 1..Len(c) : failed[i] \in Player!Messages
    BY <1>6
  <2>3. Len(c) \in Nat
    BY <1>5
  <2> QED
    BY ONLY <2>1, <2>2, <2>3, Mapped
<1>8. \A g : /\ Without(failed, Scans(g, p)) <=> Without(c, ScanCalls(g))
             /\ Once(c, ScanCalls(g)) => Once(failed, Scans(g, p))
  <2> SUFFICES ASSUME NEW g
               PROVE  /\ Without(failed, Scans(g, p)) <=> Without(c, ScanCalls(g))
                      /\ Once(c, ScanCalls(g)) => Once(failed, Scans(g, p))
    OBVIOUS
  <2>1. \A i \in 1..Len(c) : failed[i] \in Scans(g, p) <=> c[i] \in ScanCalls(g)
    BY <1>3, <1>6 DEF Scans, ScanCalls
  <2> QED
    BY <1>7, <2>1 DEF Without, Once
<1>9. \A g : Without(failed, Lists(g))
  BY <1>1, <1>3, <1>6, <1>7 DEF Without, Lists, CallFits
<1>10. \A g : Without(failed, Positions(g)) => Without(c, PositionCalls(g))
  BY <1>3, <1>6, <1>7 DEF Without, Positions, PositionCalls
<1>11. \A g, q : Without(failed, Tells(g, q)) /\ (q # p => Without(failed, Scans(g, q)))
  <2>1. \A i \in 1..Len(c) : failed[i].op # "changed"
    BY <1>3, <1>6 DEF Player!Calls, Player!Called
  <2> QED
    BY <1>6, <1>7, <2>1 DEF Without, Tells, Scans
<1>12. \A i \in 1..Len(failed) : MessageFits(mp, failed[i])
  <2> SUFFICES ASSUME NEW i \in 1..Len(c) PROVE MessageFits(mp, failed[i])
    BY <1>7
  <2>1. failed[i] \in Statuses(mp.proxy) => c[i] \in StatusCalls(mp.proxy)
    BY <1>3, <1>6 DEF Statuses, StatusCalls
  <2>2. failed[i] \in Statuses(mp.proxy) => mp.player # Player!NoPlayer
    BY <1>3, <2>1, MpNumbers DEF CallFits
  <2> QED
    BY <1>3, <1>6, <2>2 DEF MessageFits, CallFits
<1> QED
  BY <1>7, <1>8, <1>9, <1>10, <1>11, <1>12 DEF c

LEMMA MpExitsKeeps ==
    ASSUME MpInv, NEW p \in Players, Player!PlayerExits(p)
    PROVE  MpInv'
<1> DEFINE e == Player!Notice("owner", Player!Bus, FALSE)
           failed == [i \in DOMAIN calls[p] |-> Player!Reply(calls[p][i], p, TRUE, FALSE, {})]
           both == inbox \o failed
           g == mp.gen
<1>1. /\ mp' = mp /\ inbox' = Append(both, e) /\ mpWork.owners < MaxOwners
      /\ owner' = [owner EXCEPT ![p] = 0] /\ playing' = [playing EXCEPT ![p] = FALSE]
      /\ mpWork' = [mpWork EXCEPT !.owners = @ + 1] /\ calls' = [calls EXCEPT ![p] = <<>>]
  BY DEF Player!PlayerExits, Player!OwnerChange
<1>2. /\ owner \in [Players -> 0..(MaxOwners + 1)] /\ playing \in [Players -> BOOLEAN]
      /\ mpWork \in [owners : 0..MaxOwners, toggles : 0..MaxToggles] /\ mp \in MpRecords
      /\ calls \in [Players \union {"bus"} -> Seq(Player!Calls)] /\ inbox \in Seq(Player!Messages)
  BY MpTyped
<1>3. p # "bus" /\ p \in Players \union {"bus"}
  BY MpNumbers
<1>4. /\ mpWork' \in [owners : 0..MaxOwners, toggles : 0..MaxToggles]
      /\ mpWork'.owners = mpWork.owners + 1 /\ mpWork.owners \in Nat
  <2>1. mpWork' = [mpWork EXCEPT !.owners = @ + 1] /\ mpWork.owners < MaxOwners
    BY <1>1
  <2>2. mpWork \in [owners : 0..MaxOwners, toggles : 0..MaxToggles]
    BY <1>2
  <2> QED
    BY ONLY <2>1, <2>2, MpNumbers
<1>5. /\ owner' \in [Players -> 0..(MaxOwners + 1)] /\ owner'[p] = 0
      /\ \A q \in Players : q # p => owner'[q] = owner[q] /\ playing'[q] = playing[q]
      /\ playing' \in [Players -> BOOLEAN]
  BY <1>1, <1>2, MpNumbers
<1>6. /\ calls' \in [Players \union {"bus"} -> Seq(Player!Calls)] /\ calls'[p] = <<>>
      /\ \A d \in Players \union {"bus"} : d # p => calls'[d] = calls[d]
  BY <1>1, <1>2, <1>3
<1>7. \A S : Without(<<>>, S) /\ Once(<<>>, S)
  BY DEF Without, Once
<1>8. e \in Player!Messages /\ e.op = "owner" /\ e \in Owners
  BY MpOwnerNotice
<1>9. /\ failed \in Seq(Player!Messages)
      /\ \A m : /\ Without(failed, Scans(m, p)) <=> Without(calls[p], ScanCalls(m))
                /\ Once(calls[p], ScanCalls(m)) => Once(failed, Scans(m, p))
                /\ Without(failed, Lists(m))
                /\ Without(failed, Positions(m)) => Without(calls[p], PositionCalls(m))
      /\ \A m, q : Without(failed, Tells(m, q)) /\ (q # p => Without(failed, Scans(m, q)))
      /\ \A i \in 1..Len(failed) : MessageFits(mp, failed[i])
  BY MpFailed
<1> HIDE DEF e, failed
<1>10. /\ both \in Seq(Player!Messages) /\ Len(both) \in Nat
       /\ \A i \in 1..Len(both) : MessageFits(mp, both[i])
       /\ \A S : /\ Without(both, S) <=> Without(inbox, S) /\ Without(failed, S)
                 /\ Once(inbox, S) /\ Once(failed, S) /\ (Without(inbox, S) \/ Without(failed, S))
                       => Once(both, S)
  <2>1. \A S : /\ Without(both, S) <=> Without(inbox, S) /\ Without(failed, S)
               /\ Once(inbox, S) /\ Once(failed, S) /\ (Without(inbox, S) \/ Without(failed, S))
                     => Once(both, S)
    BY <1>2, <1>9, WithoutConcat
  <2>2. /\ both \in Seq(Player!Messages) /\ Len(inbox) \in Nat /\ Len(failed) \in Nat
        /\ Len(both) = Len(inbox) + Len(failed)
        /\ \A i \in 1..Len(inbox) : both[i] = inbox[i]
        /\ \A i \in 1..Len(failed) : both[Len(inbox) + i] = failed[i]
    BY <1>2, <1>9, Joins
  <2>3. \A i \in 1..Len(inbox) : MessageFits(mp, inbox[i])
    BY DEF MpInv, MpMarks
  <2>4. \A i \in 1..Len(both) : MessageFits(mp, both[i])
    <3> SUFFICES ASSUME NEW i \in 1..Len(both) PROVE MessageFits(mp, both[i])
      OBVIOUS
    <3> HIDE DEF both
    <3>1. CASE i \in 1..Len(inbox)
      BY <2>2, <2>3, <3>1
    <3>2. CASE i \notin 1..Len(inbox)
      <4>1. i - Len(inbox) \in 1..Len(failed) /\ Len(inbox) + (i - Len(inbox)) = i
        BY <2>2, <3>2
      <4> QED
        BY <1>9, <2>2, <4>1
    <3> QED
      BY <3>1, <3>2
  <2> QED
    BY <2>1, <2>2, <2>4
<1>11. \A S, on, shown : LastWord(inbox, S, on, shown) /\ Without(failed, S) => LastWord(both, S, on, shown)
  BY <1>2, <1>9, LastWordConcat
<1> HIDE DEF both
<1>12. /\ inbox' \in Seq(Player!Messages)
       /\ \A S : /\ Without(inbox', S) <=> Without(both, S) /\ e \notin S
                 /\ Once(both, S) /\ (e \in S => Without(both, S)) => Once(inbox', S)
       /\ \A S, on, shown : e \notin S /\ LastWord(both, S, on, shown) => LastWord(inbox', S, on, shown)
       /\ \A i \in 1..Len(inbox') : inbox'[i] = e \/ \E j \in 1..Len(both) : inbox'[i] = both[j]
  <2>1. \A S : /\ Without(inbox', S) <=> Without(both, S) /\ e \notin S
               /\ Once(both, S) /\ (e \in S => Without(both, S)) => Once(inbox', S)
    BY <1>1, <1>8, <1>10, WithoutAppend
  <2>2. \A S, on, shown : e \notin S /\ LastWord(both, S, on, shown) => LastWord(inbox', S, on, shown)
    BY <1>1, <1>8, <1>10, LastWordAppend
  <2>3. /\ inbox' \in Seq(Player!Messages) /\ Len(inbox') = Len(both) + 1
        /\ inbox'[Len(both) + 1] = e /\ \A i \in 1..Len(both) : inbox'[i] = both[i]
    BY <1>1, <1>8, <1>10, Grows
  <2>4. \A i \in 1..Len(inbox') : inbox'[i] = e \/ \E j \in 1..Len(both) : inbox'[i] = both[j]
    BY <1>10, <2>3
  <2> QED
    BY <2>1, <2>2, <2>3, <2>4
<1>13. /\ \A m : e \notin Lists(m) /\ e \notin Statuses(m) /\ e \notin Positions(m)
       /\ \A m, q : e \notin Scans(m, q) /\ e \notin Tells(m, q)
  BY <1>8 DEF Lists, Statuses, Positions, Scans, Tells
<1>14. SameScan
  BY <1>1 DEF SameScan
<1>15. /\ Once(calls'["bus"], ListCalls(g)) /\ Once(inbox', Lists(g))
       /\ Without(calls'["bus"], ListCalls(g)) \/ Without(inbox', Lists(g))
       /\ Listing' <=> Listing
  <2>1. /\ Once(calls["bus"], ListCalls(g)) /\ Once(inbox, Lists(g))
        /\ Without(calls["bus"], ListCalls(g)) \/ Without(inbox, Lists(g))
    BY DEF MpInv, MpListing
  <2>2. calls'["bus"] = calls["bus"]
    BY <1>3, <1>6
  <2>3. Once(failed, Lists(g))
    BY <1>9 DEF Without, Once
  <2>4. /\ Without(inbox', Lists(g)) <=> Without(inbox, Lists(g))
        /\ Once(inbox', Lists(g))
    BY <1>9, <1>10, <1>12, <1>13, <2>1, <2>3
  <2>5. Listing <=> ~Without(calls["bus"], ListCalls(g)) \/ ~Without(inbox, Lists(g))
    BY DEF Listing
  <2>6. Listing' <=> ~Without(calls'["bus"], ListCalls(g)) \/ ~Without(inbox', Lists(g))
    BY <1>1 DEF Listing
  <2> QED
    BY <2>1, <2>2, <2>4, <2>5, <2>6
<1>16. \A q \in Players :
           /\ Once(calls'[q], ScanCalls(g)) /\ Once(inbox', Scans(g, q))
           /\ Without(calls'[q], ScanCalls(g)) \/ Without(inbox', Scans(g, q))
           /\ Pending(q)' <=> Pending(q)
  <2> SUFFICES ASSUME NEW q \in Players
               PROVE  /\ Once(calls'[q], ScanCalls(g)) /\ Once(inbox', Scans(g, q))
                      /\ Without(calls'[q], ScanCalls(g)) \/ Without(inbox', Scans(g, q))
                      /\ Pending(q)' <=> Pending(q)
    OBVIOUS
  <2>1. /\ Once(calls[q], ScanCalls(g)) /\ Once(inbox, Scans(g, q))
        /\ Without(calls[q], ScanCalls(g)) \/ Without(inbox, Scans(g, q))
    BY DEF MpInv, MpOnce
  <2>2. Pending(q) <=> ~Without(calls[q], ScanCalls(g)) \/ ~Without(inbox, Scans(g, q))
    BY DEF Pending
  <2>3. Pending(q)' <=> ~Without(calls'[q], ScanCalls(g)) \/ ~Without(inbox', Scans(g, q))
    BY <1>1 DEF Pending
  <2>4. /\ Without(inbox', Scans(g, q)) <=> Without(both, Scans(g, q))
        /\ Once(both, Scans(g, q)) => Once(inbox', Scans(g, q))
    BY <1>12, <1>13
  <2>5. CASE q = p
    <3>1. Once(failed, Scans(g, q)) /\ (Without(failed, Scans(g, q)) <=> Without(calls[q], ScanCalls(g)))
      BY <1>9, <2>1, <2>5
    <3>2. Without(both, Scans(g, q)) <=> Without(inbox, Scans(g, q)) /\ Without(calls[q], ScanCalls(g))
      BY <1>10, <3>1
    <3>3. Once(both, Scans(g, q))
      BY <1>10, <2>1, <3>1
    <3>4. Without(calls'[q], ScanCalls(g)) /\ Once(calls'[q], ScanCalls(g))
      BY <1>6, <1>7, <2>5
    <3> QED
      BY <2>2, <2>3, <2>4, <3>2, <3>3, <3>4
  <2>6. CASE q # p
    <3>1. Without(failed, Scans(g, q)) /\ Once(failed, Scans(g, q))
      BY <1>9, <2>6 DEF Once, Without
    <3>2. Without(both, Scans(g, q)) <=> Without(inbox, Scans(g, q))
      BY <1>10, <3>1
    <3>3. Once(both, Scans(g, q))
      BY <1>10, <2>1, <3>1
    <3>4. calls'[q] = calls[q]
      BY <1>6, <2>6
    <3> QED
      BY <2>1, <2>2, <2>3, <2>4, <3>2, <3>3, <3>4
  <2> QED
    BY <2>5, <2>6
<1>17. ~Without(inbox', Owners)
  BY <1>8, <1>12
<1>18. MpListing' /\ MpOnce' /\ MpNames'
  BY <1>14, <1>15, <1>16, <1>17, MpRelayed
<1>19. MpMarks'
  <2>1. MessageFits(mp, e)
    BY <1>8, <1>13 DEF MessageFits
  <2>2. \A i \in 1..Len(inbox') : MessageFits(mp, inbox'[i])
    BY <1>10, <1>12, <2>1
  <2>3. \A d \in Players \union {"bus"} : \A i \in 1..Len(calls'[d]) :
            \/ CallFits(mp, d, calls'[d][i])
            \/ \E j \in 1..Len(calls[d]) : calls'[d][i] = calls[d][j]
    <3> SUFFICES ASSUME NEW d \in Players \union {"bus"}, NEW i \in 1..Len(calls'[d])
                 PROVE  \E j \in 1..Len(calls[d]) : calls'[d][i] = calls[d][j]
      OBVIOUS
    <3>1. d # p
      BY <1>6
    <3> QED
      BY <1>6, <3>1
  <2> QED
    BY <1>14, <2>2, <2>3, MarksKept
<1>20. MpPast'
  <2>1. \A q \in Players : owner'[q] <= mpWork'.owners + 1
    <3> SUFFICES ASSUME NEW q \in Players PROVE owner'[q] <= mpWork'.owners + 1
      OBVIOUS
    <3>1. owner[q] \in 0..(MaxOwners + 1) /\ owner[q] <= mpWork.owners + 1
      BY <1>2 DEF MpInv, MpPast
    <3>2. owner'[q] = 0 \/ owner'[q] = owner[q]
      BY <1>5
    <3> QED
      BY <1>4, <3>1, <3>2, MpNumbers
  <2>2. mp.since \in 0..(MaxOwners + 1) /\ mp.since <= mpWork.owners + 1
    BY <1>2 DEF MpRecords, MpInv, MpPast
  <2>3. mp.since <= mpWork'.owners + 1
    BY <1>4, <2>2, MpNumbers
  <2> QED
    BY <1>1, <2>1, <2>3 DEF MpInv, MpPast
<1>21. MpTold'
  <2> SUFFICES ASSUME mp.player # Player!NoPlayer, mp.since = owner'[mp.player], mp.since # 0
               PROVE  \/ ~Without(calls'[mp.player], StatusCalls(mp.proxy))
                      \/ LastWord(inbox', Tells(mp.proxy, mp.player), playing'[mp.player], mp.playing)
    BY <1>1 DEF MpTold
  <2>1. mp.player \in Players
    BY <1>2 DEF MpRecords
  <2>2. mp.player # p
    BY <1>5
  <2>3. mp.since = owner[mp.player] /\ playing'[mp.player] = playing[mp.player]
        /\ calls'[mp.player] = calls[mp.player]
    BY <1>5, <1>6, <2>1, <2>2
  <2>4. \/ ~Without(calls[mp.player], StatusCalls(mp.proxy))
        \/ LastWord(inbox, Tells(mp.proxy, mp.player), playing[mp.player], mp.playing)
    BY <2>3 DEF MpInv, MpTold
  <2>5. LastWord(inbox, Tells(mp.proxy, mp.player), playing[mp.player], mp.playing) =>
            LastWord(inbox', Tells(mp.proxy, mp.player), playing[mp.player], mp.playing)
    BY <1>9, <1>11, <1>12, <1>13
  <2> QED
    BY <2>3, <2>4, <2>5
<1>22. MpPolled'
  <2> SUFFICES ASSUME mp.inflight, mp.polled = mp.proxy
               PROVE  /\ mp.player \in Players
                      /\ \/ ~Without(calls'[mp.player], PositionCalls(mp.proxy))
                         \/ ~Without(inbox', Positions(mp.proxy))
    BY <1>1 DEF MpPolled
  <2>1. /\ mp.player \in Players
        /\ \/ ~Without(calls[mp.player], PositionCalls(mp.proxy))
           \/ ~Without(inbox, Positions(mp.proxy))
    BY DEF MpInv, MpPolled
  <2>2. CASE ~Without(inbox, Positions(mp.proxy))
    BY <1>10, <1>12, <2>1, <2>2
  <2>3. CASE mp.player = p /\ ~Without(calls[p], PositionCalls(mp.proxy))
    BY <1>9, <1>10, <1>12, <2>1, <2>3
  <2>4. CASE mp.player # p /\ ~Without(calls[mp.player], PositionCalls(mp.proxy))
    BY <1>6, <2>1, <2>4
  <2> QED
    BY <2>1, <2>2, <2>3, <2>4
<1>23. Player!TypeOK'
  BY <1>1, <1>4, <1>5, <1>6, <1>12 DEF MpInv, Player!TypeOK, Player!Bus
<1> QED
  BY <1>18, <1>19, <1>20, <1>21, <1>22, <1>23 DEF MpInv

\* What hearing a message makes of the inbox.
LEMMA MpHeard ==
    ASSUME MpInv, inbox # <<>>, inbox' = Tail(inbox)
    PROVE  /\ inbox' \in Seq(Player!Messages) /\ Head(inbox) \in Player!Messages
           /\ MessageFits(mp, Head(inbox)) /\ \E j \in 1..Len(inbox) : inbox[j] = Head(inbox)
           /\ \A S : /\ Without(inbox, S) <=> Head(inbox) \notin S /\ Without(inbox', S)
                     /\ Once(inbox, S) => Once(inbox', S)
                     /\ Once(inbox, S) /\ Head(inbox) \in S => Without(inbox', S)
           /\ \A S, on, shown, now :
                 /\ LastWord(inbox, S, on, shown)
                 /\ now = IF Head(inbox) \in S THEN Head(inbox).playing ELSE shown
                 => LastWord(inbox', S, on, now)
           /\ \A i \in 1..Len(inbox') : \E j \in 1..Len(inbox) : inbox[j] = inbox'[i]
<1>1. inbox \in Seq(Player!Messages)
  BY MpTyped
<1>2. /\ inbox' \in Seq(Player!Messages) /\ Len(inbox) \in Nat \ {0} /\ Len(inbox') = Len(inbox) - 1
      /\ Head(inbox) = inbox[1] /\ inbox[1] \in Player!Messages
      /\ \A i \in 1..Len(inbox') : inbox'[i] = inbox[i + 1]
  BY <1>1, Shrinks
<1>3. MessageFits(mp, Head(inbox))
  BY <1>2 DEF MpInv, MpMarks
<1>4. \A S : /\ Without(inbox, S) <=> Head(inbox) \notin S /\ Without(inbox', S)
             /\ Once(inbox, S) => Once(inbox', S)
             /\ Once(inbox, S) /\ Head(inbox) \in S => Without(inbox', S)
  BY <1>1, WithoutTail
<1>5. \A S, on, shown, now :
          /\ LastWord(inbox, S, on, shown)
          /\ now = IF Head(inbox) \in S THEN Head(inbox).playing ELSE shown
          => LastWord(inbox', S, on, now)
  BY <1>1, LastWordTail
<1>6. \A i \in 1..Len(inbox') : \E j \in 1..Len(inbox) : inbox[j] = inbox'[i]
  <2>1. \A i \in 1..Len(inbox') : i + 1 \in 1..Len(inbox)
    BY <1>2
  <2> QED
    BY <1>2, <2>1
<1> QED
  BY <1>2, <1>3, <1>4, <1>5, <1>6

\* A message that is of no scan, or of an older one.
LEMMA MpPlainKeeps ==
    ASSUME MpInv, SameScan, mp' \in MpRecords, mp'.polled = mp.polled,
           inbox # <<>>, inbox' = Tail(inbox), UNCHANGED <<owner, playing, calls, mpWork>>,
           Head(inbox).op # "owner", Head(inbox) \notin Lists(mp.gen),
           \A p \in Players : Head(inbox) \notin Scans(mp.gen, p),
           mp.player # Player!NoPlayer =>
               mp'.playing = IF Head(inbox) \in Tells(mp.proxy, mp.player)
                             THEN Head(inbox).playing ELSE mp.playing,
           mp'.inflight => mp.inflight /\ Head(inbox) \notin Positions(mp.proxy)
    PROVE  MpInv'
<1> DEFINE x == Head(inbox)
           g == mp.gen
<1>1. /\ inbox' \in Seq(Player!Messages)
      /\ \A S : /\ Without(inbox, S) <=> x \notin S /\ Without(inbox', S)
                /\ Once(inbox, S) => Once(inbox', S)
      /\ \A S, on, shown, now :
            LastWord(inbox, S, on, shown) /\ now = (IF x \in S THEN x.playing ELSE shown)
               => LastWord(inbox', S, on, now)
      /\ \A i \in 1..Len(inbox') : \E j \in 1..Len(inbox) : inbox[j] = inbox'[i]
  BY MpHeard
<1>2. x \notin Owners
  BY DEF Owners
<1> HIDE DEF x
<1>3. /\ Without(inbox', Lists(g)) <=> Without(inbox, Lists(g))
      /\ Without(inbox', Owners) <=> Without(inbox, Owners)
      /\ \A p \in Players : Without(inbox', Scans(g, p)) <=> Without(inbox, Scans(g, p))
  BY <1>1, <1>2 DEF x
<1>4. Listing' <=> Listing
  BY <1>3 DEF Listing, SameScan
<1>5. \A p \in Players : Pending(p)' <=> Pending(p)
  BY <1>3 DEF Pending, SameScan
<1>6. MpListing' /\ MpOnce' /\ MpNames'
  <2>1. /\ Once(calls'["bus"], ListCalls(g)) /\ Once(inbox', Lists(g))
        /\ Without(calls'["bus"], ListCalls(g)) \/ Without(inbox', Lists(g))
    BY <1>1, <1>3 DEF MpInv, MpListing
  <2>2. \A p \in Players :
            /\ Once(calls'[p], ScanCalls(g)) /\ Once(inbox', Scans(g, p))
            /\ Without(calls'[p], ScanCalls(g)) \/ Without(inbox', Scans(g, p))
    BY <1>1, <1>3 DEF MpInv, MpOnce
  <2> QED
    BY <1>1, <1>3, <1>4, <1>5, <2>1, <2>2, MpRelayed
<1>7. MpMarks'
  <2>1. \A d \in Players \union {"bus"} : \A i \in 1..Len(calls'[d]) :
            \E j \in 1..Len(calls[d]) : calls'[d][i] = calls[d][j]
    OBVIOUS
  <2> QED
    BY <1>1, <2>1, MarksKept
<1>8. MpTold'
  <2> SUFFICES ASSUME mp.player # Player!NoPlayer, mp.since = owner[mp.player], mp.since # 0
               PROVE  \/ ~Without(calls[mp.player], StatusCalls(mp.proxy))
                      \/ LastWord(inbox', Tells(mp.proxy, mp.player), playing[mp.player], mp'.playing)
    BY DEF MpTold, SameScan
  <2>1. \/ ~Without(calls[mp.player], StatusCalls(mp.proxy))
        \/ LastWord(inbox, Tells(mp.proxy, mp.player), playing[mp.player], mp.playing)
    BY DEF MpInv, MpTold
  <2> QED
    BY <1>1, <2>1 DEF x
<1>9. MpPast'
  BY DEF MpInv, MpPast, SameScan
<1>10. MpPolled'
  <2> SUFFICES ASSUME mp'.inflight, mp.polled = mp.proxy
               PROVE  /\ mp.player \in Players
                      /\ \/ ~Without(calls[mp.player], PositionCalls(mp.proxy))
                         \/ ~Without(inbox', Positions(mp.proxy))
    BY DEF MpPolled, SameScan
  <2>1. /\ mp.player \in Players
        /\ \/ ~Without(calls[mp.player], PositionCalls(mp.proxy))
           \/ ~Without(inbox, Positions(mp.proxy))
    BY DEF MpInv, MpPolled
  <2> QED
    BY <1>1, <2>1 DEF x
<1>11. Player!TypeOK'
  <2>1. Len(mp'.candidates) <= Player!Cardinality(Players)
    BY MpTyped DEF SameScan
  <2> QED
    BY <1>1, <2>1, MpTyped DEF Player!TypeOK, MpRecords, Player!Bus
<1> QED
  BY <1>6, <1>7, <1>8, <1>9, <1>10, <1>11 DEF MpInv

\* An owner that changes begins a scan: nothing of it is under way but its call.
LEMMA MpOwnerHeardKeeps ==
    ASSUME MpInv, inbox # <<>>, inbox' = Tail(inbox), UNCHANGED <<owner, playing, mpWork>>,
           Head(inbox).op = "owner", Player!NameOwnerChanged
    PROVE  MpInv'
<1> DEFINE e == Player!Call("list", mp.gen + 1)
           g == mp.gen + 1
<1>1. /\ mp' = [mp EXCEPT !.gen = @ + 1, !.expected = 0, !.candidates = <<>>]
      /\ calls' = [calls EXCEPT !["bus"] = Append(@, e)]
  BY DEF Player!NameOwnerChanged, Player!BeginScan, Player!CallPlayer, Player!Bus
<1>2. mp \in MpRecords /\ Player!Cardinality(Players) \in Nat
  BY MpTyped, MpNumbers
<1>3. /\ mp' \in MpRecords /\ mp'.gen = g /\ mp'.expected = 0 /\ mp'.candidates = <<>>
      /\ mp'.player = mp.player /\ mp'.proxy = mp.proxy /\ mp'.since = mp.since
      /\ mp'.playing = mp.playing /\ mp'.inflight = mp.inflight /\ mp'.polled = mp.polled
      /\ mp.gen \in Nat /\ g \in Nat /\ g > mp.gen
  <2>1. mp' = [mp EXCEPT !.gen = @ + 1, !.expected = 0, !.candidates = <<>>]
    BY <1>1
  <2>2. <<>> \in Seq([name : Players, playing : BOOLEAN]) /\ 0 \in 0..Player!Cardinality(Players)
    BY <1>2
  <2>3. mp.gen \in Nat /\ mp.gen + 1 \in Nat
    BY <1>2 DEF MpRecords
  <2>4. mp' \in MpRecords
    BY ONLY <1>2, <2>1, <2>2, <2>3 DEF MpRecords
  <2>5. /\ mp'.gen = g /\ mp'.expected = 0 /\ mp'.candidates = <<>>
        /\ mp'.player = mp.player /\ mp'.proxy = mp.proxy /\ mp'.since = mp.since
        /\ mp'.playing = mp.playing /\ mp'.inflight = mp.inflight /\ mp'.polled = mp.polled
    BY ONLY <1>2, <2>1 DEF MpRecords
  <2> QED
    BY <2>3, <2>4, <2>5
<1>4. e \in Player!Calls /\ e.op = "list" /\ e.mark = g
  BY <1>3 DEF Player!Call, Player!Calls, Player!Called
<1> HIDE DEF e, g
<1>5. "bus" \in Players \union {"bus"} /\ "bus" \notin Players
  BY MpNumbers
<1>6. /\ calls' \in [Players \union {"bus"} -> Seq(Player!Calls)]
      /\ \A d \in Players \union {"bus"} : \A S :
           /\ Without(calls'[d], S) <=> Without(calls[d], S) /\ (d = "bus" => e \notin S)
           /\ Once(calls[d], S) /\ (d = "bus" /\ e \in S => Without(calls[d], S))
                 => Once(calls'[d], S)
      /\ \A d \in Players \union {"bus"} : \A i \in 1..Len(calls'[d]) :
           \/ d = "bus" /\ calls'[d][i] = e
           \/ \E j \in 1..Len(calls[d]) : calls'[d][i] = calls[d][j]
  <2>1. PICK c \in Players \union {"bus"} : c = "bus"
    OBVIOUS
  <2>2. calls' = [calls EXCEPT ![c] = Append(@, e)]
    BY <1>1, <2>1
  <2>3. e \in Player!Calls
    BY <1>4
  <2>4. /\ calls' \in [Players \union {"bus"} -> Seq(Player!Calls)]
        /\ \A d \in Players \union {"bus"} : \A S :
             /\ Without(calls'[d], S) <=> Without(calls[d], S) /\ (d = c => e \notin S)
             /\ Once(calls[d], S) /\ (d = c /\ e \in S => Without(calls[d], S))
                   => Once(calls'[d], S)
        /\ \A d \in Players \union {"bus"} : \A i \in 1..Len(calls'[d]) :
             \/ d = c /\ calls'[d][i] = e
             \/ \E j \in 1..Len(calls[d]) : calls'[d][i] = calls[d][j]
    BY <2>2, <2>3, MpCalled
  <2> QED
    BY <2>1, <2>4
<1>7. /\ inbox' \in Seq(Player!Messages)
      /\ \A S : Without(inbox, S) <=> Head(inbox) \notin S /\ Without(inbox', S)
      /\ \A S, on, shown, now :
            LastWord(inbox, S, on, shown) /\ now = (IF Head(inbox) \in S THEN Head(inbox).playing ELSE shown)
               => LastWord(inbox', S, on, now)
      /\ \A i \in 1..Len(inbox') : \E j \in 1..Len(inbox) : inbox[j] = inbox'[i]
  BY MpHeard
\* Nothing of the new scan is under way.
<1>8. /\ \A d \in Players \union {"bus"} : Without(calls[d], ListCalls(g)) /\ Without(calls[d], ScanCalls(g))
      /\ Without(inbox', Lists(g)) /\ \A p : Without(inbox', Scans(g, p))
  <2>1. \A d \in Players \union {"bus"} : \A i \in 1..Len(calls[d]) :
            calls[d][i].op \in {"list", "scan"} => calls[d][i].mark <= mp.gen
    BY DEF MpInv, MpMarks, CallFits
  <2>2. \A i \in 1..Len(inbox') : inbox'[i].op \in {"list", "scan"} => inbox'[i].mark <= mp.gen
    BY <1>7 DEF MpInv, MpMarks, MessageFits
  <2>3. ~(g <= mp.gen)
    BY <1>3
  <2> QED
    BY <2>1, <2>2, <2>3 DEF Without, ListCalls, ScanCalls, Lists, Scans
<1>9. /\ e \in ListCalls(g) /\ e \notin ScanCalls(g)
      /\ \A m : e \notin StatusCalls(m) /\ e \notin PositionCalls(m)
  BY <1>4 DEF ListCalls, ScanCalls, StatusCalls, PositionCalls
<1>10. \A S : (Without(inbox', S) => Once(inbox', S)) /\ \A d : Without(calls'[d], S) => Once(calls'[d], S)
  BY DEF Without, Once
<1>11. /\ ~Without(calls'["bus"], ListCalls(g)) /\ Once(calls'["bus"], ListCalls(g))
       /\ \A p \in Players : Without(calls'[p], ScanCalls(g)) /\ Once(calls'[p], ScanCalls(g))
  <2>1. \A d : Without(calls[d], ListCalls(g)) => Once(calls[d], ListCalls(g))
    BY DEF Without, Once
  <2> QED
    BY <1>5, <1>6, <1>8, <1>9, <1>10, <2>1
<1>12. \A p \in Players : ~Candidate(p)'
  BY <1>3 DEF Candidate
<1>13. Listing' /\ Joined' = {}
  <2>1. Listing'
    BY <1>3, <1>11 DEF Listing
  <2>2. \A p \in Players : p \notin Joined'
    BY <1>3, <1>8, <1>11, <1>12 DEF Joined
  <2>3. Joined' \subseteq Players
    BY DEF Joined
  <2> QED
    BY <2>1, <2>2, <2>3
<1>14. MpListing'
  BY <1>3, <1>8, <1>10, <1>11, <1>13 DEF MpListing
<1>15. MpOnce'
  <2>1. Len(mp'.candidates) = 0
    BY <1>3
  <2> QED
    BY <1>3, <1>8, <1>10, <1>11, <1>12, <2>1 DEF MpOnce
<1>16. MpNames'
  BY <1>3, <1>8, <1>13 DEF MpNames, Without
<1>17. MpMarks'
  <2>1. \A d \in Players \union {"bus"} : \A i \in 1..Len(calls[d]) : CallFits(mp', d, calls[d][i])
    <3> SUFFICES ASSUME NEW d \in Players \union {"bus"}, NEW i \in 1..Len(calls[d])
                 PROVE  CallFits(mp', d, calls[d][i])
      OBVIOUS
    <3>1. CallFits(mp, d, calls[d][i]) /\ calls[d][i] \in Player!Calls
      BY MpTyped DEF MpInv, MpMarks
    <3> QED
      BY <1>3, <3>1 DEF CallFits, Player!Calls
  <2>2. CallFits(mp', "bus", e)
    BY <1>3, <1>4, <1>9 DEF CallFits
  <2>3. \A i \in 1..Len(inbox) : MessageFits(mp', inbox[i])
    <3> SUFFICES ASSUME NEW i \in 1..Len(inbox) PROVE MessageFits(mp', inbox[i])
      OBVIOUS
    <3>1. MessageFits(mp, inbox[i]) /\ inbox[i] \in Player!Messages
      BY MpTyped DEF MpInv, MpMarks
    <3> QED
      BY <1>3, <3>1 DEF MessageFits, Player!Messages
  <2> QED
    BY <1>6, <1>7, <2>1, <2>2, <2>3 DEF MpMarks
<1>18. \A p \in Players : \A m : /\ Without(calls'[p], StatusCalls(m)) <=> Without(calls[p], StatusCalls(m))
                                 /\ Without(calls'[p], PositionCalls(m)) <=> Without(calls[p], PositionCalls(m))
  BY <1>6, <1>9
<1>19. Head(inbox) \notin Positions(mp.proxy) /\ \A q : Head(inbox) \notin Tells(mp.proxy, q)
  BY DEF Positions, Tells
<1>20. MpTold'
  <2> SUFFICES ASSUME mp.player # Player!NoPlayer, mp.since = owner[mp.player], mp.since # 0
               PROVE  \/ ~Without(calls'[mp.player], StatusCalls(mp.proxy))
                      \/ LastWord(inbox', Tells(mp.proxy, mp.player), playing[mp.player], mp.playing)
    BY <1>3 DEF MpTold
  <2>1. \/ ~Without(calls[mp.player], StatusCalls(mp.proxy))
        \/ LastWord(inbox, Tells(mp.proxy, mp.player), playing[mp.player], mp.playing)
    BY DEF MpInv, MpTold
  <2>2. mp.player \in Players
    BY <1>2 DEF MpRecords
  <2> QED
    BY <1>7, <1>18, <1>19, <2>1, <2>2
<1>21. MpPolled'
  BY <1>3, <1>7, <1>18, <1>19 DEF MpInv, MpPolled
<1>22. MpPast'
  BY <1>3 DEF MpInv, MpPast
<1>23. Player!TypeOK'
  <2>1. Len(mp'.candidates) <= Player!Cardinality(Players)
    BY <1>2, <1>3
  <2> QED
    BY <1>3, <1>6, <1>7, <2>1, MpTyped DEF Player!TypeOK, MpRecords, Player!Bus
<1> QED
  BY <1>14, <1>15, <1>16, <1>17, <1>20, <1>21, <1>22, <1>23 DEF MpInv

\* The names of a scan: nothing else of it has happened.
LEMMA MpListed ==
    ASSUME MpInv, inbox # <<>>, inbox' = Tail(inbox), Head(inbox) \in Lists(mp.gen)
    PROVE  /\ mp.expected = 0 /\ mp.candidates = <<>>
           /\ Without(inbox', Lists(mp.gen)) /\ Without(calls["bus"], ListCalls(mp.gen))
           /\ \A p \in Players : /\ Without(calls[p], ScanCalls(mp.gen))
                                 /\ Without(inbox', Scans(mp.gen, p))
           /\ Without(inbox', Owners) => Head(inbox).names = Player!Names
<1> DEFINE x == Head(inbox)
           g == mp.gen
<1>1. /\ \A S : /\ Without(inbox, S) <=> x \notin S /\ Without(inbox', S)
                /\ Once(inbox, S) /\ x \in S => Without(inbox', S)
      /\ \E j \in 1..Len(inbox) : inbox[j] = x
  BY MpHeard
<1>2. x \notin Owners
  BY DEF Owners, Lists
<1> HIDE DEF x
<1>3. ~Without(inbox, Lists(g))
  BY <1>1 DEF x
<1>4. Listing
  BY <1>3 DEF Listing
<1>5. mp.expected = 0 /\ mp.candidates = <<>> /\ Joined = {}
  BY <1>4 DEF MpInv, MpListing
<1>6. Without(inbox', Lists(g)) /\ Without(calls["bus"], ListCalls(g))
  BY <1>1, <1>3 DEF MpInv, MpListing, x
<1>7. \A p \in Players : Without(calls[p], ScanCalls(g)) /\ Without(inbox', Scans(g, p))
  BY <1>1, <1>5 DEF Joined
<1>8. Without(inbox', Owners) => x.names = Player!Names
  BY <1>1, <1>2 DEF MpInv, MpNames, x
<1> QED
  BY <1>5, <1>6, <1>7, <1>8 DEF x

\* A new player object: nothing under way is of it.
LEMMA MpReplaced ==
    ASSUME MpInv, mp'.gen = mp.gen, mp'.proxy = mp.proxy + 1
    PROVE  /\ \A d \in Players \union {"bus"} : \A i \in 1..Len(calls[d]) :
                  CallFits(mp', d, calls[d][i])
           /\ \A i \in 1..Len(inbox) : MessageFits(mp', inbox[i])
<1>1. mp.proxy \in Nat
  BY MpTyped DEF MpRecords
<1>2. ASSUME NEW d \in Players \union {"bus"}, NEW i \in 1..Len(calls[d])
      PROVE  CallFits(mp', d, calls[d][i])
  <2> DEFINE x == calls[d][i]
  <2>1. CallFits(mp, d, x) /\ x \in Player!Calls
    BY MpTyped DEF MpInv, MpMarks
  <2> HIDE DEF x
  <2>2. x.op = "status" => x.mark <= mp.proxy /\ x.mark \in Nat
    BY <2>1 DEF CallFits, Player!Calls
  <2>3. x.op = "status" => x.mark <= mp'.proxy /\ x.mark # mp'.proxy
    BY <1>1, <2>2
  <2> QED
    BY <2>1, <2>3 DEF CallFits, StatusCalls, x
<1>3. ASSUME NEW i \in 1..Len(inbox) PROVE MessageFits(mp', inbox[i])
  <2> DEFINE x == inbox[i]
  <2>1. MessageFits(mp, x) /\ x \in Player!Messages
    BY MpTyped DEF MpInv, MpMarks
  <2> HIDE DEF x
  <2>2. x.op = "status" => x.mark <= mp.proxy /\ x.mark \in Nat
    BY <2>1 DEF MessageFits, Player!Messages
  <2>3. x.op = "status" => x.mark <= mp'.proxy /\ x.mark # mp'.proxy
    BY <1>1, <2>2
  <2> QED
    BY <2>1, <2>3 DEF MessageFits, Statuses, x
<1> QED
  BY <1>2, <1>3

\* A scan that finds nobody.
LEMMA MpNobodyKeeps ==
    ASSUME MpInv, inbox # <<>>, inbox' = Tail(inbox), UNCHANGED <<owner, playing, mpWork>>,
           Head(inbox) \in Lists(mp.gen), Head(inbox).names = {}, Player!HearNames(Head(inbox))
    PROVE  MpInv'
<1> DEFINE g == mp.gen
           n == [mp EXCEPT !.expected = 0]
<1>1. /\ mp.expected = 0 /\ mp.candidates = <<>>
      /\ Without(inbox', Lists(g)) /\ Without(calls["bus"], ListCalls(g))
      /\ \A p \in Players : Without(calls[p], ScanCalls(g)) /\ Without(inbox', Scans(g, p))
      /\ Without(inbox', Owners) => Player!Names = {}
  BY MpListed
<1>2. mp \in MpRecords
  BY MpTyped
<1>3. n = mp
  BY <1>1, <1>2 DEF MpRecords
<1>4. Player!FinishScan(n)
  BY DEF Player!HearNames, Lists
<1>5. /\ mp' = [mp EXCEPT !.player = Player!NoPlayer, !.proxy = @ + 1, !.since = 0, !.playing = FALSE]
      /\ calls' = calls
  <2>1. Player!FinishScan(mp)
    BY <1>3, <1>4
  <2> QED
    BY <1>1, <2>1 DEF Player!FinishScan
<1> HIDE DEF n
<1>6. /\ mp' \in MpRecords /\ mp'.player = Player!NoPlayer /\ mp'.proxy = mp.proxy + 1
      /\ mp'.since = 0 /\ mp'.playing = FALSE /\ mp'.gen = g /\ mp'.expected = 0
      /\ mp'.candidates = <<>> /\ mp'.polled = mp.polled /\ mp.proxy \in Nat
  <2>1. mp' = [mp EXCEPT !.player = Player!NoPlayer, !.proxy = @ + 1, !.since = 0, !.playing = FALSE]
    BY <1>5
  <2>2. 0 \in 0..(MaxOwners + 1) /\ mp.proxy \in Nat /\ mp.proxy + 1 \in Nat
    BY <1>2, MpNumbers DEF MpRecords
  <2>3. mp' \in MpRecords
    BY ONLY <1>2, <2>1, <2>2 DEF MpRecords
  <2>4. /\ mp'.player = Player!NoPlayer /\ mp'.proxy = mp.proxy + 1
        /\ mp'.since = 0 /\ mp'.playing = FALSE /\ mp'.gen = mp.gen /\ mp'.expected = mp.expected
        /\ mp'.candidates = mp.candidates /\ mp'.polled = mp.polled
    BY ONLY <1>2, <2>1 DEF MpRecords
  <2> QED
    BY <1>1, <2>2, <2>3, <2>4
<1>7. \A q, S : Without(q, S) => Once(q, S)
  BY DEF Without, Once
<1>8. \A p \in Players : ~Candidate(p)'
  BY <1>6 DEF Candidate
<1>9. ~Listing' /\ Joined' = {}
  <2>1. ~Listing'
    BY <1>1, <1>5, <1>6 DEF Listing
  <2>2. \A p \in Players : p \notin Joined'
    BY <1>1, <1>5, <1>6, <1>8 DEF Joined
  <2>3. Joined' \subseteq Players
    BY DEF Joined
  <2> QED
    BY <2>1, <2>2, <2>3
<1>10. MpListing'
  BY <1>1, <1>5, <1>6, <1>7, <1>9 DEF MpListing
<1>11. MpOnce'
  <2>1. Len(mp'.candidates) = 0
    BY <1>6
  <2> QED
    BY <1>1, <1>5, <1>6, <1>7, <1>8, <2>1 DEF MpOnce
<1>12. MpNames'
  <2> SUFFICES ASSUME Without(inbox', Owners)
               PROVE  /\ \A i \in 1..Len(inbox') : inbox'[i] \notin Lists(g)
                      /\ Joined' = Player!Names' /\ Player!Names' = {}
    BY <1>6 DEF MpNames
  <2>1. Player!Names' = {}
    BY <1>1 DEF Player!Names
  <2> QED
    BY <1>1, <1>9, <2>1 DEF Without
<1>13. MpMarks'
  <2>1. \A i \in 1..Len(inbox') : \E j \in 1..Len(inbox) : inbox[j] = inbox'[i]
    BY MpHeard
  <2>2. /\ \A d \in Players \union {"bus"} : \A i \in 1..Len(calls[d]) :
               CallFits(mp', d, calls[d][i])
        /\ \A i \in 1..Len(inbox) : MessageFits(mp', inbox[i])
    BY <1>6, MpReplaced
  <2> QED
    BY <1>5, <2>1, <2>2 DEF MpMarks
<1>14. MpTold'
  BY <1>6 DEF MpTold
<1>15. MpPast' /\ MpPolled'
  <2>1. mp.polled \in Nat /\ mp.polled <= mp.proxy
    BY <1>2 DEF MpRecords, MpInv, MpPast
  <2>2. mp'.polled <= mp'.proxy /\ mp'.polled # mp'.proxy
    BY <1>6, <2>1
  <2>3. mp'.since <= mpWork.owners + 1
    BY <1>6, MpTyped, MpNumbers
  <2> QED
    BY <2>2, <2>3 DEF MpInv, MpPast, MpPolled
<1>16. Player!TypeOK'
  <2>1. Len(mp'.candidates) <= Player!Cardinality(Players)
    BY <1>6, MpNumbers
  <2>2. inbox' \in Seq(Player!Messages)
    BY MpHeard
  <2> QED
    BY <1>5, <1>6, <2>1, <2>2, MpTyped DEF Player!TypeOK, MpRecords, Player!Bus
<1> QED
  BY <1>10, <1>11, <1>12, <1>13, <1>14, <1>15, <1>16 DEF MpInv

\* A scan that asks the players it found.
LEMMA MpAskedKeeps ==
    ASSUME MpInv, inbox # <<>>, inbox' = Tail(inbox), UNCHANGED <<owner, playing, mpWork>>,
           Head(inbox) \in Lists(mp.gen), Head(inbox).names # {}, Player!HearNames(Head(inbox))
    PROVE  MpInv'
<1> DEFINE g == mp.gen
           found == Head(inbox).names
           n == Player!Cardinality(found)
           e == Player!Call("scan", g)
<1>1. /\ mp.expected = 0 /\ mp.candidates = <<>>
      /\ Without(inbox', Lists(g)) /\ Without(calls["bus"], ListCalls(g))
      /\ \A p \in Players : Without(calls[p], ScanCalls(g)) /\ Without(inbox', Scans(g, p))
      /\ Without(inbox', Owners) => found = Player!Names
  BY MpListed
<1>2. /\ mp \in MpRecords /\ g \in Nat
      /\ calls \in [Players \union {"bus"} -> Seq(Player!Calls)]
  BY MpTyped DEF MpRecords
<1>3. /\ mp' = [mp EXCEPT !.expected = n]
      /\ calls' = [c \in DOMAIN calls |-> IF c \in found THEN Append(calls[c], e) ELSE calls[c]]
  BY DEF Player!HearNames, Lists
<1>4. Head(inbox) \in Player!Messages
  BY MpHeard
<1>5. found \subseteq Players /\ found # {}
  BY <1>4 DEF Player!Messages
<1>6. e \in Player!Calls /\ e.op = "scan" /\ e.mark = g
  BY <1>2 DEF Player!Call, Player!Calls, Player!Called
<1> HIDE DEF found, e
<1>7. n \in 0..Player!Cardinality(Players) /\ n > 0
  <2>1. IsFiniteSet(found) /\ Cardinality(found) <= Cardinality(Players) /\ Cardinality(found) # 0
        /\ Cardinality(found) \in Nat
    BY <1>5, ServicesAssumption, FS_Subset, FS_EmptySet, FS_CardinalityType
  <2>2. n = Cardinality(found) /\ Player!Cardinality(Players) = Cardinality(Players)
    BY DEF Player!Cardinality, Cardinality
  <2> HIDE DEF n
  <2> QED
    BY <2>1, <2>2, MpNumbers
<1> HIDE DEF n
<1>8. /\ mp' \in MpRecords /\ mp'.player = mp.player /\ mp'.proxy = mp.proxy
      /\ mp'.since = mp.since /\ mp'.playing = mp.playing /\ mp'.gen = g /\ mp'.expected = n
      /\ mp'.candidates = <<>> /\ mp'.polled = mp.polled /\ mp'.inflight = mp.inflight
  <2>1. mp' \in MpRecords
    BY ONLY <1>2, <1>3, <1>7 DEF MpRecords
  <2>2. /\ mp'.player = mp.player /\ mp'.proxy = mp.proxy
        /\ mp'.since = mp.since /\ mp'.playing = mp.playing /\ mp'.gen = mp.gen /\ mp'.expected = n
        /\ mp'.candidates = mp.candidates /\ mp'.polled = mp.polled /\ mp'.inflight = mp.inflight
    BY ONLY <1>2, <1>3 DEF MpRecords
  <2> QED
    BY <1>1, <2>1, <2>2
<1>9. \A q \in Seq(Player!Calls) :
          /\ Append(q, e) \in Seq(Player!Calls)
          /\ \A S : /\ Without(Append(q, e), S) <=> Without(q, S) /\ e \notin S
                    /\ Once(q, S) /\ (e \in S => Without(q, S)) => Once(Append(q, e), S)
          /\ \A i \in 1..Len(Append(q, e)) :
                Append(q, e)[i] = e \/ \E j \in 1..Len(q) : Append(q, e)[i] = q[j]
  <2> SUFFICES ASSUME NEW q \in Seq(Player!Calls)
               PROVE  /\ Append(q, e) \in Seq(Player!Calls)
                      /\ \A S : /\ Without(Append(q, e), S) <=> Without(q, S) /\ e \notin S
                                /\ Once(q, S) /\ (e \in S => Without(q, S)) => Once(Append(q, e), S)
                      /\ \A i \in 1..Len(Append(q, e)) :
                            Append(q, e)[i] = e \/ \E j \in 1..Len(q) : Append(q, e)[i] = q[j]
    OBVIOUS
  <2>1. \A S : /\ Without(Append(q, e), S) <=> Without(q, S) /\ e \notin S
               /\ Once(q, S) /\ (e \in S => Without(q, S)) => Once(Append(q, e), S)
    BY <1>6, WithoutAppend
  <2> DEFINE t == Append(q, e)
  <2>2. /\ t \in Seq(Player!Calls) /\ Len(q) \in Nat /\ Len(t) = Len(q) + 1
        /\ t[Len(q) + 1] = e /\ \A i \in 1..Len(q) : t[i] = q[i]
    BY <1>6, Grows
  <2> HIDE DEF t
  <2>3. \A i \in 1..Len(t) : t[i] = e \/ \E j \in 1..Len(q) : t[i] = q[j]
    BY <2>2
  <2> QED
    BY <2>1, <2>2, <2>3 DEF t
<1>10. \A d \in Players \union {"bus"} :
           /\ calls'[d] = IF d \in found THEN Append(calls[d], e) ELSE calls[d]
           /\ calls[d] \in Seq(Player!Calls)
  BY <1>2, <1>3
<1>11. calls' \in [Players \union {"bus"} -> Seq(Player!Calls)]
  <2>1. \A d \in Players \union {"bus"} : calls'[d] \in Seq(Player!Calls)
    BY <1>9, <1>10
  <2>2. calls' = [d \in Players \union {"bus"} |-> calls'[d]]
    BY <1>2, <1>3
  <2> QED
    BY ONLY <2>1, <2>2
<1>12. \A d \in Players \union {"bus"} : \A S :
           Without(calls'[d], S) <=> Without(calls[d], S) /\ (d \in found => e \notin S)
  BY <1>9, <1>10
<1>13. \A q, S : Without(q, S) => Once(q, S)
  BY DEF Without, Once
<1>14. e \in ScanCalls(g) /\ \A m : e \notin ListCalls(m) /\ e \notin StatusCalls(m)
                                     /\ e \notin PositionCalls(m)
  BY <1>6 DEF ListCalls, ScanCalls, StatusCalls, PositionCalls
<1>15. "bus" \in Players \union {"bus"} /\ "bus" \notin Players
  BY MpNumbers
<1>16. /\ Without(calls'["bus"], ListCalls(g))
       /\ \A p \in Players : /\ Without(calls'[p], ScanCalls(g)) <=> p \notin found
                             /\ Once(calls'[p], ScanCalls(g))
  <2>1. Without(calls'["bus"], ListCalls(g))
    BY <1>1, <1>12, <1>14, <1>15
  <2>2. \A p \in Players : Without(calls'[p], ScanCalls(g)) <=> p \notin found
    BY <1>1, <1>12, <1>14
  <2>3. \A p \in Players : Once(calls'[p], ScanCalls(g))
    BY <1>1, <1>9, <1>10, <1>13
  <2> QED
    BY <2>1, <2>2, <2>3
<1>17. \A p \in Players : ~Candidate(p)'
  BY <1>8 DEF Candidate
<1>18. ~Listing' /\ Joined' = found
  <2>1. ~Listing'
    BY <1>1, <1>8, <1>16 DEF Listing
  <2>2. \A p \in Players : p \in Joined' <=> p \in found
    BY <1>1, <1>8, <1>16, <1>17 DEF Joined
  <2>3. Joined' \subseteq Players
    BY DEF Joined
  <2> QED
    BY <1>5, <2>1, <2>2, <2>3
<1>19. MpListing'
  BY <1>1, <1>8, <1>13, <1>16, <1>18 DEF MpListing
<1>20. MpOnce'
  <2>1. Len(mp'.candidates) = 0
    BY <1>8
  <2> QED
    BY <1>1, <1>8, <1>13, <1>16, <1>17, <2>1 DEF MpOnce
<1>21. MpNames'
  <2> SUFFICES ASSUME Without(inbox', Owners)
               PROVE  /\ \A i \in 1..Len(inbox') : inbox'[i] \notin Lists(g)
                      /\ Joined' = Player!Names' /\ Player!Names' # {}
                      /\ mp'.expected = Player!Cardinality(Player!Names')
                      /\ ~(Len(mp'.candidates) >= mp'.expected)
    BY <1>8 DEF MpNames
  <2>1. Player!Names' = found
    BY <1>1 DEF Player!Names
  <2>2. ~(Len(mp'.candidates) >= mp'.expected)
    BY <1>7, <1>8
  <2> QED
    BY <1>1, <1>5, <1>8, <1>18, <2>1, <2>2 DEF Without, n
<1>22. MpMarks'
  <2>1. \A c, x : CallFits(mp', c, x) <=> CallFits(mp, c, x)
    BY <1>8 DEF CallFits
  <2>2. \A x : MessageFits(mp', x) <=> MessageFits(mp, x)
    BY <1>8 DEF MessageFits
  <2>3. ASSUME NEW d \in Players \union {"bus"}, NEW i \in 1..Len(calls'[d])
        PROVE  CallFits(mp', d, calls'[d][i])
    <3>1. (d \in found /\ calls'[d][i] = e) \/ \E j \in 1..Len(calls[d]) : calls'[d][i] = calls[d][j]
      <4>1. CASE d \in found
        <5>1. calls'[d] = Append(calls[d], e) /\ calls[d] \in Seq(Player!Calls)
          BY <1>10, <4>1
        <5>2. \A k \in 1..Len(Append(calls[d], e)) :
                  Append(calls[d], e)[k] = e \/ \E j \in 1..Len(calls[d]) : Append(calls[d], e)[k] = calls[d][j]
          BY <1>9, <5>1
        <5> QED
          BY <4>1, <5>1, <5>2
      <4>2. CASE d \notin found
        BY <1>10, <4>2
      <4> QED
        BY <4>1, <4>2
    <3>2. d \in found => CallFits(mp, d, e)
      BY <1>2, <1>5, <1>6, <1>14, <1>15 DEF CallFits
    <3> QED
      BY <2>1, <3>1, <3>2 DEF MpInv, MpMarks
  <2>4. \A i \in 1..Len(inbox') : \E j \in 1..Len(inbox) : inbox[j] = inbox'[i]
    BY MpHeard
  <2> QED
    BY <2>2, <2>3, <2>4 DEF MpInv, MpMarks
<1>23. /\ \A S : Without(inbox, S) <=> Head(inbox) \notin S /\ Without(inbox', S)
       /\ \A S, on, shown, now :
             LastWord(inbox, S, on, shown) /\ now = (IF Head(inbox) \in S THEN Head(inbox).playing ELSE shown)
                => LastWord(inbox', S, on, now)
  BY MpHeard
<1>24. Head(inbox) \notin Positions(mp.proxy) /\ \A q : Head(inbox) \notin Tells(mp.proxy, q)
  BY DEF Lists, Positions, Tells
<1>25. \A p \in Players : \A m : /\ Without(calls'[p], StatusCalls(m)) <=> Without(calls[p], StatusCalls(m))
                                 /\ Without(calls'[p], PositionCalls(m)) <=> Without(calls[p], PositionCalls(m))
  BY <1>12, <1>14
<1>26. MpTold'
  <2> SUFFICES ASSUME mp.player # Player!NoPlayer, mp.since = owner[mp.player], mp.since # 0
               PROVE  \/ ~Without(calls'[mp.player], StatusCalls(mp.proxy))
                      \/ LastWord(inbox', Tells(mp.proxy, mp.player), playing[mp.player], mp.playing)
    BY <1>8 DEF MpTold
  <2>1. \/ ~Without(calls[mp.player], StatusCalls(mp.proxy))
        \/ LastWord(inbox, Tells(mp.proxy, mp.player), playing[mp.player], mp.playing)
    BY DEF MpInv, MpTold
  <2>2. mp.player \in Players
    BY <1>2 DEF MpRecords
  <2> QED
    BY <1>23, <1>24, <1>25, <2>1, <2>2
<1>27. MpPolled'
  BY <1>8, <1>23, <1>24, <1>25 DEF MpInv, MpPolled
<1>28. MpPast'
  BY <1>8 DEF MpInv, MpPast
<1>29. Player!TypeOK'
  <2>1. Len(mp'.candidates) <= Player!Cardinality(Players)
    BY <1>8, MpNumbers
  <2>2. inbox' \in Seq(Player!Messages)
    BY MpHeard
  <2> QED
    BY <1>8, <1>11, <2>1, <2>2, MpTyped DEF Player!TypeOK, MpRecords, Player!Bus
<1> QED
  BY <1>19, <1>20, <1>21, <1>22, <1>26, <1>27, <1>28, <1>29 DEF MpInv

\* The chosen player is one of the candidates.
LEMMA MpPicked ==
    ASSUME NEW list \in Seq([name : Players, playing : BOOLEAN]), list # <<>>
    PROVE  \E i \in 1..Len(list) : Player!SelectPlayer(list) = list[i].name
<1> DEFINE on == {i \in DOMAIN list : list[i].playing}
<1>1. DOMAIN list = 1..Len(list) /\ Len(list) \in Nat /\ 1 \in 1..Len(list)
  BY EmptySeq
<1>2. CASE on = {}
  BY <1>1, <1>2 DEF Player!SelectPlayer
<1>3. CASE on # {}
  <2>1. on \subseteq Nat
    BY <1>1
  <2>2. \E m \in on : \A k \in on : m <= k
    BY <1>3, <2>1, Least
  <2> DEFINE first == CHOOSE i \in on : \A j \in on : i <= j
  <2>3. first \in on
    BY <2>2
  <2>4. Player!SelectPlayer(list) = list[first].name
    BY <1>3 DEF Player!SelectPlayer
  <2> HIDE DEF first
  <2> QED
    BY <1>1, <2>3, <2>4
<1> QED
  BY <1>2, <1>3

\* There are no more candidates than players.
LEMMA MpCandidates ==
    ASSUME NEW list \in Seq([name : Players, playing : BOOLEAN]),
           \A i, j \in 1..Len(list) : list[i].name = list[j].name => i = j
    PROVE  Len(list) <= Player!Cardinality(Players)
<1> DEFINE n == Len(list)
           f == [i \in 1..n |-> list[i].name]
<1>1. n \in Nat /\ \A i \in 1..n : list[i] \in [name : Players, playing : BOOLEAN]
  BY LenProperties, ElementOfSeq
<1>2. f \in [1..n -> Players] /\ \A i \in 1..n : f[i] = list[i].name
  BY <1>1
<1> HIDE DEF f
<1>3. f \in Injection(1..n, Players)
  BY <1>2 DEF Injection, IsInjective
<1>4. Cardinality(1..n) <= Cardinality(Players) /\ Cardinality(1..n) = n
  <2> HIDE DEF n
  <2>1. IsFiniteSet(Players)
    BY ServicesAssumption
  <2>2. Cardinality(1..n) <= Cardinality(Players)
    BY <1>3, <2>1, FS_Injection
  <2>3. PICK a \in Int, b \in Int : a = 1 /\ b = n
    BY <1>1
  <2>4. Cardinality(a..b) = IF a > b THEN 0 ELSE b - a + 1
    BY FS_Interval
  <2>5. Cardinality(1..n) = n
    BY <1>1, <2>3, <2>4
  <2> QED
    BY <2>2, <2>5
<1>5. Player!Cardinality(Players) = Cardinality(Players)
  BY DEF Player!Cardinality, Cardinality
<1> QED
  BY <1>4, <1>5

\* An answer to the scan: its player has become a candidate.
LEMMA MpGathers ==
    ASSUME MpInv, inbox # <<>>, inbox' = Tail(inbox), owner' = owner,
           NEW q \in Players, Head(inbox) \in Scans(mp.gen, q), NEW on \in BOOLEAN,
           mp'.gen = mp.gen, mp'.expected = mp.expected,
           mp'.candidates = Append(mp.candidates, [name |-> q, playing |-> on]),
           \A d \in Players \union {"bus"} : \A g :
               /\ Without(calls'[d], ListCalls(g)) <=> Without(calls[d], ListCalls(g))
               /\ Without(calls'[d], ScanCalls(g)) <=> Without(calls[d], ScanCalls(g))
               /\ Once(calls[d], ListCalls(g)) => Once(calls'[d], ListCalls(g))
               /\ Once(calls[d], ScanCalls(g)) => Once(calls'[d], ScanCalls(g)),
           mp.expected > 0 /\ Len(mp'.candidates) >= mp.expected =>
               /\ mp'.player \in Players
               /\ \E i \in 1..Len(mp'.candidates) : mp'.player = mp'.candidates[i].name
    PROVE  /\ MpListing' /\ MpOnce' /\ MpNames'
           /\ mp'.candidates \in Seq([name : Players, playing : BOOLEAN])
           /\ Len(mp'.candidates) <= Player!Cardinality(Players)
<1> DEFINE x == Head(inbox)
           g == mp.gen
           n == Len(mp.candidates)
<1>1. /\ \A S : /\ Without(inbox, S) <=> x \notin S /\ Without(inbox', S)
                /\ Once(inbox, S) => Once(inbox', S)
                /\ Once(inbox, S) /\ x \in S => Without(inbox', S)
  BY MpHeard
<1>2. /\ x \in Scans(g, q) /\ x \notin Owners /\ x \notin Lists(g)
      /\ \A p \in Players : p # q => x \notin Scans(g, p)
  BY DEF Scans, Owners, Lists
<1> HIDE DEF x
<1>3. ~Without(inbox, Scans(g, q))
  BY <1>1, <1>2
<1>4. /\ Without(calls[q], ScanCalls(g)) /\ Without(inbox', Scans(g, q)) /\ ~Candidate(q)
  BY <1>1, <1>2, <1>3 DEF MpInv, MpOnce
<1>5. q \in Joined /\ ~Listing
  <2>1. q \in Joined
    BY <1>3 DEF Joined
  <2> QED
    BY <2>1 DEF MpInv, MpListing
<1>6. /\ mp.candidates \in Seq([name : Players, playing : BOOLEAN])
      /\ [name |-> q, playing |-> on] \in [name : Players, playing : BOOLEAN]
      /\ mp.expected \in Nat
  BY MpTyped, MpNumbers DEF MpRecords
<1>7. /\ mp'.candidates \in Seq([name : Players, playing : BOOLEAN])
      /\ n \in Nat /\ Len(mp'.candidates) = n + 1
      /\ mp'.candidates[n + 1] = [name |-> q, playing |-> on]
      /\ \A i \in 1..n : mp'.candidates[i] = mp.candidates[i]
  BY <1>6, Grows
<1> HIDE DEF n
<1>8. /\ n + 1 \in 1..Len(mp'.candidates) /\ \A i \in 1..n : i \in 1..Len(mp'.candidates)
      /\ \A i \in 1..Len(mp'.candidates) : i = n + 1 \/ i \in 1..n
  BY <1>7
<1>9. \A p : Candidate(p)' <=> Candidate(p) \/ p = q
  <2>1. \A p : Candidate(p) <=> \E i \in 1..n : mp.candidates[i].name = p
    BY DEF Candidate, n
  <2>2. \A p : Candidate(p)' <=> \E i \in 1..Len(mp'.candidates) : mp'.candidates[i].name = p
    BY DEF Candidate
  <2>3. mp'.candidates[n + 1].name = q
    BY <1>7
  <2> QED
    BY <1>7, <1>8, <2>1, <2>2, <2>3
<1>10. \A i, j \in 1..Len(mp'.candidates) :
           mp'.candidates[i].name = mp'.candidates[j].name => i = j
  <2>1. \A i \in 1..n : mp.candidates[i].name # q
    BY <1>4 DEF Candidate, n
  <2>2. \A i, j \in 1..n : mp.candidates[i].name = mp.candidates[j].name => i = j
    BY DEF MpInv, MpOnce, n
  <2>3. mp'.candidates[n + 1].name = q
    BY <1>7
  <2> QED
    BY <1>7, <1>8, <2>1, <2>2, <2>3
<1>11. Len(mp'.candidates) <= Player!Cardinality(Players)
  BY <1>7, <1>10, MpCandidates
<1>12. "bus" \in Players \union {"bus"} /\ \A p \in Players : p \in Players \union {"bus"}
  OBVIOUS
<1>13. /\ Without(calls["bus"], ListCalls(g)) /\ Without(inbox, Lists(g))
       /\ Without(calls'["bus"], ListCalls(g)) /\ Without(inbox', Lists(g))
  <2>1. Without(calls["bus"], ListCalls(g)) /\ Without(inbox, Lists(g))
    BY <1>5 DEF Listing
  <2> QED
    BY <1>1, <1>12, <2>1
<1>14. ~Listing'
  BY <1>13 DEF Listing
<1>15. \A p \in Players : Without(calls'[p], ScanCalls(g)) <=> Without(calls[p], ScanCalls(g))
  BY <1>12
<1>16. Joined' = Joined
  <2>1. \A p \in Players : p \in Joined <=> \/ Candidate(p) \/ ~Without(calls[p], ScanCalls(g))
                                            \/ ~Without(inbox, Scans(g, p))
    BY DEF Joined
  <2>2. \A p \in Players : p \in Joined' <=> \/ Candidate(p)' \/ ~Without(calls'[p], ScanCalls(g))
                                             \/ ~Without(inbox', Scans(g, p))
    BY DEF Joined
  <2>3. \A p \in Players : p # q => (Without(inbox', Scans(g, p)) <=> Without(inbox, Scans(g, p)))
    BY <1>1, <1>2
  <2>4. \A p \in Players : p \in Joined' <=> p \in Joined
    BY <1>5, <1>9, <1>15, <2>1, <2>2, <2>3
  <2>5. Joined \subseteq Players /\ Joined' \subseteq Players
    BY DEF Joined
  <2> QED
    BY <2>4, <2>5
<1>17. MpListing'
  <2>1. Once(calls["bus"], ListCalls(g)) /\ Once(inbox, Lists(g))
    BY DEF MpInv, MpListing
  <2>2. Once(calls'["bus"], ListCalls(g)) /\ Once(inbox', Lists(g))
    BY <1>1, <1>12, <2>1
  <2> QED
    BY <1>13, <1>14, <2>2 DEF MpListing
<1>18. MpOnce'
  <2>1. ASSUME NEW p \in Players
        PROVE  /\ Once(calls'[p], ScanCalls(g)) /\ Once(inbox', Scans(g, p))
               /\ Without(calls'[p], ScanCalls(g)) \/ Without(inbox', Scans(g, p))
               /\ Candidate(p)' => /\ Without(calls'[p], ScanCalls(g))
                                   /\ Without(inbox', Scans(g, p))
    <3>1. /\ Once(calls[p], ScanCalls(g)) /\ Once(inbox, Scans(g, p))
          /\ Without(calls[p], ScanCalls(g)) \/ Without(inbox, Scans(g, p))
          /\ Candidate(p) => Without(calls[p], ScanCalls(g)) /\ Without(inbox, Scans(g, p))
      BY DEF MpInv, MpOnce
    <3>2. Once(calls'[p], ScanCalls(g)) /\ Once(inbox', Scans(g, p))
      BY <1>1, <1>12, <3>1
    <3>3. Without(inbox, Scans(g, p)) => Without(inbox', Scans(g, p))
      BY <1>1
    <3> QED
      BY <1>4, <1>9, <1>15, <3>1, <3>2, <3>3
  <2> QED
    BY <1>10, <2>1 DEF MpOnce
<1>19. MpNames'
  <2> SUFFICES ASSUME Without(inbox', Owners)
               PROVE  /\ \A i \in 1..Len(inbox') : inbox'[i] \notin Lists(g)
                      /\ Joined' = Player!Names' /\ Player!Names' # {}
                      /\ mp'.expected = Player!Cardinality(Player!Names')
                      /\ Len(mp'.candidates) >= mp'.expected => mp'.player \in Player!Names'
    BY DEF MpNames
  <2>1. Without(inbox, Owners)
    BY <1>1, <1>2
  <2>2. Joined = Player!Names /\ q \in Player!Names
        /\ mp.expected = Player!Cardinality(Player!Names)
    BY <1>5, <2>1 DEF MpInv, MpNames
  <2>3. Player!Names' = Player!Names
    BY DEF Player!Names
  <2>4. mp.expected > 0
    <3>1. Player!Names \subseteq Players
      BY DEF Player!Names
    <3>2. IsFiniteSet(Player!Names)
      BY <3>1, ServicesAssumption, FS_Subset
    <3>3. Cardinality(Player!Names) # 0
      BY <2>2, <3>2, FS_EmptySet
    <3>4. Player!Cardinality(Player!Names) = Cardinality(Player!Names)
      BY DEF Player!Cardinality, Cardinality
    <3> QED
      BY <1>6, <2>2, <3>3, <3>4
  <2>5. ASSUME Len(mp'.candidates) >= mp'.expected PROVE mp'.player \in Player!Names'
    <3>1. PICK p \in Players :
              p = mp'.player /\ \E i \in 1..Len(mp'.candidates) : p = mp'.candidates[i].name
      BY <2>4, <2>5
    <3>2. Candidate(p)'
      BY <3>1 DEF Candidate
    <3>3. p \in Joined'
      BY <3>2 DEF Joined
    <3> QED
      BY <1>16, <2>2, <2>3, <3>1, <3>3
  <2> QED
    BY <1>13, <1>16, <2>2, <2>3, <2>5 DEF Without
<1> QED
  BY <1>7, <1>11, <1>17, <1>18, <1>19

\* The record with one more candidate.
LEMMA MpGathered ==
    ASSUME MpInv, NEW q \in Players, NEW on \in BOOLEAN, NEW n,
           n = [mp EXCEPT !.candidates = Append(@, [name |-> q, playing |-> on])]
    PROVE  /\ n \in MpRecords /\ n.candidates = Append(mp.candidates, [name |-> q, playing |-> on])
           /\ n.candidates \in Seq([name : Players, playing : BOOLEAN]) /\ n.candidates # <<>>
           /\ n.player = mp.player /\ n.proxy = mp.proxy /\ n.since = mp.since
           /\ n.playing = mp.playing /\ n.gen = mp.gen /\ n.expected = mp.expected
           /\ n.polled = mp.polled /\ n.inflight = mp.inflight
           /\ \A i \in 1..Len(n.candidates) : n.candidates[i].name \in Players
<1> DEFINE t == Append(mp.candidates, [name |-> q, playing |-> on])
<1>1. /\ mp \in MpRecords /\ mp.candidates \in Seq([name : Players, playing : BOOLEAN])
      /\ [name |-> q, playing |-> on] \in [name : Players, playing : BOOLEAN]
  BY MpTyped DEF MpRecords
<1>2. /\ t \in Seq([name : Players, playing : BOOLEAN]) /\ Len(mp.candidates) \in Nat
      /\ Len(t) = Len(mp.candidates) + 1
  BY <1>1, Grows
<1>3. n = [mp EXCEPT !.candidates = t]
  OBVIOUS
<1> HIDE DEF t
<1>4. n \in MpRecords /\ n.candidates = t
  BY ONLY <1>1, <1>2, <1>3 DEF MpRecords
<1>5. /\ n.player = mp.player /\ n.proxy = mp.proxy /\ n.since = mp.since
      /\ n.playing = mp.playing /\ n.gen = mp.gen /\ n.expected = mp.expected
      /\ n.polled = mp.polled /\ n.inflight = mp.inflight
  BY ONLY <1>1, <1>3 DEF MpRecords
<1>6. t # <<>>
  BY <1>2
<1>7. \A i \in 1..Len(t) : t[i] \in [name : Players, playing : BOOLEAN]
  BY <1>2, ElementOfSeq
<1> QED
  BY <1>2, <1>4, <1>5, <1>6, <1>7 DEF t

LEMMA MpGatheredKeeps ==
    ASSUME MpInv, inbox # <<>>, inbox' = Tail(inbox), UNCHANGED <<owner, playing, calls, mpWork>>,
           NEW q \in Players, Head(inbox) \in Scans(mp.gen, q), NEW on \in BOOLEAN,
           mp' = [mp EXCEPT !.candidates = Append(@, [name |-> q, playing |-> on])],
           mp.expected > 0 /\ Len(mp'.candidates) >= mp.expected =>
               \E i \in 1..Len(mp'.candidates) : mp.player = mp'.candidates[i].name
    PROVE  MpInv'
<1> DEFINE x == Head(inbox)
<1>1. /\ mp' \in MpRecords
      /\ mp'.candidates = Append(mp.candidates, [name |-> q, playing |-> on])
      /\ mp'.player = mp.player /\ mp'.proxy = mp.proxy /\ mp'.since = mp.since
      /\ mp'.playing = mp.playing /\ mp'.gen = mp.gen /\ mp'.expected = mp.expected
      /\ mp'.polled = mp.polled /\ mp'.inflight = mp.inflight
      /\ \A i \in 1..Len(mp'.candidates) : mp'.candidates[i].name \in Players
  BY MpGathered
<1>2. /\ MpListing' /\ MpOnce' /\ MpNames'
      /\ Len(mp'.candidates) <= Player!Cardinality(Players)
  <2>1. mp.expected > 0 /\ Len(mp'.candidates) >= mp.expected =>
            /\ mp'.player \in Players
            /\ \E i \in 1..Len(mp'.candidates) : mp'.player = mp'.candidates[i].name
    BY <1>1
  <2>2. \A d \in Players \union {"bus"} : \A g :
            /\ Without(calls'[d], ListCalls(g)) <=> Without(calls[d], ListCalls(g))
            /\ Without(calls'[d], ScanCalls(g)) <=> Without(calls[d], ScanCalls(g))
            /\ Once(calls[d], ListCalls(g)) => Once(calls'[d], ListCalls(g))
            /\ Once(calls[d], ScanCalls(g)) => Once(calls'[d], ScanCalls(g))
    OBVIOUS
  <2>3. mp'.gen = mp.gen /\ mp'.expected = mp.expected /\ owner' = owner
        /\ mp'.candidates = Append(mp.candidates, [name |-> q, playing |-> on])
    BY <1>1
  <2> QED
    BY <2>1, <2>2, <2>3, MpGathers
<1>3. /\ inbox' \in Seq(Player!Messages)
      /\ \A S : /\ Without(inbox, S) <=> x \notin S /\ Without(inbox', S)
      /\ \A S, on1, shown, now :
            LastWord(inbox, S, on1, shown) /\ now = (IF x \in S THEN x.playing ELSE shown)
               => LastWord(inbox', S, on1, now)
      /\ \A i \in 1..Len(inbox') : \E j \in 1..Len(inbox) : inbox[j] = inbox'[i]
  BY MpHeard
<1>4. x \notin Positions(mp.proxy) /\ \A p : x \notin Tells(mp.proxy, p)
  BY DEF Scans, Positions, Tells
<1> HIDE DEF x
<1>5. MpMarks'
  <2>1. \A c, y : CallFits(mp', c, y) <=> CallFits(mp, c, y)
    BY <1>1 DEF CallFits
  <2>2. \A y : MessageFits(mp', y) <=> MessageFits(mp, y)
    BY <1>1 DEF MessageFits
  <2> QED
    BY <1>3, <2>1, <2>2 DEF MpInv, MpMarks
<1>6. MpTold'
  <2> SUFFICES ASSUME mp.player # Player!NoPlayer, mp.since = owner[mp.player], mp.since # 0
               PROVE  \/ ~Without(calls[mp.player], StatusCalls(mp.proxy))
                      \/ LastWord(inbox', Tells(mp.proxy, mp.player), playing[mp.player], mp.playing)
    BY <1>1 DEF MpTold
  <2>1. \/ ~Without(calls[mp.player], StatusCalls(mp.proxy))
        \/ LastWord(inbox, Tells(mp.proxy, mp.player), playing[mp.player], mp.playing)
    BY DEF MpInv, MpTold
  <2> QED
    BY <1>3, <1>4, <2>1
<1>7. MpPolled'
  <2> SUFFICES ASSUME mp.inflight, mp.polled = mp.proxy
               PROVE  /\ mp.player \in Players
                      /\ \/ ~Without(calls[mp.player], PositionCalls(mp.proxy))
                         \/ ~Without(inbox', Positions(mp.proxy))
    BY <1>1 DEF MpPolled
  <2> QED
    BY <1>3, <1>4 DEF MpInv, MpPolled
<1>8. MpPast'
  BY <1>1 DEF MpInv, MpPast
<1>9. Player!TypeOK'
  BY <1>1, <1>2, <1>3, MpTyped DEF Player!TypeOK, MpRecords, Player!Bus
<1> QED
  BY <1>2, <1>5, <1>6, <1>7, <1>8, <1>9 DEF MpInv

\* A scan that is complete and whose choice is a new player.
LEMMA MpChosenKeeps ==
    ASSUME MpInv, inbox # <<>>, inbox' = Tail(inbox), UNCHANGED <<owner, playing, mpWork>>,
           NEW q \in Players, Head(inbox) \in Scans(mp.gen, q), NEW on \in BOOLEAN, NEW n,
           n = [mp EXCEPT !.candidates = Append(@, [name |-> q, playing |-> on])],
           NEW i \in 1..Len(n.candidates), NEW pick, pick = n.candidates[i].name,
           mp' = [n EXCEPT !.player = pick, !.proxy = @ + 1, !.since = owner[pick]],
           calls' = [calls EXCEPT ![pick] = Append(@, Player!Call("status", mp.proxy + 1))]
    PROVE  MpInv'
<1> DEFINE x == Head(inbox)
           e == Player!Call("status", mp.proxy + 1)
<1>1. /\ n \in MpRecords
      /\ n.candidates = Append(mp.candidates, [name |-> q, playing |-> on])
      /\ n.proxy = mp.proxy /\ n.gen = mp.gen /\ n.expected = mp.expected
      /\ n.polled = mp.polled /\ pick \in Players
  BY MpGathered
<1>2. mp.proxy \in Nat /\ owner[pick] \in 0..(MaxOwners + 1) /\ owner[pick] <= mpWork.owners + 1
  BY <1>1, MpTyped DEF MpRecords, MpInv, MpPast
<1>3. /\ mp' \in MpRecords /\ mp'.player = pick /\ mp'.proxy = n.proxy + 1
      /\ mp'.since = owner[pick] /\ mp'.gen = n.gen /\ mp'.expected = n.expected
      /\ mp'.candidates = n.candidates /\ mp'.polled = n.polled
  <2>1. n.proxy + 1 \in Nat /\ pick \in Players \union {Player!NoPlayer}
    BY <1>1, <1>2
  <2>2. n \in MpRecords
    BY <1>1
  <2>3. mp' = [n EXCEPT !.player = pick, !.proxy = @ + 1, !.since = owner[pick]]
    OBVIOUS
  <2>4. owner[pick] \in 0..(MaxOwners + 1)
    BY <1>2
  <2>5. mp' \in MpRecords
    BY ONLY <2>1, <2>2, <2>3, <2>4 DEF MpRecords
  <2>6. /\ mp'.player = pick /\ mp'.proxy = n.proxy + 1
        /\ mp'.since = owner[pick] /\ mp'.gen = n.gen /\ mp'.expected = n.expected
        /\ mp'.candidates = n.candidates /\ mp'.polled = n.polled
    BY ONLY <2>2, <2>3 DEF MpRecords
  <2> QED
    BY <2>5, <2>6
<1>4. e \in Player!Calls /\ e.op = "status" /\ e.mark = mp'.proxy
  BY <1>1, <1>2, <1>3 DEF Player!Call, Player!Calls, Player!Called
<1>5. calls' = [calls EXCEPT ![pick] = Append(@, e)]
  OBVIOUS
<1> HIDE DEF x, e
<1>6. /\ calls' \in [Players \union {"bus"} -> Seq(Player!Calls)]
      /\ \A d \in Players \union {"bus"} : \A S :
           /\ Without(calls'[d], S) <=> Without(calls[d], S) /\ (d = pick => e \notin S)
           /\ Once(calls[d], S) /\ (d = pick /\ e \in S => Without(calls[d], S))
                 => Once(calls'[d], S)
      /\ \A d \in Players \union {"bus"} : \A k \in 1..Len(calls'[d]) :
           \/ d = pick /\ calls'[d][k] = e
           \/ \E j \in 1..Len(calls[d]) : calls'[d][k] = calls[d][j]
  <2>1. PICK c \in Players \union {"bus"} : c = pick
    BY <1>1
  <2>2. calls' = [calls EXCEPT ![c] = Append(@, e)]
    BY <1>5, <2>1
  <2>3. e \in Player!Calls
    BY <1>4
  <2>4. /\ calls' \in [Players \union {"bus"} -> Seq(Player!Calls)]
        /\ \A d \in Players \union {"bus"} : \A S :
             /\ Without(calls'[d], S) <=> Without(calls[d], S) /\ (d = c => e \notin S)
             /\ Once(calls[d], S) /\ (d = c /\ e \in S => Without(calls[d], S))
                   => Once(calls'[d], S)
        /\ \A d \in Players \union {"bus"} : \A k \in 1..Len(calls'[d]) :
             \/ d = c /\ calls'[d][k] = e
             \/ \E j \in 1..Len(calls[d]) : calls'[d][k] = calls[d][j]
    BY ONLY MpInv, <2>2, <2>3, MpCalled
  <2> QED
    BY ONLY <2>1, <2>4
<1>7. \A g : e \notin ListCalls(g) /\ e \notin ScanCalls(g)
  BY <1>4 DEF ListCalls, ScanCalls
<1>8. /\ MpListing' /\ MpOnce' /\ MpNames'
      /\ Len(mp'.candidates) <= Player!Cardinality(Players)
  <2>1. mp.expected > 0 /\ Len(mp'.candidates) >= mp.expected =>
            /\ mp'.player \in Players
            /\ \E k \in 1..Len(mp'.candidates) : mp'.player = mp'.candidates[k].name
    BY <1>1, <1>3
  <2>2. \A d \in Players \union {"bus"} : \A g :
            /\ Without(calls'[d], ListCalls(g)) <=> Without(calls[d], ListCalls(g))
            /\ Without(calls'[d], ScanCalls(g)) <=> Without(calls[d], ScanCalls(g))
            /\ Once(calls[d], ListCalls(g)) => Once(calls'[d], ListCalls(g))
            /\ Once(calls[d], ScanCalls(g)) => Once(calls'[d], ScanCalls(g))
    BY <1>6, <1>7
  <2>3. mp'.gen = mp.gen /\ mp'.expected = mp.expected /\ owner' = owner
        /\ mp'.candidates = Append(mp.candidates, [name |-> q, playing |-> on])
    BY <1>1, <1>3
  <2> QED
    BY <2>1, <2>2, <2>3, MpGathers
<1>9. MpMarks'
  <2>1. mp'.gen = mp.gen /\ mp'.proxy = mp.proxy + 1
    BY <1>1, <1>3
  <2>2. /\ \A d \in Players \union {"bus"} : \A k \in 1..Len(calls[d]) :
               CallFits(mp', d, calls[d][k])
        /\ \A k \in 1..Len(inbox) : MessageFits(mp', inbox[k])
    BY <2>1, MpReplaced
  <2>3. \A k \in 1..Len(inbox') : \E j \in 1..Len(inbox) : inbox[j] = inbox'[k]
    BY MpHeard
  <2>4. CallFits(mp', pick, e)
    <3>1. mp'.proxy \in Nat /\ pick # "bus"
      BY <1>1, <1>2, <2>1, MpNumbers
    <3> QED
      BY <1>3, <1>4, <3>1 DEF CallFits
  <2>5. ASSUME NEW d \in Players \union {"bus"}, NEW k \in 1..Len(calls'[d])
        PROVE  CallFits(mp', d, calls'[d][k])
    <3>1. (d = pick /\ calls'[d][k] = e) \/ \E j \in 1..Len(calls[d]) : calls'[d][k] = calls[d][j]
      BY ONLY <1>6
    <3> QED
      BY ONLY <2>2, <2>4, <3>1
  <2>6. \A k \in 1..Len(inbox') : MessageFits(mp', inbox'[k])
    BY ONLY <2>2, <2>3
  <2> QED
    BY ONLY <2>5, <2>6 DEF MpMarks
<1>10. MpTold'
  <2>1. e \in StatusCalls(mp'.proxy)
    BY <1>4 DEF StatusCalls
  <2>2. ~Without(calls'[pick], StatusCalls(mp'.proxy))
    BY <1>1, <1>6, <2>1
  <2> QED
    BY <1>3, <2>2 DEF MpTold
<1>11. MpPast' /\ MpPolled'
  <2>1. mp.polled \in Nat /\ mp.polled <= mp.proxy
    BY MpTyped DEF MpRecords, MpInv, MpPast
  <2>2. mp'.polled <= mp'.proxy /\ mp'.polled # mp'.proxy
    BY <1>1, <1>2, <1>3, <2>1
  <2> QED
    BY <1>2, <1>3, <2>2 DEF MpInv, MpPast, MpPolled
<1>12. Player!TypeOK'
  <2>1. inbox' \in Seq(Player!Messages)
    BY MpHeard
  <2> QED
    BY <1>3, <1>6, <1>8, <2>1, MpTyped DEF Player!TypeOK, MpRecords, Player!Bus
<1> QED
  BY <1>8, <1>9, <1>10, <1>11, <1>12 DEF MpInv

\* An answer to the scan under way.
LEMMA MpScannedKeeps ==
    ASSUME MpInv, inbox # <<>>, inbox' = Tail(inbox), UNCHANGED <<owner, playing, mpWork>>,
           Head(inbox).op = "scan", Head(inbox).mark = mp.gen, Player!ScanCollect(Head(inbox))
    PROVE  MpInv'
<1> DEFINE x == Head(inbox)
           q == x.from
<1>1. x \in Player!Messages /\ q \in Players
  BY MpHeard DEF MessageFits
<1>2. PICK on \in BOOLEAN : on = (~x.err /\ x.playing)
  BY <1>1 DEF Player!Messages
<1> DEFINE n == [mp EXCEPT !.candidates = Append(@, [name |-> q, playing |-> on])]
<1>3. IF n.expected > 0 /\ Len(n.candidates) >= n.expected THEN Player!FinishScan(n)
      ELSE mp' = n /\ UNCHANGED calls
  BY <1>2 DEF Player!ScanCollect
<1>4. x \in Scans(mp.gen, q)
  BY <1>1 DEF Scans
<1>5. n = [mp EXCEPT !.candidates = Append(@, [name |-> q, playing |-> on])]
  OBVIOUS
<1> HIDE DEF q, n
<1>6. /\ n.candidates \in Seq([name : Players, playing : BOOLEAN]) /\ n.candidates # <<>>
      /\ n.player = mp.player /\ n.proxy = mp.proxy /\ n.expected = mp.expected
  BY <1>1, <1>5, MpGathered
<1>7. PICK i \in 1..Len(n.candidates) : Player!SelectPlayer(n.candidates) = n.candidates[i].name
  BY <1>6, MpPicked
<1>8. ASSUME mp' = n, UNCHANGED calls,
             mp.expected > 0 /\ Len(n.candidates) >= mp.expected => mp.player = n.candidates[i].name
      PROVE  MpInv'
  <2>1. mp' = [mp EXCEPT !.candidates = Append(@, [name |-> q, playing |-> on])]
    BY <1>5, <1>8
  <2>2. mp.expected > 0 /\ Len(mp'.candidates) >= mp.expected =>
            \E k \in 1..Len(mp'.candidates) : mp.player = mp'.candidates[k].name
    BY <1>8
  <2>3. UNCHANGED <<owner, playing, calls, mpWork>>
    BY <1>8
  <2> QED
    BY <1>1, <1>4, <2>1, <2>2, <2>3, MpGatheredKeeps
<1>9. CASE ~(n.expected > 0 /\ Len(n.candidates) >= n.expected)
  BY <1>3, <1>6, <1>8, <1>9
<1>10. CASE n.expected > 0 /\ Len(n.candidates) >= n.expected
  <2> DEFINE pick == Player!SelectPlayer(n.candidates)
  <2>1. pick = n.candidates[i].name
    BY <1>7
  <2>2. Player!FinishScan(n)
    BY <1>3, <1>10
  <2>3. IF pick # n.player THEN Player!SubscribePlayer(n, pick) ELSE mp' = n /\ UNCHANGED calls
    BY <1>6, <2>2 DEF Player!FinishScan
  <2> HIDE DEF pick
  <2>4. CASE pick # n.player
    <3>1. mp' = [n EXCEPT !.player = pick, !.proxy = @ + 1, !.since = owner[pick]]
      BY <2>3, <2>4 DEF Player!SubscribePlayer
    <3>2. calls' = [calls EXCEPT ![pick] = Append(@, Player!Call("status", mp.proxy + 1))]
      BY <1>6, <2>3, <2>4 DEF Player!SubscribePlayer, Player!CallPlayer
    <3> QED
      BY <1>1, <1>4, <1>5, <2>1, <3>1, <3>2, MpChosenKeeps
  <2>5. CASE pick = n.player
    BY <1>6, <1>8, <2>1, <2>3, <2>5
  <2> QED
    BY <2>4, <2>5
<1> QED
  BY <1>9, <1>10

LEMMA MpHearKeeps ==
    ASSUME MpInv, Player!Hear
    PROVE  MpInv'
<1> DEFINE x == Head(inbox)
<1>1. /\ inbox # <<>> /\ inbox' = Tail(inbox) /\ UNCHANGED <<owner, playing, mpWork>>
      /\ \/ x.op = "owner" /\ Player!NameOwnerChanged
         \/ x.op = "list" /\ Player!HearNames(x)
         \/ x.op = "scan" /\ Player!ScanCollect(x)
         \/ x.op = "status" /\ Player!HearStatus(x)
         \/ x.op = "changed" /\ Player!PropertiesChanged(x)
         \/ x.op = "position" /\ Player!HearPosition(x)
         \/ x.op = "toggle" /\ UNCHANGED <<mp, calls>>
  BY DEF Player!Hear
<1>2. x \in Player!Messages /\ MessageFits(mp, x)
  BY <1>1, MpHeard
<1>3. mp \in MpRecords /\ Player!NoPlayer \notin Players \union {"bus"}
  BY MpTyped, MpNumbers
<1>4. CASE x.op = "owner" /\ Player!NameOwnerChanged
  BY <1>1, <1>4, MpOwnerHeardKeeps
<1>5. ASSUME x.op \in {"list", "scan"} => x.mark # mp.gen, UNCHANGED <<mp, calls>>,
             x.op \in {"list", "scan", "toggle"}
      PROVE  MpInv'
  <2>1. /\ x.op # "owner" /\ x \notin Lists(mp.gen) /\ \A p \in Players : x \notin Scans(mp.gen, p)
        /\ x \notin Tells(mp.proxy, mp.player) /\ x \notin Positions(mp.proxy)
    BY <1>5 DEF Lists, Scans, Tells, Positions
  <2>2. SameScan
    BY <1>5 DEF SameScan
  <2>3. mp' \in MpRecords /\ mp'.polled = mp.polled /\ UNCHANGED <<owner, playing, calls, mpWork>>
    BY <1>1, <1>3, <1>5
  <2>4. mp'.playing = mp.playing /\ mp'.inflight = mp.inflight
    BY <1>5
  <2> HIDE DEF x
  <2> QED
    BY <1>1, <2>1, <2>2, <2>3, <2>4, MpPlainKeeps DEF x
<1>6. CASE x.op = "list" /\ Player!HearNames(x)
  <2>1. CASE x.mark # mp.gen
    BY <1>5, <1>6, <2>1 DEF Player!HearNames
  <2>2. CASE x.mark = mp.gen
    <3>1. x \in Lists(mp.gen)
      BY <1>2, <1>6, <2>2 DEF Lists
    <3>2. CASE x.names = {}
      BY <1>1, <1>6, <3>1, <3>2, MpNobodyKeeps
    <3>3. CASE x.names # {}
      BY <1>1, <1>6, <3>1, <3>3, MpAskedKeeps
    <3> QED
      BY <3>2, <3>3
  <2> QED
    BY <2>1, <2>2
<1>7. CASE x.op = "scan" /\ Player!ScanCollect(x)
  <2>1. CASE x.mark # mp.gen
    BY <1>5, <1>7, <2>1 DEF Player!ScanCollect
  <2>2. CASE x.mark = mp.gen
    BY <1>1, <1>7, <2>2, MpScannedKeeps
  <2> QED
    BY <2>1, <2>2
<1>8. ASSUME x.op \in {"status", "changed"}, UNCHANGED calls,
             mp' = IF x \in Tells(mp.proxy, mp.player) THEN [mp EXCEPT !.playing = x.playing] ELSE mp,
             x \in Tells(mp.proxy, mp.player) => mp.player # Player!NoPlayer
      PROVE  MpInv'
  <2>1. /\ x.op # "owner" /\ x \notin Lists(mp.gen) /\ \A p \in Players : x \notin Scans(mp.gen, p)
        /\ x \notin Positions(mp.proxy)
    BY <1>8 DEF Lists, Scans, Positions
  <2>2. x.playing \in BOOLEAN
    BY <1>2 DEF Player!Messages
  <2> HIDE DEF x
  <2>3. /\ mp' \in MpRecords /\ SameScan /\ mp'.polled = mp.polled /\ mp'.inflight = mp.inflight
        /\ mp'.playing = IF x \in Tells(mp.proxy, mp.player) THEN x.playing ELSE mp.playing
    <3>1. CASE x \in Tells(mp.proxy, mp.player)
      <4>1. mp' = [mp EXCEPT !.playing = x.playing] /\ mp.player # Player!NoPlayer
        BY <1>8, <3>1
      <4>2. mp' \in MpRecords /\ mp'.playing = x.playing
        BY ONLY <1>3, <2>2, <4>1 DEF MpRecords
      <4>3. SameScan /\ mp'.polled = mp.polled /\ mp'.inflight = mp.inflight
        BY ONLY <1>3, <4>1 DEF MpRecords, SameScan
      <4> QED
        BY <3>1, <4>2, <4>3
    <3>2. CASE x \notin Tells(mp.proxy, mp.player)
      BY <1>3, <1>8, <3>2 DEF SameScan
    <3> QED
      BY <3>1, <3>2
  <2>4. UNCHANGED <<owner, playing, calls, mpWork>>
    BY <1>1, <1>8
  <2> QED
    BY <1>1, <2>1, <2>3, <2>4, MpPlainKeeps DEF x
<1>9. CASE x.op = "status" /\ Player!HearStatus(x)
  <2>1. x \in Tells(mp.proxy, mp.player) <=> x.mark = mp.proxy /\ ~x.err
    BY <1>2, <1>9 DEF Tells
  <2>2. x \in Tells(mp.proxy, mp.player) => mp.player # Player!NoPlayer
    BY <1>2, <1>9, <2>1 DEF MessageFits, Statuses
  <2> QED
    BY <1>8, <1>9, <2>1, <2>2 DEF Player!HearStatus
<1>10. CASE x.op = "changed" /\ Player!PropertiesChanged(x)
  <2>1. x \in Tells(mp.proxy, mp.player) <=> x.from = mp.player
    BY <1>2, <1>10 DEF Tells
  <2>2. x.from # Player!NoPlayer
    BY <1>2, <1>3 DEF Player!Messages, Player!Bus
  <2> QED
    BY <1>8, <1>10, <2>1, <2>2 DEF Player!PropertiesChanged
<1>11. CASE x.op = "position" /\ Player!HearPosition(x)
  <2>1. /\ x.op # "owner" /\ x \notin Lists(mp.gen) /\ \A p \in Players : x \notin Scans(mp.gen, p)
        /\ x \notin Tells(mp.proxy, mp.player)
        /\ x \in Positions(mp.proxy) <=> x.mark = mp.proxy
    BY <1>2, <1>11 DEF Lists, Scans, Tells, Positions
  <2> HIDE DEF x
  <2>2. /\ mp' \in MpRecords /\ SameScan /\ mp'.polled = mp.polled /\ mp'.playing = mp.playing
        /\ mp'.inflight => mp.inflight /\ x \notin Positions(mp.proxy)
    <3>1. CASE x.mark = mp.proxy
      <4>1. mp' = [mp EXCEPT !.inflight = FALSE]
        BY <1>11, <3>1 DEF Player!HearPosition
      <4> QED
        BY ONLY <1>3, <4>1 DEF MpRecords, SameScan
    <3>2. CASE x.mark # mp.proxy
      BY <1>3, <1>11, <2>1, <3>2 DEF Player!HearPosition, SameScan
    <3> QED
      BY <3>1, <3>2
  <2>3. UNCHANGED <<owner, playing, calls, mpWork>>
    BY <1>1, <1>11 DEF Player!HearPosition
  <2> QED
    BY <1>1, <2>1, <2>2, <2>3, MpPlainKeeps DEF x
<1>12. CASE x.op = "toggle" /\ UNCHANGED <<mp, calls>>
  BY <1>5, <1>12
<1> QED
  BY <1>1, <1>4, <1>6, <1>7, <1>9, <1>10, <1>11, <1>12

LEMMA MpInitially == Player!Init => MpInv
<1> SUFFICES ASSUME Player!Init PROVE MpInv
  OBVIOUS
<1> DEFINE e == Player!Call("list", 1)
<1>1. /\ owner \in [Players -> {0, 1}] /\ playing \in [Players -> BOOLEAN]
      /\ mp = Player!BeginScan(Player!Blank) /\ inbox = <<>>
      /\ calls = [c \in Players \union {"bus"} |-> IF c = "bus" THEN <<e>> ELSE <<>>]
      /\ mpWork = [owners |-> 0, toggles |-> 0]
  BY DEF Player!Init, Player!Bus
<1>2. e \in Player!Calls /\ e.op = "list" /\ e.mark = 1
  BY DEF Player!Call, Player!Calls, Player!Called
<1> HIDE DEF e
<1>3. /\ mp.player = Player!NoPlayer /\ mp.proxy = 0 /\ mp.since = 0 /\ mp.playing = FALSE
      /\ mp.gen = 1 /\ mp.expected = 0 /\ mp.candidates = <<>> /\ mp.inflight = FALSE /\ mp.polled = 0
  BY <1>1 DEF Player!BeginScan, Player!Blank
<1>4. mp \in MpRecords
  <2>1. <<>> \in Seq([name : Players, playing : BOOLEAN]) /\ 0 \in 0..Player!Cardinality(Players)
        /\ 0 \in 0..(MaxOwners + 1)
    BY MpNumbers
  <2>2. mp = [player |-> Player!NoPlayer, proxy |-> 0, since |-> 0, playing |-> FALSE,
              gen |-> 1, expected |-> 0, candidates |-> <<>>, inflight |-> FALSE, polled |-> 0]
    <3> DEFINE b == Player!Blank
    <3>1. mp = [b EXCEPT !.gen = @ + 1, !.expected = 0, !.candidates = <<>>]
      BY <1>1 DEF Player!BeginScan
    <3>2. b = [player |-> Player!NoPlayer, proxy |-> 0, since |-> 0, playing |-> FALSE,
               gen |-> 0, expected |-> 0, candidates |-> <<>>, inflight |-> FALSE, polled |-> 0]
      BY DEF Player!Blank
    <3>3. b.gen + 1 = 1
      BY <3>2
    <3> HIDE DEF b
    <3> QED
      BY ONLY <3>1, <3>2, <3>3
  <2> QED
    BY <2>1, <2>2 DEF MpRecords
<1>5. "bus" \notin Players
  BY MpNumbers
<1>6. /\ \A p \in Players : calls[p] = <<>>
      /\ calls["bus"] = <<e>> /\ Len(calls["bus"]) = 1 /\ calls["bus"][1] = e
  BY <1>1, <1>5
<1>7. \A S : Without(<<>>, S) /\ Once(<<>>, S) /\ Once(calls["bus"], S)
  BY <1>6 DEF Without, Once
<1>8. calls \in [Players \union {"bus"} -> Seq(Player!Calls)]
  <2>1. <<e>> \in Seq(Player!Calls) /\ <<>> \in Seq(Player!Calls)
    BY <1>2
  <2> HIDE DEF e
  <2> QED
    BY <1>1, <2>1
<1>9. ~Without(calls["bus"], ListCalls(1))
  BY <1>2, <1>6 DEF Without, ListCalls
<1>10. Listing /\ Joined = {}
  <2>1. Listing
    BY <1>3, <1>9 DEF Listing
  <2>2. \A p \in Players : p \notin Joined
    BY <1>1, <1>3, <1>6, <1>7 DEF Joined, Candidate
  <2>3. Joined \subseteq Players
    BY DEF Joined
  <2> QED
    BY <2>1, <2>2, <2>3
<1>11. MpListing
  BY <1>1, <1>3, <1>7, <1>10 DEF MpListing
<1>12. MpOnce
  BY <1>1, <1>3, <1>6, <1>7 DEF MpOnce, Candidate
<1>13. MpNames
  BY <1>1, <1>10 DEF MpNames
<1>14. MpMarks
  <2>1. CallFits(mp, "bus", e)
    BY <1>2, <1>3 DEF CallFits, StatusCalls
  <2>2. \A c \in Players \union {"bus"} : \A i \in 1..Len(calls[c]) : c = "bus" /\ calls[c][i] = e
    BY <1>6
  <2> QED
    BY <1>1, <2>1, <2>2 DEF MpMarks
<1>15. MpTold /\ MpPolled
  BY <1>3 DEF MpTold, MpPolled
<1>16. MpPast
  BY <1>1, <1>3 DEF MpPast
<1>17. Player!TypeOK
  <2>1. Len(mp.candidates) <= Player!Cardinality(Players)
    BY <1>3, MpNumbers
  <2>2. owner \in [Players -> 0..(MaxOwners + 1)]
    BY <1>1, MpNumbers
  <2>3. mpWork \in [owners : 0..MaxOwners, toggles : 0..MaxToggles]
    BY <1>1, MpNumbers
  <2> QED
    BY <1>1, <1>4, <1>8, <2>1, <2>2, <2>3 DEF Player!TypeOK, MpRecords, Player!Bus
<1> QED
  BY <1>11, <1>12, <1>13, <1>14, <1>15, <1>16, <1>17 DEF MpInv

LEMMA MpStep == MpInv /\ Player!Next => MpInv'
<1> SUFFICES ASSUME MpInv, Player!Next PROVE MpInv'
  OBVIOUS
<1>1. CASE Player!Hear
  BY <1>1, MpHearKeeps
<1>2. CASE Player!PollPosition \/ Player!PlayPause
  BY <1>2, MpRequestKeeps
<1>3. CASE Player!BusAnswers
  BY <1>3, MpBusAnswersKeeps
<1>4. ASSUME NEW p \in Players, Player!PlayerAnswers(p) PROVE MpInv'
  BY <1>4, MpAnswersKeeps, MpPlayPausedKeeps
<1>5. ASSUME NEW p \in Players, Player!PlayerToggles(p) PROVE MpInv'
  BY <1>5, MpTogglesKeeps
<1>6. ASSUME NEW p \in Players, Player!PlayerStarts(p) PROVE MpInv'
  BY <1>6, MpStartsKeeps
<1>7. ASSUME NEW p \in Players, Player!PlayerExits(p) PROVE MpInv'
  BY <1>7, MpExitsKeeps
<1> QED
  BY <1>1, <1>2, <1>3, <1>4, <1>5, <1>6, <1>7 DEF Player!Next

LEMMA MpStays == MpInv /\ UNCHANGED mpVars => MpInv'
  BY DEF mpVars, MpInv, Player!TypeOK, MpMarks, MpListing, MpOnce, MpNames, MpTold, MpPast,
         MpPolled, Listing, Joined, Candidate, Player!Names

\* At rest every player that is there has answered the last scan.
LEMMA MpSettled == MpInv => Player!Settles /\ Player!PollAnswered
<1> SUFFICES ASSUME MpInv PROVE Player!Settles /\ Player!PollAnswered
  OBVIOUS
<1>1. /\ calls \in [Players \union {"bus"} -> Seq(Player!Calls)]
      /\ inbox \in Seq(Player!Messages) /\ mp \in MpRecords
      /\ DOMAIN inbox = 1..Len(inbox)
      /\ \A p \in Players : DOMAIN calls[p] = 1..Len(calls[p])
  BY MpTyped
<1>2. Player!PollAnswered
  <2> SUFFICES ASSUME mp.inflight, mp.polled = mp.proxy
               PROVE  \/ \E i \in 1..Len(inbox) : inbox[i].op = "position" /\ inbox[i].mark = mp.proxy
                      \/ \E i \in 1..Len(calls[mp.player]) :
                            LET c == calls[mp.player][i] IN c.op = "position" /\ c.mark = mp.proxy
    <3>1. mp.inflight /\ mp.polled = mp.proxy => mp.player \in Players
      BY DEF MpInv, MpPolled
    <3> QED
      BY <1>1, <3>1 DEF Player!PollAnswered
  <2>1. \/ ~Without(calls[mp.player], PositionCalls(mp.proxy))
        \/ ~Without(inbox, Positions(mp.proxy))
    BY DEF MpInv, MpPolled
  <2> QED
    BY <2>1 DEF Without, PositionCalls, Positions
<1>3. Player!Settles
  <2> SUFFICES ASSUME inbox = <<>>, \A c \in DOMAIN calls : calls[c] = <<>>
               PROVE  /\ IF Player!Names = {} THEN mp.player = Player!NoPlayer /\ ~mp.playing
                         ELSE mp.player \in Player!Names
                      /\ mp.player # Player!NoPlayer /\ mp.since = owner[mp.player]
                            => mp.playing = playing[mp.player]
    BY DEF Player!Settles, Player!Quiet
  <2>1. /\ \A S : Without(inbox, S)
        /\ \A c \in Players \union {"bus"} : \A S : Without(calls[c], S)
    BY <1>1 DEF Without
  <2>2. ~Listing
    BY <2>1 DEF Listing
  <2>3. /\ Joined = Player!Names
        /\ IF Player!Names = {} THEN mp.player = Player!NoPlayer /\ ~mp.playing
           ELSE /\ mp.expected = Player!Cardinality(Player!Names)
                /\ Len(mp.candidates) >= mp.expected => mp.player \in Player!Names
    BY <2>1, <2>2 DEF MpInv, MpNames
  <2>4. Len(mp.candidates) >= Player!Cardinality(Player!Names)
    <3> DEFINE n == Len(mp.candidates)
               f == [i \in 1..n |-> mp.candidates[i].name]
    <3>1. mp.candidates \in Seq([name : Players, playing : BOOLEAN]) /\ n \in Nat
      BY <1>1 DEF MpRecords
    <3>2. \A i \in 1..n : mp.candidates[i].name \in Players
      <4>1. \A i \in 1..n : mp.candidates[i] \in [name : Players, playing : BOOLEAN]
        BY <3>1, ElementOfSeq
      <4> QED
        BY <4>1
    <3>3. Player!Names = {p \in Players : \E i \in 1..n : mp.candidates[i].name = p}
      BY <2>1, <2>3 DEF Joined, Candidate
    <3> HIDE DEF n
    <3>4. \A i \in 1..n : mp.candidates[i].name \in Player!Names
      BY <3>2, <3>3
    <3>5. f \in Surjection(1..n, Player!Names)
      BY <3>3, <3>4 DEF Surjection
    <3>6. ExistsSurjection(1..n, Player!Names)
      BY <3>5 DEF ExistsSurjection
    <3>7. Cardinality(Player!Names) <= n
      BY <3>1, <3>6, FS_SurjCardinalityBound
    <3>8. Player!Cardinality(Player!Names) = Cardinality(Player!Names)
      BY DEF Player!Cardinality, Cardinality
    <3>9. Cardinality(Player!Names) \in Nat
      <4>1. Player!Names \subseteq Players
        BY DEF Player!Names
      <4> QED
        BY <4>1, ServicesAssumption, FS_Subset, FS_CardinalityType
    <3> QED
      BY <3>1, <3>7, <3>8, <3>9 DEF n
  <2>5. IF Player!Names = {} THEN mp.player = Player!NoPlayer /\ ~mp.playing
        ELSE mp.player \in Player!Names
    BY <2>3, <2>4
  <2>6. ASSUME mp.player # Player!NoPlayer, mp.since = owner[mp.player]
        PROVE  mp.playing = playing[mp.player]
    <3>1. mp.player \in Player!Names
      BY <2>5, <2>6
    <3>2. mp.since # 0 /\ mp.player \in Players
      BY <2>6, <3>1 DEF Player!Names
    <3>3. LastWord(inbox, Tells(mp.proxy, mp.player), playing[mp.player], mp.playing)
      BY <2>1, <2>6, <3>2 DEF MpInv, MpTold
    <3> QED
      BY <2>1, <3>3 DEF LastWord, Without
  <2> QED
    BY <2>5, <2>6
<1> QED
  BY <1>2, <1>3
=============================================================================
