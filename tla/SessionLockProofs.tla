------------------------- MODULE SessionLockProofs -------------------------
(***************************************************************************)
(* Proofs about SessionLock, for any outputs and any bounds.               *)
(*                                                                         *)
(* The three safety properties hold together or not at all: that a locked  *)
(* session is held needs the surfaces to be there only while it is active, *)
(* and that a check is under way needs that nothing can be typed before    *)
(* the compositor has locked.  Inductive adds what ties them.              *)
(***************************************************************************)
EXTENDS SessionLock, TLAPS, SequenceTheorems

(* What is true of a session in any stage.  Only FinishUnlock leaves the
   loop with a lock, and it gives the lock up; before the locked event there
   is no text, so no check. *)
SessionInv ==
    /\ surfaces # <<>> => active
    /\ active => session >= 1
    /\ stage = "roundtrip" => lock = 0
    /\ active /\ ~locked => ~has_text /\ ~authenticating

Inductive ==
    TypeOK /\ SessionInv /\ LockedIsHeld /\ OneSurfacePerOutput /\ CheckUnderWay
-----------------------------------------------------------------------------
(* Taking one element out of a sequence moves the later ones down. *)
LEMMA RemoveAtProperties ==
    ASSUME NEW S, NEW s \in Seq(S), NEW i \in 1..Len(s)
    PROVE  /\ RemoveAt(s, i) \in Seq(S)
           /\ Len(RemoveAt(s, i)) = Len(s) - 1
           /\ \A j \in 1..(Len(s) - 1) :
                 RemoveAt(s, i)[j] = IF j < i THEN s[j] ELSE s[j + 1]
<1> DEFINE front == SubSeq(s, 1, i - 1)
           back == SubSeq(s, i + 1, Len(s))
<1>1. /\ Len(s) \in Nat /\ \A j \in 1..Len(s) : s[j] \in S
  BY ElementOfSeq, LenProperties
<1>2. /\ front \in Seq(S) /\ Len(front) = i - 1
      /\ \A j \in 1..(i - 1) : front[j] = s[j]
  BY <1>1, SubSeqProperties
<1>3. /\ back \in Seq(S) /\ Len(back) = Len(s) - i
      /\ \A j \in 1..(Len(s) - i) : back[j] = s[j + i]
  <2>1. \A j \in (i + 1)..Len(s) : s[j] \in S
    BY <1>1
  <2>2. /\ back \in Seq(S)
        /\ Len(back) = IF i + 1 <= Len(s) THEN Len(s) - (i + 1) + 1 ELSE 0
        /\ \A j \in 1..(Len(s) - (i + 1) + 1) : back[j] = s[i + 1 + j - 1]
    BY <1>1, <2>1, SubSeqProperties
  <2> QED
    BY <1>1, <2>2
<1> HIDE DEF front, back
<1>4. /\ front \o back \in Seq(S)
      /\ Len(front \o back) = Len(front) + Len(back)
      /\ \A j \in 1..(Len(front) + Len(back)) :
            (front \o back)[j] = IF j <= Len(front) THEN front[j]
                                 ELSE back[j - Len(front)]
  BY <1>2, <1>3, ConcatProperties
<1>5. RemoveAt(s, i) = front \o back
  BY DEF RemoveAt, front, back
<1>6. ASSUME NEW j \in 1..(Len(s) - 1)
      PROVE  (front \o back)[j] = IF j < i THEN s[j] ELSE s[j + 1]
  <2>1. j \in 1..(Len(front) + Len(back))
    BY <1>1, <1>2, <1>3
  <2>2. (front \o back)[j] = IF j <= Len(front) THEN front[j]
                             ELSE back[j - Len(front)]
    BY <2>1, <1>4
  <2>3. CASE j < i
    BY <2>2, <2>3, <1>2
  <2>4. CASE ~(j < i)
    <3>1. j - (i - 1) \in 1..(Len(s) - i) /\ (j - (i - 1)) + i = j + 1
      BY <2>4, <1>1
    <3>2. back[j - (i - 1)] = s[j + 1]
      BY <3>1, <1>3
    <3> QED
      BY <2>2, <2>4, <3>2, <1>2
  <2> QED
    BY <2>3, <2>4
<1>7. Len(front) + Len(back) = Len(s) - 1
  BY <1>1, <1>2, <1>3
<1> QED
  BY <1>4, <1>5, <1>6, <1>7

(* When one position only satisfies a test, it is the one SelectInSeq finds. *)
LEMMA MinOfOne ==
    ASSUME NEW k \in Nat PROVE Min({k}) = k
<1>1. \E x \in {k} : \A y \in {k} : x =< y
  OBVIOUS
<1>2. Min({k}) \in {k}
  BY <1>1 DEF Min
<1> QED
  BY <1>2

(* The output that is unplugged leaves the list, and only that one. *)
LEMMA OutputForgotten ==
    ASSUME NEW s \in Seq(Outputs), IsInjective(s), NEW o \in ToSet(s)
    PROVE  LET t == RemoveFirst(s, o)
           IN  t \in Seq(Outputs) /\ IsInjective(t) /\ ToSet(t) = ToSet(s) \ {o}
<1> DEFINE t == RemoveFirst(s, o)
<1>1. Len(s) \in Nat /\ DOMAIN s = 1..Len(s) /\ \A j \in 1..Len(s) : s[j] \in Outputs
  BY ElementOfSeq, LenProperties
<1>2. PICK k \in 1..Len(s) : s[k] = o
  BY <1>1 DEF ToSet
<1>3. {i \in 1..Len(s) : s[i] = o} = {k}
  BY <1>1, <1>2 DEF IsInjective
<1>4. t = RemoveAt(s, k)
  <2>1. SelectInSeq(s, LAMBDA v : v = o) = k
    BY <1>1, <1>3, MinOfOne DEF SelectInSeq
  <2> QED
    BY <2>1, <1>2 DEF RemoveFirst
<1> HIDE DEF t
<1>5. /\ t \in Seq(Outputs) /\ Len(t) = Len(s) - 1
      /\ \A j \in 1..(Len(s) - 1) : t[j] = IF j < k THEN s[j] ELSE s[j + 1]
  BY <1>4, RemoveAtProperties
<1>6. DOMAIN t = 1..(Len(s) - 1)
  BY <1>5, LenProperties
<1>7. IsInjective(t)
  <2> SUFFICES ASSUME NEW i \in DOMAIN t, NEW j \in DOMAIN t, t[i] = t[j]
               PROVE  i = j
    BY DEF IsInjective
  <2>1. s[IF i < k THEN i ELSE i + 1] = s[IF j < k THEN j ELSE j + 1]
    BY <1>1, <1>5, <1>6
  <2>2. (IF i < k THEN i ELSE i + 1) = (IF j < k THEN j ELSE j + 1)
    BY <2>1, <1>1, <1>2, <1>6 DEF IsInjective
  <2> QED
    BY <2>2, <1>1, <1>6
<1>8. ToSet(t) \subseteq ToSet(s) \ {o}
  <2> SUFFICES ASSUME NEW j \in DOMAIN t
               PROVE  t[j] \in ToSet(s) /\ t[j] # o
    BY DEF ToSet
  <2> DEFINE i == IF j < k THEN j ELSE j + 1
  <2>1. i \in DOMAIN s /\ i # k
    BY <1>1, <1>6
  <2>2. t[j] = s[i]
    BY <1>5, <1>6
  <2> HIDE DEF i
  <2>3. s[i] # o
    BY ONLY <1>1, <1>2, <2>1, IsInjective(s) DEF IsInjective
  <2> QED
    BY <2>1, <2>2, <2>3 DEF ToSet
<1>9. ToSet(s) \ {o} \subseteq ToSet(t)
  <2> SUFFICES ASSUME NEW j \in DOMAIN s, s[j] # o
               PROVE  \E i \in DOMAIN t : t[i] = s[j]
    BY DEF ToSet
  <2>1. CASE j < k
    BY <2>1, <1>1, <1>2, <1>5, <1>6
  <2>2. CASE j > k
    <3>1. j - 1 \in DOMAIN t /\ t[j - 1] = s[j]
      BY <2>2, <1>1, <1>2, <1>5, <1>6
    <3> QED
      BY <3>1
  <2> QED
    BY <2>1, <2>2, <1>1, <1>2
<1> QED
  BY <1>5, <1>7, <1>8, <1>9 DEF t

(* No output has two of the surfaces. *)
Distinct(ss) ==
    \A i, j \in DOMAIN ss : ss[i].output = ss[j].output => i = j

(* Removing an output's surface leaves the others as they are. *)
LEMMA SurfaceForgotten ==
    ASSUME NEW ss \in Seq(Surface), Distinct(ss), NEW o
    PROVE  LET t == WithoutOutput(ss, o)
           IN  /\ t \in Seq(Surface) /\ Distinct(t)
               /\ \A j \in DOMAIN t :
                     t[j].output # o /\ \E i \in DOMAIN ss : t[j] = ss[i]
               /\ \A i \in DOMAIN ss :
                     ss[i].output # o => \E j \in DOMAIN t : t[j] = ss[i]
<1> DEFINE t == WithoutOutput(ss, o)
<1>1. Len(ss) \in Nat /\ DOMAIN ss = 1..Len(ss)
  BY LenProperties
<1>2. CASE ~\E i \in 1..Len(ss) : ss[i].output = o
  <2>1. t = ss
    BY <1>2 DEF WithoutOutput, RemoveFirstMatch
  <2> QED
    BY <2>1, <1>1, <1>2
<1>3. ASSUME NEW k \in 1..Len(ss), ss[k].output = o
      PROVE  /\ t \in Seq(Surface) /\ Distinct(t)
             /\ \A j \in DOMAIN t :
                   t[j].output # o /\ \E i \in DOMAIN ss : t[j] = ss[i]
             /\ \A i \in DOMAIN ss :
                   ss[i].output # o => \E j \in DOMAIN t : t[j] = ss[i]
  <2>1. {i \in 1..Len(ss) : ss[i].output = o} = {k}
    BY <1>1, <1>3 DEF Distinct
  <2>2. t = RemoveAt(ss, k)
    <3>1. SelectInSeq(ss, LAMBDA s : s.output = o) = k
      BY <1>1, <2>1, MinOfOne DEF SelectInSeq
    <3> QED
      BY <3>1, <1>3 DEF WithoutOutput, RemoveFirstMatch
  <2> HIDE DEF t
  <2>3. /\ t \in Seq(Surface) /\ Len(t) = Len(ss) - 1
        /\ \A j \in 1..(Len(ss) - 1) : t[j] = IF j < k THEN ss[j] ELSE ss[j + 1]
    BY <2>2, RemoveAtProperties
  <2>4. DOMAIN t = 1..(Len(ss) - 1)
    BY <2>3, LenProperties
  <2>5. Distinct(t)
    <3> SUFFICES ASSUME NEW i \in DOMAIN t, NEW j \in DOMAIN t,
                        t[i].output = t[j].output
                 PROVE  i = j
      BY DEF Distinct
    <3>1. ss[IF i < k THEN i ELSE i + 1].output = ss[IF j < k THEN j ELSE j + 1].output
      BY <1>1, <2>3, <2>4
    <3>2. (IF i < k THEN i ELSE i + 1) = (IF j < k THEN j ELSE j + 1)
      BY <3>1, <1>1, <1>3, <2>4 DEF Distinct
    <3> QED
      BY <3>2, <1>1, <2>4
  <2>6. ASSUME NEW j \in DOMAIN t
        PROVE  t[j].output # o /\ \E i \in DOMAIN ss : t[j] = ss[i]
    <3> DEFINE i == IF j < k THEN j ELSE j + 1
    <3>1. i \in DOMAIN ss /\ i # k
      BY <1>1, <2>4
    <3>2. t[j] = ss[i]
      BY <2>3, <2>4
    <3> HIDE DEF i
    <3>3. ss[i].output # o
      BY ONLY <1>1, <1>3, <3>1, Distinct(ss) DEF Distinct
    <3> QED
      BY <3>1, <3>2, <3>3
  <2>7. ASSUME NEW i \in DOMAIN ss, ss[i].output # o
        PROVE  \E j \in DOMAIN t : t[j] = ss[i]
    <3>1. CASE i < k
      BY <3>1, <1>1, <1>3, <2>3, <2>4
    <3>2. CASE i > k
      <4>1. i - 1 \in DOMAIN t /\ t[i - 1] = ss[i]
        BY <3>2, <1>1, <1>3, <2>3, <2>4
      <4> QED
        BY <4>1
    <3> QED
      BY <3>1, <3>2, <2>7, <1>1, <1>3
  <2> QED
    BY <2>3, <2>5, <2>6, <2>7
<1> QED
  BY <1>2, <1>3
-----------------------------------------------------------------------------
(* A surface that was repainted is a surface of the same output. *)
SameOutputs(t) ==
    /\ t \in Seq(Surface)
    /\ DOMAIN t = DOMAIN surfaces
    /\ \A i \in DOMAIN t : t[i].output = surfaces[i].output

LEMMA EntranceHolds ==
    ASSUME NEW s \in Surface
    PROVE  Entrance(s) \in Surface /\ Entrance(s).output = s.output
BY DEF Entrance, Surface

LEMMA OneRepainted ==
    ASSUME surfaces \in Seq(Surface), NEW i \in DOMAIN surfaces,
           NEW x \in Surface, x.output = surfaces[i].output
    PROVE  SameOutputs([surfaces EXCEPT ![i] = x])
<1>1. i \in 1..Len(surfaces) /\ DOMAIN surfaces = 1..Len(surfaces)
  BY LenProperties
<1>2. [surfaces EXCEPT ![i] = x] \in Seq(Surface)
  BY <1>1, ExceptSeq
<1>3. DOMAIN [surfaces EXCEPT ![i] = x] = DOMAIN surfaces
  OBVIOUS
<1> QED
  BY <1>1, <1>2, <1>3 DEF SameOutputs

(* Every surface starts its unlock animation where it is. *)
LEMMA UnlockAnimHolds ==
    ASSUME surfaces \in Seq(Surface)
    PROVE  SameOutputs([i \in DOMAIN surfaces |-> StartUnlockAnim(i)])
<1> DEFINE t == [i \in DOMAIN surfaces |-> StartUnlockAnim(i)]
<1>1. Len(surfaces) \in Nat /\ DOMAIN surfaces = 1..Len(surfaces)
  BY LenProperties
<1>2. ASSUME NEW i \in 1..Len(surfaces)
      PROVE  /\ StartUnlockAnim(i) \in Surface
             /\ StartUnlockAnim(i).output = surfaces[i].output
  <2>1. surfaces[i] \in Surface
    BY ElementOfSeq
  <2> QED
    BY <2>1 DEF StartUnlockAnim, Surface
<1>3. t \in Seq(Surface)
  <2>1. t \in [1..Len(surfaces) -> Surface]
    BY <1>1, <1>2
  <2> QED
    BY <2>1, <1>1, SeqDef
<1> QED
  BY <1>1, <1>2, <1>3 DEF SameOutputs

(* What a step does to the surfaces, where it neither makes nor removes one. *)
LEMMA PaintKeepsOutputs ==
    ASSUME surfaces \in Seq(Surface), NEW i \in DOMAIN surfaces,
           Paint(i) \/ SurfaceConfigure(i)
    PROVE  SameOutputs(surfaces')
<1>1. surfaces[i] \in Surface
  BY ElementOfSeq, LenProperties
<1>2. CASE SurfaceConfigure(i)
  <2>1. [surfaces[i] EXCEPT !.configured = TRUE] \in Surface
    BY <1>1 DEF Surface
  <2>2. surfaces' = [surfaces EXCEPT ![i] = [surfaces[i] EXCEPT !.configured = TRUE]]
    BY <1>2 DEF SurfaceConfigure
  <2>3. [surfaces[i] EXCEPT !.configured = TRUE].output = surfaces[i].output
    BY <1>1 DEF Surface
  <2> QED
    BY <2>1, <2>2, <2>3, OneRepainted
<1>3. CASE Paint(i)
  <2>1. PICK x \in {surfaces[i],
                    [surfaces[i] EXCEPT !.sequence = FALSE, !.rotation = "spin"],
                    [surfaces[i] EXCEPT !.rotation = "none"]} :
           surfaces' = [surfaces EXCEPT ![i] = Entrance(x)]
    BY <1>3 DEF Paint
  <2>2. x \in Surface /\ x.output = surfaces[i].output
    BY <1>1 DEF Surface
  <2>3. Entrance(x) \in Surface /\ Entrance(x).output = surfaces[i].output
    BY <2>2, EntranceHolds
  <2> QED
    BY <2>1, <2>3, OneRepainted
<1> QED
  BY <1>2, <1>3

LEMMA NewSurfacesHold ==
    ASSUME outputs \in Seq(Outputs)
    PROVE  LET t == [i \in DOMAIN outputs |-> NewSurface(outputs[i])]
           IN  /\ t \in Seq(Surface) /\ DOMAIN t = DOMAIN outputs
               /\ \A i \in DOMAIN outputs : t[i].output = outputs[i]
<1> DEFINE t == [i \in DOMAIN outputs |-> NewSurface(outputs[i])]
<1>1. Len(outputs) \in Nat /\ DOMAIN outputs = 1..Len(outputs)
  BY LenProperties
<1>2. \A i \in 1..Len(outputs) : outputs[i] \in Outputs
  BY ElementOfSeq
<1>3. t \in [1..Len(outputs) -> Surface]
  BY <1>1, <1>2 DEF NewSurface, Surface
<1>4. t \in Seq(Surface)
  BY <1>1, <1>3, SeqDef
<1> QED
  BY <1>1, <1>4 DEF NewSurface
-----------------------------------------------------------------------------
LEMMA NoneIsSeq ==
    <<>> \in Seq(Outputs) /\ <<>> \in Seq(Surface) /\ <<>> \in Seq(Call)
BY EmptySeq

(* Init establishes everything. *)
LEMMA InitHolds == Init => Inductive
<1> SUFFICES ASSUME Init PROVE Inductive
  OBVIOUS
<1>1. TypeOK
  <2>1. IsInjective(outputs)
    BY DEF Init, IsInjective
  <2>2. 0 \in 0..MaxSessions /\ 0 \in 0..MaxAttempts /\ 0 \in 0..MaxPlugs
    BY SessionLockAssumption DEF SessionLockAssumption
  <2> QED
    BY <2>1, <2>2, NoneIsSeq DEF Init, TypeOK
<1>2. SessionInv /\ LockedIsHeld /\ CheckUnderWay
  BY DEF Init, SessionInv, LockedIsHeld, CheckUnderWay
<1>3. OneSurfacePerOutput
  BY DEF Init, OneSurfacePerOutput
<1> QED
  BY <1>1, <1>2, <1>3 DEF Inductive

(* An unlock that begins leaves the surfaces where they are. *)
LEMMA BeginUnlockHolds ==
    ASSUME TypeOK, BeginUnlock
    PROVE  SameOutputs(surfaces') /\ unlocking' = TRUE /\ carried' \in BOOLEAN
<1>1. SameOutputs(surfaces')
  BY UnlockAnimHolds DEF BeginUnlock, TypeOK
<1> QED
  BY <1>1 DEF BeginUnlock

(* What an answer of the current generation does to a locked session. *)
LEMMA AnswerHolds ==
    ASSUME TypeOK, NEW ok \in BOOLEAN, IF ok THEN AuthSucceeds ELSE AuthFails
    PROVE  /\ authenticating' = FALSE
           /\ {failed', has_text', unlocking', carried'} \subseteq BOOLEAN
           /\ SameOutputs(surfaces')
           /\ ok => has_text' = has_text
<1>1. SameOutputs(surfaces)
  BY DEF SameOutputs, TypeOK
<1> QED
  BY <1>1, BeginUnlockHolds DEF AuthSucceeds, AuthFails, TypeOK

(* Every step keeps the types. *)
LEMMA TypeStep ==
    ASSUME Inductive, [Next]_vars
    PROVE  TypeOK'
<1>0. /\ 0 \in 0..MaxSessions
      /\ MaxSessions \in Nat /\ MaxAttempts \in Nat /\ MaxPlugs \in Nat
  BY SessionLockAssumption DEF SessionLockAssumption
<1>1. TypeOK /\ SessionInv /\ OneSurfacePerOutput /\ LockedIsHeld
  BY DEF Inductive
<1>2. CASE LockRequest
  <2>1. surfaces' \in Seq(Surface)
    BY <1>1, <1>2, NewSurfacesHold DEF LockRequest, TypeOK
  <2>2. lock' \in 0..MaxSessions /\ session' \in 0..MaxSessions
    BY <1>0, <1>1, <1>2 DEF LockRequest, TypeOK
  <2> QED
    BY <1>1, <1>2, <2>1, <2>2 DEF LockRequest, TypeOK, monitors
<1>3. CASE HandleLocked
  BY <1>1, <1>3 DEF HandleLocked, TypeOK, monitors
<1>4. CASE HandleFinished
  BY <1>0, <1>1, <1>4, NoneIsSeq DEF HandleFinished, Teardown, TypeOK, monitors
<1>5. CASE TypeKey
  BY <1>1, <1>5 DEF TypeKey, TypeOK, monitors
<1>6. CASE TryAuthenticate
  <2>1. pam' \subseteq Check /\ auth_generation' \in 0..MaxAttempts
    <3>1. auth_generation + 1 \in 1..MaxAttempts /\ session \in 1..MaxSessions
      BY <1>0, <1>1, <1>6 DEF TryAuthenticate, TypeOK, SessionInv
    <3> QED
      BY <1>1, <1>6, <3>1 DEF TryAuthenticate, TypeOK, Check
  <2> QED
    BY <1>1, <1>6, <2>1 DEF TryAuthenticate, TypeOK, monitors
<1>7. CASE CornerClick
  <2>1. SameOutputs(surfaces') /\ unlocking' = TRUE /\ carried' \in BOOLEAN
    BY <1>1, <1>7, BeginUnlockHolds DEF CornerClick
  <2> QED
    BY <1>1, <1>7, <2>1 DEF CornerClick, TypeOK, monitors, SameOutputs
<1>8. CASE PamAnswers
  <2>1. PICK c \in pam, ok \in BOOLEAN :
           /\ pam' = pam \ {c}
           /\ deferred' = Append(deferred, [kind |-> "auth", gen |-> c.gen,
                                            from |-> c.from, success |-> ok])
    BY <1>8 DEF PamAnswers
  <2>2. [kind |-> "auth", gen |-> c.gen, from |-> c.from, success |-> ok] \in Call
    BY <1>1 DEF TypeOK, Check, Call
  <2>3. deferred' \in Seq(Call)
    BY <1>1, <2>1, <2>2, AppendProperties DEF TypeOK
  <2> QED
    BY <1>1, <1>8, <2>1, <2>3 DEF PamAnswers, TypeOK, monitors, flags
<1>9. CASE DeliverAuth
  <2>1. Head(deferred) \in Call /\ deferred' \in Seq(Call)
    BY <1>1, <1>9, HeadTailProperties DEF DeliverAuth, TypeOK
  <2>2. Head(deferred).success \in BOOLEAN
    BY <1>9, <2>1 DEF DeliverAuth, Call
  <2>3. CASE Head(deferred).gen # auth_generation \/ ~locked
    BY <1>1, <1>9, <2>1, <2>3 DEF DeliverAuth, TypeOK, monitors
  <2>4. CASE ~(Head(deferred).gen # auth_generation \/ ~locked)
    <3>1. /\ IF Head(deferred).success THEN AuthSucceeds ELSE AuthFails
          /\ stale' \in BOOLEAN
      BY <1>9, <2>4, <1>1 DEF DeliverAuth, TypeOK
    <3>2. /\ authenticating' = FALSE
          /\ {failed', has_text', unlocking', carried'} \subseteq BOOLEAN
          /\ SameOutputs(surfaces')
      BY <1>1, <2>2, <3>1, AnswerHolds
    <3> QED
      BY <1>1, <1>9, <2>1, <3>1, <3>2 DEF DeliverAuth, TypeOK, monitors, SameOutputs
  <2> QED
    BY <2>3, <2>4
<1>10. CASE FinishUnlock
  <2>1. deferred' \in Seq(Call)
    BY <1>1, <1>10, HeadTailProperties DEF FinishUnlock, TypeOK
  <2>2. /\ lock' \in 0..MaxSessions /\ {granted', stale'} \subseteq BOOLEAN
        /\ stage' \in {"loop", "roundtrip", "dead"}
    BY <1>0, <1>1, <1>10 DEF FinishUnlock, TypeOK
  <2> QED
    BY <1>1, <1>10, <2>1, <2>2 DEF FinishUnlock, TypeOK, monitors, flags
<1>11. CASE FinishUnlockEnd
  BY <1>1, <1>11, NoneIsSeq DEF FinishUnlockEnd, Teardown, TypeOK, monitors
<1>12. CASE TimerTick
  BY <1>1, <1>12 DEF TimerTick, TypeOK, monitors
<1>13. ASSUME NEW i \in DOMAIN surfaces, SurfaceConfigure(i)
       PROVE  TypeOK'
  <2>1. SameOutputs(surfaces')
    BY <1>1, <1>13, PaintKeepsOutputs DEF TypeOK
  <2> QED
    BY <1>1, <1>13, <2>1 DEF SurfaceConfigure, TypeOK, monitors, flags, SameOutputs
<1>14. ASSUME NEW i \in DOMAIN surfaces, Paint(i)
       PROVE  TypeOK'
  <2>1. SameOutputs(surfaces')
    BY <1>1, <1>14, PaintKeepsOutputs DEF TypeOK
  <2>2. session \in 1..MaxSessions
    BY <1>1, <1>14 DEF SessionInv, TypeOK
  <2>3. [kind |-> "finish", from |-> session] \in Call
    BY <2>2 DEF Call
  <2>4. deferred' \in Seq(Call)
    <3>1. \/ deferred' = deferred
          \/ deferred' = Append(deferred, [kind |-> "finish", from |-> session])
      BY <1>14 DEF Paint
    <3>2. deferred \in Seq(Call)
      BY <1>1 DEF TypeOK
    <3> QED
      BY <2>3, <3>1, <3>2, AppendProperties
  <2> QED
    BY <1>1, <1>14, <2>1, <2>4 DEF Paint, TypeOK, monitors, flags, SameOutputs
<1>15. ASSUME NEW o \in Outputs, OutputAdded(o)
       PROVE  TypeOK'
  <2>1. outputs' \in Seq(Outputs) /\ IsInjective(outputs') /\ announced' \subseteq ToSet(outputs')
    <3>1. /\ outputs' \in Seq(Outputs) /\ Len(outputs') = Len(outputs) + 1
          /\ \A j \in 1..Len(outputs) : outputs'[j] = outputs[j]
          /\ outputs'[Len(outputs) + 1] = o
      BY <1>1, <1>15, AppendProperties DEF OutputAdded, TypeOK
    <3>2. /\ Len(outputs) \in Nat /\ DOMAIN outputs = 1..Len(outputs)
          /\ DOMAIN outputs' = 1..(Len(outputs) + 1)
      BY <1>1, <3>1, LenProperties DEF TypeOK
    <3>3. IsInjective(outputs')
      BY <1>1, <1>15, <3>1, <3>2 DEF OutputAdded, TypeOK, IsInjective, ToSet
    <3>4. ToSet(outputs) \subseteq ToSet(outputs')
      BY <3>1, <3>2 DEF ToSet
    <3> QED
      BY <1>1, <1>15, <3>1, <3>3, <3>4 DEF OutputAdded, TypeOK
  <2>2. plugs' \in 0..MaxPlugs
    BY <1>0, <1>1, <1>15 DEF OutputAdded, TypeOK
  <2> QED
    BY <1>1, <1>15, <2>1, <2>2 DEF OutputAdded, TypeOK, flags
<1>16. ASSUME NEW o \in Outputs, OutputDone(o)
       PROVE  TypeOK'
  <2>1. NewSurface(o) \in Surface
    BY DEF NewSurface, Surface
  <2>2. /\ surfaces' = surfaces \/ surfaces' = Append(surfaces, NewSurface(o))
        /\ stage' = stage \/ stage' = "dead"
    BY <1>16 DEF OutputDone, HotplugAdd
  <2>3. surfaces \in Seq(Surface) /\ stage \in {"loop", "roundtrip", "dead"}
    BY <1>1 DEF TypeOK
  <2>4. Append(surfaces, NewSurface(o)) \in Seq(Surface)
    BY ONLY <2>1, <2>3, AppendProperties
  <2>5. surfaces' \in Seq(Surface) /\ stage' \in {"loop", "roundtrip", "dead"}
    BY ONLY <2>2, <2>3, <2>4
  <2> QED
    <3>1. announced' \subseteq ToSet(outputs')
      BY <1>1, <1>16 DEF OutputDone, TypeOK
    <3> QED
      BY <1>1, <1>16, <2>5, <3>1 DEF OutputDone, TypeOK, flags
<1>17. ASSUME NEW o \in Outputs, OutputRemoved(o)
       PROVE  TypeOK'
  <2>1. /\ outputs' \in Seq(Outputs) /\ IsInjective(outputs')
        /\ announced' \subseteq ToSet(outputs')
    BY <1>1, <1>17, OutputForgotten DEF OutputRemoved, TypeOK
  <2>2. surfaces' \in Seq(Surface)
    <3>1. Distinct(surfaces) /\ surfaces \in Seq(Surface)
      BY <1>1 DEF Distinct, OneSurfacePerOutput, TypeOK
    <3>2. WithoutOutput(surfaces, o) \in Seq(Surface)
      BY <3>1, SurfaceForgotten
    <3> QED
      BY <1>17, <3>1, <3>2 DEF OutputRemoved, HotplugRemove
  <2>3. carried' \in BOOLEAN
    BY <1>1, <1>17 DEF OutputRemoved, TypeOK
  <2> QED
    BY <1>1, <1>17, <2>1, <2>2, <2>3 DEF OutputRemoved, TypeOK, flags
<1>18. CASE UNCHANGED vars
  BY <1>1, <1>18 DEF vars, flags, monitors, TypeOK
<1> QED
  BY <1>2, <1>3, <1>4, <1>5, <1>6, <1>7, <1>8, <1>9, <1>10, <1>11, <1>12,
     <1>13, <1>14, <1>15, <1>16, <1>17, <1>18
     DEF Next, Monitors, Compositor, User, Progress
-----------------------------------------------------------------------------
(* Every step keeps the session together, and the flag with the lock. *)
LEMMA SessionStep ==
    ASSUME Inductive, [Next]_vars
    PROVE  SessionInv' /\ LockedIsHeld'
<1>1. TypeOK /\ SessionInv /\ LockedIsHeld
  BY DEF Inductive
<1>2. /\ session \in Nat
      /\ {locked, active, session_locked, unlocking, has_text, authenticating} \subseteq BOOLEAN
  BY <1>1, SessionLockAssumption DEF TypeOK, SessionLockAssumption
<1> USE DEF SessionInv, LockedIsHeld
<1>3. CASE LockRequest
  <2>1. session' >= 1 /\ lock' # 0
    BY <1>2, <1>3 DEF LockRequest
  <2> QED
    BY <1>1, <1>2, <1>3, <2>1 DEF LockRequest
<1>4. CASE HandleLocked
  BY <1>1, <1>2, <1>4 DEF HandleLocked
<1>5. CASE HandleFinished
  BY <1>1, <1>5 DEF HandleFinished, Teardown
<1>6. CASE TypeKey
  BY <1>1, <1>6 DEF TypeKey
<1>7. CASE TryAuthenticate
  BY <1>1, <1>7 DEF TryAuthenticate
<1>8. CASE CornerClick
  <2>1. active
    BY <1>1, <1>8 DEF CornerClick
  <2> QED
    BY <1>1, <1>8, <2>1 DEF CornerClick
<1>9. CASE PamAnswers
  BY <1>1, <1>9 DEF PamAnswers, flags
<1>10. CASE DeliverAuth
  <2>1. CASE Head(deferred).gen # auth_generation \/ ~locked
    BY <1>1, <1>10, <2>1 DEF DeliverAuth
  <2>2. CASE Head(deferred).gen = auth_generation /\ locked
    <3>1. active /\ lock # 0
      BY <1>1, <1>10, <2>2 DEF DeliverAuth
    <3> QED
      BY <1>1, <1>10, <2>2, <3>1 DEF DeliverAuth
  <2> QED
    BY <2>1, <2>2, <1>2
<1>11. CASE FinishUnlock
  BY <1>1, <1>11 DEF FinishUnlock, flags
<1>12. CASE FinishUnlockEnd
  BY <1>1, <1>12 DEF FinishUnlockEnd, Teardown
<1>13. CASE TimerTick
  BY <1>1, <1>13 DEF TimerTick
<1>14. ASSUME NEW i \in DOMAIN surfaces, SurfaceConfigure(i) \/ Paint(i)
       PROVE  SessionInv' /\ LockedIsHeld'
  <2>1. active
    <3>1. surfaces # <<>>
      BY <1>1, EmptySeq, LenProperties DEF TypeOK
    <3> QED
      BY <1>1, <3>1
  <2>2. UNCHANGED <<lock, session, flags, stage>>
    BY <1>14 DEF SurfaceConfigure, Paint
  <2> QED
    BY <1>1, <2>1, <2>2 DEF flags
<1>15. ASSUME NEW o \in Outputs, OutputAdded(o)
       PROVE  SessionInv' /\ LockedIsHeld'
  BY <1>1, <1>15 DEF OutputAdded, flags
<1>16. ASSUME NEW o \in Outputs, OutputDone(o)
       PROVE  SessionInv' /\ LockedIsHeld'
  BY <1>1, <1>16 DEF OutputDone, HotplugAdd, flags
<1>17. ASSUME NEW o \in Outputs, OutputRemoved(o)
       PROVE  SessionInv' /\ LockedIsHeld'
  BY <1>1, <1>17 DEF OutputRemoved, HotplugRemove, flags
<1>18. CASE UNCHANGED vars
  BY <1>1, <1>18 DEF vars, flags
<1> QED
  BY <1>3, <1>4, <1>5, <1>6, <1>7, <1>8, <1>9, <1>10, <1>11, <1>12, <1>13,
     <1>14, <1>15, <1>16, <1>17, <1>18
     DEF Next, Monitors, Compositor, User, Progress
-----------------------------------------------------------------------------
(* Surfaces that were only repainted are still one for each output. *)
LEMMA RepaintedHolds ==
    ASSUME OneSurfacePerOutput, SameOutputs(surfaces'),
           UNCHANGED <<outputs, announced, active, lock>>
    PROVE  OneSurfacePerOutput'
BY DEF OneSurfacePerOutput, SameOutputs, HasSurface

LEMMA NoSurfacesHold ==
    ASSUME surfaces' = <<>>, ~(active /\ lock # 0)'
    PROVE  OneSurfacePerOutput'
BY DEF OneSurfacePerOutput

(* Every step keeps one surface for each output. *)
LEMMA SurfacesStep ==
    ASSUME Inductive, [Next]_vars
    PROVE  OneSurfacePerOutput'
<1>1. TypeOK /\ SessionInv /\ OneSurfacePerOutput /\ LockedIsHeld
  BY DEF Inductive
<1>2. /\ SameOutputs(surfaces)
      /\ Len(surfaces) \in Nat /\ DOMAIN surfaces = 1..Len(surfaces)
      /\ Len(outputs) \in Nat /\ DOMAIN outputs = 1..Len(outputs)
  BY <1>1, LenProperties DEF SameOutputs, TypeOK
<1>3. CASE LockRequest
  <2>1. /\ surfaces' \in Seq(Surface) /\ DOMAIN surfaces' = DOMAIN outputs
        /\ \A i \in DOMAIN outputs : surfaces'[i].output = outputs[i]
        /\ UNCHANGED monitors
    BY <1>1, <1>3, NewSurfacesHold DEF LockRequest, TypeOK
  <2>2. IsInjective(outputs) /\ announced \subseteq ToSet(outputs)
    BY <1>1 DEF TypeOK
  <2> QED
    BY <2>1, <2>2 DEF monitors, OneSurfacePerOutput, HasSurface, ToSet, IsInjective
<1>4. CASE HandleLocked
  BY <1>1, <1>2, <1>4, RepaintedHolds DEF HandleLocked, monitors, SameOutputs
<1>5. CASE HandleFinished
  BY <1>5, NoSurfacesHold DEF HandleFinished, Teardown
<1>6. CASE TypeKey
  BY <1>1, <1>2, <1>6, RepaintedHolds DEF TypeKey, monitors, SameOutputs
<1>7. CASE TryAuthenticate
  BY <1>1, <1>2, <1>7, RepaintedHolds DEF TryAuthenticate, monitors, SameOutputs
<1>8. CASE CornerClick
  BY <1>1, <1>8, BeginUnlockHolds, RepaintedHolds DEF CornerClick, monitors
<1>9. CASE PamAnswers
  BY <1>1, <1>2, <1>9, RepaintedHolds DEF PamAnswers, flags, monitors, SameOutputs
<1>10. CASE DeliverAuth
  <2>1. UNCHANGED <<outputs, announced, active, lock>>
    BY <1>10 DEF DeliverAuth, monitors
  <2>2. CASE Head(deferred).gen # auth_generation \/ ~locked
    BY <1>1, <1>2, <1>10, <2>1, <2>2, RepaintedHolds DEF DeliverAuth, SameOutputs
  <2>3. CASE ~(Head(deferred).gen # auth_generation \/ ~locked)
    <3>1. /\ Head(deferred).success \in BOOLEAN
          /\ IF Head(deferred).success THEN AuthSucceeds ELSE AuthFails
      <4>1. Head(deferred) \in Call
        BY <1>1, <1>10, HeadTailProperties DEF DeliverAuth, TypeOK
      <4> QED
        BY <1>10, <2>3, <4>1 DEF DeliverAuth, Call
    <3>2. SameOutputs(surfaces')
      BY <1>1, <3>1, AnswerHolds
    <3> QED
      BY <1>1, <2>1, <3>2, RepaintedHolds
  <2> QED
    BY <2>2, <2>3
<1>11. CASE FinishUnlock
  BY <1>1, <1>11 DEF FinishUnlock, flags, monitors, OneSurfacePerOutput, HasSurface
<1>12. CASE FinishUnlockEnd
  BY <1>12, NoSurfacesHold DEF FinishUnlockEnd, Teardown
<1>13. CASE TimerTick
  BY <1>1, <1>2, <1>13, RepaintedHolds DEF TimerTick, monitors, SameOutputs
<1>14. ASSUME NEW i \in DOMAIN surfaces, SurfaceConfigure(i) \/ Paint(i)
       PROVE  OneSurfacePerOutput'
  <2>1. SameOutputs(surfaces')
    BY <1>1, <1>14, PaintKeepsOutputs DEF TypeOK
  <2>2. UNCHANGED <<outputs, announced, active, lock>>
    BY <1>14 DEF SurfaceConfigure, Paint, flags, monitors
  <2> QED
    BY <1>1, <2>1, <2>2, RepaintedHolds
<1>15. ASSUME NEW o \in Outputs, OutputAdded(o)
       PROVE  OneSurfacePerOutput'
  <2>1. /\ outputs' \in Seq(Outputs) /\ Len(outputs') = Len(outputs) + 1
        /\ \A j \in 1..Len(outputs) : outputs'[j] = outputs[j]
    BY <1>1, <1>15, AppendProperties DEF OutputAdded, TypeOK
  <2>2. ToSet(outputs) \subseteq ToSet(outputs')
    BY <1>2, <2>1, LenProperties DEF ToSet
  <2>3. UNCHANGED <<announced, active, lock, surfaces>>
    BY <1>15 DEF OutputAdded, flags
  <2> QED
    BY <1>1, <2>2, <2>3 DEF OneSurfacePerOutput, HasSurface
<1>16. ASSUME NEW o \in Outputs, OutputDone(o)
       PROVE  OneSurfacePerOutput'
  <2>1. /\ UNCHANGED <<outputs, lock, active>>
        /\ announced' = announced \union {o} /\ o \in ToSet(outputs)
    BY <1>16 DEF OutputDone, flags
  <2>2. CASE surfaces' = surfaces
    <3>1. active /\ lock # 0 => HasSurface(o)
      <4>1. CASE active /\ ~HasSurface(o) /\ lock # 0
        <5>1. surfaces' = Append(surfaces, NewSurface(o))
          BY <1>16, <4>1 DEF OutputDone, HotplugAdd
        <5>2. NewSurface(o) \in Surface
          BY DEF NewSurface, Surface
        <5>3. Len(surfaces') = Len(surfaces) + 1
          BY <1>1, <5>1, <5>2, AppendProperties DEF TypeOK
        <5> QED
          BY <5>3, <1>2, <2>2
      <4> QED
        BY <4>1
    <3> QED
      BY <1>1, <2>1, <2>2, <3>1 DEF OneSurfacePerOutput, HasSurface
  <2>3. CASE ~HasSurface(o) /\ surfaces' = Append(surfaces, NewSurface(o))
    <3>1. NewSurface(o) \in Surface /\ NewSurface(o).output = o
      BY DEF NewSurface, Surface
    <3>2. surfaces \in Seq(Surface)
      BY <1>1 DEF TypeOK
    <3>3. /\ surfaces' \in Seq(Surface) /\ Len(surfaces') = Len(surfaces) + 1
          /\ \A j \in 1..Len(surfaces) : surfaces'[j] = surfaces[j]
          /\ surfaces'[Len(surfaces) + 1] = NewSurface(o)
      BY <2>3, <3>1, <3>2, AppendProperties
    <3>4. DOMAIN surfaces' = 1..(Len(surfaces) + 1)
      BY <3>3, LenProperties
    <3>5. HasSurface(o)'
      BY <1>2, <3>1, <3>3, <3>4 DEF HasSurface
    <3>6. \A p : HasSurface(p) => HasSurface(p)'
      BY <1>2, <3>3, <3>4 DEF HasSurface
    <3>7. Distinct(surfaces')
      BY <1>1, <1>2, <2>3, <3>1, <3>3, <3>4 DEF Distinct, OneSurfacePerOutput, HasSurface
    <3>8. \A i \in DOMAIN surfaces' : surfaces'[i].output \in ToSet(outputs)
      BY <1>1, <1>2, <2>1, <3>1, <3>3, <3>4 DEF OneSurfacePerOutput
    <3> QED
      BY <1>1, <2>1, <3>5, <3>6, <3>7, <3>8 DEF OneSurfacePerOutput, Distinct
  <2> QED
    BY <1>16, <2>2, <2>3 DEF OutputDone, HotplugAdd
<1>17. ASSUME NEW o \in Outputs, OutputRemoved(o)
       PROVE  OneSurfacePerOutput'
  <2>1. /\ ToSet(outputs') = ToSet(outputs) \ {o}
        /\ announced' = announced \ {o} /\ UNCHANGED <<active, lock>>
    BY <1>1, <1>17, OutputForgotten DEF OutputRemoved, TypeOK, flags
  <2>2. CASE ~active
    <3>1. surfaces' = surfaces /\ surfaces = <<>>
      BY <1>1, <1>17, <2>2 DEF OutputRemoved, HotplugRemove, SessionInv
    <3> QED
      BY <2>1, <2>2, <3>1, NoSurfacesHold
  <2>3. CASE active
    <3>1. surfaces' = WithoutOutput(surfaces, o)
      BY <1>17, <2>3 DEF OutputRemoved, HotplugRemove
    <3>2. Distinct(surfaces) /\ surfaces \in Seq(Surface)
      BY <1>1 DEF Distinct, OneSurfacePerOutput, TypeOK
    <3>3. /\ Distinct(surfaces')
          /\ \A j \in DOMAIN surfaces' :
                surfaces'[j].output # o
                  /\ \E i \in DOMAIN surfaces : surfaces'[j] = surfaces[i]
          /\ \A i \in DOMAIN surfaces :
                surfaces[i].output # o => \E j \in DOMAIN surfaces' : surfaces'[j] = surfaces[i]
      BY <3>1, <3>2, SurfaceForgotten
    <3>4. \A i \in DOMAIN surfaces' : surfaces'[i].output \in ToSet(outputs')
      BY <1>1, <2>1, <3>3 DEF OneSurfacePerOutput
    <3>5. ASSUME (active /\ lock # 0)', NEW p \in announced'
          PROVE  HasSurface(p)'
      <4>1. PICK i \in DOMAIN surfaces : surfaces[i].output = p
        BY <1>1, <2>1, <3>5 DEF OneSurfacePerOutput, HasSurface
      <4> QED
        BY <2>1, <3>3, <3>5, <4>1 DEF HasSurface
    <3> QED
      BY <3>3, <3>4, <3>5 DEF OneSurfacePerOutput, Distinct
  <2> QED
    BY <2>2, <2>3
<1>18. CASE UNCHANGED vars
  BY <1>1, <1>2, <1>18, RepaintedHolds DEF vars, flags, monitors, SameOutputs
<1> QED
  BY <1>3, <1>4, <1>5, <1>6, <1>7, <1>8, <1>9, <1>10, <1>11, <1>12, <1>13,
     <1>14, <1>15, <1>16, <1>17, <1>18
     DEF Next, Monitors, Compositor, User, Progress
-----------------------------------------------------------------------------
(* A check stays under way while nothing touches it. *)
LEMMA CheckStays ==
    ASSUME CheckUnderWay,
           UNCHANGED <<locked, authenticating, auth_generation, pam, deferred>>
    PROVE  CheckUnderWay'
BY DEF CheckUnderWay

(* A call that is appended leaves the others where they are. *)
LEMMA QueueGrows ==
    ASSUME deferred \in Seq(Call), NEW c \in Call, deferred' = Append(deferred, c)
    PROVE  /\ \A i \in DOMAIN deferred : i \in DOMAIN deferred' /\ deferred'[i] = deferred[i]
           /\ Len(deferred) + 1 \in DOMAIN deferred' /\ deferred'[Len(deferred) + 1] = c
<1>1. /\ deferred' \in Seq(Call) /\ Len(deferred') = Len(deferred) + 1
      /\ \A i \in 1..Len(deferred) : deferred'[i] = deferred[i]
      /\ deferred'[Len(deferred) + 1] = c
  BY AppendProperties
<1>2. /\ Len(deferred) \in Nat /\ DOMAIN deferred = 1..Len(deferred)
      /\ DOMAIN deferred' = 1..(Len(deferred) + 1)
  BY <1>1, LenProperties
<1> QED
  BY <1>1, <1>2

(* A call that is taken off the front moves the others up. *)
LEMMA QueueShrinks ==
    ASSUME deferred \in Seq(Call), deferred # <<>>, deferred' = Tail(deferred)
    PROVE  \A i \in DOMAIN deferred :
              deferred[i] = Head(deferred)
                \/ \E j \in DOMAIN deferred' : deferred'[j] = deferred[i]
<1>1. /\ deferred' \in Seq(Call) /\ Len(deferred') = Len(deferred) - 1
      /\ \A i \in 1..Len(deferred') : deferred'[i] = deferred[i + 1]
  BY HeadTailProperties
<1>2. /\ Len(deferred) \in Nat /\ DOMAIN deferred = 1..Len(deferred)
      /\ DOMAIN deferred' = 1..(Len(deferred) - 1) /\ Head(deferred) = deferred[1]
  BY <1>1, LenProperties, HeadTailProperties
<1> SUFFICES ASSUME NEW i \in DOMAIN deferred, i # 1
             PROVE  \E j \in DOMAIN deferred' : deferred'[j] = deferred[i]
  BY <1>2
<1>3. i - 1 \in DOMAIN deferred' /\ deferred'[i - 1] = deferred[i]
  BY <1>1, <1>2
<1> QED
  BY <1>3

(* Every step leaves a check under way wherever one is shown. *)
LEMMA CheckStep ==
    ASSUME Inductive, [Next]_vars
    PROVE  CheckUnderWay'
<1>1. TypeOK /\ SessionInv /\ LockedIsHeld /\ CheckUnderWay
  BY DEF Inductive
<1>2. deferred \in Seq(Call) /\ pam \subseteq Check
  BY <1>1 DEF TypeOK
<1>3. CASE LockRequest
  BY <1>3 DEF LockRequest, CheckUnderWay
<1>4. CASE HandleLocked
  BY <1>1, <1>4 DEF HandleLocked, SessionInv, CheckUnderWay, TypeOK
<1>5. CASE HandleFinished
  BY <1>5 DEF HandleFinished, Teardown, CheckUnderWay
<1>6. CASE TypeKey
  BY <1>1, <1>6, CheckStays DEF TypeKey
<1>7. CASE TryAuthenticate
  <2> DEFINE c == [gen |-> auth_generation + 1, from |-> session]
  <2>1. c \in pam' /\ c.gen = auth_generation'
    BY <1>7 DEF TryAuthenticate
  <2> QED
    BY <2>1 DEF CheckUnderWay
<1>8. CASE CornerClick
  BY <1>1, <1>8, CheckStays DEF CornerClick
<1>9. CASE PamAnswers
  <2>1. PICK c \in pam, ok \in BOOLEAN :
           /\ pam' = pam \ {c}
           /\ deferred' = Append(deferred, [kind |-> "auth", gen |-> c.gen,
                                            from |-> c.from, success |-> ok])
    BY <1>9 DEF PamAnswers
  <2> DEFINE answer == [kind |-> "auth", gen |-> c.gen, from |-> c.from,
                        success |-> ok]
  <2>2. answer \in Call /\ answer.kind = "auth" /\ answer.gen = c.gen
    BY <1>2 DEF Check, Call
  <2>3. deferred' = Append(deferred, answer)
    BY <2>1
  <2> HIDE DEF answer
  <2>4. UNCHANGED <<locked, authenticating, auth_generation>>
    BY <1>9 DEF PamAnswers, flags
  <2>5. /\ \A i \in DOMAIN deferred : i \in DOMAIN deferred' /\ deferred'[i] = deferred[i]
        /\ Len(deferred) + 1 \in DOMAIN deferred'
        /\ deferred'[Len(deferred) + 1] = answer
    BY <1>2, <2>2, <2>3, QueueGrows
  <2> QED
    BY <1>1, <2>1, <2>2, <2>4, <2>5 DEF CheckUnderWay
<1>10. CASE DeliverAuth
  <2>1. /\ deferred # <<>> /\ deferred' = Tail(deferred)
        /\ UNCHANGED <<locked, auth_generation, pam>>
    BY <1>10 DEF DeliverAuth
  <2>2. CASE Head(deferred).gen # auth_generation \/ ~locked
    <3>1. authenticating' = authenticating
      BY <1>10, <2>2 DEF DeliverAuth
    <3>2. \A i \in DOMAIN deferred :
             deferred[i] = Head(deferred)
               \/ \E j \in DOMAIN deferred' : deferred'[j] = deferred[i]
      BY <1>2, <2>1, QueueShrinks
    <3> QED
      BY <1>1, <2>1, <2>2, <3>1, <3>2 DEF CheckUnderWay
  <2>3. CASE ~(Head(deferred).gen # auth_generation \/ ~locked)
    <3>1. authenticating' = FALSE
      BY <1>10, <2>3 DEF DeliverAuth, AuthSucceeds, AuthFails
    <3> QED
      BY <3>1 DEF CheckUnderWay
  <2> QED
    BY <2>2, <2>3
<1>11. CASE FinishUnlock
  <2>1. /\ deferred # <<>> /\ deferred' = Tail(deferred)
        /\ Head(deferred).kind = "finish"
        /\ UNCHANGED <<locked, authenticating, auth_generation, pam>>
    BY <1>11 DEF FinishUnlock, flags
  <2>2. \A i \in DOMAIN deferred :
           deferred[i] = Head(deferred)
             \/ \E j \in DOMAIN deferred' : deferred'[j] = deferred[i]
    BY <1>2, <2>1, QueueShrinks
  <2> QED
    BY <1>1, <2>1, <2>2 DEF CheckUnderWay
<1>12. CASE FinishUnlockEnd
  BY <1>12 DEF FinishUnlockEnd, Teardown, CheckUnderWay
<1>13. CASE TimerTick
  BY <1>1, <1>13, CheckStays DEF TimerTick
<1>14. ASSUME NEW i \in DOMAIN surfaces, SurfaceConfigure(i)
       PROVE  CheckUnderWay'
  BY <1>1, <1>14, CheckStays DEF SurfaceConfigure, flags
<1>15. ASSUME NEW i \in DOMAIN surfaces, Paint(i)
       PROVE  CheckUnderWay'
  <2>1. UNCHANGED <<locked, authenticating, auth_generation, pam>>
    BY <1>15 DEF Paint, flags
  <2>2. \/ deferred' = deferred
        \/ deferred' = Append(deferred, [kind |-> "finish", from |-> session])
    BY <1>15 DEF Paint
  <2>3. session \in 1..MaxSessions
    <3>1. surfaces # <<>>
      BY <1>1, EmptySeq, LenProperties DEF TypeOK
    <3> QED
      BY <1>1, <3>1 DEF SessionInv, TypeOK
  <2>4. [kind |-> "finish", from |-> session] \in Call
    BY <2>3 DEF Call
  <2>5. \A k \in DOMAIN deferred : k \in DOMAIN deferred' /\ deferred'[k] = deferred[k]
    BY <1>2, <2>2, <2>4, QueueGrows
  <2> QED
    BY <1>1, <2>1, <2>5 DEF CheckUnderWay
<1>16. ASSUME NEW o \in Outputs, OutputAdded(o) \/ OutputDone(o) \/ OutputRemoved(o)
       PROVE  CheckUnderWay'
  BY <1>1, <1>16, CheckStays DEF OutputAdded, OutputDone, OutputRemoved, flags
<1>17. CASE UNCHANGED vars
  BY <1>1, <1>17, CheckStays DEF vars, flags
<1> QED
  BY <1>3, <1>4, <1>5, <1>6, <1>7, <1>8, <1>9, <1>10, <1>11, <1>12, <1>13,
     <1>14, <1>15, <1>16, <1>17
     DEF Next, Monitors, Compositor, User, Progress
-----------------------------------------------------------------------------
(* Inductive is an inductive invariant of the lock client. *)
THEOREM InductiveHolds == Spec => []Inductive
<1>1. Inductive /\ [Next]_vars => Inductive'
  BY TypeStep, SessionStep, SurfacesStep, CheckStep DEF Inductive
<1> QED
  BY <1>1, InitHolds, PTL DEF Spec

(* The state of modules/lock.cpp keeps its types: the surfaces, the checks and *)
(* the deferred calls are those of outputs, sessions and attempts that were.   *)
THEOREM TypeCorrect == Spec => []TypeOK
<1>1. Inductive => TypeOK
  BY DEF Inductive
<1> QED
  BY <1>1, InductiveHolds, PTL

(* The flag other modules consult agrees with the lock, and a locked session *)
(* still has its lock object or is just giving it up in finish_unlock,       *)
(* whatever the compositor, PAM, the animations and the monitors do.         *)
THEOREM LockedAlwaysHeld == Spec => []LockedIsHeld
<1>1. Inductive => LockedIsHeld
  BY DEF Inductive
<1> QED
  BY <1>1, InductiveHolds, PTL

(* No output has two lock surfaces, none outlives its output, and a locked   *)
(* session has one on every announced output: the two hotplug handlers and   *)
(* lock_request keep to it for any number of outputs.                        *)
THEOREM AlwaysOneSurfacePerOutput == Spec => []OneSurfacePerOutput
<1>1. Inductive => OneSurfacePerOutput
  BY DEF Inductive
<1> QED
  BY <1>1, InductiveHolds, PTL

(* The password field is never left waiting for a check that nobody makes:   *)
(* deliver_auth drops only answers that are not of the current generation.   *)
THEOREM CheckAlwaysUnderWay == Spec => []CheckUnderWay
<1>1. Inductive => CheckUnderWay
  BY DEF Inductive
<1> QED
  BY <1>1, InductiveHolds, PTL
=============================================================================
