--------------------------- MODULE WallpaperProofs ---------------------------
(***************************************************************************)
(* Proofs about the wallpaper as MCWorkers runs it: for every number of    *)
(* columns, changes of the configuration, threads and frames of video      *)
(* memory.  The invariant WallInv says what one column, the threads that   *)
(* work for it and the letters they have posted owe each other, and who    *)
(* holds a frame; one lemma per operation shows what it keeps of that, one *)
(* per handler that the invariant holds again at its end.                  *)
(***************************************************************************)
EXTENDS MCWorkers, SequenceTheorems, FiniteSetTheorems, TLAPS

(* What a queue gains at its end and loses at its head, as facts about its *)
(* positions.                                                              *)
Grown(s, e, t) ==
    \E n : /\ n \notin DOMAIN s /\ DOMAIN t = DOMAIN s \cup {n}
           /\ t[n] = e /\ \A i \in DOMAIN s : t[i] = s[i]

LEMMA Queued ==
    ASSUME NEW S, NEW s \in Seq(S), NEW e \in S
    PROVE  Append(s, e) \in Seq(S) /\ Grown(s, e, Append(s, e))
<1> DEFINE t == Append(s, e)
<1>1. /\ t \in Seq(S) /\ Len(t) = Len(s) + 1 /\ Len(s) \in Nat
      /\ DOMAIN s = 1..Len(s) /\ DOMAIN t = 1..Len(t)
      /\ t[Len(s) + 1] = e /\ \A i \in 1..Len(s) : t[i] = s[i]
  OBVIOUS
<1> HIDE DEF t
<1>2. Len(s) + 1 \notin DOMAIN s /\ DOMAIN t = DOMAIN s \cup {Len(s) + 1}
  BY <1>1
<1> QED
  BY <1>1, <1>2 DEF Grown, t

LEMMA Taken ==
    ASSUME NEW S, NEW s \in Seq(S), s # <<>>
    PROVE  LET t == Tail(s)
           IN  /\ t \in Seq(S) /\ Head(s) \in S /\ 1 \in DOMAIN s /\ Head(s) = s[1]
               /\ \A i \in DOMAIN t :
                     i + 1 \in DOMAIN s /\ i + 1 # 1 /\ t[i] = s[i + 1]
               /\ \A i, j \in DOMAIN t : i + 1 = j + 1 => i = j
               /\ \A i \in DOMAIN s : i = 1 \/ (i - 1 \in DOMAIN t /\ t[i - 1] = s[i])
<1> DEFINE t == Tail(s)
<1>1. /\ t \in Seq(S) /\ Len(s) \in Nat \ {0} /\ Len(t) = Len(s) - 1
      /\ DOMAIN s = 1..Len(s) /\ Head(s) = s[1] /\ Head(s) \in S
      /\ \A i \in 1..Len(t) : t[i] = s[i + 1]
  BY HeadTailProperties, EmptySeq
<1>2. DOMAIN t = 1..(Len(s) - 1)
  BY <1>1
<1> HIDE DEF t
<1>3. 1 \in DOMAIN s
  BY <1>1
<1>4. \A i \in DOMAIN t : i + 1 \in DOMAIN s /\ i + 1 # 1 /\ t[i] = s[i + 1]
  BY <1>1, <1>2
<1>5. \A i \in DOMAIN s : i = 1 \/ (i - 1 \in DOMAIN t /\ t[i - 1] = s[i])
  BY <1>1, <1>2
<1>6. \A i, j \in DOMAIN t : i + 1 = j + 1 => i = j
  BY <1>1, <1>2
<1> QED
  BY <1>1, <1>3, <1>4, <1>5, <1>6 DEF t

-----------------------------------------------------------------------------
(* The columns of the wallpaper, the threads that decode for them, and the  *)
(* frames of video memory.                                                  *)

\* The provers do not know that a string literal is a string.
Pictures == STRING \cup {Columns!NoPicture}

Playback == [on : BOOLEAN, alive : BOOLEAN, paused : BOOLEAN, draining : BOOLEAN,
             cpu : BOOLEAN, importFailed : BOOLEAN]
Column == [life : Nat, gen : Nat, path : Pictures, tex : Pictures, prev : Pictures,
           transition : BOOLEAN, fading : BOOLEAN, video : Pictures, zeroCopy : BOOLEAN,
           pin : Nat, pinPrev : Nat, decode : Playback, failed : Nat]
Job == [life : Nat, gen : Nat, path : Pictures]
Letter ==
    {l \in [kind : {"still", "drm", "cpu"}, life : Nat, gen : Nat, path : Pictures,
            frame : Nat] : l.kind = "drm" \/ l.frame = 0}

(* A video shows itself or nothing, and only a video leaves a video texture.*)
ColumnOK(c) ==
    /\ c.decode.alive => c.decode.on
    /\ c.decode.on => /\ c.path # Columns!NoPicture
                      /\ c.tex \in {Columns!NoPicture, c.path}
                      /\ c.video \in {Columns!NoPicture, c.path}
    /\ ~c.decode.on => ~c.zeroCopy

(* Lives are given out once.                                                *)
LivesOK(cols, lives, threads, post) ==
    /\ \A i \in DOMAIN cols : cols[i].life <= lives
    /\ \A i, j \in DOMAIN cols : cols[i].life = cols[j].life => i = j
    /\ \A t \in threads : t.life <= lives
    /\ \A k \in DOMAIN post : post[k].life <= lives

(* What a thread does for a column, as it is now, and what it has posted.   *)
Fits(c, call) ==
    IF call.kind = "still"
    THEN ~c.decode.on /\ call.path \in {c.path, Columns!NoPicture}
    ELSE c.decode.on /\ call.path = c.path
NewsOK(c, threads, post) ==
    /\ \A t \in threads : t.life = c.life =>
          t.gen <= c.gen /\ (t.gen = c.gen => ~c.decode.on /\ t.path = c.path)
    /\ \A k \in DOMAIN post : post[k].life = c.life =>
          post[k].gen <= c.gen /\ (post[k].gen = c.gen => Fits(c, post[k]))

(* A still is there, or could not be decoded, or is under way.              *)
Served(c, threads, post) ==
    \/ c.decode.on \/ c.tex = c.path \/ c.failed = c.gen
    \/ \E t \in threads : t.life = c.life /\ t.gen = c.gen
    \/ \E k \in DOMAIN post : post[k].life = c.life /\ post[k].gen = c.gen

(* A frame has one holder, and only what is held is there.                  *)
FramesOK(cols, post, frames) ==
    /\ 0 \notin frames
    /\ \A k \in DOMAIN post : post[k].frame # 0 =>
          /\ post[k].frame \in frames
          /\ \A l \in DOMAIN post : post[l].frame = post[k].frame => l = k
          /\ \A i \in DOMAIN cols :
                cols[i].pin # post[k].frame /\ cols[i].pinPrev # post[k].frame
    /\ \A i \in DOMAIN cols : cols[i].pin # 0 =>
          /\ cols[i].pin \in frames
          /\ \A j \in DOMAIN cols : /\ cols[j].pin = cols[i].pin => j = i
                                    /\ cols[j].pinPrev # cols[i].pin
    /\ \A i \in DOMAIN cols : cols[i].pinPrev # 0 =>
          /\ cols[i].pinPrev \in frames
          /\ \A j \in DOMAIN cols : cols[j].pinPrev = cols[i].pinPrev => j = i
    /\ \A f \in frames :
          \/ \E k \in DOMAIN post : post[k].frame = f
          \/ \E i \in DOMAIN cols : cols[i].pin = f \/ cols[i].pinPrev = f

Steady(cols, lives, threads, post, frames) ==
    /\ cols \in Seq(Column) /\ lives \in Nat /\ threads \subseteq Job /\ post \in Seq(Letter)
    /\ LivesOK(cols, lives, threads, post) /\ FramesOK(cols, post, frames)
    /\ \A i \in DOMAIN cols : /\ ColumnOK(cols[i]) /\ NewsOK(cols[i], threads, post)
                              /\ Served(cols[i], threads, post)

(* The columns are those of the configuration.                              *)
Configured(cols, config) ==
    /\ DOMAIN cols = DOMAIN config.paths
    /\ \A i \in DOMAIN cols : cols[i].path = config.paths[i]
    /\ ~config.animated => \A i \in DOMAIN cols : ~cols[i].decode.on

Coming(w) == w.clock.callback = "committed" /\ w.clock.redraw
ClockSound(w) == Columns!ClockOK(w.clock) /\ w.clock.callback # "armed"

WallFields == {"cols", "lives", "threads", "posted", "frames", "config", "clock", "size",
               "saver", "locked", "painted", "gone"}

WallBase(w, n) ==
    /\ DOMAIN w = WallFields /\ w.locked \in BOOLEAN /\ w.gone \in BOOLEAN
    /\ Steady(w.cols, w.lives, w.threads, w.posted, w.frames)
    /\ w.frames \subseteq 1..n /\ w.config \in Wallpapers
    /\ ClockSound(w)

(* What is on the screen, or will be.                                       *)
Visible(w) == w.locked \/ w.painted = Columns!Picture(w) \/ Coming(w)

WallOK(w, n) ==
    /\ WallBase(w, n)
    /\ IF w.gone THEN w.cols = <<>> /\ w.clock.callback = "none"
       ELSE Configured(w.cols, w.config) /\ w.clock.mapped /\ Visible(w)

WallInv ==
    /\ wpWork \in [changes : Nat, frames : Nat, plugin : BOOLEAN]
    /\ wpWork.changes <= MaxChanges /\ wpWork.frames <= MaxFrames
    /\ WallOK(wp, wpWork.frames)

-----------------------------------------------------------------------------
(* What the operations of one column make of it.                            *)
LEMMA ColumnMade ==
    ASSUME NEW life \in Nat
    PROVE  LET d == Columns!NewColumn(life)
           IN  /\ d \in Column /\ d.life = life /\ ~d.decode.on /\ d.gen = 0
               /\ ~d.decode.alive /\ ~d.zeroCopy /\ d.path = Columns!NoPicture
               /\ d.tex = Columns!NoPicture /\ d.video = Columns!NoPicture
               /\ d.pin = 0 /\ d.pinPrev = 0
<1> DEFINE p == Columns!NoPlayback
<1>1. p \in Playback /\ p.on = FALSE /\ p.alive = FALSE
  BY DEF Columns!NoPlayback, Playback
<1> HIDE DEF p
<1>5. PICK no \in BOOLEAN : no = FALSE
  OBVIOUS
<1> DEFINE d == [life |-> life, gen |-> 0, path |-> "", tex |-> "",
                 prev |-> "", transition |-> no, fading |-> no,
                 video |-> "", zeroCopy |-> no, pin |-> 0,
                 pinPrev |-> 0, decode |-> p, failed |-> 0]
<1>2. Columns!NewColumn(life) = d
  BY <1>5 DEF Columns!NewColumn, Columns!NoPicture, Columns!NoFrame, p
<1>3. d \in Column
  <2>1. p \in Playback /\ no \in BOOLEAN /\ 0 \in Nat /\ "" \in Pictures
    BY <1>1 DEF Pictures, Columns!NoPicture
  <2> QED
    BY ONLY <2>1, life \in Nat DEF Column
<1>4. /\ d.life = life /\ d.gen = 0 /\ d.path = "" /\ d.tex = "" /\ d.video = ""
      /\ d.pin = 0 /\ d.pinPrev = 0 /\ d.decode = p /\ d.zeroCopy = no
  OBVIOUS
<1> HIDE DEF d
<1> QED
  BY <1>1, <1>2, <1>3, <1>4, <1>5 DEF Columns!NoPicture

LEMMA ColumnCleared ==
    ASSUME NEW c \in Column
    PROVE  LET d == Columns!ClearedColumn(c)
           IN  /\ d \in Column /\ d.life = c.life /\ d.gen = c.gen + 1 /\ ~d.decode.on
               /\ ~d.decode.alive /\ ~d.zeroCopy /\ d.path = Columns!NoPicture
               /\ d.tex = Columns!NoPicture /\ d.video = Columns!NoPicture
               /\ d.pin = 0 /\ d.pinPrev = 0
<1> DEFINE d == Columns!NewColumn(c.life)
<1>1. c.life \in Nat /\ c.gen + 1 \in Nat
  BY DEF Column
<1>2. /\ d \in Column /\ d.life = c.life /\ ~d.decode.on
      /\ ~d.decode.alive /\ ~d.zeroCopy /\ d.path = Columns!NoPicture
      /\ d.tex = Columns!NoPicture /\ d.video = Columns!NoPicture
      /\ d.pin = 0 /\ d.pinPrev = 0
  BY <1>1, ColumnMade
<1>3. Columns!ClearedColumn(c) = [d EXCEPT !.gen = c.gen + 1]
  BY DEF Columns!ClearedColumn
<1> HIDE DEF d
<1> QED
  BY <1>1, <1>2, <1>3 DEF Column

LEMMA ColumnStill ==
    ASSUME NEW c \in Column, NEW path \in Pictures
    PROVE  LET d == Columns!SetStatic(c, path)
           IN  /\ d \in Column /\ d.life = c.life /\ d.gen = c.gen + 1 /\ d.path = path
               /\ d.decode = c.decode /\ d.zeroCopy = c.zeroCopy
               /\ d.pin = c.pin /\ d.pinPrev = c.pinPrev
<1>1. PICK b \in BOOLEAN : b = (c.tex # Columns!NoPicture)
  OBVIOUS
<1>2. c.gen + 1 \in Nat
  BY DEF Column
<1> DEFINE d == [c EXCEPT !.path = path, !.gen = @ + 1, !.transition = b]
<1>3. Columns!SetStatic(c, path) = d
  BY <1>1 DEF Columns!SetStatic
<1>4. /\ d \in Column /\ d.life = c.life /\ d.gen = c.gen + 1 /\ d.path = path
      /\ d.decode = c.decode /\ d.zeroCopy = c.zeroCopy
      /\ d.pin = c.pin /\ d.pinPrev = c.pinPrev
  BY <1>2 DEF Column
<1> QED
  BY ONLY <1>3, <1>4

LEMMA ColumnPlays ==
    ASSUME NEW c \in Column, NEW path \in Pictures
    PROVE  LET d == Columns!SetAnimated(c, path)
           IN  /\ d \in Column /\ d.life = c.life /\ d.gen = c.gen + 1 /\ d.path = path
               /\ d.decode.on \/ (d.decode = c.decode /\ d.failed = d.gen)
               /\ d.tex = c.tex /\ d.video = c.video /\ d.zeroCopy = c.zeroCopy
               /\ d.pin = c.pin /\ d.pinPrev = c.pinPrev
<1> DEFINE p == Columns!NewPlayback
<1>1. p \in Playback /\ p.on
  BY DEF Columns!NewPlayback, Columns!NoPlayback, Playback
<1>2. c.gen + 1 \in Nat
  BY DEF Column
<1> HIDE DEF p
<1> DEFINE e == [c EXCEPT !.path = path, !.gen = @ + 1]
<1>3. /\ e \in Column /\ e.life = c.life /\ e.gen = c.gen + 1 /\ e.path = path
      /\ e.decode = c.decode /\ e.tex = c.tex /\ e.video = c.video
      /\ e.zeroCopy = c.zeroCopy /\ e.pin = c.pin /\ e.pinPrev = c.pinPrev
      /\ e.gen \in Nat
  BY <1>2 DEF Column
<1>4. Columns!SetAnimated(c, path) = IF wpWork.plugin THEN [e EXCEPT !.decode = p]
                                     ELSE [e EXCEPT !.failed = e.gen]
  BY DEF Columns!SetAnimated, p
<1> HIDE DEF e
<1> DEFINE on == [e EXCEPT !.decode = p]
           off == [e EXCEPT !.failed = e.gen]
<1>5. /\ on \in Column /\ on.life = c.life /\ on.gen = c.gen + 1 /\ on.path = path
      /\ on.decode = p /\ on.tex = c.tex /\ on.video = c.video
      /\ on.zeroCopy = c.zeroCopy /\ on.pin = c.pin /\ on.pinPrev = c.pinPrev
  BY <1>1, <1>3 DEF Column
<1>6. /\ off \in Column /\ off.life = c.life /\ off.gen = c.gen + 1 /\ off.path = path
      /\ off.decode = c.decode /\ off.failed = off.gen /\ off.tex = c.tex
      /\ off.video = c.video /\ off.zeroCopy = c.zeroCopy
      /\ off.pin = c.pin /\ off.pinPrev = c.pinPrev
  BY <1>3 DEF Column
<1>7. \/ Columns!SetAnimated(c, path) = on
      \/ Columns!SetAnimated(c, path) = off
  BY <1>4
<1> HIDE DEF on, off
<1> QED
  BY ONLY <1>1, <1>5, <1>6, <1>7

(* A list that is rebuilt element by element.                               *)
LEMMA Relisted ==
    ASSUME NEW S, NEW n \in Nat, NEW f, f = [i \in 1..n |-> f[i]],
           \A i \in 1..n : f[i] \in S
    PROVE  f \in Seq(S) /\ Len(f) = n /\ DOMAIN f = 1..n
<1>1. f \in [1..n -> S]
  OBVIOUS
<1> QED
  BY <1>1

-----------------------------------------------------------------------------
(* Columns change together.                                                 *)
LEMMA SteadyTyped ==
    ASSUME NEW cols, NEW lives, NEW threads, NEW post, NEW frames,
           Steady(cols, lives, threads, post, frames)
    PROVE  /\ cols \in Seq(Column) /\ lives \in Nat /\ threads \subseteq Job
           /\ post \in Seq(Letter) /\ Len(cols) \in Nat /\ DOMAIN cols = 1..Len(cols)
           /\ \A i \in DOMAIN cols : cols[i] \in Column
           /\ \A k \in DOMAIN post : post[k] \in Letter
           /\ cols = [i \in DOMAIN cols |-> cols[i]]
  BY DEF Steady

(* What is drawn, paused or read of a column is its own.                    *)
Alike(c, d) ==
    /\ d.life = c.life /\ d.gen = c.gen /\ d.path = c.path /\ d.tex = c.tex
    /\ d.video = c.video /\ d.zeroCopy = c.zeroCopy /\ d.pin = c.pin
    /\ d.pinPrev = c.pinPrev /\ d.failed = c.failed
    /\ d.decode.on = c.decode.on /\ (d.decode.alive => c.decode.alive)

LEMMA AlikeSteady ==
    ASSUME NEW cols, NEW lives, NEW threads, NEW post, NEW frames,
           Steady(cols, lives, threads, post, frames),
           NEW new \in Seq(Column), DOMAIN new = DOMAIN cols,
           \A i \in DOMAIN cols : Alike(cols[i], new[i])
    PROVE  /\ Steady(new, lives, threads, post, frames)
           /\ \A config : Configured(cols, config) => Configured(new, config)
<1> USE DEF Alike
<1>1. LivesOK(new, lives, threads, post)
  BY DEF Steady, LivesOK
<1>2. FramesOK(new, post, frames)
  <2>1. \A i \in DOMAIN cols : new[i].pin = cols[i].pin /\ new[i].pinPrev = cols[i].pinPrev
    OBVIOUS
  <2>2. FramesOK(cols, post, frames) /\ DOMAIN new = DOMAIN cols
    BY DEF Steady
  <2> QED
    BY ONLY <2>1, <2>2 DEF FramesOK
<1>3. ASSUME NEW i \in DOMAIN new
      PROVE  ColumnOK(new[i]) /\ NewsOK(new[i], threads, post) /\ Served(new[i], threads, post)
  BY <1>3 DEF Steady, ColumnOK, NewsOK, Fits, Served
<1>4. ASSUME NEW config, Configured(cols, config)
      PROVE  Configured(new, config)
  <2>1. DOMAIN new = DOMAIN config.paths /\ \A i \in DOMAIN new : new[i].path = config.paths[i]
    BY <1>4 DEF Configured
  <2>2. ASSUME ~config.animated, NEW i \in DOMAIN new
        PROVE  ~new[i].decode.on
    BY <1>4, <2>2 DEF Configured
  <2> QED
    BY <2>1, <2>2 DEF Configured
<1>5. Steady(new, lives, threads, post, frames)
  BY <1>1, <1>2, <1>3 DEF Steady
<1> QED
  BY ONLY <1>4, <1>5

LEMMA NewsOutdated ==
    ASSUME NEW c \in Column, NEW threads \in SUBSET Job, NEW post \in Seq(Letter),
           NewsOK(c, threads, post),
           NEW d \in Column, d.life = c.life, d.gen = c.gen + 1
    PROVE  /\ NewsOK(d, threads, post)
           /\ \A t \in threads : t.life = d.life => t.gen <= d.gen /\ t.gen # d.gen
           /\ \A k \in DOMAIN post : post[k].life = d.life => post[k].gen # d.gen
<1>1. \A g \in Nat : g <= c.gen => g <= d.gen /\ g # d.gen
  BY DEF Column
<1>2. ASSUME NEW t \in threads, t.life = d.life
      PROVE  t.gen <= d.gen /\ t.gen # d.gen
  BY <1>1, <1>2 DEF NewsOK, Job
<1>3. ASSUME NEW k \in DOMAIN post, post[k].life = d.life
      PROVE  post[k].gen <= d.gen /\ post[k].gen # d.gen
  <2>1. post[k] \in Letter
    OBVIOUS
  <2>2. post[k].gen <= c.gen
    BY <1>3 DEF NewsOK
  <2> QED
    BY <1>1, <2>1, <2>2 DEF Letter
<1> QED
  BY <1>2, <1>3 DEF NewsOK

LEMMA ClearedSteady ==
    ASSUME NEW cols, NEW lives, NEW threads, NEW post, NEW frames,
           Steady(cols, lives, threads, post, frames),
           NEW is \in SUBSET DOMAIN cols
    PROVE  LET new == [i \in DOMAIN cols |-> IF i \in is THEN Columns!ClearedColumn(cols[i])
                                             ELSE cols[i]]
               left == frames \ UNION {Columns!Pinned(cols[i]) : i \in is}
           IN  Steady(new, lives, threads, post, left)
<1> DEFINE new == [i \in DOMAIN cols |-> IF i \in is THEN Columns!ClearedColumn(cols[i])
                                         ELSE cols[i]]
           left == frames \ UNION {Columns!Pinned(cols[i]) : i \in is}
<1> USE SteadyTyped
<1>1. \A i \in DOMAIN cols : i \notin is => new[i] = cols[i]
  OBVIOUS
<1>2. ASSUME NEW i \in is
      PROVE  /\ new[i] \in Column /\ new[i].life = cols[i].life
             /\ new[i].gen = cols[i].gen + 1 /\ ~new[i].decode.on
             /\ ~new[i].decode.alive /\ ~new[i].zeroCopy /\ new[i].path = Columns!NoPicture
             /\ new[i].tex = Columns!NoPicture
             /\ new[i].pin = 0 /\ new[i].pinPrev = 0
  <2>1. new[i] = Columns!ClearedColumn(cols[i]) /\ cols[i] \in Column
    OBVIOUS
  <2> HIDE DEF new
  <2> QED
    BY <2>1, ColumnCleared
<1>3. \A f : f \in left <=> /\ f \in frames
                            /\ \A i \in is : f # cols[i].pin /\ f # cols[i].pinPrev
  BY DEF Columns!Pinned
<1>4. new = [i \in DOMAIN cols |-> new[i]] /\ DOMAIN new = DOMAIN cols
  OBVIOUS
<1> HIDE DEF new, left
<1>5. \A i \in DOMAIN cols : new[i] \in Column /\ new[i].life = cols[i].life
  BY <1>1, <1>2
<1>6. new \in Seq(Column)
  BY <1>4, <1>5, Relisted
<1>7. LivesOK(new, lives, threads, post)
  BY <1>4, <1>5 DEF Steady, LivesOK
<1>8. FramesOK(new, post, left)
  <2>1. \A i \in DOMAIN cols : i \in is \/ (new[i].pin = cols[i].pin /\ new[i].pinPrev = cols[i].pinPrev)
    BY <1>1
  <2>2. \A i \in is : new[i].pin = 0 /\ new[i].pinPrev = 0
    BY <1>2
  <2>3. FramesOK(cols, post, frames)
    BY DEF Steady
  <2>4. \A i \in DOMAIN cols :
            /\ new[i].pin \in {0, cols[i].pin} /\ new[i].pinPrev \in {0, cols[i].pinPrev}
            /\ new[i].pin # 0 \/ new[i].pinPrev # 0 => i \notin is
    BY ONLY <2>1, <2>2, is \subseteq DOMAIN cols
  <2>5. ASSUME NEW k \in DOMAIN post, post[k].frame # 0
        PROVE  /\ post[k].frame \in left
               /\ \A l \in DOMAIN post : post[l].frame = post[k].frame => l = k
               /\ \A i \in DOMAIN new :
                     new[i].pin # post[k].frame /\ new[i].pinPrev # post[k].frame
    BY ONLY <1>3, <1>4, <2>3, <2>4, <2>5, is \subseteq DOMAIN cols DEF FramesOK
  <2>6. ASSUME NEW i \in DOMAIN new, new[i].pin # 0
        PROVE  /\ new[i].pin \in left
               /\ \A j \in DOMAIN new : /\ new[j].pin = new[i].pin => j = i
                                        /\ new[j].pinPrev # new[i].pin
    BY ONLY <1>3, <1>4, <2>3, <2>4, <2>6, is \subseteq DOMAIN cols DEF FramesOK
  <2>7. ASSUME NEW i \in DOMAIN new, new[i].pinPrev # 0
        PROVE  /\ new[i].pinPrev \in left
               /\ \A j \in DOMAIN new : new[j].pinPrev = new[i].pinPrev => j = i
    BY ONLY <1>3, <1>4, <2>3, <2>4, <2>7, is \subseteq DOMAIN cols DEF FramesOK
  <2>8. ASSUME NEW f \in left
        PROVE  \/ \E k \in DOMAIN post : post[k].frame = f
               \/ \E i \in DOMAIN new : new[i].pin = f \/ new[i].pinPrev = f
    <3>1. f \in frames /\ \A i \in is : f # cols[i].pin /\ f # cols[i].pinPrev
      BY <1>3, <2>8
    <3> QED
      BY ONLY <1>4, <2>1, <2>3, <3>1 DEF FramesOK
  <2>9. 0 \notin left
    BY ONLY <1>3, <2>3 DEF FramesOK
  <2> QED
    BY ONLY <2>5, <2>6, <2>7, <2>8, <2>9 DEF FramesOK
<1>9. ASSUME NEW i \in DOMAIN new
      PROVE  ColumnOK(new[i]) /\ NewsOK(new[i], threads, post) /\ Served(new[i], threads, post)
  <2>1. CASE i \notin is
    BY <1>1, <1>4, <1>9, <2>1 DEF Steady
  <2>2. CASE i \in is
    <3>1. NewsOK(cols[i], threads, post)
      BY <2>2 DEF Steady
    <3>2. NewsOK(new[i], threads, post)
      BY <1>2, <2>2, <3>1, NewsOutdated
    <3> QED
      BY <1>2, <2>2, <3>2 DEF ColumnOK, Served
  <2> QED
    BY <2>1, <2>2
<1>10. Steady(new, lives, threads, post, left)
  BY <1>6, <1>7, <1>8, <1>9 DEF Steady
<1> QED
  BY <1>10 DEF new, left

(* Columns that are cut off were cleared before; new ones get lives that    *)
(* nobody had.                                                              *)
LEMMA ResizedSteady ==
    ASSUME NEW cols, NEW lives, NEW threads, NEW post, NEW frames,
           Steady(cols, lives, threads, post, frames), NEW n \in Nat,
           \A i \in DOMAIN cols : i > n => cols[i].pin = 0 /\ cols[i].pinPrev = 0
    PROVE  LET new == [i \in 1..n |-> IF i <= Len(cols) THEN cols[i]
                                      ELSE Columns!NewColumn(lives + i - Len(cols))]
           IN  Steady(new, IF n > Len(cols) THEN lives + n - Len(cols) ELSE lives,
                      threads, post, frames)
<1> DEFINE m == Len(cols)
           new == [i \in 1..n |-> IF i <= m THEN cols[i]
                                  ELSE Columns!NewColumn(lives + i - m)]
           more == IF n > m THEN lives + n - m ELSE lives
<1> USE SteadyTyped
<1>1. /\ m \in Nat /\ DOMAIN cols = 1..m /\ lives \in Nat /\ more \in Nat /\ lives <= more
  OBVIOUS
<1>2. ASSUME NEW i \in 1..n, i <= m
      PROVE  i \in DOMAIN cols /\ new[i] = cols[i] /\ new[i] \in Column /\ new[i].life <= lives
  BY <1>1, <1>2 DEF Steady, LivesOK
<1>3. ASSUME NEW i \in 1..n, ~(i <= m)
      PROVE  /\ new[i] \in Column /\ new[i].life = lives + i - m /\ ~new[i].decode.on
             /\ ~new[i].decode.alive /\ ~new[i].zeroCopy
             /\ new[i].path = Columns!NoPicture /\ new[i].tex = Columns!NoPicture
             /\ new[i].pin = 0 /\ new[i].pinPrev = 0
             /\ lives < new[i].life /\ new[i].life <= more
  <2>1. lives + i - m \in Nat /\ lives < lives + i - m /\ lives + i - m <= more
    BY <1>1, <1>3
  <2>2. new[i] = Columns!NewColumn(lives + i - m)
    BY <1>3
  <2> HIDE DEF new, more
  <2> QED
    BY <2>1, <2>2, ColumnMade
<1>4. new = [i \in 1..n |-> new[i]] /\ DOMAIN new = 1..n
  OBVIOUS
<1> HIDE DEF new, more
<1>5. new \in Seq(Column)
  BY <1>2, <1>3, <1>4, Relisted
<1>6. LivesOK(new, more, threads, post)
  <2>1. LivesOK(cols, lives, threads, post)
    BY DEF Steady
  <2>2. ASSUME NEW t \in threads PROVE t.life <= more
    BY <1>1, <2>1 DEF LivesOK, Job
  <2>3. ASSUME NEW k \in DOMAIN post PROVE post[k].life <= more
    <3>1. post[k] \in Letter
      OBVIOUS
    <3> QED
      BY <1>1, <2>1, <3>1 DEF LivesOK, Letter
  <2>4. ASSUME NEW i \in 1..n
        PROVE  new[i].life <= more
    BY <1>1, <1>2, <1>3 DEF Column
  <2>5. ASSUME NEW i \in 1..n, NEW j \in 1..n, new[i].life = new[j].life
        PROVE  i = j
    <3>5. /\ new[i].life \in Nat /\ new[j].life \in Nat
          /\ i <= m => new[i].life <= lives
          /\ j <= m => new[j].life <= lives
          /\ ~(i <= m) => lives < new[i].life
          /\ ~(j <= m) => lives < new[j].life
      BY <1>2, <1>3 DEF Column
    <3>1. CASE i <= m /\ j <= m
      BY <1>2, <2>1, <2>5, <3>1 DEF LivesOK
    <3>2. CASE i <= m /\ ~(j <= m)
      BY ONLY <1>1, <2>5, <3>2, <3>5
    <3>3. CASE ~(i <= m) /\ j <= m
      BY ONLY <1>1, <2>5, <3>3, <3>5
    <3>4. CASE ~(i <= m) /\ ~(j <= m)
      BY <1>1, <1>3, <2>5, <3>4
    <3> QED
      BY <3>1, <3>2, <3>3, <3>4
  <2> QED
    BY <1>4, <2>2, <2>3, <2>4, <2>5 DEF LivesOK
<1>7. FramesOK(new, post, frames)
  <2>1. FramesOK(cols, post, frames)
    BY DEF Steady
  <2>2. \A i \in 1..n : \/ i \in DOMAIN cols /\ new[i].pin = cols[i].pin
                           /\ new[i].pinPrev = cols[i].pinPrev
                        \/ new[i].pin = 0 /\ new[i].pinPrev = 0
    BY <1>2, <1>3
  <2>3. \A i \in DOMAIN cols : \/ i \in 1..n /\ new[i].pin = cols[i].pin
                                  /\ new[i].pinPrev = cols[i].pinPrev
                               \/ cols[i].pin = 0 /\ cols[i].pinPrev = 0
    <3>1. \A i \in DOMAIN cols : i > n \/ (i \in 1..n /\ i <= m)
      BY <1>1
    <3> QED
      BY <1>2, <3>1
  <2>4. 0 \notin frames
    BY <2>1 DEF FramesOK
  <2>5. ASSUME NEW k \in DOMAIN post, post[k].frame # 0
        PROVE  /\ post[k].frame \in frames
               /\ \A l \in DOMAIN post : post[l].frame = post[k].frame => l = k
               /\ \A i \in DOMAIN new :
                     new[i].pin # post[k].frame /\ new[i].pinPrev # post[k].frame
    BY ONLY <1>4, <2>1, <2>2, <2>5 DEF FramesOK
  <2>6. ASSUME NEW i \in DOMAIN new, new[i].pin # 0
        PROVE  /\ new[i].pin \in frames
               /\ \A j \in DOMAIN new : /\ new[j].pin = new[i].pin => j = i
                                        /\ new[j].pinPrev # new[i].pin
    BY ONLY <1>4, <2>1, <2>2, <2>6 DEF FramesOK
  <2>7. ASSUME NEW i \in DOMAIN new, new[i].pinPrev # 0
        PROVE  /\ new[i].pinPrev \in frames
               /\ \A j \in DOMAIN new : new[j].pinPrev = new[i].pinPrev => j = i
    BY ONLY <1>4, <2>1, <2>2, <2>7 DEF FramesOK
  <2>8. ASSUME NEW f \in frames
        PROVE  \/ \E k \in DOMAIN post : post[k].frame = f
               \/ \E i \in DOMAIN new : new[i].pin = f \/ new[i].pinPrev = f
    BY ONLY <1>4, <2>1, <2>3, <2>4, <2>8 DEF FramesOK
  <2> QED
    BY ONLY <2>4, <2>5, <2>6, <2>7, <2>8 DEF FramesOK
<1>8. ASSUME NEW i \in DOMAIN new
      PROVE  ColumnOK(new[i]) /\ NewsOK(new[i], threads, post) /\ Served(new[i], threads, post)
  <2>1. CASE i <= m
    BY <1>2, <1>4, <1>8, <2>1 DEF Steady
  <2>2. CASE ~(i <= m)
    <3>1. /\ lives < new[i].life /\ ~new[i].decode.on /\ ~new[i].decode.alive
          /\ ~new[i].zeroCopy /\ new[i].tex = new[i].path /\ new[i].life \in Nat
      BY <1>3, <1>4, <1>8, <2>2 DEF Column
    <3>2. ASSUME NEW t \in threads PROVE t.life # new[i].life
      BY <1>1, <3>1 DEF Steady, LivesOK, Job
    <3>3. ASSUME NEW k \in DOMAIN post PROVE post[k].life # new[i].life
      <4>1. post[k] \in Letter /\ post[k].life <= lives
        BY DEF Steady, LivesOK
      <4> QED
        BY <1>1, <3>1, <4>1 DEF Letter
    <3> QED
      BY <3>1, <3>2, <3>3 DEF ColumnOK, NewsOK, Served
  <2> QED
    BY <2>1, <2>2
<1>9. Steady(new, more, threads, post, frames)
  BY <1>1, <1>5, <1>6, <1>7, <1>8 DEF Steady
<1> QED
  BY <1>9 DEF new, more

(* Columns that take a path: `stills' with a thread for each, `videos' empty*)
(* before.                                                                  *)
MaySet(cols, stills, videos, paths, new, jobs) ==
    /\ stills \subseteq DOMAIN cols /\ videos \subseteq DOMAIN cols /\ jobs \subseteq Job
    /\ \A i \in DOMAIN cols : paths[i] \in Pictures
    /\ \A i \in stills : ~cols[i].decode.on
    /\ \A i \in videos : /\ i \notin stills /\ paths[i] # Columns!NoPicture
                         /\ cols[i].tex = Columns!NoPicture
                         /\ cols[i].video = Columns!NoPicture
    /\ new \in Seq(Column) /\ DOMAIN new = DOMAIN cols
    /\ \A i \in stills : new[i] = Columns!SetStatic(cols[i], paths[i])
    /\ \A i \in videos : new[i] = Columns!SetAnimated(cols[i], paths[i])
    /\ \A i \in DOMAIN cols : i \notin stills /\ i \notin videos => new[i] = cols[i]
    /\ \A t \in jobs : \E i \in stills : /\ t.life = new[i].life /\ t.gen = new[i].gen
                                         /\ t.path = new[i].path
    /\ \A i \in stills : \E t \in jobs : t.life = new[i].life /\ t.gen = new[i].gen

LEMMA SetSteady ==
    ASSUME NEW cols, NEW lives, NEW threads, NEW post, NEW frames,
           Steady(cols, lives, threads, post, frames),
           NEW stills, NEW videos, NEW paths, NEW new, NEW jobs,
           MaySet(cols, stills, videos, paths, new, jobs)
    PROVE  Steady(new, lives, threads \cup jobs, post, frames)
<1> USE SteadyTyped
<1>0. /\ \A i \in stills : /\ i \in DOMAIN cols /\ paths[i] \in Pictures
                           /\ new[i] = Columns!SetStatic(cols[i], paths[i])
      /\ \A i \in videos : /\ i \in DOMAIN cols /\ paths[i] \in Pictures
                           /\ new[i] = Columns!SetAnimated(cols[i], paths[i])
      /\ \A i \in DOMAIN cols : cols[i] \in Column
  BY DEF MaySet
<1>1. ASSUME NEW i \in stills
      PROVE  /\ new[i] \in Column /\ new[i].life = cols[i].life
             /\ new[i].gen = cols[i].gen + 1 /\ new[i].path = paths[i]
             /\ new[i].decode = cols[i].decode /\ new[i].zeroCopy = cols[i].zeroCopy
             /\ new[i].pin = cols[i].pin /\ new[i].pinPrev = cols[i].pinPrev
  <2>1. new[i] = Columns!SetStatic(cols[i], paths[i]) /\ cols[i] \in Column /\ paths[i] \in Pictures
    BY <1>0
  <2> QED
    BY <2>1, ColumnStill
<1>2. ASSUME NEW i \in videos
      PROVE  /\ new[i] \in Column /\ new[i].life = cols[i].life
             /\ new[i].gen = cols[i].gen + 1 /\ new[i].path = paths[i]
             /\ new[i].decode.on \/ (new[i].decode = cols[i].decode /\ new[i].failed = new[i].gen)
             /\ new[i].tex = cols[i].tex /\ new[i].video = cols[i].video
             /\ new[i].zeroCopy = cols[i].zeroCopy
             /\ new[i].pin = cols[i].pin /\ new[i].pinPrev = cols[i].pinPrev
  <2>1. new[i] = Columns!SetAnimated(cols[i], paths[i]) /\ cols[i] \in Column /\ paths[i] \in Pictures
    BY <1>0
  <2> QED
    BY <2>1, ColumnPlays
<1>3. \A i \in DOMAIN cols : i \notin stills /\ i \notin videos => new[i] = cols[i]
  BY DEF MaySet
<1>4. /\ new \in Seq(Column) /\ DOMAIN new = DOMAIN cols
      /\ Steady(cols, lives, threads, post, frames)
      /\ stills \subseteq DOMAIN cols /\ videos \subseteq DOMAIN cols
      /\ jobs \subseteq Job
  BY DEF MaySet
<1>5. /\ \A t \in jobs : \E i \in stills : /\ t.life = new[i].life /\ t.gen = new[i].gen
                                           /\ t.path = new[i].path
      /\ \A i \in stills : \E t \in jobs : t.life = new[i].life /\ t.gen = new[i].gen
      /\ \A i \in stills : ~cols[i].decode.on
      /\ \A i \in videos : /\ i \notin stills /\ paths[i] # Columns!NoPicture
                           /\ cols[i].tex = Columns!NoPicture
                           /\ cols[i].video = Columns!NoPicture
  BY DEF MaySet
<1>6. /\ \A i \in DOMAIN cols : /\ new[i].life = cols[i].life /\ new[i] \in Column
                                /\ new[i].pin = cols[i].pin /\ new[i].pinPrev = cols[i].pinPrev
  BY ONLY <1>1, <1>2, <1>3, <1>4, SteadyTyped
<1>8. LivesOK(new, lives, threads \cup jobs, post)
  <2>1. LivesOK(cols, lives, threads, post)
    BY ONLY <1>4 DEF Steady
  <2>2. ASSUME NEW t \in jobs
        PROVE  t.life <= lives
    BY ONLY <1>4, <1>5, <1>6, <2>1, <2>2 DEF LivesOK
  <2> QED
    BY ONLY <1>4, <1>6, <2>1, <2>2 DEF LivesOK
<1>9. FramesOK(new, post, frames)
  <2>1. FramesOK(cols, post, frames)
    BY ONLY <1>4 DEF Steady
  <2> QED
    BY ONLY <1>4, <1>6, <2>1 DEF FramesOK
<1>10. ASSUME NEW i \in DOMAIN new
       PROVE  /\ ColumnOK(new[i]) /\ NewsOK(new[i], threads, post)
              /\ Served(new[i], threads \cup jobs, post)
              /\ \A t \in threads : t.life = new[i].life => i \notin stills \/ t.gen # new[i].gen
  <2>1. ColumnOK(cols[i]) /\ NewsOK(cols[i], threads, post) /\ Served(cols[i], threads, post)
    BY <1>4, <1>10 DEF Steady
  <2>5. /\ cols[i] \in Column /\ threads \in SUBSET Job /\ post \in Seq(Letter)
        /\ NewsOK(cols[i], threads, post)
    BY <1>4, <1>10, <2>1, SteadyTyped
  <2>2. CASE i \in stills
    <3>4. new[i] \in Column /\ new[i].life = cols[i].life /\ new[i].gen = cols[i].gen + 1
      BY <1>1, <2>2
    <3>1. /\ NewsOK(new[i], threads, post)
          /\ \A t \in threads : t.life = new[i].life => t.gen # new[i].gen
      BY ONLY <2>5, <3>4, NewsOutdated, ZenonT(60)
    <3>2. ColumnOK(new[i])
      BY ONLY <1>1, <1>5, <2>1, <2>2 DEF ColumnOK
    <3>3. Served(new[i], threads \cup jobs, post)
      BY ONLY <1>5, <2>2 DEF Served
    <3> QED
      BY ONLY <3>1, <3>2, <3>3
  <2>3. CASE i \in videos
    <3>4. new[i] \in Column /\ new[i].life = cols[i].life /\ new[i].gen = cols[i].gen + 1
      BY <1>2, <2>3
    <3>1. NewsOK(new[i], threads, post)
      BY ONLY <2>5, <3>4, NewsOutdated, ZenonT(60)
    <3>2. ColumnOK(new[i])
      BY ONLY <1>2, <1>5, <2>1, <2>3 DEF ColumnOK
    <3>3. Served(new[i], threads \cup jobs, post)
      BY ONLY <1>2, <2>3 DEF Served
    <3> QED
      BY ONLY <1>5, <2>3, <3>1, <3>2, <3>3
  <2>4. CASE i \notin stills /\ i \notin videos
    <3>1. new[i] = cols[i]
      BY <1>3, <1>4, <1>10, <2>4
    <3> QED
      BY ONLY <2>1, <2>4, <3>1 DEF Served
  <2> QED
    BY <2>2, <2>3, <2>4
<1>11. ASSUME NEW i \in DOMAIN new
       PROVE  NewsOK(new[i], threads \cup jobs, post)
  <2>1. ASSUME NEW t \in jobs, t.life = new[i].life
        PROVE  t.gen <= new[i].gen /\ (t.gen = new[i].gen => ~new[i].decode.on /\ t.path = new[i].path)
    <3>1. PICK j \in stills : /\ t.life = new[j].life /\ t.gen = new[j].gen
                              /\ t.path = new[j].path
      BY ONLY <1>5, <2>1
    <3>2. j = i
      BY ONLY <1>4, <1>8, <1>11, <2>1, <3>1 DEF LivesOK
    <3>3. ~new[i].decode.on /\ t.gen \in Nat
      BY ONLY <1>1, <1>4, <1>5, <3>1, <3>2, <2>1 DEF Job
    <3> QED
      BY ONLY <3>1, <3>2, <3>3
  <2> QED
    BY ONLY <1>10, <1>11, <2>1 DEF NewsOK
<1> QED
  BY ONLY <1>4, <1>8, <1>9, <1>10, <1>11 DEF Steady

-----------------------------------------------------------------------------
(* The surface.  Whatever is done, a repaint that is coming stays coming.   *)
Kept(r, w) ==
    /\ DOMAIN r = WallFields
    /\ r.posted = w.posted /\ r.locked = w.locked /\ r.gone = w.gone
    /\ ClockSound(r)
    /\ w.clock.mapped => r.clock.mapped
    /\ Coming(w) => Coming(r)

(* Nothing but the clock and the screen.                                    *)
Same(r, w) ==
    /\ Kept(r, w) /\ r.cols = w.cols /\ r.lives = w.lives /\ r.threads = w.threads
    /\ r.frames = w.frames /\ r.config = w.config /\ r.size = w.size

LEMMA SameBase ==
    ASSUME NEW n, NEW w, WallBase(w, n), NEW r, Same(r, w)
    PROVE  WallBase(r, n)
  BY DEF WallBase, Same, Kept

(* The clock of the surface, through each of its operations.                *)
LEMMA WallClock ==
    ASSUME NEW c, Columns!ClockOK(c), c.callback # "armed"
    PROVE  /\ c.callback # "none" =>
                 LET d == Columns!Deferred(c)
                 IN  /\ Columns!ClockOK(d) /\ d.callback = "committed" /\ d.redraw /\ d.mapped
           /\ c.callback = "none" /\ c.mapped =>
                 LET d == Columns!Scheduled(c)
                 IN  /\ Columns!ClockOK(d) /\ d.callback = "committed" /\ d.redraw /\ d.mapped
           /\ c.callback = "none" =>
                 \A f \in {Columns!FirstDraw(c), Columns!Deferred(Columns!FirstDraw(c))} :
                    LET d == Columns!Committed(f)
                    IN  /\ Columns!ClockOK(d) /\ d.callback = "committed" /\ d.mapped
           /\ \A f \in {Columns!DoneForDraw(c), Columns!Deferred(Columns!DoneForDraw(c))} :
                 c.callback # "none" =>
                    LET d == Columns!Committed(f)
                    IN  /\ Columns!ClockOK(d) /\ d.callback = "committed" /\ d.mapped
<1> USE DEF Columns!ClockOK, Columns!Clock, Columns!Callbacks, Columns!Committed,
            Columns!Armed, Columns!Deferred
<1>1. c \in Columns!Clock
  OBVIOUS
<1>2. c.callback # "none" =>
         LET d == Columns!Deferred(c)
         IN  /\ Columns!ClockOK(d) /\ d.callback = "committed" /\ d.redraw /\ d.mapped
  BY <1>1
<1>3. c.callback = "none" /\ c.mapped =>
         LET d == Columns!Scheduled(c)
         IN  /\ Columns!ClockOK(d) /\ d.callback = "committed" /\ d.redraw /\ d.mapped
  BY <1>1 DEF Columns!Scheduled
<1>4. ASSUME c.callback = "none",
             NEW f \in {Columns!FirstDraw(c), Columns!Deferred(Columns!FirstDraw(c))}
      PROVE  LET d == Columns!Committed(f)
             IN  /\ Columns!ClockOK(d) /\ d.callback = "committed" /\ d.mapped
  BY <1>1, <1>4 DEF Columns!FirstDraw
<1>5. ASSUME c.callback # "none",
             NEW f \in {Columns!DoneForDraw(c), Columns!Deferred(Columns!DoneForDraw(c))}
      PROVE  LET d == Columns!Committed(f)
             IN  /\ Columns!ClockOK(d) /\ d.callback = "committed" /\ d.mapped
  BY <1>1, <1>5 DEF Columns!DoneForDraw
<1> QED
  BY ONLY <1>2, <1>3, <1>4, <1>5

LEMMA Clocked ==
    ASSUME NEW w, DOMAIN w = WallFields, NEW c, Columns!ClockOK(c), c.callback # "armed",
           c.mapped, Coming(w) => c.callback = "committed" /\ c.redraw
    PROVE  LET r == [w EXCEPT !.clock = c] IN Same(r, w) /\ r.clock = c
  BY DEF Same, Kept, ClockSound, Coming, WallFields

(* wallpaper_draw, over what is not locked.                                 *)
LEMMA WallPainted ==
    ASSUME NEW w, DOMAIN w = WallFields, w.locked = FALSE, w.cols \in Seq(Column),
           NEW over \in BOOLEAN,
           \A f \in {w.clock, Columns!Deferred(w.clock)} :
              LET d == Columns!Committed(f)
              IN  /\ Columns!ClockOK(d) /\ d.callback = "committed" /\ d.mapped
    PROVE  LET r == Columns!Paint(w, over)
           IN  /\ DOMAIN r = WallFields /\ r.cols \in Seq(Column)
               /\ DOMAIN r.cols = DOMAIN w.cols
               /\ \A i \in DOMAIN w.cols : Alike(w.cols[i], r.cols[i])
               /\ ~over => r.cols = w.cols
               /\ r.lives = w.lives /\ r.threads = w.threads /\ r.posted = w.posted
               /\ r.frames = w.frames /\ r.config = w.config /\ r.locked = w.locked
               /\ r.gone = w.gone /\ r.size = w.size
               /\ r.painted = Columns!Picture(r)
               /\ ClockSound(r) /\ r.clock.mapped
<1> DEFINE fading == \E i \in DOMAIN w.cols : w.cols[i].fading
           cols == [i \in DOMAIN w.cols |->
                       IF w.cols[i].fading /\ over
                       THEN [w.cols[i] EXCEPT !.fading = FALSE, !.prev = Columns!NoPicture]
                       ELSE w.cols[i]]
           clock == IF fading /\ ~over THEN Columns!Deferred(w.clock) ELSE w.clock
           d == [w EXCEPT !.cols = cols, !.clock = clock]
           picture == Columns!Picture(w)
           r == [d EXCEPT !.painted = picture, !.clock = Columns!Committed(clock)]
<1>1. Columns!DrawTransitions(w, over) = d
  BY DEF Columns!DrawTransitions
<1>2. ASSUME NEW i \in DOMAIN w.cols
      PROVE  cols[i] \in Column /\ Alike(w.cols[i], cols[i])
  <2>1. w.cols[i] \in Column /\ Columns!NoPicture \in Pictures
    BY DEF Pictures
  <2>2. PICK no \in BOOLEAN : no = FALSE
    OBVIOUS
  <2> DEFINE e == [w.cols[i] EXCEPT !.fading = no, !.prev = Columns!NoPicture]
  <2>3. e \in Column /\ Alike(w.cols[i], e)
    BY <2>1 DEF Column, Alike
  <2>4. cols[i] = e \/ cols[i] = w.cols[i]
    BY <2>2
  <2> HIDE DEF e, cols
  <2> QED
    BY <2>1, <2>3, <2>4 DEF Alike
<1>3. /\ cols = [i \in DOMAIN w.cols |-> cols[i]] /\ DOMAIN cols = DOMAIN w.cols
      /\ Len(w.cols) \in Nat /\ DOMAIN w.cols = 1..Len(w.cols)
  <2>1. cols \in [DOMAIN w.cols -> Column]
    BY <1>2
  <2>2. Len(w.cols) \in Nat /\ DOMAIN w.cols = 1..Len(w.cols)
    OBVIOUS
  <2> HIDE DEF cols
  <2> QED
    BY <2>1, <2>2
<1>4. ~over => cols = w.cols
  OBVIOUS
<1>5. clock \in {w.clock, Columns!Deferred(w.clock)}
  OBVIOUS
<1>6. Columns!Paint(w, over) = r
  <2>1. d.clock = clock
    BY DEF WallFields
  <2> HIDE DEF d
  <2> QED
    BY <1>1, <2>1 DEF Columns!Paint
<1> HIDE DEF cols, clock
<1>7. /\ DOMAIN r = WallFields /\ r.cols = cols /\ r.clock = Columns!Committed(clock)
      /\ r.lives = w.lives /\ r.threads = w.threads /\ r.posted = w.posted
      /\ r.frames = w.frames /\ r.config = w.config /\ r.locked = w.locked
      /\ r.gone = w.gone /\ r.size = w.size /\ r.painted = picture
  BY DEF WallFields
<1> HIDE DEF r, picture
<1>8. picture = Columns!Picture(r)
  <2>1. \A i \in DOMAIN w.cols : Columns!Shown(cols[i]) = Columns!Shown(w.cols[i])
    BY <1>2 DEF Alike, Columns!Shown
  <2>2. r.size = w.size /\ r.cols = cols /\ DOMAIN cols = DOMAIN w.cols
    BY <1>3, <1>7
  <2> QED
    BY ONLY <2>1, <2>2 DEF picture, Columns!Picture
<1>9. cols \in Seq(Column)
  BY <1>2, <1>3, Relisted
<1>10. ClockSound(r) /\ r.clock.mapped
  BY <1>5, <1>7 DEF ClockSound
<1> QED
  BY <1>2, <1>3, <1>4, <1>6, <1>7, <1>8, <1>9, <1>10

LEMMA WallRequested ==
    ASSUME NEW n, NEW w, WallBase(w, n)
    PROVE  LET r == Columns!ClockRequests(w)
           IN  /\ Same(r, w) /\ r.clock.mapped /\ Visible(r)
               /\ w.clock.mapped => Coming(r)
<1> DEFINE r == Columns!ClockRequests(w)
           c == w.clock
<1>1. /\ DOMAIN w = WallFields /\ w.locked \in BOOLEAN /\ w.cols \in Seq(Column)
      /\ Columns!ClockOK(c) /\ c.callback # "armed"
      /\ c.callback # "none" => c.mapped
  BY DEF WallBase, Steady, ClockSound, Columns!ClockOK
<1>2. CASE c.callback # "none"
  <2>1. r = [w EXCEPT !.clock = Columns!Deferred(c)]
    BY <1>2 DEF Columns!ClockRequests
  <2>2. LET d == Columns!Deferred(c)
        IN  /\ Columns!ClockOK(d) /\ d.callback = "committed" /\ d.redraw /\ d.mapped
    BY <1>1, <1>2, WallClock
  <2>3. Same(r, w) /\ r.clock = Columns!Deferred(c)
    BY <1>1, <2>1, <2>2, Clocked
  <2> HIDE DEF r
  <2> QED
    BY <2>2, <2>3 DEF Coming, Visible, r
<1>3. CASE c.callback = "none" /\ c.mapped
  <2>1. r = [w EXCEPT !.clock = Columns!Scheduled(c)]
    BY <1>3 DEF Columns!ClockRequests
  <2>2. LET d == Columns!Scheduled(c)
        IN  /\ Columns!ClockOK(d) /\ d.callback = "committed" /\ d.redraw /\ d.mapped
    BY <1>1, <1>3, WallClock
  <2>3. Same(r, w) /\ r.clock = Columns!Scheduled(c)
    BY <1>1, <2>1, <2>2, Clocked
  <2> HIDE DEF r
  <2> QED
    BY <2>2, <2>3 DEF Coming, Visible, r
<1>4. CASE c.callback = "none" /\ ~c.mapped
  <2> DEFINE v == [w EXCEPT !.clock = Columns!FirstDraw(c)]
  <2>1. r = Columns!Paint(v, FALSE)
    BY <1>4 DEF Columns!ClockRequests
  <2>2. /\ DOMAIN v = WallFields /\ v.clock = Columns!FirstDraw(c)
        /\ v.locked = w.locked /\ v.cols = w.cols /\ v.lives = w.lives
        /\ v.threads = w.threads /\ v.posted = w.posted /\ v.frames = w.frames
        /\ v.config = w.config /\ v.gone = w.gone /\ v.size = w.size
    BY <1>1 DEF WallFields
  <2>3. ~Coming(w) /\ ~w.clock.mapped
    BY <1>4 DEF Coming
  <2>4. CASE w.locked
    <3> DEFINE d == [Columns!FirstDraw(c) EXCEPT !.callback = "none", !.redraw = FALSE]
    <3>1. r = [v EXCEPT !.clock = d]
      BY <2>1, <2>2, <2>4 DEF Columns!Paint
    <3>2. Columns!ClockOK(d) /\ d.callback = "none" /\ d.mapped
      BY <1>1 DEF Columns!ClockOK, Columns!Clock, Columns!Callbacks, Columns!FirstDraw,
         Columns!Armed
    <3> HIDE DEF d, r, v
    <3>3. /\ DOMAIN r = WallFields /\ r.clock = d
          /\ r.locked = w.locked /\ r.cols = w.cols /\ r.lives = w.lives
          /\ r.threads = w.threads /\ r.posted = w.posted /\ r.frames = w.frames
          /\ r.config = w.config /\ r.gone = w.gone /\ r.size = w.size
      BY <2>2, <3>1 DEF WallFields
    <3> QED
      BY ONLY <2>3, <2>4, <3>2, <3>3 DEF Same, Kept, ClockSound, Visible, r, c
  <2>5. CASE ~w.locked
    <3>1. \A f \in {v.clock, Columns!Deferred(v.clock)} :
              LET d == Columns!Committed(f)
              IN  /\ Columns!ClockOK(d) /\ d.callback = "committed" /\ d.mapped
      BY <1>1, <1>4, <2>2, WallClock
    <3>2. v.locked = FALSE /\ v.cols \in Seq(Column)
      BY <1>1, <2>2, <2>5
    <3> HIDE DEF v, r
    <3>3. /\ DOMAIN r = WallFields /\ r.cols = v.cols
          /\ r.lives = v.lives /\ r.threads = v.threads /\ r.posted = v.posted
          /\ r.frames = v.frames /\ r.config = v.config /\ r.locked = v.locked
          /\ r.gone = v.gone /\ r.size = v.size
          /\ r.painted = Columns!Picture(r)
          /\ ClockSound(r) /\ r.clock.mapped
      BY <2>1, <2>2, <3>1, <3>2, WallPainted
    <3> QED
      BY ONLY <2>2, <2>3, <3>3 DEF Same, Kept, Visible, r
  <2> QED
    BY <1>1, <2>4, <2>5
<1> QED
  BY <1>1, <1>2, <1>3, <1>4 DEF Columns!ClockOK, Columns!Clock

LEMMA FrameRequested ==
    ASSUME NEW n, NEW w, WallBase(w, n)
    PROVE  LET r == Columns!RequestFrame(w)
           IN  /\ Same(r, w) /\ (~w.locked => r.clock.mapped) /\ Visible(r)
               /\ w.clock.mapped => r.locked \/ Coming(r)
<1>1. CASE w.locked
  <2>1. Columns!RequestFrame(w) = w
    BY <1>1 DEF Columns!RequestFrame
  <2> QED
    BY <1>1, <2>1 DEF Same, Kept, WallBase, Visible
<1>2. CASE ~w.locked
  <2>1. Columns!RequestFrame(w) = Columns!ClockRequests(w)
    BY <1>2 DEF Columns!RequestFrame
  <2> QED
    BY <1>2, <2>1, WallRequested
<1> QED
  BY <1>1, <1>2

(* What woke has no callback that it waits for in vain.                     *)
LEMMA Woken ==
    ASSUME NEW n, NEW w, WallBase(w, n)
    PROVE  LET r == Columns!Wake(w)
           IN  /\ WallBase(r, n) /\ r.cols = w.cols /\ r.config = w.config
               /\ r.posted = w.posted /\ r.frames = w.frames
               /\ r.locked = w.locked /\ r.gone = w.gone /\ r.clock.mapped /\ Visible(r)
<1> DEFINE c == [w.clock EXCEPT !.callback = "none", !.redraw = FALSE]
           v == [w EXCEPT !.clock = c]
<1>1. Columns!Wake(w) = Columns!ClockRequests(v)
  BY DEF Columns!Wake
<1>2. Columns!ClockOK(c) /\ c.callback = "none"
  BY DEF WallBase, ClockSound, Columns!ClockOK, Columns!Clock, Columns!Callbacks
<1>3. DOMAIN w = WallFields
  BY DEF WallBase
<1> HIDE DEF c
<1>4. /\ DOMAIN v = WallFields /\ v.clock = c
      /\ v.locked = w.locked /\ v.cols = w.cols /\ v.lives = w.lives
      /\ v.threads = w.threads /\ v.posted = w.posted /\ v.frames = w.frames
      /\ v.config = w.config /\ v.gone = w.gone /\ v.size = w.size
  BY <1>3 DEF WallFields
<1> HIDE DEF v
<1>5. WallBase(v, n)
  BY <1>2, <1>4 DEF WallBase, ClockSound
<1> DEFINE r == Columns!ClockRequests(v)
<1>6. Same(r, v) /\ r.clock.mapped /\ Visible(r)
  BY <1>5, WallRequested
<1>7. WallBase(r, n)
  BY <1>5, <1>6, SameBase
<1> HIDE DEF r
<1> QED
  BY <1>1, <1>4, <1>6, <1>7 DEF Same, Kept, r

-----------------------------------------------------------------------------
(* The output follows its configuration.                                    *)
LEMMA WallCleared ==
    ASSUME NEW n, NEW w, WallBase(w, n), NEW is \in SUBSET DOMAIN w.cols
    PROVE  LET r == Columns!Cleared(w, is)
           IN  /\ WallBase(r, n) /\ Kept(r, w)
               /\ r.cols = [i \in DOMAIN w.cols |->
                               IF i \in is THEN Columns!ClearedColumn(w.cols[i])
                               ELSE w.cols[i]]
               /\ r.lives = w.lives /\ r.threads = w.threads /\ r.config = w.config
               /\ r.frames \subseteq w.frames
<1> DEFINE cols == [i \in DOMAIN w.cols |-> IF i \in is THEN Columns!ClearedColumn(w.cols[i])
                                            ELSE w.cols[i]]
           left == w.frames \ UNION {Columns!Pinned(w.cols[i]) : i \in is}
           s == [w EXCEPT !.cols = cols, !.frames = left]
           r == Columns!Cleared(w, is)
<1>1. CASE is = {}
  <2>1. r = w
    BY <1>1 DEF Columns!Cleared
  <2>2. w.cols \in Seq(Column)
    BY DEF WallBase, Steady
  <2>3. cols = w.cols
    BY <1>1, <2>2
  <2> QED
    BY ONLY <2>1, <2>3, WallBase(w, n) DEF WallBase, Kept, r, cols
<1>2. CASE is # {}
  <2>1. r = Columns!RequestFrame(s)
    BY <1>2 DEF Columns!Cleared
  <2>2. Steady(cols, w.lives, w.threads, w.posted, left)
    <3>1. Steady(w.cols, w.lives, w.threads, w.posted, w.frames)
      BY DEF WallBase
    <3> QED
      BY <3>1, ClearedSteady
  <2>3. left \subseteq w.frames
    OBVIOUS
  <2>4. DOMAIN w = WallFields
    BY DEF WallBase
  <2> HIDE DEF cols, left
  <2>5. /\ DOMAIN s = WallFields /\ s.clock = w.clock
        /\ s.locked = w.locked /\ s.cols = cols /\ s.lives = w.lives
        /\ s.threads = w.threads /\ s.posted = w.posted /\ s.frames = left
        /\ s.config = w.config /\ s.gone = w.gone
    BY <2>4 DEF WallFields
  <2> HIDE DEF s
  <2>6. WallBase(s, n)
    BY <2>2, <2>3, <2>5 DEF WallBase, ClockSound
  <2> HIDE DEF r
  <2>7. Same(r, s)
    BY <2>1, <2>6, FrameRequested
  <2>8. WallBase(r, n)
    BY <2>6, <2>7, SameBase
  <2>9. Kept(r, w)
    BY ONLY <2>5, <2>7 DEF Same, Kept, Coming
  <2> QED
    BY ONLY <2>3, <2>5, <2>7, <2>8, <2>9 DEF Same, r, cols
<1> QED
  BY <1>1, <1>2

LEMMA AllStopped ==
    ASSUME NEW n, NEW w, WallBase(w, n)
    PROVE  LET r == Columns!StopAll(w)
           IN  /\ WallBase(r, n) /\ Kept(r, w) /\ r.config = w.config
               /\ DOMAIN r.cols = DOMAIN w.cols
               /\ \A i \in DOMAIN r.cols : /\ ~r.cols[i].decode.on
                                           /\ r.cols[i].pin = 0 /\ r.cols[i].pinPrev = 0
<1> DEFINE r == Columns!StopAll(w)
           new == [i \in DOMAIN w.cols |-> IF i \in DOMAIN w.cols
                                           THEN Columns!ClearedColumn(w.cols[i])
                                           ELSE w.cols[i]]
<1>1. WallBase(r, n) /\ Kept(r, w) /\ r.config = w.config /\ r.cols = new
  BY WallCleared DEF Columns!StopAll
<1>2. \A i \in DOMAIN w.cols : w.cols[i] \in Column
  BY SteadyTyped DEF WallBase
<1>3. \A i \in DOMAIN new : ~new[i].decode.on /\ new[i].pin = 0 /\ new[i].pinPrev = 0
  BY <1>2, ColumnCleared
<1> QED
  BY <1>1, <1>3

LEMMA WallResized ==
    ASSUME NEW n, NEW w, WallBase(w, n), NEW k \in Nat
    PROVE  LET r == Columns!Resized(w, k)
           IN  /\ WallBase(r, n) /\ Kept(r, w) /\ r.config = w.config
               /\ DOMAIN r.cols = 1..k
               /\ (\A i \in DOMAIN w.cols : ~w.cols[i].decode.on) =>
                     \A i \in DOMAIN r.cols : ~r.cols[i].decode.on
<1> DEFINE is == {i \in DOMAIN w.cols : i > k}
           g == Columns!Cleared(w, is)
           m == Len(w.cols)
           new == [i \in 1..k |-> IF i <= m THEN g.cols[i]
                                  ELSE Columns!NewColumn(w.lives + i - m)]
           lives == IF k > m THEN w.lives + k - m ELSE w.lives
           r == [g EXCEPT !.cols = new, !.lives = lives]
<1>1. /\ Steady(w.cols, w.lives, w.threads, w.posted, w.frames)
      /\ m \in Nat /\ DOMAIN w.cols = 1..m
      /\ \A i \in DOMAIN w.cols : w.cols[i] \in Column
  BY SteadyTyped DEF WallBase
<1>2. /\ WallBase(g, n) /\ Kept(g, w) /\ g.lives = w.lives /\ g.config = w.config
      /\ g.cols = [i \in DOMAIN w.cols |-> IF i \in is THEN Columns!ClearedColumn(w.cols[i])
                                           ELSE w.cols[i]]
  BY WallCleared
<1>3. g.lives = w.lives
  BY <1>2
<1>4. Columns!Resized(w, k) = r
  BY <1>3 DEF Columns!Resized
<1>5. /\ DOMAIN g.cols = 1..m
      /\ \A i \in 1..m : /\ i > k => g.cols[i] = Columns!ClearedColumn(w.cols[i])
                         /\ ~(i > k) => g.cols[i] = w.cols[i]
  BY <1>1, <1>2
<1> HIDE DEF g
<1>6. \A i \in DOMAIN g.cols : i > k => g.cols[i].pin = 0 /\ g.cols[i].pinPrev = 0
  BY <1>1, <1>5, ColumnCleared
<1>7. Steady(g.cols, g.lives, g.threads, g.posted, g.frames) /\ Len(g.cols) = m
  <2>1. Steady(g.cols, g.lives, g.threads, g.posted, g.frames)
    BY <1>2 DEF WallBase
  <2>2. Len(g.cols) \in Nat /\ DOMAIN g.cols = 1..Len(g.cols)
    BY <2>1, SteadyTyped
  <2> QED
    BY <1>1, <1>5, <2>1, <2>2
<1>8. Steady(new, lives, g.threads, g.posted, g.frames)
  <2> HIDE DEF m
  <2>1. lives = IF k > m THEN g.lives + k - m ELSE g.lives
    BY <1>3
  <2>2. new = [i \in 1..k |-> IF i <= m THEN g.cols[i]
                              ELSE Columns!NewColumn(g.lives + i - m)]
    BY <1>3
  <2> HIDE DEF lives, new
  <2> QED
    BY <1>6, <1>7, <2>1, <2>2, ResizedSteady
<1>9. ASSUME \A i \in DOMAIN w.cols : ~w.cols[i].decode.on, NEW i \in 1..k
      PROVE  ~new[i].decode.on
  <2>1. CASE i <= m
    BY <1>1, <1>5, <1>9, <2>1
  <2>2. CASE ~(i <= m)
    <3>1. w.lives + i - m \in Nat
      BY <1>1, <2>2 DEF Steady
    <3> QED
      BY <2>2, <3>1, ColumnMade
  <2> QED
    BY <2>1, <2>2
<1>10. DOMAIN new = 1..k
  OBVIOUS
<1> HIDE DEF new, lives, is, m
<1>11. /\ DOMAIN r = WallFields /\ r.clock = g.clock
       /\ r.locked = g.locked /\ r.cols = new /\ r.lives = lives
       /\ r.threads = g.threads /\ r.posted = g.posted /\ r.frames = g.frames
       /\ r.config = g.config /\ r.gone = g.gone
  BY <1>2 DEF WallFields, WallBase
<1> HIDE DEF r
<1>12. WallBase(r, n)
  BY <1>2, <1>8, <1>11 DEF WallBase, ClockSound
<1>13. Kept(r, w)
  BY <1>2, <1>11 DEF Kept, ClockSound, Coming
<1> QED
  BY <1>2, <1>4, <1>9, <1>10, <1>11, <1>12, <1>13

LEMMA WallpaperTyped ==
    ASSUME NEW config \in Wallpapers
    PROVE  /\ config.animated \in BOOLEAN /\ Len(config.paths) \in Nat
           /\ DOMAIN config.paths = 1..Len(config.paths)
           /\ \A i \in DOMAIN config.paths : config.paths[i] \in Pictures
<1>1. config.animated \in BOOLEAN /\ config.paths \in Seq(STRING)
  BY WorkersAssumption
<1> QED
  BY <1>1 DEF Pictures

LEMMA ColumnsSynced ==
    ASSUME NEW n, NEW w, WallBase(w, n), DOMAIN w.cols = DOMAIN w.config.paths,
           ~w.config.animated => \A i \in DOMAIN w.cols : ~w.cols[i].decode.on
    PROVE  LET r == Columns!SyncColumns(w)
           IN  /\ WallBase(r, n) /\ Kept(r, w) /\ r.config = w.config
               /\ Configured(r.cols, r.config)
<1> DEFINE paths == w.config.paths
           clears == Columns!Clears(w)
           stills == Columns!Decodes(w)
           videos == {i \in clears : paths[i] # Columns!NoPicture}
           s == Columns!Cleared(w, clears)
           cols == [i \in DOMAIN w.cols |->
                       IF i \in stills THEN Columns!SetStatic(s.cols[i], paths[i])
                       ELSE IF i \in clears /\ paths[i] # Columns!NoPicture
                       THEN Columns!SetAnimated(s.cols[i], paths[i])
                       ELSE s.cols[i]]
           jobs == {[life |-> cols[i].life, gen |-> cols[i].gen, path |-> cols[i].path] :
                       i \in stills}
           threads == s.threads \cup jobs
           r == [s EXCEPT !.cols = cols, !.threads = threads]
<1>1. Columns!SyncColumns(w) = r
  BY DEF Columns!SyncColumns
<1>2. /\ Steady(w.cols, w.lives, w.threads, w.posted, w.frames)
      /\ \A i \in DOMAIN w.cols : w.cols[i] \in Column /\ paths[i] \in Pictures
      /\ w.config.animated \in BOOLEAN
  BY SteadyTyped, WallpaperTyped DEF WallBase
<1>3. /\ clears \subseteq DOMAIN w.cols /\ stills \subseteq DOMAIN w.cols
      /\ videos \subseteq DOMAIN w.cols
      /\ \A i \in stills : /\ i \notin clears /\ ~w.config.animated
                           /\ paths[i] # Columns!NoPicture
      /\ \A i \in videos : w.config.animated /\ i \in clears /\ paths[i] # Columns!NoPicture
      /\ \A i \in clears : i \in videos \/ paths[i] = Columns!NoPicture
      /\ \A i \in DOMAIN w.cols :
            i \notin clears /\ i \notin stills => w.cols[i].path = paths[i]
  BY DEF Columns!Clears, Columns!Decodes
<1>4. /\ WallBase(s, n) /\ Kept(s, w) /\ s.config = w.config
      /\ s.cols = [i \in DOMAIN w.cols |-> IF i \in clears THEN Columns!ClearedColumn(w.cols[i])
                                           ELSE w.cols[i]]
  BY <1>3, WallCleared
<1>5. cols = [i \in DOMAIN s.cols |->
                 IF i \in stills THEN Columns!SetStatic(s.cols[i], paths[i])
                 ELSE IF i \in videos THEN Columns!SetAnimated(s.cols[i], paths[i])
                 ELSE s.cols[i]]
  <2>1. DOMAIN s.cols = DOMAIN w.cols
    BY <1>4
  <2> HIDE DEF s, clears, stills
  <2> QED
    BY <2>1
<1> HIDE DEF s, clears, stills, videos
<1>6. /\ DOMAIN s.cols = DOMAIN w.cols
      /\ \A i \in DOMAIN w.cols : /\ i \notin clears => s.cols[i] = w.cols[i]
                                  /\ i \in clears => s.cols[i] = Columns!ClearedColumn(w.cols[i])
  BY <1>4
<1>7. \A i \in clears : /\ s.cols[i].tex = Columns!NoPicture
                        /\ s.cols[i].video = Columns!NoPicture
                        /\ s.cols[i].path = Columns!NoPicture /\ ~s.cols[i].decode.on
  BY <1>2, <1>3, <1>6, ColumnCleared
<1>8. /\ Steady(s.cols, s.lives, s.threads, s.posted, s.frames)
      /\ \A i \in DOMAIN w.cols : s.cols[i] \in Column
      /\ s.threads \subseteq Job
  BY <1>4, <1>6, SteadyTyped DEF WallBase
<1>9. ASSUME NEW i \in DOMAIN w.cols
      PROVE  /\ cols[i] \in Column /\ cols[i].path = paths[i]
             /\ ~w.config.animated => ~cols[i].decode.on
  <2>1. CASE i \in stills
    <3>1. cols[i] = Columns!SetStatic(s.cols[i], paths[i]) /\ s.cols[i] = w.cols[i]
      BY <1>3, <1>6, <2>1
    <3> HIDE DEF cols
    <3> QED
      BY <1>2, <1>9, <3>1, ColumnStill
  <2>2. CASE i \in videos
    <3>1. cols[i] = Columns!SetAnimated(s.cols[i], paths[i]) /\ w.config.animated
      BY <1>3, <2>2
    <3> HIDE DEF cols
    <3> QED
      BY <1>2, <1>8, <1>9, <3>1, ColumnPlays
  <2>3. CASE i \notin stills /\ i \notin videos
    <3>1. cols[i] = s.cols[i]
      BY <1>3, <2>3
    <3> HIDE DEF cols
    <3> QED
      BY <1>3, <1>6, <1>7, <1>8, <2>3, <3>1
  <2> QED
    BY <2>1, <2>2, <2>3
<1>10. /\ DOMAIN cols = DOMAIN w.cols
       /\ \A t \in jobs : \E i \in stills : /\ t.life = cols[i].life /\ t.gen = cols[i].gen
                                            /\ t.path = cols[i].path
       /\ \A i \in stills : \E t \in jobs : t.life = cols[i].life /\ t.gen = cols[i].gen
  <2>1. DOMAIN cols = DOMAIN w.cols
    OBVIOUS
  <2> HIDE DEF cols
  <2>2. ASSUME NEW t \in jobs
        PROVE  \E i \in stills : /\ t.life = cols[i].life /\ t.gen = cols[i].gen
                                  /\ t.path = cols[i].path
    <3>1. PICK i \in stills : t = [life |-> cols[i].life, gen |-> cols[i].gen,
                                   path |-> cols[i].path]
      BY <2>2
    <3> QED
      BY ONLY <3>1
  <2>3. ASSUME NEW i \in stills
        PROVE  \E t \in jobs : t.life = cols[i].life /\ t.gen = cols[i].gen
    <3> DEFINE t == [life |-> cols[i].life, gen |-> cols[i].gen, path |-> cols[i].path]
    <3>1. t \in jobs
      OBVIOUS
    <3>2. t.life = cols[i].life /\ t.gen = cols[i].gen
      OBVIOUS
    <3> QED
      BY ONLY <3>1, <3>2
  <2> QED
    BY ONLY <2>1, <2>2, <2>3
<1> HIDE DEF cols
<1>11. jobs \subseteq Job
  BY <1>3, <1>9 DEF Job, Column
<1> HIDE DEF jobs
<1>17. cols \in Seq(Column)
  <2>1. cols = [i \in DOMAIN w.cols |-> cols[i]]
    BY DEF cols
  <2>2. DOMAIN w.cols = 1..Len(w.cols) /\ Len(w.cols) \in Nat
    BY <1>2, SteadyTyped
  <2> QED
    BY ONLY <1>9, <2>1, <2>2, Relisted
<1>12. Steady(cols, s.lives, threads, s.posted, s.frames)
  <2>1. /\ \A i \in DOMAIN s.cols : paths[i] \in Pictures
        /\ \A i \in stills : ~s.cols[i].decode.on
        /\ \A i \in videos : /\ i \notin stills /\ paths[i] # Columns!NoPicture
                             /\ s.cols[i].tex = Columns!NoPicture
                             /\ s.cols[i].video = Columns!NoPicture
        /\ stills \in SUBSET DOMAIN s.cols /\ videos \in SUBSET DOMAIN s.cols
        /\ jobs \in SUBSET Job
    BY <1>2, <1>3, <1>6, <1>7, <1>11
  <2>2. /\ DOMAIN cols = DOMAIN s.cols
        /\ \A i \in stills : cols[i] = Columns!SetStatic(s.cols[i], paths[i])
        /\ \A i \in videos : cols[i] = Columns!SetAnimated(s.cols[i], paths[i])
        /\ \A i \in DOMAIN s.cols : i \notin stills /\ i \notin videos => cols[i] = s.cols[i]
    BY <1>5, <2>1
  <2>3. MaySet(s.cols, stills, videos, paths, cols, jobs)
    BY ONLY <1>10, <1>17, <2>1, <2>2 DEF MaySet
  <2> HIDE DEF paths
  <2> QED
    BY ONLY <1>8, <2>3, SetSteady
<1>13. /\ DOMAIN r = WallFields /\ r.clock = s.clock
       /\ r.locked = s.locked /\ r.cols = cols /\ r.lives = s.lives
       /\ r.threads = threads /\ r.posted = s.posted /\ r.frames = s.frames
       /\ r.config = s.config /\ r.gone = s.gone
  BY <1>4 DEF WallFields, WallBase
<1> HIDE DEF r
<1>14. WallBase(r, n)
  BY <1>4, <1>12, <1>13 DEF WallBase, ClockSound
<1>15. Kept(r, w)
  BY <1>4, <1>13 DEF Kept, ClockSound, Coming
<1>16. Configured(r.cols, r.config)
  BY ONLY <1>4, <1>9, <1>10, <1>13, DOMAIN w.cols = DOMAIN w.config.paths DEF Configured
<1> QED
  BY <1>1, <1>4, <1>13, <1>14, <1>15, <1>16

LEMMA WallSynced ==
    ASSUME NEW n, NEW w, WallBase(w, n), NEW config \in Wallpapers
    PROVE  LET r == Columns!SyncFromConfig(w, config)
           IN  /\ WallBase(r, n) /\ Kept(r, w) /\ r.config = config
               /\ Configured(r.cols, config)
<1> DEFINE s == IF ~config.animated /\ Columns!AnyAnimated(w) THEN Columns!StopAll(w) ELSE w
           k == Len(config.paths)
           g == Columns!Resized(s, k)
           v == [g EXCEPT !.config = config]
           r == Columns!SyncColumns(v)
<1>1. Columns!SyncFromConfig(w, config) = r
  BY DEF Columns!SyncFromConfig
<1>2. /\ WallBase(s, n) /\ Kept(s, w)
      /\ ~config.animated => \A i \in DOMAIN s.cols : ~s.cols[i].decode.on
  <2>1. CASE ~config.animated /\ Columns!AnyAnimated(w)
    BY <2>1, AllStopped
  <2>2. CASE config.animated \/ ~Columns!AnyAnimated(w)
    <3>1. s = w
      BY <2>2
    <3>2. Kept(w, w)
      BY DEF Kept, WallBase
    <3>3. ~config.animated => \A i \in DOMAIN w.cols : ~w.cols[i].decode.on
      BY <2>2 DEF Columns!AnyAnimated
    <3> QED
      BY <3>1, <3>2, <3>3
  <2> QED
    BY <2>1, <2>2
<1> HIDE DEF s
<1>3. k \in Nat /\ 1..k = DOMAIN config.paths
  BY WallpaperTyped
<1> HIDE DEF k
<1>4. /\ WallBase(g, n) /\ Kept(g, s) /\ DOMAIN g.cols = 1..k
      /\ ~config.animated => \A i \in DOMAIN g.cols : ~g.cols[i].decode.on
  BY <1>2, <1>3, WallResized
<1> HIDE DEF g
<1>5. /\ DOMAIN v = WallFields /\ v.clock = g.clock
      /\ v.locked = g.locked /\ v.cols = g.cols /\ v.lives = g.lives
      /\ v.threads = g.threads /\ v.posted = g.posted /\ v.frames = g.frames
      /\ v.config = config /\ v.gone = g.gone
  BY <1>4 DEF WallFields, WallBase
<1> HIDE DEF v
<1>6. WallBase(v, n) /\ Kept(v, g)
  BY <1>4, <1>5 DEF WallBase, ClockSound, Kept, Coming
<1>7. /\ WallBase(r, n) /\ Kept(r, v) /\ r.config = config
      /\ Configured(r.cols, config)
  BY <1>3, <1>4, <1>5, <1>6, ColumnsSynced
<1> HIDE DEF r
<1>8. Kept(r, w)
  BY <1>2, <1>4, <1>6, <1>7 DEF Kept
<1> QED
  BY <1>1, <1>7, <1>8

-----------------------------------------------------------------------------
(* The closures: one is posted, the first is called.                        *)
LEMMA Posted ==
    ASSUME NEW cols, NEW lives, NEW threads, NEW post, NEW frames,
           Steady(cols, lives, threads, post, frames),
           NEW e \in Letter, e.life <= lives,
           \A i \in DOMAIN cols : cols[i].life = e.life =>
              e.gen <= cols[i].gen /\ (e.gen = cols[i].gen => Fits(cols[i], e)),
           NEW done \in SUBSET threads, \A t \in done : t.life = e.life /\ t.gen = e.gen,
           NEW more, more = IF e.frame = 0 THEN {} ELSE {e.frame}, e.frame \notin frames
    PROVE  Steady(cols, lives, threads \ done, Append(post, e), frames \cup more)
<1> DEFINE next == Append(post, e)
<1>1. post \in Seq(Letter)
  BY DEF Steady
<1>2. next \in Seq(Letter) /\ Grown(post, e, next)
  BY <1>1, Queued
<1>3. PICK n : /\ n \notin DOMAIN post /\ DOMAIN next = DOMAIN post \cup {n}
               /\ next[n] = e /\ \A k \in DOMAIN post : next[k] = post[k]
  BY <1>2 DEF Grown
<1> HIDE DEF next
<1>4. LivesOK(cols, lives, threads \ done, next)
  BY <1>3 DEF Steady, LivesOK
<1>5. FramesOK(cols, next, frames \cup more)
  <2>1. FramesOK(cols, post, frames)
    BY DEF Steady
  <2>2. \A f \in more : f = e.frame /\ f # 0
    OBVIOUS
  <2>3. e.frame # 0 => e.frame \in more
    OBVIOUS
  <2>4. ASSUME NEW k \in DOMAIN post, post[k].frame # 0
        PROVE  post[k].frame # e.frame
    BY ONLY <2>1, <2>4, e.frame \notin frames DEF FramesOK
  <2>5. ASSUME NEW i \in DOMAIN cols
        PROVE  /\ cols[i].pin # 0 => cols[i].pin # e.frame
               /\ cols[i].pinPrev # 0 => cols[i].pinPrev # e.frame
    BY ONLY <2>1, <2>5, e.frame \notin frames DEF FramesOK
  <2>6. ASSUME NEW k \in DOMAIN next, next[k].frame # 0
        PROVE  /\ next[k].frame \in frames \cup more
               /\ \A l \in DOMAIN next : next[l].frame = next[k].frame => l = k
               /\ \A i \in DOMAIN cols :
                     cols[i].pin # next[k].frame /\ cols[i].pinPrev # next[k].frame
    <3>1. CASE k = n
      BY ONLY <1>3, <2>3, <2>4, <2>5, <2>6, <3>1
    <3>2. CASE k \in DOMAIN post
      <4>1. next[k].frame # e.frame
        BY ONLY <1>3, <2>4, <2>6, <3>2
      <4> QED
        BY ONLY <1>3, <2>1, <2>6, <3>2, <4>1 DEF FramesOK
    <3> QED
      BY <1>3, <3>1, <3>2
  <2>7. ASSUME NEW f \in frames \cup more
        PROVE  \/ \E k \in DOMAIN next : next[k].frame = f
               \/ \E i \in DOMAIN cols : cols[i].pin = f \/ cols[i].pinPrev = f
    BY ONLY <1>3, <2>1, <2>2, <2>7 DEF FramesOK
  <2>8. 0 \notin frames \cup more
    BY ONLY <2>1, <2>2 DEF FramesOK
  <2> QED
    BY ONLY <2>1, <2>6, <2>7, <2>8 DEF FramesOK
<1>6. ASSUME NEW i \in DOMAIN cols
      PROVE  NewsOK(cols[i], threads \ done, next) /\ Served(cols[i], threads \ done, next)
  <2>1. NewsOK(cols[i], threads, post) /\ Served(cols[i], threads, post)
    BY DEF Steady
  <2>2. NewsOK(cols[i], threads \ done, next)
    BY <1>3, <2>1 DEF NewsOK
  <2>3. Served(cols[i], threads \ done, next)
    BY ONLY <1>3, <2>1, \A t \in done : t.life = e.life /\ t.gen = e.gen DEF Served
  <2> QED
    BY <2>2, <2>3
<1>7. Steady(cols, lives, threads \ done, next, frames \cup more)
  BY <1>2, <1>4, <1>5, <1>6 DEF Steady
<1> QED
  BY <1>7 DEF next

(* What the first closure held is held by nobody else.                      *)
LEMMA HeadFrames ==
    ASSUME NEW cols, NEW lives, NEW threads, NEW post, NEW frames,
           Steady(cols, lives, threads, post, frames), post # <<>>
    PROVE  LET call == Head(post)  rest == Tail(post)
           IN  /\ call \in Letter /\ rest \in Seq(Letter)
               /\ FramesOK(cols, rest, frames \ {call.frame})
               /\ call.frame # 0 =>
                     /\ call.frame \in frames
                     /\ \A k \in DOMAIN rest : rest[k].frame # call.frame
                     /\ \A i \in DOMAIN cols :
                           cols[i].pin # call.frame /\ cols[i].pinPrev # call.frame
<1> DEFINE call == Head(post)
           rest == Tail(post)
           left == frames \ {call.frame}
<1>1. post \in Seq(Letter) /\ FramesOK(cols, post, frames)
  BY DEF Steady
<1>2. /\ rest \in Seq(Letter) /\ call \in Letter /\ 1 \in DOMAIN post /\ call = post[1]
      /\ \A k \in DOMAIN rest :
            k + 1 \in DOMAIN post /\ k + 1 # 1 /\ rest[k] = post[k + 1]
      /\ \A k, l \in DOMAIN rest : k + 1 = l + 1 => k = l
      /\ \A k \in DOMAIN post : k = 1 \/ (k - 1 \in DOMAIN rest /\ rest[k - 1] = post[k])
  BY <1>1, Taken
<1> HIDE DEF rest, call
<1>3. ASSUME call.frame # 0
      PROVE  /\ call.frame \in frames
             /\ \A k \in DOMAIN rest : rest[k].frame # call.frame
             /\ \A i \in DOMAIN cols :
                   cols[i].pin # call.frame /\ cols[i].pinPrev # call.frame
  BY ONLY <1>1, <1>2, <1>3 DEF FramesOK
<1>4. FramesOK(cols, rest, left)
  <2>1. ASSUME NEW k \in DOMAIN rest, rest[k].frame # 0
        PROVE  /\ rest[k].frame \in left
               /\ \A l \in DOMAIN rest : rest[l].frame = rest[k].frame => l = k
               /\ \A i \in DOMAIN cols :
                     cols[i].pin # rest[k].frame /\ cols[i].pinPrev # rest[k].frame
    BY ONLY <1>1, <1>2, <1>3, <2>1 DEF FramesOK
  <2>2. ASSUME NEW i \in DOMAIN cols
        PROVE  /\ cols[i].pin # 0 =>
                     /\ cols[i].pin \in left
                     /\ \A j \in DOMAIN cols : /\ cols[j].pin = cols[i].pin => j = i
                                               /\ cols[j].pinPrev # cols[i].pin
               /\ cols[i].pinPrev # 0 =>
                     /\ cols[i].pinPrev \in left
                     /\ \A j \in DOMAIN cols : cols[j].pinPrev = cols[i].pinPrev => j = i
    BY ONLY <1>1, <1>3, <2>2 DEF FramesOK
  <2>3. ASSUME NEW f \in left
        PROVE  \/ \E k \in DOMAIN rest : rest[k].frame = f
               \/ \E i \in DOMAIN cols : cols[i].pin = f \/ cols[i].pinPrev = f
    <3>1. f \in frames /\ f # call.frame
      BY <2>3
    <3>2. ASSUME NEW k \in DOMAIN post, post[k].frame = f
          PROVE  \E l \in DOMAIN rest : rest[l].frame = f
      BY ONLY <1>2, <3>1, <3>2
    <3> QED
      BY ONLY <1>1, <3>1, <3>2 DEF FramesOK
  <2>4. 0 \notin left
    BY ONLY <1>1 DEF FramesOK
  <2> QED
    BY ONLY <2>1, <2>2, <2>3, <2>4 DEF FramesOK
<1> QED
  BY <1>2, <1>3, <1>4 DEF rest, call

(* The rest of what Call does: the column it is for is served.              *)
LEMMA CallReceived ==
    ASSUME NEW cols, NEW lives, NEW threads, NEW post, NEW frames,
           Steady(cols, lives, threads, post, frames), post # <<>>,
           NEW new \in Seq(Column), DOMAIN new = DOMAIN cols,
           \A i \in DOMAIN cols :
              \/ ~Columns!For(cols[i], Head(post)) /\ new[i] = cols[i]
              \/ /\ new[i].life = cols[i].life /\ new[i].gen = cols[i].gen
                 /\ new[i].path = cols[i].path /\ new[i].decode.on = cols[i].decode.on
                 /\ ColumnOK(new[i])
                 /\ new[i].decode.on \/ new[i].tex = new[i].path \/ new[i].failed = new[i].gen,
           NEW left, FramesOK(new, Tail(post), left)
    PROVE  Steady(new, lives, threads, Tail(post), left)
<1> DEFINE call == Head(post)
           rest == Tail(post)
<1>1. post \in Seq(Letter)
  BY DEF Steady
<1>2. /\ rest \in Seq(Letter) /\ call \in Letter /\ 1 \in DOMAIN post /\ call = post[1]
      /\ \A k \in DOMAIN rest : k + 1 \in DOMAIN post /\ rest[k] = post[k + 1]
      /\ \A k \in DOMAIN post : k = 1 \/ (k - 1 \in DOMAIN rest /\ rest[k - 1] = post[k])
  BY <1>1, Taken
<1>3. \A i \in DOMAIN cols :
         \/ ~Columns!For(cols[i], call) /\ new[i] = cols[i]
         \/ /\ new[i].life = cols[i].life /\ new[i].gen = cols[i].gen
            /\ new[i].path = cols[i].path /\ new[i].decode.on = cols[i].decode.on
            /\ ColumnOK(new[i])
            /\ new[i].decode.on \/ new[i].tex = new[i].path \/ new[i].failed = new[i].gen
  OBVIOUS
<1> HIDE DEF rest, call
<1>4. \A i \in DOMAIN cols :
         /\ new[i].life = cols[i].life /\ new[i].gen = cols[i].gen
         /\ new[i].path = cols[i].path /\ new[i].decode.on = cols[i].decode.on
  BY ONLY <1>3
<1>5. LivesOK(new, lives, threads, rest)
  BY ONLY <1>2, <1>4, DOMAIN new = DOMAIN cols, Steady(cols, lives, threads, post, frames)
     DEF Steady, LivesOK
<1>6. ASSUME NEW i \in DOMAIN new
      PROVE  ColumnOK(new[i]) /\ NewsOK(new[i], threads, rest) /\ Served(new[i], threads, rest)
  <2>1. /\ ColumnOK(cols[i]) /\ NewsOK(cols[i], threads, post) /\ Served(cols[i], threads, post)
        /\ i \in DOMAIN cols
    BY <1>6 DEF Steady
  <2>2. NewsOK(cols[i], threads, rest)
    BY ONLY <1>2, <2>1 DEF NewsOK
  <2>3. NewsOK(new[i], threads, rest)
    BY ONLY <1>4, <2>1, <2>2 DEF NewsOK, Fits
  <2>4. CASE ~Columns!For(cols[i], call) /\ new[i] = cols[i]
    <3>1. Served(cols[i], threads, rest)
      BY ONLY <1>2, <2>1, <2>4 DEF Served, Columns!For
    <3> QED
      BY <2>1, <2>3, <2>4, <3>1
  <2>5. CASE /\ ColumnOK(new[i])
             /\ new[i].decode.on \/ new[i].tex = new[i].path \/ new[i].failed = new[i].gen
    BY <2>3, <2>5 DEF Served
  <2> QED
    BY <1>3, <2>1, <2>4, <2>5
<1>7. Steady(new, lives, threads, rest, left)
  BY <1>2, <1>5, <1>6 DEF Steady, rest
<1> QED
  BY <1>7 DEF rest

LEMMA Replaced ==
    ASSUME NEW cols \in Seq(Column), NEW i \in DOMAIN cols, NEW d \in Column
    PROVE  LET new == [cols EXCEPT ![i] = d]
           IN  /\ new \in Seq(Column) /\ DOMAIN new = DOMAIN cols /\ new[i] = d
               /\ \A j \in DOMAIN cols : j # i => new[j] = cols[j]
<1> DEFINE new == [cols EXCEPT ![i] = d]
<1>1. Len(cols) \in Nat /\ DOMAIN cols = 1..Len(cols) /\ \A j \in DOMAIN cols : cols[j] \in Column
  OBVIOUS
<1>2. DOMAIN new = DOMAIN cols /\ new = [j \in DOMAIN cols |-> new[j]] /\ new[i] = d
  BY <1>1
<1>3. \A j \in DOMAIN cols : j # i => new[j] = cols[j]
  BY <1>1
<1> HIDE DEF new
<1>4. new \in Seq(Column)
  BY <1>1, <1>2, <1>3, Relisted
<1> QED
  BY <1>2, <1>3, <1>4 DEF new

(* The import passes the older pin on, and the closure's frame is pinned.   *)
LEMMA ImportFrames ==
    ASSUME NEW cols, NEW lives, NEW threads, NEW post, NEW frames,
           Steady(cols, lives, threads, post, frames), post # <<>>,
           NEW i \in DOMAIN cols, NEW new, DOMAIN new = DOMAIN cols,
           new[i].pin = Head(post).frame, new[i].pinPrev = cols[i].pin,
           \A j \in DOMAIN cols : j # i => new[j] = cols[j]
    PROVE  FramesOK(new, Tail(post), frames \ {cols[i].pinPrev})
<1> DEFINE f == Head(post).frame
           rest == Tail(post)
           left == frames \ {cols[i].pinPrev}
<1>1. FramesOK(cols, post, frames) /\ FramesOK(cols, rest, frames \ {f})
  BY HeadFrames DEF Steady
<1>2. f # 0 => /\ f \in frames
               /\ \A k \in DOMAIN rest : rest[k].frame # f
               /\ \A j \in DOMAIN cols : cols[j].pin # f /\ cols[j].pinPrev # f
  BY HeadFrames
<1>3. /\ DOMAIN new = DOMAIN cols /\ new[i].pin = f /\ new[i].pinPrev = cols[i].pin
      /\ i \in DOMAIN cols
      /\ \A j \in DOMAIN cols : j # i => new[j] = cols[j]
  OBVIOUS
<1> HIDE DEF f, rest
<1>4. ASSUME NEW k \in DOMAIN rest, rest[k].frame # 0
      PROVE  /\ rest[k].frame \in left
             /\ \A l \in DOMAIN rest : rest[l].frame = rest[k].frame => l = k
             /\ \A j \in DOMAIN new :
                   new[j].pin # rest[k].frame /\ new[j].pinPrev # rest[k].frame
  <2>1. /\ rest[k].frame \in frames
        /\ \A l \in DOMAIN rest : rest[l].frame = rest[k].frame => l = k
        /\ \A j \in DOMAIN cols :
              cols[j].pin # rest[k].frame /\ cols[j].pinPrev # rest[k].frame
    BY ONLY <1>1, <1>4 DEF FramesOK
  <2>2. rest[k].frame # f
    BY ONLY <1>2, <1>4
  <2> QED
    BY ONLY <1>3, <2>1, <2>2
<1>5. ASSUME NEW j \in DOMAIN new, new[j].pin # 0
      PROVE  /\ new[j].pin \in left
             /\ \A l \in DOMAIN new : /\ new[l].pin = new[j].pin => l = j
                                      /\ new[l].pinPrev # new[j].pin
  <2>1. CASE j = i
    BY ONLY <1>2, <1>3, <1>5, <2>1
  <2>2. CASE j # i
    <3>1. /\ new[j].pin = cols[j].pin /\ cols[j].pin \in frames /\ j \in DOMAIN cols
          /\ \A l \in DOMAIN cols : /\ cols[l].pin = cols[j].pin => l = j
                                    /\ cols[l].pinPrev # cols[j].pin
      BY ONLY <1>1, <1>3, <1>5, <2>2 DEF FramesOK
    <3>2. new[j].pin # f
      BY ONLY <1>2, <1>5, <3>1
    <3> QED
      BY ONLY <1>3, <2>2, <3>1, <3>2
  <2> QED
    BY <2>1, <2>2
<1>6. ASSUME NEW j \in DOMAIN new, new[j].pinPrev # 0
      PROVE  /\ new[j].pinPrev \in left
             /\ \A l \in DOMAIN new : new[l].pinPrev = new[j].pinPrev => l = j
  <2>1. CASE j = i
    BY ONLY <1>1, <1>3, <1>6, <2>1 DEF FramesOK
  <2>2. CASE j # i
    BY ONLY <1>1, <1>3, <1>6, <2>2 DEF FramesOK
  <2> QED
    BY <2>1, <2>2
<1>7. ASSUME NEW g \in left
      PROVE  \/ \E k \in DOMAIN rest : rest[k].frame = g
             \/ \E j \in DOMAIN new : new[j].pin = g \/ new[j].pinPrev = g
  <2>1. CASE g = f
    BY ONLY <1>3, <2>1
  <2>2. CASE g # f
    BY ONLY <1>1, <1>3, <1>7, <2>2 DEF FramesOK
  <2> QED
    BY <2>1, <2>2
<1>8. 0 \notin left
  BY <1>1 DEF FramesOK
<1>9. FramesOK(new, rest, left)
  BY ONLY <1>4, <1>5, <1>6, <1>7, <1>8 DEF FramesOK
<1> QED
  BY <1>9 DEF rest

(* A column that was not told of what it shows is drawn as before.          *)
SeenAs(w, r) ==
    /\ r.locked = w.locked /\ r.painted = w.painted /\ r.clock = w.clock
    /\ r.size = w.size /\ DOMAIN r.cols = DOMAIN w.cols
    /\ \A i \in DOMAIN w.cols : Columns!Shown(r.cols[i]) = Columns!Shown(w.cols[i])

LEMMA Seen ==
    ASSUME NEW w, NEW r, SeenAs(w, r), Visible(w)
    PROVE  Visible(r)
<1>1. Columns!Picture(r) = Columns!Picture(w)
  BY DEF Columns!Picture, SeenAs
<1> QED
  BY <1>1 DEF Visible, Coming, SeenAs

(* The first closure is called for column i, which becomes d.               *)
Answered(w, s, i, d, left) ==
    /\ w.posted # <<>> /\ i \in DOMAIN w.cols
    /\ Columns!For(w.cols[i], Head(w.posted))
    /\ d \in Column /\ d.life = w.cols[i].life /\ d.gen = w.cols[i].gen
    /\ d.path = w.cols[i].path /\ d.decode.on = w.cols[i].decode.on /\ ColumnOK(d)
    /\ d.decode.on \/ d.tex = d.path \/ d.failed = d.gen
    /\ left \subseteq w.frames
    /\ FramesOK([w.cols EXCEPT ![i] = d], Tail(w.posted), left)
    /\ DOMAIN s = WallFields /\ s.cols = [w.cols EXCEPT ![i] = d]
    /\ s.posted = Tail(w.posted) /\ s.frames = left /\ s.lives = w.lives
    /\ s.threads = w.threads /\ s.config = w.config /\ s.clock = w.clock
    /\ s.locked = w.locked /\ s.gone = w.gone

LEMMA WallAnswered ==
    ASSUME NEW n, NEW w, WallOK(w, n), ~w.gone,
           NEW s, NEW i, NEW d, NEW left, Answered(w, s, i, d, left)
    PROVE  WallBase(s, n) /\ Configured(s.cols, s.config) /\ s.clock.mapped
<1>0. /\ w.posted # <<>> /\ i \in DOMAIN w.cols
      /\ Columns!For(w.cols[i], Head(w.posted))
      /\ d \in Column /\ d.life = w.cols[i].life /\ d.gen = w.cols[i].gen
      /\ d.path = w.cols[i].path /\ d.decode.on = w.cols[i].decode.on /\ ColumnOK(d)
      /\ d.decode.on \/ d.tex = d.path \/ d.failed = d.gen
      /\ left \subseteq w.frames
      /\ DOMAIN s = WallFields
      /\ s.posted = Tail(w.posted) /\ s.frames = left /\ s.lives = w.lives
      /\ s.threads = w.threads /\ s.config = w.config /\ s.clock = w.clock
      /\ s.locked = w.locked /\ s.gone = w.gone
  BY DEF Answered
<1>1. /\ Steady(w.cols, w.lives, w.threads, w.posted, w.frames)
      /\ w.cols \in Seq(Column) /\ Configured(w.cols, w.config) /\ w.clock.mapped
  BY SteadyTyped DEF WallOK, WallBase
<1> DEFINE new == [w.cols EXCEPT ![i] = d]
<1>2. /\ new \in Seq(Column) /\ DOMAIN new = DOMAIN w.cols /\ new[i] = d
      /\ \A j \in DOMAIN w.cols : j # i => new[j] = w.cols[j]
  BY <1>0, <1>1, Replaced
<1>3. s.cols = new /\ FramesOK(new, Tail(w.posted), left)
  BY DEF Answered
<1> HIDE DEF new
<1>4. \A j \in DOMAIN w.cols :
         \/ new[j] = w.cols[j] /\ j # i
         \/ /\ new[j].life = w.cols[j].life /\ new[j].gen = w.cols[j].gen
            /\ new[j].path = w.cols[j].path /\ new[j].decode.on = w.cols[j].decode.on
            /\ ColumnOK(new[j])
            /\ new[j].decode.on \/ new[j].tex = new[j].path \/ new[j].failed = new[j].gen
  BY ONLY <1>0, <1>2
<1>5. \A j \in DOMAIN w.cols : j # i => ~Columns!For(w.cols[j], Head(w.posted))
  BY ONLY <1>0, <1>1
     DEF Steady, LivesOK, Columns!For
<1>6. Steady(new, w.lives, w.threads, Tail(w.posted), left)
  <2>1. \A j \in DOMAIN w.cols :
           \/ ~Columns!For(w.cols[j], Head(w.posted)) /\ new[j] = w.cols[j]
           \/ /\ new[j].life = w.cols[j].life /\ new[j].gen = w.cols[j].gen
              /\ new[j].path = w.cols[j].path /\ new[j].decode.on = w.cols[j].decode.on
              /\ ColumnOK(new[j])
              /\ new[j].decode.on \/ new[j].tex = new[j].path \/ new[j].failed = new[j].gen
    BY ONLY <1>4, <1>5
  <2> QED
    BY ONLY <1>0, <1>1, <1>2, <1>3, <2>1, CallReceived
<1>7. WallBase(s, n)
  BY <1>0, <1>3, <1>6 DEF WallOK, WallBase, ClockSound
<1>8. Configured(new, w.config)
  <2>1. \A j \in DOMAIN w.cols : /\ new[j].path = w.cols[j].path
                                 /\ new[j].decode.on = w.cols[j].decode.on
    BY <1>4
  <2> QED
    BY ONLY <1>1, <1>2, <2>1 DEF Configured
<1> QED
  BY <1>0, <1>1, <1>3, <1>7, <1>8

(* Columns from here on stay as the invariant wants them.                   *)
LEMMA WallDropped ==
    ASSUME NEW n, NEW w, WallOK(w, n), w.posted # <<>>,
           \A i \in DOMAIN w.cols : ~Columns!For(w.cols[i], Head(w.posted)),
           NEW r, r = [w EXCEPT !.posted = Tail(@), !.frames = @ \ {Head(w.posted).frame}]
    PROVE  WallOK(r, n)
<1> DEFINE rest == Tail(w.posted)
           left == w.frames \ {Head(w.posted).frame}
<1>1. /\ Steady(w.cols, w.lives, w.threads, w.posted, w.frames)
      /\ w.cols \in Seq(Column) /\ DOMAIN w = WallFields
  BY SteadyTyped DEF WallOK, WallBase
<1>2. FramesOK(w.cols, rest, left)
  BY <1>1, HeadFrames
<1>3. Steady(w.cols, w.lives, w.threads, rest, left)
  BY <1>1, <1>2, CallReceived
<1>4. left \subseteq w.frames
  OBVIOUS
<1>5. /\ DOMAIN r = WallFields /\ r.cols = w.cols /\ r.lives = w.lives
      /\ r.threads = w.threads /\ r.posted = rest /\ r.frames = left
      /\ r.config = w.config /\ r.clock = w.clock /\ r.locked = w.locked
      /\ r.gone = w.gone /\ r.size = w.size /\ r.painted = w.painted
  BY <1>1 DEF WallFields
<1> HIDE DEF rest, left
<1>6. WallBase(r, n)
  BY <1>3, <1>4, <1>5 DEF WallOK, WallBase, ClockSound
<1>7. Visible(w) => Visible(r)
  <2>1. SeenAs(w, r)
    BY <1>5 DEF SeenAs
  <2> QED
    BY <2>1, Seen
<1> QED
  BY <1>5, <1>6, <1>7 DEF WallOK

(* What the closure was about is what the column is about.                  *)
LEMMA HeadFits ==
    ASSUME NEW n, NEW w, WallOK(w, n), w.posted # <<>>,
           NEW i \in DOMAIN w.cols, Columns!For(w.cols[i], Head(w.posted))
    PROVE  /\ ~w.gone /\ w.cols[i] \in Column /\ ColumnOK(w.cols[i])
           /\ Head(w.posted) \in Letter /\ Fits(w.cols[i], Head(w.posted))
<1>1. /\ Steady(w.cols, w.lives, w.threads, w.posted, w.frames)
      /\ w.posted \in Seq(Letter)
      /\ w.cols[i] \in Column /\ NewsOK(w.cols[i], w.threads, w.posted)
      /\ ColumnOK(w.cols[i])
  BY SteadyTyped DEF WallOK, WallBase, Steady
<1>2. 1 \in DOMAIN w.posted /\ Head(w.posted) = w.posted[1] /\ Head(w.posted) \in Letter
  BY <1>1, Taken
<1>3. Fits(w.cols[i], Head(w.posted))
  BY <1>1, <1>2 DEF NewsOK, Columns!For
<1>4. ~w.gone
  <2>1. ASSUME w.cols = <<>> PROVE FALSE
    BY <2>1
  <2> QED
    BY <2>1 DEF WallOK
<1> QED
  BY <1>1, <1>2, <1>3, <1>4

(* A frame that is imported.                                                *)
LEMMA WallImported ==
    ASSUME NEW n, NEW w, WallOK(w, n), w.posted # <<>>,
           NEW i \in DOMAIN w.cols, Columns!For(w.cols[i], Head(w.posted)),
           Head(w.posted).kind = "drm"
    PROVE  WallOK(Columns!Import([w EXCEPT !.posted = Tail(@)], i, Head(w.posted), TRUE), n)
<1> DEFINE call == Head(w.posted)
           rest == Tail(w.posted)
           c == w.cols[i]
<1>1. /\ ~w.gone /\ c \in Column /\ ColumnOK(c) /\ call \in Letter
      /\ c.decode.on /\ call.path = c.path
  BY HeadFits DEF Fits
<1>2. /\ Steady(w.cols, w.lives, w.threads, w.posted, w.frames)
      /\ w.cols \in Seq(Column) /\ DOMAIN w = WallFields
  BY SteadyTyped DEF WallOK, WallBase
<1>3. PICK yes \in BOOLEAN : yes = TRUE
  OBVIOUS
<1> DEFINE d == [c EXCEPT !.zeroCopy = yes, !.video = call.path,
                          !.pinPrev = c.pin, !.pin = call.frame]
<1>4. /\ d \in Column /\ d.life = c.life /\ d.gen = c.gen /\ d.path = c.path
      /\ d.decode = c.decode /\ d.tex = c.tex /\ d.video = c.path
      /\ d.pin = call.frame /\ d.pinPrev = c.pin
  <2>1. call.path \in Pictures /\ call.frame \in Nat /\ c.pin \in Nat
    BY <1>1 DEF Letter, Column
  <2> QED
    BY <1>1, <2>1 DEF Column
<1> DEFINE cols == [w.cols EXCEPT ![i] = d]
           left == w.frames \ {c.pinPrev}
           v == [w EXCEPT !.posted = rest]
           s == [v EXCEPT !.cols = cols, !.frames = left]
<1>5. Columns!Import(v, i, call, TRUE) = Columns!RequestFrame(s)
  <2>1. v.cols = w.cols /\ v.frames = w.frames /\ DOMAIN v = WallFields
    BY <1>2 DEF WallFields
  <2>2. Columns!Imported(c, call) = d
    BY <1>3 DEF Columns!Imported
  <2> HIDE DEF v, d
  <2>3. [v EXCEPT !.cols[i] = Columns!Imported(@, call), !.frames = @ \ {v.cols[i].pinPrev}]
        = [v EXCEPT !.cols = cols, !.frames = left]
    BY <2>1, <2>2
  <2> QED
    BY <2>3 DEF Columns!Import
<1> HIDE DEF d
<1>6. /\ cols[i] = d /\ DOMAIN cols = DOMAIN w.cols
      /\ \A j \in DOMAIN w.cols : j # i => cols[j] = w.cols[j]
  BY <1>2, <1>4, Replaced
<1> HIDE DEF cols
<1>7. FramesOK(cols, rest, left)
  BY <1>2, <1>4, <1>6, ImportFrames
<1> HIDE DEF left
<1>8. /\ DOMAIN s = WallFields /\ s.cols = cols /\ s.lives = w.lives
      /\ s.threads = w.threads /\ s.posted = rest /\ s.frames = left
      /\ s.config = w.config /\ s.clock = w.clock /\ s.locked = w.locked
      /\ s.gone = w.gone
  BY <1>2 DEF WallFields
<1> HIDE DEF s
<1>9. ColumnOK(d)
  BY <1>1, <1>4 DEF ColumnOK
<1>10. WallBase(s, n) /\ Configured(s.cols, s.config) /\ s.clock.mapped
  <2>1. left \subseteq w.frames
    BY DEF left
  <2> QED
    <3>1. Answered(w, s, i, d, left)
      BY ONLY <1>1, <1>4, <1>7, <1>8, <1>9, <2>1, w.posted # <<>>, i \in DOMAIN w.cols,
              Columns!For(w.cols[i], Head(w.posted)) DEF Answered, cols, rest
    <3> QED
      BY <1>1, <3>1, WallAnswered
<1> DEFINE r == Columns!RequestFrame(s)
<1>11. Same(r, s) /\ Visible(r) /\ WallBase(r, n)
  BY <1>10, FrameRequested, SameBase
<1> HIDE DEF r
<1>12. WallOK(r, n)
  BY <1>1, <1>8, <1>10, <1>11 DEF WallOK, Same, Kept
<1> QED
  BY <1>5, <1>12 DEF r

(* A column that learns what does not change what it shows.                 *)
LEMMA WallLearns ==
    ASSUME NEW n, NEW w, WallOK(w, n), w.posted # <<>>,
           NEW i \in DOMAIN w.cols, Columns!For(w.cols[i], Head(w.posted)),
           NEW d \in Column, Alike([w.cols[i] EXCEPT !.failed = d.failed], d),
           d.decode.on \/ d.failed = d.gen,
           NEW r, r = [w EXCEPT !.posted = Tail(@), !.cols[i] = d,
                                !.frames = @ \ {Head(w.posted).frame}]
    PROVE  WallOK(r, n)
<1> DEFINE call == Head(w.posted)
           rest == Tail(w.posted)
           c == w.cols[i]
           left == w.frames \ {call.frame}
           cols == [w.cols EXCEPT ![i] = d]
<1>1. ~w.gone /\ c \in Column /\ ColumnOK(c)
  BY HeadFits
<1>2. /\ Steady(w.cols, w.lives, w.threads, w.posted, w.frames)
      /\ w.cols \in Seq(Column) /\ DOMAIN w = WallFields
  BY SteadyTyped DEF WallOK, WallBase
<1>3. /\ d.life = c.life /\ d.gen = c.gen /\ d.path = c.path /\ d.tex = c.tex
      /\ d.video = c.video /\ d.zeroCopy = c.zeroCopy /\ d.pin = c.pin
      /\ d.pinPrev = c.pinPrev /\ d.decode.on = c.decode.on
      /\ d.decode.alive => c.decode.alive
  BY <1>1 DEF Alike, Column
<1>4. /\ cols[i] = d /\ DOMAIN cols = DOMAIN w.cols
      /\ \A j \in DOMAIN w.cols : j # i => cols[j] = w.cols[j]
  BY <1>2, Replaced
<1>5. /\ DOMAIN r = WallFields /\ r.cols = cols /\ r.lives = w.lives
      /\ r.threads = w.threads /\ r.posted = rest /\ r.frames = left
      /\ r.config = w.config /\ r.clock = w.clock /\ r.locked = w.locked
      /\ r.gone = w.gone /\ r.size = w.size /\ r.painted = w.painted
  BY <1>2 DEF WallFields
<1> HIDE DEF cols
<1>6. FramesOK(cols, rest, left)
  <2>1. FramesOK(w.cols, rest, left)
    BY <1>2, HeadFrames
  <2>2. \A j \in DOMAIN w.cols : cols[j].pin = w.cols[j].pin /\ cols[j].pinPrev = w.cols[j].pinPrev
    BY <1>3, <1>4
  <2> QED
    BY ONLY <1>4, <2>1, <2>2 DEF FramesOK
<1>7. ColumnOK(d)
  BY ONLY <1>1, <1>3 DEF ColumnOK
<1>8. left \subseteq w.frames
  OBVIOUS
<1> HIDE DEF left, rest
<1>9. WallBase(r, n) /\ Configured(r.cols, r.config) /\ r.clock.mapped
  <2>1. Answered(w, r, i, d, left)
    BY ONLY <1>3, <1>5, <1>6, <1>7, <1>8, w.posted # <<>>, i \in DOMAIN w.cols, d \in Column,
            d.decode.on \/ d.failed = d.gen,
            Columns!For(w.cols[i], Head(w.posted)) DEF Answered, cols, rest
  <2> QED
    BY <1>1, <2>1, WallAnswered
<1>10. Visible(r)
  <2>1. \A j \in DOMAIN w.cols : Columns!Shown(cols[j]) = Columns!Shown(w.cols[j])
    BY <1>3, <1>4 DEF Columns!Shown
  <2>2. Visible(w)
    BY <1>1 DEF WallOK
  <2> QED
    <3>1. SeenAs(w, r)
      BY ONLY <1>4, <1>5, <2>1 DEF SeenAs
    <3> QED
      BY ONLY <2>2, <3>1, Seen
<1> QED
  BY <1>1, <1>5, <1>9, <1>10 DEF WallOK

LEMMA WallUploaded ==
    ASSUME NEW n, NEW w, WallOK(w, n), w.posted # <<>>,
           NEW i \in DOMAIN w.cols, Columns!For(w.cols[i], Head(w.posted)),
           Head(w.posted).kind # "drm", Head(w.posted).path # Columns!NoPicture
    PROVE  WallOK(Columns!Upload([w EXCEPT !.posted = Tail(@)], i, Head(w.posted).path), n)
<1> DEFINE call == Head(w.posted)
           rest == Tail(w.posted)
           c == w.cols[i]
<1>1. /\ ~w.gone /\ c \in Column /\ ColumnOK(c) /\ call \in Letter
      /\ call.path = c.path /\ call.frame = 0
  BY HeadFits DEF Fits, Letter
<1>2. /\ Steady(w.cols, w.lives, w.threads, w.posted, w.frames)
      /\ w.cols \in Seq(Column) /\ DOMAIN w = WallFields
  BY SteadyTyped DEF WallOK, WallBase
<1> DEFINE d == Columns!Uploaded(c, call.path)
<1>3. /\ d \in Column /\ d.life = c.life /\ d.gen = c.gen /\ d.path = c.path
      /\ d.decode = c.decode /\ d.tex = c.path /\ d.video = c.video
      /\ d.zeroCopy = c.zeroCopy /\ d.pin = c.pin /\ d.pinPrev = c.pinPrev
  <2> DEFINE fades == c.transition /\ c.tex # Columns!NoPicture
             prev == IF fades THEN c.tex ELSE c.prev
  <2>1. PICK b \in BOOLEAN : b = (c.fading \/ fades)
    OBVIOUS
  <2>2. PICK no \in BOOLEAN : no = FALSE
    OBVIOUS
  <2>3. d = [c EXCEPT !.tex = call.path, !.transition = no, !.prev = prev, !.fading = b]
    BY <2>1, <2>2 DEF Columns!Uploaded
  <2>4. prev \in Pictures /\ c.path \in Pictures
    BY <1>1 DEF Column
  <2> HIDE DEF prev, d
  <2> QED
    BY <1>1, <2>3, <2>4 DEF Column
<1> DEFINE cols == [w.cols EXCEPT ![i] = d]
           v == [w EXCEPT !.posted = rest]
           s == [v EXCEPT !.cols = cols]
<1>5. Columns!Upload(v, i, call.path) = Columns!RequestFrame(s)
  <2>1. v.cols = w.cols /\ DOMAIN v = WallFields
    BY <1>2 DEF WallFields
  <2> HIDE DEF v
  <2>2. [v EXCEPT !.cols[i] = Columns!Uploaded(@, call.path)] = [v EXCEPT !.cols = cols]
    BY <2>1
  <2> QED
    BY <2>2 DEF Columns!Upload
<1> HIDE DEF d
<1>6. /\ cols[i] = d /\ DOMAIN cols = DOMAIN w.cols
      /\ \A j \in DOMAIN w.cols : j # i => cols[j] = w.cols[j]
  BY <1>2, <1>3, Replaced
<1> HIDE DEF cols
<1>7. FramesOK(cols, rest, w.frames)
  <2>1. FramesOK(w.cols, rest, w.frames \ {call.frame}) /\ FramesOK(w.cols, w.posted, w.frames)
    BY <1>2, HeadFrames DEF Steady
  <2>2. w.frames \ {call.frame} = w.frames
    BY <1>1, <2>1 DEF FramesOK
  <2>3. \A j \in DOMAIN w.cols : cols[j].pin = w.cols[j].pin /\ cols[j].pinPrev = w.cols[j].pinPrev
    BY <1>3, <1>6
  <2> QED
    BY ONLY <1>6, <2>1, <2>2, <2>3 DEF FramesOK
<1>8. /\ DOMAIN s = WallFields /\ s.cols = cols /\ s.lives = w.lives
      /\ s.threads = w.threads /\ s.posted = rest /\ s.frames = w.frames
      /\ s.config = w.config /\ s.clock = w.clock /\ s.locked = w.locked
      /\ s.gone = w.gone
  BY <1>2 DEF WallFields
<1> HIDE DEF s
<1>9. ColumnOK(d)
  BY ONLY <1>1, <1>3 DEF ColumnOK
<1>10. WallBase(s, n) /\ Configured(s.cols, s.config) /\ s.clock.mapped
  <2>1. w.frames \subseteq w.frames
    OBVIOUS
  <2>2. Answered(w, s, i, d, w.frames)
    BY ONLY <1>1, <1>3, <1>7, <1>8, <1>9, <2>1, w.posted # <<>>, i \in DOMAIN w.cols,
            Columns!For(w.cols[i], Head(w.posted)) DEF Answered, cols, rest
  <2> QED
    BY <1>1, <2>2, WallAnswered
<1> DEFINE r == Columns!RequestFrame(s)
<1>11. Same(r, s) /\ Visible(r) /\ WallBase(r, n)
  BY <1>10, FrameRequested, SameBase
<1> HIDE DEF r
<1>12. WallOK(r, n)
  BY <1>1, <1>8, <1>10, <1>11 DEF WallOK, Same, Kept
<1> QED
  BY <1>5, <1>12 DEF r

LEMMA WallCalled ==
    ASSUME NEW n, NEW w, WallOK(w, n), w.posted # <<>>, NEW ok \in BOOLEAN
    PROVE  WallOK(Columns!Call([w EXCEPT !.posted = Tail(@)], Head(w.posted), ok), n)
<1> DEFINE call == Head(w.posted)
           rest == Tail(w.posted)
           v == [w EXCEPT !.posted = rest]
           r == Columns!Call(v, call, ok)
<1>1. /\ DOMAIN w = WallFields /\ w.cols \in Seq(Column) /\ w.posted \in Seq(Letter)
      /\ Steady(w.cols, w.lives, w.threads, w.posted, w.frames)
      /\ call \in Letter
  <2>1. DOMAIN w = WallFields /\ Steady(w.cols, w.lives, w.threads, w.posted, w.frames)
    BY DEF WallOK, WallBase
  <2>2. w.cols \in Seq(Column) /\ w.posted \in Seq(Letter)
    BY <2>1, SteadyTyped
  <2> QED
    BY <2>1, <2>2, Taken
<1>2. /\ DOMAIN v = WallFields /\ v.cols = w.cols /\ v.frames = w.frames
      /\ v.posted = rest
  BY <1>1 DEF WallFields
<1>3. CASE ~\E i \in DOMAIN w.cols : Columns!For(w.cols[i], call)
  <2>1. r = [w EXCEPT !.posted = Tail(@), !.frames = @ \ {call.frame}]
    BY <1>2, <1>3 DEF Columns!Call, Columns!Drops
  <2> HIDE DEF r
  <2>2. WallOK(r, n)
    BY <1>3, <2>1, WallDropped
  <2> QED
    BY <2>2 DEF r
<1>4. CASE \E i \in DOMAIN w.cols : Columns!For(w.cols[i], call)
  <2> DEFINE i == CHOOSE i \in DOMAIN v.cols : Columns!For(v.cols[i], call)
  <2>1. i \in DOMAIN w.cols /\ Columns!For(w.cols[i], call)
    BY <1>2, <1>4
  <2>2. r = CASE call.kind = "drm" -> Columns!Import(v, i, call, ok)
              [] call.kind # "drm" /\ call.path = Columns!NoPicture -> [v EXCEPT !.cols[i].failed = call.gen]
              [] OTHER -> Columns!Upload(v, i, call.path)
    BY <1>2, <1>4 DEF Columns!Call
  <2>3. PICK j : j = i
    OBVIOUS
  <2> HIDE DEF i, r, v
  <2>4. /\ ~w.gone /\ w.cols[j] \in Column /\ ColumnOK(w.cols[j])
        /\ Fits(w.cols[j], call) /\ j \in DOMAIN w.cols /\ Columns!For(w.cols[j], call)
    BY <2>1, <2>3, HeadFits
  <2> DEFINE c == w.cols[j]
  <2>5. CASE call.kind = "drm" /\ ok
    <3>1. r = Columns!Import(v, j, call, TRUE)
      <4>1. ok = TRUE
        BY <2>5
      <4>2. r = Columns!Import(v, i, call, ok)
        BY ONLY <2>2, <2>5
      <4> QED
        BY ONLY <2>3, <4>1, <4>2
    <3> QED
      BY <2>4, <2>5, <3>1, WallImported DEF v, r
  <2>6. CASE call.kind = "drm" /\ ~ok
    <3> DEFINE d == [c EXCEPT !.decode.importFailed = c.decode.on]
    <3>1. r = [w EXCEPT !.posted = Tail(@), !.cols[j] = d, !.frames = @ \ {call.frame}]
      <4>1. r = [v EXCEPT !.cols[j].decode.importFailed = v.cols[j].decode.on,
                          !.frames = @ \ {call.frame}]
        <5>1. r = Columns!Import(v, i, call, ok)
          BY ONLY <2>2, <2>6
        <5>2. r = Columns!Import(v, j, call, ok)
          BY ONLY <2>3, <5>1
        <5> QED
          BY <2>6, <5>2 DEF Columns!Import
      <4>2. r = [v EXCEPT !.cols = [w.cols EXCEPT ![j] = d], !.frames = w.frames \ {call.frame}]
        BY <1>2, <4>1
      <4>3. v = [w EXCEPT !.posted = Tail(@)]
        BY DEF v
      <4> QED
        BY <1>1, <4>2, <4>3 DEF WallFields
    <3>2. d \in Column /\ Alike([c EXCEPT !.failed = d.failed], d) /\ d.decode.on
      <4>1. c.decode.on
        BY <2>4, <2>6 DEF Fits
      <4> QED
        BY <2>4, <4>1 DEF Column, Playback, Alike
    <3> HIDE DEF d
    <3>3. WallOK(r, n)
      BY <2>4, <3>1, <3>2, WallLearns
    <3> QED
      BY <3>3 DEF r, v
  <2>7. CASE call.kind # "drm" /\ call.path = Columns!NoPicture
    <3> DEFINE d == [c EXCEPT !.failed = call.gen]
    <3>1. r = [w EXCEPT !.posted = Tail(@), !.cols[j] = d, !.frames = @ \ {call.frame}]
      <4>1. r = [v EXCEPT !.cols = [w.cols EXCEPT ![j] = d]]
        BY <1>2, <2>2, <2>3, <2>7
      <4>2. w.frames \ {call.frame} = w.frames
        <5>1. call.frame = 0 /\ FramesOK(w.cols, w.posted, w.frames)
          BY <1>1, <2>7 DEF Letter, Steady
        <5> QED
          BY <5>1 DEF FramesOK
      <4>3. v = [w EXCEPT !.posted = Tail(@)]
        BY DEF v
      <4> HIDE DEF d
      <4> QED
        BY <1>1, <4>1, <4>2, <4>3 DEF WallFields
    <3>2. d \in Column /\ Alike([c EXCEPT !.failed = d.failed], d) /\ d.failed = d.gen
      <4>1. call.gen \in Nat /\ call.gen = c.gen
        BY <1>1, <2>4 DEF Letter, Columns!For
      <4> QED
        BY <2>4, <4>1 DEF Column, Alike
    <3> HIDE DEF d
    <3>3. WallOK(r, n)
      BY <2>4, <3>1, <3>2, WallLearns
    <3> QED
      BY <3>3 DEF r, v
  <2>8. CASE call.kind # "drm" /\ call.path # Columns!NoPicture
    <3>1. r = Columns!Upload(v, j, call.path)
      BY <2>2, <2>3, <2>8
    <3> QED
      BY <2>4, <2>8, <3>1, WallUploaded DEF v, r
  <2> QED
    BY <2>5, <2>6, <2>7, <2>8
<1> QED
  BY <1>3, <1>4

-----------------------------------------------------------------------------
(* What a column keeps for itself.                                          *)
LEMMA WallAlike ==
    ASSUME NEW n, NEW w, WallOK(w, n), ~w.gone,
           NEW new \in Seq(Column), DOMAIN new = DOMAIN w.cols,
           \A i \in DOMAIN w.cols : Alike(w.cols[i], new[i]),
           NEW r, DOMAIN r = WallFields, r.cols = new, r.lives = w.lives,
           r.threads = w.threads, r.posted = w.posted, r.frames = w.frames,
           r.config = w.config, r.clock = w.clock, r.locked = w.locked,
           r.gone = w.gone, r.size = w.size, r.painted = w.painted
    PROVE  WallOK(r, n)
<1>1. /\ Steady(new, w.lives, w.threads, w.posted, w.frames)
      /\ Configured(new, w.config)
  <2>1. Steady(w.cols, w.lives, w.threads, w.posted, w.frames) /\ Configured(w.cols, w.config)
    BY DEF WallOK, WallBase
  <2> QED
    BY <2>1, AlikeSteady
<1>2. WallBase(r, n)
  BY <1>1 DEF WallOK, WallBase, ClockSound
<1>3. Visible(r)
  <2>1. \A i \in DOMAIN w.cols : Columns!Shown(new[i]) = Columns!Shown(w.cols[i])
    BY DEF Alike, Columns!Shown
  <2>2. SeenAs(w, r)
    BY <2>1 DEF SeenAs
  <2>3. Visible(w)
    BY DEF WallOK
  <2> QED
    BY ONLY <2>2, <2>3, Seen
<1> QED
  BY <1>1, <1>2, <1>3 DEF WallOK

LEMMA WallResyncs ==
    ASSUME NEW n, NEW w, WallOK(w, n), ~w.gone, NEW config \in Wallpapers
    PROVE  WallOK(Columns!Wake(Columns!RequestFrame(Columns!SyncFromConfig(w, config))), n)
<1> DEFINE s == Columns!SyncFromConfig(w, config)
           a == Columns!RequestFrame(s)
           r == Columns!Wake(a)
<1>1. WallBase(s, n) /\ Kept(s, w) /\ s.config = config /\ Configured(s.cols, config)
  BY WallSynced DEF WallOK
<1> HIDE DEF s
<1>2. Same(a, s) /\ WallBase(a, n)
  BY <1>1, FrameRequested, SameBase
<1> HIDE DEF a
<1>3. /\ WallBase(r, n) /\ r.cols = a.cols /\ r.config = a.config /\ r.gone = a.gone
      /\ r.clock.mapped /\ Visible(r)
  BY <1>2, Woken
<1> HIDE DEF r
<1>4. WallOK(r, n)
  BY <1>1, <1>2, <1>3 DEF WallOK, Same, Kept
<1> QED
  BY <1>4 DEF r, a, s

LEMMA WallConfigured ==
    ASSUME NEW n, NEW w, WallOK(w, n), ~w.gone
    PROVE  LET r == Columns!ClockRequests([w EXCEPT !.size = @ + 1])
           IN  /\ WallOK(r, n)
               /\ WallOK(Columns!SyncFromConfig(Columns!StopAll(r), r.config), n)
<1> DEFINE v == [w EXCEPT !.size = @ + 1]
           r == Columns!ClockRequests(v)
           s == Columns!StopAll(r)
           t == Columns!SyncFromConfig(s, r.config)
<1>1. DOMAIN w = WallFields
  BY DEF WallOK, WallBase
<1>2. /\ DOMAIN v = WallFields /\ v.cols = w.cols /\ v.lives = w.lives
      /\ v.threads = w.threads /\ v.posted = w.posted /\ v.frames = w.frames
      /\ v.config = w.config /\ v.clock = w.clock /\ v.locked = w.locked
      /\ v.gone = w.gone
  BY <1>1 DEF WallFields
<1> HIDE DEF v
<1>3. WallBase(v, n)
  BY <1>2 DEF WallOK, WallBase, ClockSound
<1>4. Same(r, v) /\ r.clock.mapped /\ Coming(r) /\ WallBase(r, n)
  BY <1>2, <1>3, WallRequested, SameBase DEF WallOK
<1> HIDE DEF r
<1>5. WallOK(r, n)
  BY <1>2, <1>4 DEF WallOK, Same, Kept, Visible
<1>6. WallBase(s, n) /\ Kept(s, r)
  BY <1>4, AllStopped
<1> HIDE DEF s
<1>7. r.config \in Wallpapers
  BY <1>4 DEF WallBase
<1>8. WallBase(t, n) /\ Kept(t, s) /\ t.config = r.config /\ Configured(t.cols, r.config)
  BY <1>6, <1>7, WallSynced
<1> HIDE DEF t
<1>9. Coming(t) /\ t.clock.mapped /\ t.gone = w.gone
  BY ONLY <1>2, <1>4, <1>6, <1>8 DEF Kept, Same
<1>10. WallOK(t, n)
  BY <1>8, <1>9 DEF WallOK, Visible
<1> QED
  BY <1>5, <1>10 DEF t, s, r, v

LEMMA WallDone ==
    ASSUME NEW n, NEW w, WallOK(w, n), w.clock.callback = "committed", NEW over \in BOOLEAN
    PROVE  /\ w.clock.redraw =>
                 WallOK(Columns!Paint([w EXCEPT !.clock = Columns!DoneForDraw(@)], over), n)
           /\ ~w.clock.redraw => WallOK([w EXCEPT !.clock = Columns!DoneIdle(@)], n)
<1>1. /\ DOMAIN w = WallFields /\ w.locked \in BOOLEAN /\ Columns!ClockOK(w.clock)
      /\ ~w.gone /\ w.clock.mapped /\ Visible(w) /\ w.cols \in Seq(Column)
      /\ Steady(w.cols, w.lives, w.threads, w.posted, w.frames)
      /\ Configured(w.cols, w.config)
  BY SteadyTyped DEF WallOK, WallBase, ClockSound
<1>2. ASSUME NEW c, Columns!ClockOK(c), c.callback = "none", c.mapped,
             w.locked \/ ~w.clock.redraw
      PROVE  WallOK([w EXCEPT !.clock = c], n)
  <2> DEFINE r == [w EXCEPT !.clock = c]
  <2>1. /\ DOMAIN r = WallFields /\ r.cols = w.cols /\ r.lives = w.lives
        /\ r.threads = w.threads /\ r.posted = w.posted /\ r.frames = w.frames
        /\ r.config = w.config /\ r.clock = c /\ r.locked = w.locked
        /\ r.gone = w.gone /\ r.size = w.size /\ r.painted = w.painted
    BY <1>1 DEF WallFields
  <2> HIDE DEF r
  <2>2. WallBase(r, n)
    BY <1>2, <2>1 DEF WallOK, WallBase, ClockSound
  <2>3. Columns!Picture(r) = Columns!Picture(w)
    BY <2>1 DEF Columns!Picture
  <2>4. WallOK(r, n)
    BY <1>1, <1>2, <2>1, <2>2, <2>3 DEF WallOK, Visible, Coming
  <2> QED
    BY <2>4 DEF r
<1>3. ASSUME ~w.clock.redraw
      PROVE  WallOK([w EXCEPT !.clock = Columns!DoneIdle(@)], n)
  <2> DEFINE c == Columns!DoneIdle(w.clock)
  <2>1. Columns!ClockOK(c) /\ c.callback = "none" /\ c.mapped
    BY <1>1, <1>3 DEF Columns!DoneIdle, Columns!ClockOK, Columns!Clock, Columns!Callbacks
  <2> HIDE DEF c
  <2>2. WallOK([w EXCEPT !.clock = c], n)
    BY <1>2, <1>3, <2>1
  <2> QED
    BY <2>2 DEF c
<1> DEFINE v == [w EXCEPT !.clock = Columns!DoneForDraw(w.clock)]
           r == Columns!Paint(v, over)
<1>4. /\ DOMAIN v = WallFields /\ v.cols = w.cols /\ v.lives = w.lives
      /\ v.threads = w.threads /\ v.posted = w.posted /\ v.frames = w.frames
      /\ v.config = w.config /\ v.clock = Columns!DoneForDraw(w.clock)
      /\ v.locked = w.locked /\ v.gone = w.gone /\ v.size = w.size
  BY <1>1 DEF WallFields
<1>5. ASSUME w.locked
      PROVE  WallOK(r, n)
  <2> DEFINE c == [Columns!DoneForDraw(w.clock) EXCEPT !.callback = "none", !.redraw = FALSE]
  <2>1. r = [w EXCEPT !.clock = c]
    <3>1. r = [v EXCEPT !.clock.callback = "none", !.clock.redraw = FALSE]
      BY <1>4, <1>5 DEF Columns!Paint
    <3> QED
      BY <1>1, <1>4, <3>1 DEF WallFields
  <2>2. Columns!ClockOK(c) /\ c.callback = "none" /\ c.mapped
    BY <1>1 DEF Columns!DoneForDraw, Columns!Armed, Columns!ClockOK, Columns!Clock,
       Columns!Callbacks
  <2> HIDE DEF c, r
  <2> QED
    BY <1>2, <1>5, <2>1, <2>2
<1>6. ASSUME ~w.locked
      PROVE  WallOK(r, n)
  <2>1. \A f \in {v.clock, Columns!Deferred(v.clock)} :
            LET d == Columns!Committed(f)
            IN  /\ Columns!ClockOK(d) /\ d.callback = "committed" /\ d.mapped
    BY <1>1, <1>4, WallClock
  <2>2. v.locked = FALSE /\ v.cols \in Seq(Column)
    BY <1>1, <1>4, <1>6
  <2> HIDE DEF v
  <2>3. /\ DOMAIN r = WallFields /\ r.cols \in Seq(Column)
        /\ DOMAIN r.cols = DOMAIN v.cols
        /\ \A i \in DOMAIN v.cols : Alike(v.cols[i], r.cols[i])
        /\ r.lives = v.lives /\ r.threads = v.threads /\ r.posted = v.posted
        /\ r.frames = v.frames /\ r.config = v.config /\ r.locked = v.locked
        /\ r.gone = v.gone /\ r.painted = Columns!Picture(r)
        /\ ClockSound(r) /\ r.clock.mapped
    BY <1>4, <2>1, <2>2, WallPainted, ZenonT(60)
  <2> HIDE DEF r
  <2>4. /\ Steady(r.cols, w.lives, w.threads, w.posted, w.frames)
        /\ Configured(r.cols, w.config)
    <3>1. \A i \in DOMAIN w.cols : Alike(w.cols[i], r.cols[i])
      BY ONLY <1>4, <2>3
    <3> QED
      BY ONLY <1>1, <1>4, <2>3, <3>1, AlikeSteady
  <2>5. WallBase(r, n)
    BY <1>4, <2>3, <2>4 DEF WallOK, WallBase
  <2> QED
    BY <1>1, <1>4, <2>3, <2>4, <2>5 DEF WallOK, Visible
<1> QED
  BY <1>1, <1>3, <1>5, <1>6

LEMMA WallMade ==
    ASSUME NEW config \in Wallpapers
    PROVE  WallOK(Columns!InitColumns(config), 0)
<1> DEFINE w == [cols |-> <<>>, lives |-> 0, threads |-> {}, posted |-> <<>>, frames |-> {},
                 config |-> config, clock |-> Columns!IdleClock, size |-> 0, saver |-> FALSE,
                 locked |-> FALSE, painted |-> [size |-> 0, shown |-> <<>>], gone |-> FALSE]
           s == Columns!SyncFromConfig(w, config)
           r == Columns!RequestFrame(s)
<1>1. Columns!InitColumns(config) = r
  BY DEF Columns!InitColumns
<1>2. /\ DOMAIN w = WallFields /\ w.cols = <<>> /\ w.lives = 0 /\ w.threads = {}
      /\ w.posted = <<>> /\ w.frames = {} /\ w.config = config
      /\ w.clock = Columns!IdleClock /\ w.locked = FALSE /\ w.gone = FALSE
  BY DEF WallFields
<1> HIDE DEF w
<1>3. Columns!ClockOK(Columns!IdleClock) /\ Columns!IdleClock.callback = "none"
  BY DEF Columns!IdleClock, Columns!ClockOK, Columns!Clock, Columns!Callbacks
<1>4. Steady(<<>>, 0, {}, <<>>, {})
  BY DEF Steady, LivesOK, FramesOK
<1>5. WallBase(w, 0)
  BY <1>2, <1>3, <1>4 DEF WallBase, ClockSound
<1>6. WallBase(s, 0) /\ Kept(s, w) /\ s.config = config /\ Configured(s.cols, config)
  BY <1>5, WallSynced
<1> HIDE DEF s
<1>7. /\ Same(r, s) /\ (~s.locked => r.clock.mapped) /\ Visible(r) /\ WallBase(r, 0)
  BY <1>6, FrameRequested, SameBase
<1> HIDE DEF r
<1>8. WallOK(r, 0)
  BY ONLY <1>2, <1>6, <1>7 DEF WallOK, Kept, Same
<1> QED
  BY <1>1, <1>8

LEMMA WallDestroyed ==
    ASSUME NEW n, NEW w, WallOK(w, n), ~w.gone
    PROVE  WallOK([Columns!StopAll(w) EXCEPT !.cols = <<>>, !.gone = TRUE,
                                             !.clock = Columns!IdleClock], n)
<1> DEFINE s == Columns!StopAll(w)
           r == [s EXCEPT !.cols = <<>>, !.gone = TRUE, !.clock = Columns!IdleClock]
<1>1. /\ WallBase(s, n) /\ Kept(s, w)
      /\ \A i \in DOMAIN s.cols : s.cols[i].pin = 0 /\ s.cols[i].pinPrev = 0
  <2>1. WallBase(w, n)
    BY DEF WallOK
  <2> HIDE DEF s
  <2>2. /\ WallBase(s, n) /\ Kept(s, w)
        /\ \A i \in DOMAIN s.cols : /\ ~s.cols[i].decode.on
                                    /\ s.cols[i].pin = 0 /\ s.cols[i].pinPrev = 0
    BY ONLY <2>1, AllStopped DEF s
  <2> QED
    BY ONLY <2>2
<1> HIDE DEF s
<1>2. Steady(s.cols, s.lives, s.threads, s.posted, s.frames) /\ DOMAIN s = WallFields
  BY <1>1 DEF WallBase
<1>3. Columns!ClockOK(Columns!IdleClock) /\ Columns!IdleClock.callback = "none"
  BY DEF Columns!IdleClock, Columns!ClockOK, Columns!Clock, Columns!Callbacks
<1>4. Steady(<<>>, s.lives, s.threads, s.posted, s.frames)
  <2>1. FramesOK(<<>>, s.posted, s.frames)
    <3>1. FramesOK(s.cols, s.posted, s.frames)
      BY <1>2 DEF Steady
    <3>2. DOMAIN <<>> = {}
      OBVIOUS
    <3>3. \A f \in s.frames : \E k \in DOMAIN s.posted : s.posted[k].frame = f
      BY ONLY <1>1, <3>1 DEF FramesOK
    <3> QED
      BY ONLY <3>1, <3>2, <3>3 DEF FramesOK
  <2> QED
    BY <1>2, <2>1 DEF Steady, LivesOK
<1>5. /\ DOMAIN r = WallFields /\ r.cols = <<>> /\ r.lives = s.lives
      /\ r.threads = s.threads /\ r.posted = s.posted /\ r.frames = s.frames
      /\ r.config = s.config /\ r.clock = Columns!IdleClock /\ r.locked = s.locked
      /\ r.gone = TRUE
  BY <1>2 DEF WallFields
<1> HIDE DEF r
<1>6. WallOK(r, n)
  BY <1>1, <1>3, <1>4, <1>5 DEF WallOK, WallBase, ClockSound
<1> QED
  BY <1>6 DEF r, s

(* animate_decode_scaled has posted what it decoded.                        *)
LEMMA WallDecoded ==
    ASSUME NEW n, NEW w, WallOK(w, n), NEW t \in w.threads, NEW ok \in BOOLEAN
    PROVE  WallOK([w EXCEPT !.threads = @ \ {t},
                            !.posted = Append(@, Columns!Closure("still", t,
                                IF ok THEN t.path ELSE Columns!NoPicture, Columns!NoFrame))], n)
<1> DEFINE path == IF ok THEN t.path ELSE Columns!NoPicture
           e == Columns!Closure("still", t, path, Columns!NoFrame)
           r == [w EXCEPT !.threads = @ \ {t}, !.posted = Append(@, e)]
<1>1. /\ Steady(w.cols, w.lives, w.threads, w.posted, w.frames) /\ DOMAIN w = WallFields
      /\ t \in Job
  BY SteadyTyped DEF WallOK, WallBase
<1>2. path \in Pictures /\ path \in {t.path, Columns!NoPicture}
  BY <1>1 DEF Job, Pictures
<1> HIDE DEF path
<1>3. /\ e \in Letter /\ e.life = t.life /\ e.gen = t.gen /\ e.kind = "still"
      /\ e.path = path /\ e.frame = 0
  BY <1>1, <1>2 DEF Letter, Job, Columns!Closure, Columns!NoFrame
<1> HIDE DEF e
<1>4. e.life <= w.lives /\ e.frame \notin w.frames
  BY <1>1, <1>3 DEF Steady, LivesOK, FramesOK
<1>5. ASSUME NEW i \in DOMAIN w.cols, w.cols[i].life = e.life
      PROVE  e.gen <= w.cols[i].gen /\ (e.gen = w.cols[i].gen => Fits(w.cols[i], e))
  <2>1. NewsOK(w.cols[i], w.threads, w.posted)
    BY <1>1 DEF Steady
  <2> QED
    BY ONLY <1>2, <1>3, <1>5, <2>1, t \in w.threads DEF NewsOK, Fits
<1>6. Steady(w.cols, w.lives, w.threads \ {t}, Append(w.posted, e), w.frames)
  <2> DEFINE done == {t}
             more == {}
  <2>1. /\ done \in SUBSET w.threads /\ \A u \in done : u.life = e.life /\ u.gen = e.gen
        /\ more = IF e.frame = 0 THEN {} ELSE {e.frame}
    BY <1>3
  <2>2. w.frames \cup more = w.frames
    OBVIOUS
  <2> HIDE DEF done, more
  <2>3. Steady(w.cols, w.lives, w.threads \ done, Append(w.posted, e), w.frames \cup more)
    BY ONLY <1>1, <1>3, <1>4, <1>5, <2>1, Posted
  <2> QED
    BY <2>2, <2>3 DEF done
<1>7. /\ DOMAIN r = WallFields /\ r.cols = w.cols /\ r.lives = w.lives
      /\ r.threads = w.threads \ {t} /\ r.posted = Append(w.posted, e)
      /\ r.frames = w.frames
      /\ r.config = w.config /\ r.clock = w.clock /\ r.locked = w.locked
      /\ r.gone = w.gone /\ r.size = w.size /\ r.painted = w.painted
  BY <1>1 DEF WallFields
<1> HIDE DEF r
<1>8. WallBase(r, n)
  BY <1>6, <1>7 DEF WallOK, WallBase, ClockSound
<1>9. SeenAs(w, r)
  BY <1>7 DEF SeenAs
<1>10. WallOK(r, n)
  BY <1>7, <1>8, <1>9, Seen DEF WallOK
<1> QED
  BY <1>10 DEF r, e, path

(* A frame of the worker is posted, and is new if it stays in video memory. *)
LEMMA WallDelivered ==
    ASSUME NEW n \in Nat, NEW w, WallOK(w, n), NEW i \in DOMAIN w.cols,
           w.cols[i].decode.alive, NEW new \in Seq(Column), DOMAIN new = DOMAIN w.cols,
           \A j \in DOMAIN w.cols : Alike(w.cols[j], new[j]),
           NEW drm \in BOOLEAN,
           NEW e, e = (IF drm THEN Columns!Closure("drm", w.cols[i], w.cols[i].path, n + 1)
                       ELSE Columns!Closure("cpu", w.cols[i], w.cols[i].path,
                                            Columns!NoFrame)),
           NEW more, more = (IF drm THEN {n + 1} ELSE {}),
           NEW r, r = [w EXCEPT !.cols = new, !.posted = Append(@, e),
                                !.frames = @ \cup more]
    PROVE  WallOK(r, n + 1)
<1> DEFINE c == w.cols[i]
<1>1. /\ Steady(w.cols, w.lives, w.threads, w.posted, w.frames) /\ DOMAIN w = WallFields
      /\ c \in Column /\ ColumnOK(c) /\ ~w.gone /\ w.frames \subseteq 1..n
      /\ Configured(w.cols, w.config)
  <2>1. ASSUME w.cols = <<>> PROVE FALSE
    BY <2>1
  <2>2. /\ Steady(w.cols, w.lives, w.threads, w.posted, w.frames) /\ DOMAIN w = WallFields
        /\ w.frames \subseteq 1..n
    BY DEF WallOK, WallBase
  <2>3. c \in Column /\ ColumnOK(c)
    BY <2>2, SteadyTyped DEF Steady
  <2> QED
    BY <2>1, <2>2, <2>3 DEF WallOK
<1>2. c.decode.on
  BY <1>1 DEF ColumnOK
<1>3. n + 1 \in Nat /\ n + 1 # 0 /\ n + 1 \notin w.frames /\ n + 1 \in 1..(n + 1)
      /\ 1..n \subseteq 1..(n + 1)
  BY <1>1
<1>4. PICK f \in Nat : f = n + 1
  BY <1>3
<1>5. /\ e \in Letter /\ e.life = c.life /\ e.gen = c.gen /\ e.kind # "still"
      /\ e.path = c.path /\ e.frame \notin w.frames
      /\ more = IF e.frame = 0 THEN {} ELSE {e.frame}
  <2>1. /\ c.life \in Nat /\ c.gen \in Nat /\ c.path \in Pictures /\ 0 \in Nat
        /\ 0 \notin w.frames
    BY <1>1 DEF Column, Steady, FramesOK
  <2>2. CASE drm
    <3>1. e = [kind |-> "drm", life |-> c.life, gen |-> c.gen, path |-> c.path, frame |-> f]
      BY <1>4, <2>2 DEF Columns!Closure
    <3>2. more = {f} /\ f # 0 /\ f \notin w.frames
      BY <1>3, <1>4, <2>2
    <3> QED
      BY ONLY <2>1, <3>1, <3>2, f \in Nat DEF Letter
  <2>3. CASE ~drm
    <3>1. e = [kind |-> "cpu", life |-> c.life, gen |-> c.gen, path |-> c.path, frame |-> 0]
      BY <2>3 DEF Columns!Closure, Columns!NoFrame
    <3>2. more = {}
      BY <2>3
    <3> QED
      BY ONLY <2>1, <3>1, <3>2 DEF Letter
  <2> QED
    BY <2>2, <2>3
<1>6. more \subseteq 1..(n + 1)
  BY <1>3
<1>7. /\ Steady(new, w.lives, w.threads, w.posted, w.frames)
      /\ Configured(new, w.config)
  BY <1>1, AlikeSteady
<1>8. e.life <= w.lives
  BY <1>1, <1>5 DEF Steady, LivesOK
<1>9. ASSUME NEW j \in DOMAIN new, new[j].life = e.life
      PROVE  e.gen <= new[j].gen /\ (e.gen = new[j].gen => Fits(new[j], e))
  <2>1. Alike(w.cols[j], new[j]) /\ w.cols[j].life = c.life /\ j \in DOMAIN w.cols
    BY <1>5, <1>9 DEF Alike
  <2>2. j = i
    BY ONLY <1>1, <2>1, i \in DOMAIN w.cols DEF Steady, LivesOK
  <2>3. e.gen = new[j].gen /\ e.gen \in Nat
    BY ONLY <1>1, <1>5, <2>1, <2>2 DEF Alike, Column
  <2> QED
    BY ONLY <1>2, <1>5, <2>1, <2>2, <2>3 DEF Alike, Fits
<1>10. Steady(new, w.lives, w.threads, Append(w.posted, e), w.frames \cup more)
  <2> DEFINE done == {}
  <2>1. /\ done \in SUBSET w.threads /\ \A u \in done : u.life = e.life /\ u.gen = e.gen
        /\ w.threads \ done = w.threads
    OBVIOUS
  <2> HIDE DEF done
  <2>2. Steady(new, w.lives, w.threads \ done, Append(w.posted, e), w.frames \cup more)
    BY ONLY <1>5, <1>7, <1>8, <1>9, <2>1, Posted
  <2> QED
    BY <2>1, <2>2
<1>11. /\ DOMAIN r = WallFields /\ r.cols = new /\ r.lives = w.lives
       /\ r.threads = w.threads /\ r.posted = Append(w.posted, e)
       /\ r.frames = w.frames \cup more
       /\ r.config = w.config /\ r.clock = w.clock /\ r.locked = w.locked
       /\ r.gone = w.gone /\ r.size = w.size /\ r.painted = w.painted
  BY <1>1 DEF WallFields
<1>12. WallBase(r, n + 1)
  <2>1. r.frames \subseteq 1..(n + 1)
    BY <1>1, <1>3, <1>6, <1>11
  <2> QED
    BY <1>10, <1>11, <2>1 DEF WallOK, WallBase, ClockSound
<1>13. Visible(r)
  <2>1. \A j \in DOMAIN w.cols : Columns!Shown(new[j]) = Columns!Shown(w.cols[j])
    BY DEF Alike, Columns!Shown
  <2>2. SeenAs(w, r)
    BY ONLY <1>11, <2>1, DOMAIN new = DOMAIN w.cols DEF SeenAs
  <2>3. Visible(w)
    BY <1>1 DEF WallOK
  <2> QED
    BY ONLY <2>2, <2>3, Seen
<1> QED
  BY ONLY <1>1, <1>7, <1>11, <1>12, <1>13, WallOK(w, n) DEF WallOK

LEMMA WallInitially == Columns!Init => WallInv
<1> SUFFICES ASSUME Columns!Init PROVE WallInv
  OBVIOUS
<1>1. PICK config \in Wallpapers : wp = Columns!InitColumns(config)
  BY DEF Columns!Init
<1>2. wpWork \in [changes : {0}, frames : {0}, plugin : BOOLEAN]
  BY DEF Columns!Init
<1>5. wpWork \in [changes : Nat, frames : Nat, plugin : BOOLEAN] /\ wpWork.changes = 0 /\ wpWork.frames = 0
  BY <1>2
<1>3. WallOK(wp, 0)
  BY <1>1, WallMade
<1>4. 0 <= MaxChanges /\ 0 <= MaxFrames
  BY WorkersAssumption
<1> QED
  BY ONLY <1>3, <1>4, <1>5 DEF WallInv

LEMMA WallStep == WallInv /\ Columns!Next => WallInv'
<1> SUFFICES ASSUME WallInv, Columns!Next PROVE WallInv'
  OBVIOUS
<1> DEFINE n == wpWork.frames
<1>1. /\ wpWork \in [changes : Nat, frames : Nat, plugin : BOOLEAN] /\ n \in Nat
      /\ wpWork.changes <= MaxChanges /\ n <= MaxFrames
      /\ WallOK(wp, n) /\ DOMAIN wp = WallFields
      /\ Steady(wp.cols, wp.lives, wp.threads, wp.posted, wp.frames)
      /\ wp.cols \in Seq(Column) /\ wp.gone \in BOOLEAN
      /\ \A i \in DOMAIN wp.cols : wp.cols[i] \in Column
      /\ MaxChanges \in Nat /\ MaxFrames \in Nat
  <2>1. wpWork \in [changes : Nat, frames : Nat, plugin : BOOLEAN] /\ WallOK(wp, n)
    BY DEF WallInv
  <2>2. /\ DOMAIN wp = WallFields /\ wp.gone \in BOOLEAN
        /\ Steady(wp.cols, wp.lives, wp.threads, wp.posted, wp.frames)
    BY <2>1 DEF WallOK, WallBase
  <2> QED
    BY <2>1, <2>2, SteadyTyped, WorkersAssumption DEF WallInv
<1>2. \A i \in DOMAIN wp.cols : ~wp.gone
  <2>1. ASSUME wp.cols = <<>>, NEW i \in DOMAIN wp.cols PROVE FALSE
    BY <2>1
  <2> QED
    BY <1>1, <2>1 DEF WallOK
\* A change of the configuration, of the size, or of the lock.
<1>3. ASSUME wpWork.changes < MaxChanges, wpWork' = [wpWork EXCEPT !.changes = @ + 1],
             WallOK(wp', n)
      PROVE  WallInv'
  <2>1. wpWork.changes + 1 \in Nat /\ wpWork.changes + 1 <= MaxChanges
    BY <1>1, <1>3
  <2>2. /\ wpWork' \in [changes : Nat, frames : Nat, plugin : BOOLEAN] /\ wpWork'.frames = n
        /\ wpWork'.changes <= MaxChanges
    BY <1>1, <1>3, <2>1
  <2> QED
    BY ONLY <1>1, <1>3, <2>2 DEF WallInv
<1>4. ASSUME UNCHANGED wpWork, WallOK(wp', n)
      PROVE  WallInv'
  BY ONLY <1>1, <1>4 DEF WallInv
<1>5. ASSUME NEW new \in Seq(Column), DOMAIN new = DOMAIN wp.cols, ~wp.gone,
             \A i \in DOMAIN wp.cols : Alike(wp.cols[i], new[i]),
             NEW saver, wp' = [wp EXCEPT !.cols = new, !.saver = saver]
      PROVE  WallOK(wp', n)
  <2>1. /\ DOMAIN wp' = WallFields /\ wp'.cols = new /\ wp'.lives = wp.lives
        /\ wp'.threads = wp.threads /\ wp'.posted = wp.posted /\ wp'.frames = wp.frames
        /\ wp'.config = wp.config /\ wp'.clock = wp.clock /\ wp'.locked = wp.locked
        /\ wp'.gone = wp.gone /\ wp'.size = wp.size /\ wp'.painted = wp.painted
    BY <1>1, <1>5 DEF WallFields
  <2> QED
    BY ONLY <1>1, <1>5, <2>1, WallAlike
<1>6. CASE Columns!Resync
  <2>1. PICK config \in Wallpapers :
           /\ ~wp.gone /\ wpWork.changes < MaxChanges
           /\ wp' = Columns!Wake(Columns!RequestFrame(Columns!SyncFromConfig(wp, config)))
           /\ wpWork' = [wpWork EXCEPT !.changes = @ + 1]
    BY <1>6 DEF Columns!Resync
  <2>2. WallOK(wp', n)
    BY <1>1, <2>1, WallResyncs
  <2> QED
    BY <1>3, <2>1, <2>2
<1>7. CASE Columns!Configure
  <2> DEFINE r == Columns!ClockRequests([wp EXCEPT !.size = @ + 1])
  <2>1. /\ ~wp.gone /\ wpWork.changes < MaxChanges
        /\ wpWork' = [wpWork EXCEPT !.changes = @ + 1]
        /\ wp' = IF r.config.animated
                 THEN Columns!SyncFromConfig(Columns!StopAll(r), r.config) ELSE r
    BY <1>7 DEF Columns!Configure
  <2>2. WallOK(r, n) /\ WallOK(Columns!SyncFromConfig(Columns!StopAll(r), r.config), n)
    BY <1>1, <2>1, WallConfigured
  <2> HIDE DEF r
  <2>3. WallOK(wp', n)
    BY <2>1, <2>2
  <2> QED
    BY <1>3, <2>1, <2>3
<1>8. CASE Columns!FrameDone
  <2>1. PICK over \in BOOLEAN :
           /\ wp.clock.callback = "committed"
           /\ wp' = IF wp.clock.redraw
                    THEN Columns!Paint([wp EXCEPT !.clock = Columns!DoneForDraw(@)], over)
                    ELSE [wp EXCEPT !.clock = Columns!DoneIdle(@)]
           /\ UNCHANGED wpWork
    BY <1>8 DEF Columns!FrameDone
  <2>2. WallOK(wp', n)
    BY <1>1, <2>1, WallDone
  <2> QED
    BY <1>4, <2>1, <2>2
<1>9. CASE Columns!Lock
  <2>1. /\ ~wp.gone /\ wpWork.changes < MaxChanges
        /\ wpWork' = [wpWork EXCEPT !.changes = @ + 1]
        /\ wp' = [wp EXCEPT !.locked = TRUE]
    BY <1>9 DEF Columns!Lock
  <2>2. /\ DOMAIN wp' = WallFields /\ wp'.cols = wp.cols /\ wp'.lives = wp.lives
        /\ wp'.threads = wp.threads /\ wp'.posted = wp.posted /\ wp'.frames = wp.frames
        /\ wp'.config = wp.config /\ wp'.clock = wp.clock /\ wp'.locked = TRUE
        /\ wp'.gone = wp.gone
    BY <1>1, <2>1 DEF WallFields
  <2>3. WallBase(wp', n)
    BY <1>1, <2>2 DEF WallOK, WallBase, ClockSound
  <2>4. WallOK(wp', n)
    BY <1>1, <2>1, <2>2, <2>3 DEF WallOK, Visible
  <2> QED
    BY <1>3, <2>1, <2>4
<1>10. CASE Columns!Unlock
  <2> DEFINE v == [wp EXCEPT !.locked = FALSE]
  <2>1. /\ ~wp.gone /\ UNCHANGED wpWork /\ wp' = Columns!Wake(v)
    BY <1>10 DEF Columns!Unlock
  <2>2. /\ DOMAIN v = WallFields /\ v.cols = wp.cols /\ v.lives = wp.lives
        /\ v.threads = wp.threads /\ v.posted = wp.posted /\ v.frames = wp.frames
        /\ v.config = wp.config /\ v.clock = wp.clock /\ v.locked = FALSE
        /\ v.gone = wp.gone
    BY <1>1, <2>1 DEF WallFields
  <2> HIDE DEF v
  <2>3. WallBase(v, n)
    BY <1>1, <2>2 DEF WallOK, WallBase, ClockSound
  <2>4. /\ WallBase(wp', n) /\ wp'.cols = v.cols /\ wp'.config = v.config
        /\ wp'.gone = v.gone /\ wp'.clock.mapped /\ Visible(wp')
    BY <2>1, <2>3, Woken
  <2>5. WallOK(wp', n)
    BY <1>1, <2>1, <2>2, <2>4 DEF WallOK
  <2> QED
    BY <1>4, <2>1, <2>5
<1>11. CASE Columns!Screensaver
  <2>1. PICK b \in BOOLEAN : b = ~wp.saver
    OBVIOUS
  <2> DEFINE new == [i \in DOMAIN wp.cols |->
                       IF wp.cols[i].decode.on
                       THEN [wp.cols[i] EXCEPT !.decode.paused = b] ELSE wp.cols[i]]
  <2>2. /\ ~wp.gone /\ UNCHANGED wpWork /\ wp' = [wp EXCEPT !.cols = new, !.saver = b]
    BY <1>1, <1>11, <2>1 DEF Columns!Screensaver, WallFields
  <2>3. ASSUME NEW i \in DOMAIN wp.cols
        PROVE  new[i] \in Column /\ Alike(wp.cols[i], new[i])
    BY <1>1 DEF Column, Playback, Alike
  <2>4. /\ new = [i \in DOMAIN wp.cols |-> new[i]] /\ DOMAIN new = DOMAIN wp.cols
        /\ Len(wp.cols) \in Nat /\ DOMAIN wp.cols = 1..Len(wp.cols)
    <3>1. new \in [DOMAIN wp.cols -> Column]
      BY <2>3
    <3>2. Len(wp.cols) \in Nat /\ DOMAIN wp.cols = 1..Len(wp.cols)
      BY <1>1
    <3> HIDE DEF new
    <3> QED
      BY <3>1, <3>2
  <2> HIDE DEF new
  <2>5. new \in Seq(Column)
    BY <2>3, <2>4, Relisted
  <2>6. WallOK(wp', n)
    BY <1>5, <2>2, <2>3, <2>4, <2>5
  <2> QED
    BY <1>4, <2>2, <2>6
<1>12. CASE Columns!Destroy
  <2>1. /\ ~wp.gone /\ UNCHANGED wpWork
        /\ wp' = [Columns!StopAll(wp) EXCEPT !.cols = <<>>, !.gone = TRUE,
                                             !.clock = Columns!IdleClock]
    BY <1>12 DEF Columns!Destroy
  <2>2. WallOK(wp', n)
    BY <1>1, <2>1, WallDestroyed
  <2> QED
    BY <1>4, <2>1, <2>2
<1>13. CASE Columns!ThreadDecodes
  <2>1. PICK t \in wp.threads, ok \in BOOLEAN :
           /\ wp' = [wp EXCEPT !.threads = @ \ {t},
                               !.posted = Append(@, Columns!Closure("still", t,
                                   IF ok THEN t.path ELSE Columns!NoPicture,
                                   Columns!NoFrame))]
           /\ UNCHANGED wpWork
    BY <1>13 DEF Columns!ThreadDecodes
  <2>2. WallOK(wp', n)
    BY <1>1, <2>1, WallDecoded
  <2> QED
    BY <1>4, <2>1, <2>2
\* What a worker does to its column.
<1>14. ASSUME NEW i \in DOMAIN wp.cols, NEW p \in Playback,
              p.on = wp.cols[i].decode.on, p.alive => wp.cols[i].decode.alive
       PROVE  LET new == [wp.cols EXCEPT ![i].decode = p]
              IN  /\ new \in Seq(Column) /\ DOMAIN new = DOMAIN wp.cols
                  /\ \A j \in DOMAIN wp.cols : Alike(wp.cols[j], new[j])
  <2> DEFINE d == [wp.cols[i] EXCEPT !.decode = p]
             new == [wp.cols EXCEPT ![i] = d]
  <2>1. d \in Column /\ Alike(wp.cols[i], d)
    BY <1>1, <1>14 DEF Column, Alike
  <2> HIDE DEF d
  <2>2. /\ new \in Seq(Column) /\ DOMAIN new = DOMAIN wp.cols /\ new[i] = d
        /\ \A j \in DOMAIN wp.cols : j # i => new[j] = wp.cols[j]
    BY <1>1, <2>1, Replaced
  <2> HIDE DEF new
  <2>3. \A j \in DOMAIN wp.cols : Alike(wp.cols[j], new[j])
    BY <2>1, <2>2 DEF Alike
  <2> QED
    BY <2>2, <2>3 DEF new, d
<1>15. CASE Columns!WorkerReads
  <2>1. PICK i \in DOMAIN wp.cols :
           /\ wp' = [wp EXCEPT !.cols[i].decode.draining = TRUE]
           /\ UNCHANGED wpWork
    BY <1>15 DEF Columns!WorkerReads
  <2> DEFINE p == [wp.cols[i].decode EXCEPT !.draining = TRUE]
             new == [wp.cols EXCEPT ![i].decode = p]
  <2>2. p \in Playback /\ p.on = wp.cols[i].decode.on /\ p.alive = wp.cols[i].decode.alive
    BY <1>1 DEF Column, Playback
  <2>3. wp' = [wp EXCEPT !.cols = new, !.saver = wp.saver]
    BY <1>1, <2>1 DEF WallFields
  <2> HIDE DEF p
  <2>4. /\ new \in Seq(Column) /\ DOMAIN new = DOMAIN wp.cols
        /\ \A j \in DOMAIN wp.cols : Alike(wp.cols[j], new[j])
    BY <1>14, <2>2
  <2> HIDE DEF new
  <2>5. WallOK(wp', n)
    BY <1>2, <1>5, <2>3, <2>4
  <2> QED
    BY <1>4, <2>1, <2>5
<1>16. CASE Columns!WorkerExits
  <2>1. PICK i \in DOMAIN wp.cols :
           /\ wp.cols[i].decode.alive
           /\ wp' = [wp EXCEPT !.cols[i].decode.alive = FALSE]
           /\ UNCHANGED wpWork
    BY <1>16 DEF Columns!WorkerExits
  <2> DEFINE p == [wp.cols[i].decode EXCEPT !.alive = FALSE]
             new == [wp.cols EXCEPT ![i].decode = p]
  <2>2. p \in Playback /\ p.on = wp.cols[i].decode.on
    BY <1>1 DEF Column, Playback
  <2>3. wp' = [wp EXCEPT !.cols = new, !.saver = wp.saver]
    BY <1>1, <2>1 DEF WallFields
  <2> HIDE DEF p
  <2>4. /\ new \in Seq(Column) /\ DOMAIN new = DOMAIN wp.cols
        /\ \A j \in DOMAIN wp.cols : Alike(wp.cols[j], new[j])
    BY <1>14, <2>1, <2>2
  <2> HIDE DEF new
  <2>5. WallOK(wp', n)
    BY <1>2, <1>5, <2>3, <2>4
  <2> QED
    BY <1>4, <2>1, <2>5
<1>17. CASE Columns!WorkerDelivers
  <2>1. PICK i \in DOMAIN wp.cols, more \in BOOLEAN, fails \in BOOLEAN :
           LET c == wp.cols[i]
               f == wpWork.frames + 1
               drm == ~c.decode.cpu /\ ~c.decode.importFailed /\ ~fails
           IN  /\ c.decode.alive /\ c.decode.draining /\ f <= MaxFrames
               /\ wp' = [wp EXCEPT
                      !.cols[i].decode = [@ EXCEPT
                          !.draining = more,
                          !.cpu = c.decode.cpu \/ (fails /\ ~c.decode.importFailed)],
                      !.posted = Append(@, IF drm THEN Columns!Closure("drm", c, c.path, f)
                                           ELSE Columns!Closure("cpu", c, c.path,
                                                                Columns!NoFrame)),
                      !.frames = IF drm THEN @ \union {f} ELSE @]
               /\ wpWork' = [wpWork EXCEPT !.frames = f]
    BY <1>17 DEF Columns!WorkerDelivers
  <2> DEFINE c == wp.cols[i]
             f == n + 1
  <2>2. PICK drm \in BOOLEAN : drm = (~c.decode.cpu /\ ~c.decode.importFailed /\ ~fails)
    OBVIOUS
  <2>3. PICK cpu \in BOOLEAN : cpu = (c.decode.cpu \/ (fails /\ ~c.decode.importFailed))
    OBVIOUS
  <2> DEFINE p == [c.decode EXCEPT !.draining = more, !.cpu = cpu]
             new == [wp.cols EXCEPT ![i].decode = p]
             e == IF drm THEN Columns!Closure("drm", c, c.path, f)
                  ELSE Columns!Closure("cpu", c, c.path, Columns!NoFrame)
             added == IF drm THEN {f} ELSE {}
  <2>4. p \in Playback /\ p.on = c.decode.on /\ p.alive = c.decode.alive
    BY <1>1 DEF Column, Playback
  <2>5. wp' = [wp EXCEPT !.cols = new, !.posted = Append(@, e), !.frames = @ \cup added]
    BY <1>1, <2>1, <2>2, <2>3 DEF WallFields
  <2>6. c.decode.alive /\ f <= MaxFrames /\ wpWork' = [wpWork EXCEPT !.frames = f]
    BY <2>1
  <2> HIDE DEF p
  <2>7. /\ new \in Seq(Column) /\ DOMAIN new = DOMAIN wp.cols
        /\ \A j \in DOMAIN wp.cols : Alike(wp.cols[j], new[j])
    BY <1>14, <2>4
  <2> HIDE DEF new
  <2>8. WallOK(wp', f)
    BY <1>1, <2>5, <2>6, <2>7, WallDelivered
  <2>9. /\ wpWork' \in [changes : Nat, frames : Nat, plugin : BOOLEAN] /\ wpWork'.frames = f
        /\ wpWork'.changes <= MaxChanges
    <3>1. f \in Nat
      BY <1>1
    <3> HIDE DEF f
    <3> QED
      BY <1>1, <2>6, <3>1
  <2> QED
    BY ONLY <2>6, <2>8, <2>9 DEF WallInv
<1>18. CASE Columns!RunsPosted
  <2>1. PICK ok \in BOOLEAN :
           /\ wp.posted # <<>>
           /\ wp' = Columns!Call([wp EXCEPT !.posted = Tail(@)], Head(wp.posted), ok)
           /\ UNCHANGED wpWork
    BY <1>18 DEF Columns!RunsPosted
  <2>2. WallOK(wp', n)
    BY <1>1, <2>1, WallCalled
  <2> QED
    BY <1>4, <2>1, <2>2
<1> QED
  BY <1>6, <1>7, <1>8, <1>9, <1>10, <1>11, <1>12, <1>13, <1>15, <1>16, <1>17, <1>18
     DEF Columns!Next

LEMMA WallCardinality == \A S : Columns!Cardinality(S) = Cardinality(S)
BY DEF Columns!Cardinality, Cardinality

(* A set that has one member or none is counted at once.                    *)
LEMMA CountedAtOnce ==
    Columns!Cardinality({}) = 0 /\ \A x : Columns!Cardinality({x}) = 1
BY WallCardinality, FS_EmptySet, FS_Singleton

(* A frame that is there is in one hand, and what is not there in none.     *)
LEMMA FramesHeld ==
    ASSUME WallInv
    PROVE  Columns!FramesHeldOnce
<1> SUFFICES ASSUME NEW f \in 1..MaxFrames
             PROVE  Columns!Holders(f) = IF f \in wp.frames THEN 1 ELSE 0
  BY DEF Columns!FramesHeldOnce
<1> DEFINE P == {k \in DOMAIN wp.posted : wp.posted[k].frame = f}
           Q == {i \in DOMAIN wp.cols : wp.cols[i].pin = f}
           R == {i \in DOMAIN wp.cols : wp.cols[i].pinPrev = f}
<1>1. FramesOK(wp.cols, wp.posted, wp.frames)
  BY DEF WallInv, WallOK, WallBase, Steady
<1>2. f # 0 /\ MaxFrames \in Nat
  BY WorkersAssumption DEF WorkersAssumption
<1>3. Columns!Holders(f)
        = Columns!Cardinality(P) + Columns!Cardinality(Q) + Columns!Cardinality(R)
  BY DEF Columns!Holders
<1>4. ASSUME f \notin wp.frames PROVE P = {} /\ Q = {} /\ R = {}
  BY <1>1, <1>2, <1>4 DEF FramesOK
<1>5. ASSUME f \in wp.frames
      PROVE  \/ (\E k : P = {k}) /\ Q = {} /\ R = {}
             \/ P = {} /\ (\E i : Q = {i}) /\ R = {}
             \/ P = {} /\ Q = {} /\ (\E i : R = {i})
  <2>1. CASE \E k \in DOMAIN wp.posted : wp.posted[k].frame = f
    <3>1. PICK k \in DOMAIN wp.posted : wp.posted[k].frame = f
      BY <2>1
    <3>2. P = {k} /\ Q = {} /\ R = {}
      BY <1>1, <1>2, <3>1 DEF FramesOK
    <3> QED
      BY <3>2
  <2>2. CASE \E i \in DOMAIN wp.cols : wp.cols[i].pin = f
    <3>1. PICK i \in DOMAIN wp.cols : wp.cols[i].pin = f
      BY <2>2
    <3>2. P = {} /\ Q = {i} /\ R = {}
      BY <1>1, <1>2, <3>1 DEF FramesOK
    <3> QED
      BY <3>2
  <2>3. CASE \E i \in DOMAIN wp.cols : wp.cols[i].pinPrev = f
    <3>1. PICK i \in DOMAIN wp.cols : wp.cols[i].pinPrev = f
      BY <2>3
    <3>2. P = {} /\ Q = {} /\ R = {i}
      BY <1>1, <1>2, <3>1 DEF FramesOK
    <3> QED
      BY <3>2
  <2> QED
    BY <1>1, <1>5, <2>1, <2>2, <2>3 DEF FramesOK
<1> HIDE DEF P, Q, R
<1>6. 0 + 0 + 0 = 0 /\ 1 + 0 + 0 = 1 /\ 0 + 1 + 0 = 1 /\ 0 + 0 + 1 = 1
  OBVIOUS
<1>7. CASE f \notin wp.frames
  BY <1>3, <1>4, <1>6, <1>7, CountedAtOnce
<1>8. CASE f \in wp.frames
  BY <1>3, <1>5, <1>6, <1>8, CountedAtOnce
<1> QED
  BY <1>7, <1>8

LEMMA WallSettles ==
    ASSUME WallInv
    PROVE  Columns!ShowsConfigured /\ Columns!PaintedOrComing /\ Columns!TypeOK
<1>1. Columns!ShowsConfigured
  <2> SUFFICES ASSUME NEW i \in DOMAIN wp.cols
               PROVE  LET c == wp.cols[i]
                      IN  /\ c.path = wp.config.paths[i]
                          /\ c.decode.on =>
                                Columns!Shown(c) \in {Columns!NoPicture, c.path}
                          /\ ~c.decode.on /\ ~Columns!UnderWay(c) =>
                                Columns!Shown(c) = c.path \/ c.failed = c.gen
    BY DEF Columns!ShowsConfigured
  <2>1. ~wp.gone
    BY DEF WallInv, WallOK
  <2>2. /\ wp.cols[i].path = wp.config.paths[i] /\ ColumnOK(wp.cols[i])
        /\ Served(wp.cols[i], wp.threads, wp.posted)
    BY <2>1 DEF WallInv, WallOK, WallBase, Steady, Configured
  <2> QED
    BY <2>2 DEF ColumnOK, Served, Columns!Shown, Columns!UnderWay, Columns!For
<1>2. Columns!PaintedOrComing
  BY DEF WallInv, WallOK, Visible, Coming, Columns!PaintedOrComing
<1>3. Columns!TypeOK
  <2>1. \A i \in DOMAIN wp.cols : ColumnOK(wp.cols[i])
    BY DEF WallInv, WallOK, WallBase, Steady
  <2>2. wp.frames \subseteq 1..MaxFrames
    BY WorkersAssumption DEF WallInv, WallOK, WallBase, WorkersAssumption
  <2> QED
    BY <2>1, <2>2 DEF WallInv, WallOK, WallBase, ClockSound, ColumnOK, Columns!TypeOK
<1> QED
  BY <1>1, <1>2, <1>3

\* The columns of the wallpaper (wallpaper.cpp, wallpaper_column.cpp): each
\* settles on the picture of its configuration, whichever threads and workers
\* answer late; what it shows is on the screen or will be; and every frame of
\* video memory that has not been released is held once.
THEOREM WallpaperSettles ==
    MCSpec => [](part = "wallpaper" =>
                   /\ Columns!ShowsConfigured /\ Columns!PaintedOrComing
                   /\ Columns!FramesHeldOnce /\ Columns!TypeOK)
<1> DEFINE Inv == part = "wallpaper" => WallInv
<1>1. MCInit => Inv
  BY WallInitially DEF MCInit
<1>2. Inv /\ [MCNext]_<<part, vars, guests>> => Inv'
  <2> SUFFICES ASSUME Inv, [MCNext]_<<part, vars, guests>>, part' = "wallpaper"
               PROVE  WallInv'
    OBVIOUS
  <2>1. part = "wallpaper" /\ (Columns!Next \/ UNCHANGED wpVars)
    BY DEF MCNext, Calls, Guest, guests
  <2>2. CASE Columns!Next
    BY <2>1, <2>2, WallStep
  <2>3. CASE UNCHANGED wpVars
    BY <2>1, <2>3 DEF wpVars, WallInv
  <2> QED
    BY <2>1, <2>2, <2>3
<1>3. Inv => (part = "wallpaper" =>
                /\ Columns!ShowsConfigured /\ Columns!PaintedOrComing
                /\ Columns!FramesHeldOnce /\ Columns!TypeOK)
  BY FramesHeld, WallSettles
<1> QED
  BY <1>1, <1>2, <1>3, PTL DEF MCSpec
=============================================================================
