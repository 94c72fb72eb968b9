------------------------------ MODULE Wallpaper ------------------------------
(* The wallpaper of one output: columns that show a still picture, decoded  *)
(* once by a detached thread, or an animated one, fed frame by frame by a   *)
(* worker of the media plugin.  Threads never touch a column: they post     *)
(* closures for the main thread, which carry the generation of the column   *)
(* they were started for and a token of its life.  Frames that stay in      *)
(* video memory are released once, by whoever holds them last.               *)
EXTENDS Naturals, Sequences, FiniteSets, FrameClock

CONSTANTS
    Wallpapers,   \* configurations of the output: [animated, paths]
    MaxChanges,   \* configurations applied after the first, resizes, locks
    MaxFrames     \* frames delivered by workers

VARIABLES
    wp,      \* the columns, their threads, the closures posted, the surface
    wpWork   \* what has been done so far; whether the media plugin is there

vars == <<wp, wpWork>>

NoPicture == ""       \* no path, or a texture that is not there
NoFrame == 0

NoPlayback == [on |-> FALSE, alive |-> FALSE, paused |-> FALSE,
               draining |-> FALSE, cpu |-> FALSE, importFailed |-> FALSE]
NewPlayback == [NoPlayback EXCEPT !.on = TRUE, !.alive = TRUE]

(* A path stands for the picture, its fill mode and the size it is decoded
   for.  "failed" is the generation whose decode gave nothing. *)
NewColumn(life) ==
    [life |-> life, gen |-> 0, path |-> NoPicture, tex |-> NoPicture,
     prev |-> NoPicture, transition |-> FALSE, fading |-> FALSE,
     video |-> NoPicture, zeroCopy |-> FALSE, pin |-> NoFrame,
     pinPrev |-> NoFrame, decode |-> NoPlayback, failed |-> 0]

(* wallpaper_column_draw prefers the video texture.                         *)
Shown(c) == IF c.zeroCopy /\ c.video # NoPicture THEN c.video ELSE c.tex
Picture(w) == [size |-> w.size, shown |-> [i \in DOMAIN w.cols |-> Shown(w.cols[i])]]

-----------------------------------------------------------------------------
(* The surface.                                                             *)
(* draw_transitions: a transition that is not over asks for another frame. *)
DrawTransitions(w, over) ==
    LET fading == \E i \in DOMAIN w.cols : w.cols[i].fading
        cols == [i \in DOMAIN w.cols |->
                    IF w.cols[i].fading /\ over
                    THEN [w.cols[i] EXCEPT !.fading = FALSE, !.prev = NoPicture]
                    ELSE w.cols[i]]
    IN  [w EXCEPT !.cols = cols,
                  !.clock = IF fading /\ ~over THEN Deferred(@) ELSE @]

Paint(w, over) ==
    IF w.locked
    THEN [w EXCEPT !.clock.callback = "none", !.clock.redraw = FALSE]
    ELSE LET d == DrawTransitions(w, over)
         IN  [d EXCEPT !.painted = Picture(w), !.clock = Committed(@)]

ClockRequests(w) ==
    IF w.clock.callback # "none" THEN [w EXCEPT !.clock = Deferred(@)]
    ELSE IF w.clock.mapped THEN [w EXCEPT !.clock = Scheduled(@)]
    ELSE Paint([w EXCEPT !.clock = FirstDraw(@)], FALSE)

RequestFrame(w) == IF w.locked THEN w ELSE ClockRequests(w)

Wake(w) == ClockRequests([w EXCEPT !.clock.callback = "none", !.clock.redraw = FALSE])

-----------------------------------------------------------------------------
(* One column.                                                              *)
(* wallpaper_column_clear joins the worker, which cannot post any more.     *)
ClearedColumn(c) == [NewColumn(c.life) EXCEPT !.gen = c.gen + 1]

PinnedNow(c) == {c.pin}                     \* mutant: pinned_frame_prev is leaked
Pinned(c) == {c.pin, c.pinPrev}

SetStatic(c, path) ==
    [c EXCEPT !.path = path, !.gen = @ + 1, !.transition = c.tex # NoPicture]

(* media_decode_stream starts nothing without the media plugin: the column  *)
(* has its path, and nothing to show.                                       *)
SetAnimated(c, path) ==
    LET d == [c EXCEPT !.path = path, !.gen = @ + 1]
    IN  IF wpWork.plugin THEN [d EXCEPT !.decode = NewPlayback]
        ELSE [d EXCEPT !.failed = d.gen]

(* wallpaper_column_upload_pending: the old picture fades out.              *)
Uploaded(c, path) ==
    LET fades == c.transition /\ c.tex # NoPicture
    IN  [c EXCEPT !.tex = path, !.transition = FALSE,
                  !.prev = IF fades THEN c.tex ELSE @, !.fading = @ \/ fades]

UploadSilent(w, i, path) ==                 \* mutant: no frame is asked for
    [w EXCEPT !.cols[i] = Uploaded(@, path)]
Upload(w, i, path) == RequestFrame([w EXCEPT !.cols[i] = Uploaded(@, path)])

(* A frame that is imported: the one before it may still be scanned.        *)
Imported(c, call) ==
    [c EXCEPT !.zeroCopy = TRUE, !.video = call.path,
              !.pinPrev = c.pin, !.pin = call.frame]

-----------------------------------------------------------------------------
(* The whole output.  Columns change on their own, and each that is cleared *)
(* asks for a frame: asking twice is asking once.                           *)
Cleared(w, is) ==
    LET s == [w EXCEPT !.cols = [i \in DOMAIN @ |-> IF i \in is THEN ClearedColumn(@[i])
                                                    ELSE @[i]],
                       !.frames = @ \ UNION {Pinned(w.cols[i]) : i \in is}]
    IN  IF is = {} THEN w ELSE RequestFrame(s)

StopAll(w) == Cleared(w, DOMAIN w.cols)

AnyAnimated(w) == \E i \in DOMAIN w.cols : w.cols[i].decode.on

Resized(w, n) ==
    LET gone == Cleared(w, {i \in DOMAIN w.cols : i > n})
    IN  [gone EXCEPT !.cols = [i \in 1..n |-> IF i <= Len(w.cols) THEN @[i]
                                              ELSE NewColumn(w.lives + i - Len(w.cols))],
                     !.lives = IF n > Len(w.cols) THEN @ + n - Len(w.cols) ELSE @]

(* sync_column: what has no path is cleared, and what is to play another    *)
(* video; a still is decoded unless it is the one of this column already.   *)
Clears(w) ==
    {i \in DOMAIN w.cols :
        \/ w.config.paths[i] = NoPicture
        \/ /\ w.config.animated
           /\ ~(w.cols[i].decode.on /\ w.cols[i].path = w.config.paths[i])}
Decodes(w) ==
    {i \in DOMAIN w.cols :
        /\ w.config.paths[i] # NoPicture /\ ~w.config.animated
        /\ ~(w.cols[i].path = w.config.paths[i] /\ w.cols[i].tex # NoPicture)}

SyncColumns(w) ==
    LET s == Cleared(w, Clears(w))
        cols == [i \in DOMAIN w.cols |->
                    IF i \in Decodes(w) THEN SetStatic(s.cols[i], w.config.paths[i])
                    ELSE IF i \in Clears(w) /\ w.config.paths[i] # NoPicture
                    THEN SetAnimated(s.cols[i], w.config.paths[i])
                    ELSE s.cols[i]]
    IN  [s EXCEPT !.cols = cols,
                  !.threads = @ \union {[life |-> cols[i].life, gen |-> cols[i].gen,
                                         path |-> cols[i].path] : i \in Decodes(w)}]

SyncKeepsDecoders(w, config) ==             \* mutant: a still does not stop videos
    SyncColumns([Resized(w, Len(config.paths)) EXCEPT !.config = config])
SyncFromConfig(w, config) ==
    LET s == IF ~config.animated /\ AnyAnimated(w) THEN StopAll(w) ELSE w
    IN  SyncColumns([Resized(s, Len(config.paths)) EXCEPT !.config = config])

InitColumns(config) ==
    RequestFrame(SyncFromConfig(
        [cols |-> <<>>, lives |-> 0, threads |-> {}, posted |-> <<>>, frames |-> {},
         config |-> config, clock |-> IdleClock, size |-> 0, saver |-> FALSE,
         locked |-> FALSE, painted |-> [size |-> 0, shown |-> <<>>], gone |-> FALSE],
        config))

Init == /\ wpWork \in [changes : {0}, frames : {0}, plugin : BOOLEAN]
        /\ wp \in {InitColumns(c) : c \in Wallpapers}

(* The module is resynchronised, then woken, when a configuration arrives. *)
Resync == \E config \in Wallpapers :
    /\ ~wp.gone /\ wpWork.changes < MaxChanges
    /\ wp' = Wake(RequestFrame(SyncFromConfig(wp, config)))
    /\ wpWork' = [wpWork EXCEPT !.changes = @ + 1]

(* A configure with another size; on_resize restarts the videos.            *)
Configure ==
    /\ ~wp.gone /\ wpWork.changes < MaxChanges
    /\ LET r == ClockRequests([wp EXCEPT !.size = @ + 1])
       IN  wp' = IF r.config.animated THEN SyncFromConfig(StopAll(r), r.config) ELSE r
    /\ wpWork' = [wpWork EXCEPT !.changes = @ + 1]

FrameDone == \E over \in BOOLEAN :
    /\ wp.clock.callback = "committed"
    /\ wp' = IF wp.clock.redraw
             THEN Paint([wp EXCEPT !.clock = DoneForDraw(@)], over)
             ELSE [wp EXCEPT !.clock = DoneIdle(@)]
    /\ UNCHANGED wpWork

Lock == /\ ~wp.gone /\ ~wp.locked /\ wpWork.changes < MaxChanges
        /\ wp' = [wp EXCEPT !.locked = TRUE]
        /\ wpWork' = [wpWork EXCEPT !.changes = @ + 1]

(* lock_teardown asks every output for its frames.                          *)
Unlock == /\ ~wp.gone /\ wp.locked
          /\ wp' = Wake([wp EXCEPT !.locked = FALSE])
          /\ UNCHANGED wpWork

(* The screensaver pauses the videos under it.                              *)
Screensaver ==
    /\ ~wp.gone /\ AnyAnimated(wp)
    /\ wp' = [wp EXCEPT !.saver = ~@,
                        !.cols = [i \in DOMAIN @ |->
                            IF @[i].decode.on
                            THEN [@[i] EXCEPT !.decode.paused = ~wp.saver]
                            ELSE @[i]]]
    /\ UNCHANGED wpWork

(* WallpaperPerMonitorModule::destroy: the output was unplugged.            *)
Destroy ==
    /\ ~wp.gone
    /\ wp' = [StopAll(wp) EXCEPT !.cols = <<>>, !.gone = TRUE, !.clock = IdleClock]
    /\ UNCHANGED wpWork

-----------------------------------------------------------------------------
(* The threads.                                                             *)
Closure(kind, c, path, frame) ==
    [kind |-> kind, life |-> c.life, gen |-> c.gen, path |-> path, frame |-> frame]

(* animate_decode_scaled, and the call it posts: the picture or nothing.    *)
ThreadDecodes == \E t \in wp.threads, ok \in BOOLEAN :
    /\ wp' = [wp EXCEPT !.threads = @ \ {t},
                        !.posted = Append(@, Closure("still", t,
                            IF ok THEN t.path ELSE NoPicture, NoFrame))]
    /\ UNCHANGED wpWork

(* decode_loop looks at the pause flag before it reads a packet, and        *)
(* delivers every frame of the packet.                                      *)
WorkerReads == \E i \in DOMAIN wp.cols :
    LET d == wp.cols[i].decode
    IN  /\ d.alive /\ ~d.paused /\ ~d.draining
        /\ wp' = [wp EXCEPT !.cols[i].decode.draining = TRUE]
        /\ UNCHANGED wpWork

(* A frame of video memory, or, once that did not work, a copy of pixels.   *)
WorkerDelivers == \E i \in DOMAIN wp.cols, more \in BOOLEAN, fails \in BOOLEAN :
    LET c == wp.cols[i]
        f == wpWork.frames + 1
        drm == ~c.decode.cpu /\ ~c.decode.importFailed /\ ~fails
    IN  /\ c.decode.alive /\ c.decode.draining /\ f <= MaxFrames
        /\ wp' = [wp EXCEPT
               !.cols[i].decode = [@ EXCEPT
                   !.draining = more,
                   !.cpu = c.decode.cpu \/ (fails /\ ~c.decode.importFailed)],
               !.posted = Append(@, IF drm THEN Closure("drm", c, c.path, f)
                                    ELSE Closure("cpu", c, c.path, NoFrame)),
               !.frames = IF drm THEN @ \union {f} ELSE @]
        /\ wpWork' = [wpWork EXCEPT !.frames = f]

(* The file cannot be read, or not be rewound.                              *)
WorkerExits == \E i \in DOMAIN wp.cols :
    /\ wp.cols[i].decode.alive /\ ~wp.cols[i].decode.draining
    /\ wp' = [wp EXCEPT !.cols[i].decode.alive = FALSE]
    /\ UNCHANGED wpWork

-----------------------------------------------------------------------------
(* The closures, on the main thread.                                        *)
Drops(w, call) == [w EXCEPT !.frames = @ \ {call.frame}]

Import(w, i, call, ok) ==
    IF ok THEN RequestFrame([w EXCEPT !.cols[i] = Imported(@, call),
                                      !.frames = @ \ {w.cols[i].pinPrev}])
    ELSE [w EXCEPT !.cols[i].decode.importFailed = w.cols[i].decode.on,
                   !.frames = @ \ {call.frame}]

ForAny(c, call) == c.life = call.life       \* mutant: the generation is not compared
For(c, call) == c.life = call.life /\ c.gen = call.gen

Call(w, call, ok) ==
    IF ~\E i \in DOMAIN w.cols : For(w.cols[i], call) THEN Drops(w, call)
    ELSE LET i == CHOOSE i \in DOMAIN w.cols : For(w.cols[i], call)
         IN  CASE call.kind = "drm" -> Import(w, i, call, ok)
               [] call.kind # "drm" /\ call.path = NoPicture ->
                      [w EXCEPT !.cols[i].failed = call.gen]
               [] OTHER -> Upload(w, i, call.path)

RunsPosted == \E ok \in BOOLEAN :
    /\ wp.posted # <<>>
    /\ wp' = Call([wp EXCEPT !.posted = Tail(@)], Head(wp.posted), ok)
    /\ UNCHANGED wpWork

Next ==
    \/ Resync \/ Configure \/ FrameDone \/ Lock \/ Unlock \/ Screensaver \/ Destroy
    \/ ThreadDecodes \/ WorkerReads \/ WorkerDelivers \/ WorkerExits \/ RunsPosted

Spec == Init /\ [][Next]_vars

-----------------------------------------------------------------------------
(* Types: the clock is sound, and no column is there once the output is     *)
(* gone.                                                                    *)
TypeOK ==
    /\ ClockOK(wp.clock)
    /\ \A i \in DOMAIN wp.cols : wp.cols[i].decode.alive => wp.cols[i].decode.on
    /\ wp.frames \subseteq 1..MaxFrames
    /\ wp.gone => wp.cols = <<>>
    /\ wpWork.changes <= MaxChanges /\ wpWork.frames <= MaxFrames

UnderWay(c) ==
    \/ \E t \in wp.threads : t.life = c.life /\ t.gen = c.gen
    \/ \E k \in DOMAIN wp.posted : For(c, wp.posted[k])

(* A column never settles on another picture than its own: once no thread   *)
(* and no posted closure is about it, it shows the configured path, unless  *)
(* that could not be decoded; and while a video plays it shows that video   *)
(* or nothing (the generation checks of the closures, stop_all before       *)
(* stills).                                                                 *)
ShowsConfigured ==
    \A i \in DOMAIN wp.cols :
        LET c == wp.cols[i]
        IN  /\ c.path = wp.config.paths[i]
            /\ c.decode.on => Shown(c) \in {NoPicture, c.path}
            /\ ~c.decode.on /\ ~UnderWay(c) =>
                   Shown(c) = c.path \/ c.failed = c.gen

(* Video memory is neither leaked nor freed twice: a frame that has not     *)
(* been released is held by exactly one posted closure or one pin.          *)
Holders(f) ==
    Cardinality({k \in DOMAIN wp.posted : wp.posted[k].frame = f})
      + Cardinality({i \in DOMAIN wp.cols : wp.cols[i].pin = f})
      + Cardinality({i \in DOMAIN wp.cols : wp.cols[i].pinPrev = f})
FramesHeldOnce ==
    \A f \in 1..MaxFrames : Holders(f) = IF f \in wp.frames THEN 1 ELSE 0

(* What the columns show is on the screen, or a repaint is coming: nothing  *)
(* that changed under the lock stays unpainted after it.                    *)
PaintedOrComing ==
    ~wp.gone /\ ~wp.locked =>
        \/ wp.painted = Picture(wp)
        \/ wp.clock.redraw /\ wp.clock.callback = "committed"
=============================================================================
