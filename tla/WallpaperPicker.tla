--------------------------- MODULE WallpaperPicker --------------------------
(* The wallpaper grid of the settings panel (settings/wallpaper_tab.cpp):  *)
(* detached threads scan the directory and decode the thumbnails, and post *)
(* their results to the main thread, which may by then show another        *)
(* directory.  Painting the grid starts a scan when the directory changed  *)
(* and asks for the thumbnails it misses, a few at a time.                 *)
EXTENDS Naturals, FiniteSets, Sequences, FrameClock

CONSTANTS
    Dirs,           \* directories: what a scan of each one finds
    Broken,         \* files that cannot be decoded
    MaxScans,       \* bound on scans
    MaxInFlight     \* kWallpaperPickerMaxInFlight

VARIABLES
    dir,        \* cfg.wallpaper_dir
    picker,     \* WallpaperPickerState, and the frames of the panel
    scans,      \* scan threads that have not posted their result
    decodes,    \* thumbnail threads that have not
    posted,     \* results on their way to the main thread
    missed      \* a result was thrown away since the last paint

vars == <<dir, picker, scans, decodes, posted, missed>>

Files == UNION Dirs
Picker == [dir : Dirs \cup {{}}, scanning : BOOLEAN, files : SUBSET Files, thumbs : SUBSET Files,
           pending : SUBSET Files, generation : 0..MaxScans, open : BOOLEAN, clock : Clock]

Init ==
    /\ dir \in Dirs
    /\ picker = [dir |-> {}, scanning |-> FALSE, files |-> {}, thumbs |-> {},
                 pending |-> {}, generation |-> 0, open |-> FALSE, clock |-> IdleClock]
    /\ scans = {} /\ decodes = {} /\ posted = <<>>
    /\ missed = FALSE

-----------------------------------------------------------------------------
(* wallpaper_picker_scan: the list and the thumbnails of the directory     *)
(* shown before stay until the result is there.                            *)
Scan(p) == [p EXCEPT !.dir = dir, !.scanning = TRUE, !.generation = @ + 1]
Scans(p, q) ==
    scans' = IF q.generation = p.generation THEN scans
             ELSE scans \cup {[found |-> q.dir, generation |-> q.generation]}

Missing(p) == p.files \ (p.thumbs \cup p.pending)

(* wallpaper_picker_request_thumbnail for the cells in view: as many as    *)
(* the threads already at work leave room for.                             *)
RequestThumbnailsUnbounded(p) == {[p EXCEPT !.pending = @ \cup Missing(p)]}   \* mutant: no limit
RequestThumbnails(p) ==
    LET room == IF Cardinality(p.pending) >= MaxInFlight THEN 0
                ELSE MaxInFlight - Cardinality(p.pending)
        many == IF Cardinality(Missing(p)) < room THEN Cardinality(Missing(p)) ELSE room
    IN  {[p EXCEPT !.pending = @ \cup s] : s \in {t \in SUBSET Missing(p) : Cardinality(t) = many}}

(* wallpaper_tab_paint, of the open panel                                  *)
Paint(p) ==
    LET s == IF p.dir # dir /\ p.generation < MaxScans THEN Scan(p) ELSE p
    IN  {[q EXCEPT !.clock = Committed(@)] : q \in RequestThumbnails(s)}

RequestFrame(p) ==
    IF ~p.open THEN {p}
    ELSE IF p.clock.callback # "none" THEN {[p EXCEPT !.clock = Deferred(@)]}
    ELSE IF p.clock.mapped THEN {[p EXCEPT !.clock = Scheduled(@)]}
    ELSE Paint([p EXCEPT !.clock = FirstDraw(@)])

(* The picker becomes q: what it started runs.                             *)
Becomes(q) ==
    /\ picker' = q
    /\ Scans(picker, q)
    /\ decodes' = decodes \cup {[path |-> f, generation |-> q.generation] :
                                    f \in q.pending \ picker.pending}

-----------------------------------------------------------------------------
(* The main thread.                                                        *)
SetDir(d) ==                    \* the directory field was committed
    /\ picker.open /\ d # dir /\ dir' = d
    /\ \E q \in RequestFrame(picker) : Becomes(q)
    /\ UNCHANGED <<posted, missed>>

Rescan ==
    /\ picker.open /\ picker.generation < MaxScans
    /\ \E q \in RequestFrame(Scan(picker)) : Becomes(q)
    /\ UNCHANGED <<dir, posted, missed>>

Toggle ==                       \* the panel opens, or is closed and done fading
    /\ \E q \in RequestFrame([picker EXCEPT !.open = ~@]) : Becomes(q)
    /\ UNCHANGED <<dir, posted, missed>>

Frame ==
    /\ picker.clock.callback = "committed"
    /\ \E q \in IF picker.clock.redraw
                THEN Paint([picker EXCEPT !.clock = DoneForDraw(@)])
                ELSE {[picker EXCEPT !.clock = DoneIdle(@)]} : Becomes(q)
    /\ missed' = (missed /\ ~picker.clock.redraw)
    /\ UNCHANGED <<dir, posted>>

ScannedAlways(p, r) == [p EXCEPT !.files = r.found, !.scanning = FALSE]  \* mutant: no generation
Scanned(p, r) ==
    IF r.generation # p.generation THEN p
    ELSE [p EXCEPT !.files = r.found, !.scanning = FALSE]

DecodedKeepsPending(p, r) ==    \* mutant: an old result returns first
    IF r.generation # p.generation THEN p
    ELSE [p EXCEPT !.pending = @ \ {r.path},
                   !.thumbs = IF r.path \in Broken THEN @ ELSE @ \cup {r.path}]
Decoded(p, r) ==
    [p EXCEPT !.pending = @ \ {r.path},
              !.thumbs = IF r.generation # p.generation \/ r.path \in Broken THEN @
                         ELSE @ \cup {r.path}]

Kept(p, r) ==
    r.generation = p.generation /\ (r.job = "thumbnail" => r.path \notin Broken)

(* A result that is thrown away asks for no frame.                         *)
RunsPosted ==
    /\ posted # <<>> /\ posted' = Tail(posted)
    /\ LET r == Head(posted)
           p == IF r.job = "scan" THEN Scanned(picker, r) ELSE Decoded(picker, r)
       IN  /\ \E q \in IF Kept(picker, r) THEN RequestFrame(p) ELSE {p} :
                 /\ picker' = q
                 /\ Scans(p, q)
                 /\ decodes' = decodes \cup {[path |-> f, generation |-> q.generation] :
                                                f \in q.pending \ p.pending}
           /\ missed' = (missed \/ (r.job = "thumbnail" /\ ~Kept(picker, r)))
    /\ UNCHANGED dir

-----------------------------------------------------------------------------
(* The threads end in any order.                                           *)
ScanEnds(w) ==
    /\ scans' = scans \ {w}
    /\ posted' = Append(posted, [job |-> "scan", found |-> w.found, generation |-> w.generation])
    /\ UNCHANGED <<dir, picker, decodes, missed>>
DecodeEnds(w) ==
    /\ decodes' = decodes \ {w}
    /\ posted' = Append(posted, [job |-> "thumbnail", path |-> w.path,
                                 generation |-> w.generation])
    /\ UNCHANGED <<dir, picker, scans, missed>>

Next ==
    \/ \E d \in Dirs : SetDir(d)
    \/ Rescan \/ Toggle \/ Frame \/ RunsPosted
    \/ \E w \in scans : ScanEnds(w)
    \/ \E w \in decodes : DecodeEnds(w)

Spec == Init /\ [][Next]_vars

-----------------------------------------------------------------------------
TypeOK ==
    /\ dir \in Dirs /\ picker \in Picker /\ ClockOK(picker.clock)
    /\ missed \in BOOLEAN

(* A thumbnail is decoded by one thread at a time, and never more than     *)
(* kWallpaperPickerMaxInFlight of them: exactly those held as pending.     *)
UnderWay == {w.path : w \in decodes} \cup
            {posted[i].path : i \in {j \in DOMAIN posted : posted[j].job = "thumbnail"}}
Decoding == Cardinality(decodes) +
            Cardinality({i \in DOMAIN posted : posted[i].job = "thumbnail"})
OneDecodeEach ==
    /\ picker.pending = UnderWay
    /\ Cardinality(picker.pending) = Decoding /\ Decoding <= MaxInFlight

(* With nothing under way the open grid lists the configured directory,    *)
(* the scan's sign is off, and every file has its thumbnail, unless one    *)
(* was thrown away and nothing repainted the panel since.                  *)
GridSettles ==
    picker.open /\ scans = {} /\ decodes = {} /\ posted = <<>>
    /\ picker.clock.callback = "none" /\ picker.generation < MaxScans =>
        /\ ~picker.scanning /\ picker.dir = dir /\ picker.files = dir
        /\ ~missed => picker.files \ Broken \subseteq picker.thumbs
=============================================================================
