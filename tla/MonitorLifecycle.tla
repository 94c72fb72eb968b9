-------------------------- MODULE MonitorLifecycle --------------------------
(* Outputs come and go.  A new one is bound when the registry announces it *)
(* and activated by its first done event: surfaces are created for its     *)
(* modules, a nested dispatch waits for their configures, and EGL is set   *)
(* up.  Whatever arrives meanwhile is handled inside that wait, so waits   *)
(* nest.  A removed output takes its modules, and what other parts of the  *)
(* shell hold of it, with it.                                               *)
EXTENDS Naturals, Sequences, FiniteSets, SequencesExt

CONSTANTS
    Outputs,     \* outputs that may be plugged in
    Panels,      \* the overlays, each bound to one output
    MaxPlugs,    \* outputs plugged in after the start, or taken out
    MaxDones,    \* further done events
    Hasty        \* an output may change again while the shell activates it

VARIABLES
    wire,     \* events of the compositor not read yet
    world,    \* the outputs the compositor has
    mons,     \* app.outputs, in order of announcement
    mon,      \* MonitorOutput of each output
    waits,    \* the nested waits of the poll thread, innermost last
    boot,     \* how far main() is
    refs,     \* what other parts hold of outputs
    moWork    \* plugs and done events so far

vars == <<wire, world, mons, mon, waits, boot, refs, moWork>>

NoOutput == "none"
Blank == [done |-> FALSE, activated |-> FALSE, asked |-> FALSE, configured |-> FALSE,
          created |-> 0, inited |-> 0]

InitMonitor == [o \in Outputs |-> Blank]
Init ==
    /\ world \in (SUBSET Outputs) \ {{}}
    /\ LET order == SetToSeq(world)
           Each(kind) == [i \in 1..Cardinality(world) |-> [ev |-> kind, o |-> order[i]]]
       IN  wire = Each("global") \o Each("done")
    /\ mons = <<>> /\ mon = InitMonitor
    /\ waits = <<>>
    /\ boot = "bind"
    /\ refs = [bound |-> [p \in Panels |-> NoOutput], open |-> {},
               pointer |-> NoOutput, lock |-> {}]
    /\ moWork = [plugs |-> 0, dones |-> 0]

Has(o) == o \in ToSet(mons)
Waiting(o) == o \in ToSet(waits)

-----------------------------------------------------------------------------
(* monitor_output_activate up to its wait, and after it.                   *)
CreateSurfaces(m) ==
    [m EXCEPT !.created = @ + 1, !.asked = TRUE, !.configured = FALSE]
FinishEgl(m) == [m EXCEPT !.inited = @ + 1, !.activated = TRUE]

ActivatesAnyway(m) == TRUE                  \* mutant: activated is not looked at
Activates(m) == ~m.activated

(* The layer surfaces are committed; the compositor answers them.          *)
Configures == \E o \in Outputs :
    /\ mon[o].asked /\ o \in world
    /\ mon' = [mon EXCEPT ![o].asked = FALSE]
    /\ wire' = Append(wire, [ev |-> "configure", o |-> o])
    /\ UNCHANGED <<world, mons, waits, boot, refs, moWork>>

-----------------------------------------------------------------------------
(* The handlers of the registry and of an output.                          *)
RegistryGlobal(o) ==
    /\ mons' = Append(mons, o)
    /\ mon' = [mon EXCEPT ![o] = Blank]
    /\ UNCHANGED <<waits, refs>>

(* The lock hears of an output once, after it has been activated.          *)
Done(o) ==
    /\ Has(o)
    /\ IF Activates(mon[o]) /\ boot # "bind"
       THEN /\ mon' = [mon EXCEPT ![o] = CreateSurfaces([@ EXCEPT !.done = TRUE])]
            /\ waits' = Append(waits, o)
            /\ UNCHANGED refs
       ELSE /\ mon' = [mon EXCEPT ![o].done = TRUE]
            /\ refs' = IF mon[o].done \/ boot \notin {"rest", "run"} THEN refs
                       ELSE [refs EXCEPT !.lock = @ \union {o}]
            /\ UNCHANGED waits
    /\ UNCHANGED mons

Configured(o) ==
    /\ mon' = IF Has(o) THEN [mon EXCEPT ![o].configured = TRUE] ELSE mon
    /\ UNCHANGED <<mons, waits, refs>>

(* on_output_removed of an overlay bound to it closes that overlay.        *)
ReleasedKeepsPointer(r, o) ==               \* mutant: last_pointer_monitor is kept
    [r EXCEPT !.lock = @ \ {o},
              !.bound = [p \in Panels |-> IF @[p] = o THEN NoOutput ELSE @[p]],
              !.open = {p \in @ : r.bound[p] # o}]
Released(r, o) ==
    [r EXCEPT !.lock = @ \ {o},
              !.bound = [p \in Panels |-> IF @[p] = o THEN NoOutput ELSE @[p]],
              !.open = {p \in @ : r.bound[p] # o},
              !.pointer = IF @ = o THEN NoOutput ELSE @]
RegistryGlobalRemove(o) ==
    /\ IF Has(o) THEN /\ refs' = Released(refs, o)
                      /\ \E i \in DOMAIN mons : mons[i] = o /\ mons' = RemoveAt(mons, i)
                      /\ mon' = [mon EXCEPT ![o] = Blank]
       ELSE UNCHANGED <<refs, mons, mon>>
    /\ UNCHANGED waits

Dispatch ==
    /\ wire # <<>>
    /\ wire' = Tail(wire)
    /\ LET e == Head(wire)
       IN  CASE e.ev = "global" -> RegistryGlobal(e.o)
             [] e.ev = "done" -> Done(e.o)
             [] e.ev = "configure" -> Configured(e.o)
             [] e.ev = "remove" -> RegistryGlobalRemove(e.o)
    /\ UNCHANGED <<world, boot, moWork>>

(* The innermost wait is over when its modules are configured; a done that *)
(* started it ends by telling the lock.                                    *)
WaitEnds ==
    /\ waits # <<>> /\ mon[Last(waits)].configured
    /\ LET o == Last(waits)
       IN  /\ mon' = [mon EXCEPT ![o] = FinishEgl(@)]
           /\ waits' = Front(waits)
           /\ boot' = IF boot = "first" /\ Len(waits) = 1 THEN "overlays" ELSE boot
           /\ refs' = IF boot = "run" \/ (boot = "rest" /\ Len(waits) > 1)
                     THEN [refs EXCEPT !.lock = @ \union {o}] ELSE refs
    /\ UNCHANGED <<wire, world, mons, moWork>>

-----------------------------------------------------------------------------
(* main(): the outputs the two round trips brought; the first one, then    *)
(* the overlays on it, then the others, then the loop.                     *)
StartFirst ==
    /\ boot = "bind" /\ wire = <<>>
    /\ boot' = "first"
    /\ mon' = [mon EXCEPT ![Head(mons)] = CreateSurfaces(@)]
    /\ waits' = <<Head(mons)>>
    /\ UNCHANGED <<wire, world, mons, refs, moWork>>

CreateOverlays ==
    /\ boot = "overlays" /\ waits = <<>>
    /\ refs' = [refs EXCEPT !.bound = [p \in Panels |-> Head(mons)]]
    /\ boot' = "rest"
    /\ UNCHANGED <<wire, world, mons, mon, waits, moWork>>

Inactive == {o \in ToSet(mons) : ~mon[o].activated}
StartRest ==
    /\ boot = "rest" /\ waits = <<>>
    /\ IF Inactive = {}
       THEN boot' = "run" /\ UNCHANGED <<mon, waits>>
       ELSE \E i \in DOMAIN mons :
                /\ mons[i] \in Inactive /\ \A j \in 1..(i - 1) : mons[j] \notin Inactive
                /\ mon' = [mon EXCEPT ![mons[i]] = CreateSurfaces(@)]
                /\ waits' = <<mons[i]>>
                /\ UNCHANGED boot
    /\ UNCHANGED <<wire, world, mons, refs, moWork>>

Looping == boot = "run" /\ waits = <<>>
MovePointer(o) ==
    /\ Looping /\ Has(o) /\ mon[o].activated
    /\ refs' = [refs EXCEPT !.pointer = o]
    /\ UNCHANGED <<wire, world, mons, mon, waits, boot, moWork>>

(* Opening moves an overlay to the monitor of the pointer.                 *)
TogglePanel(p) ==
    /\ Looping /\ mons # <<>>
    /\ LET target == IF refs.pointer # NoOutput THEN refs.pointer ELSE Head(mons)
       IN  refs' = IF p \in refs.open THEN [refs EXCEPT !.open = @ \ {p}]
                   ELSE [refs EXCEPT !.open = @ \union {p}, !.bound[p] = target]
    /\ UNCHANGED <<wire, world, mons, mon, waits, boot, moWork>>

-----------------------------------------------------------------------------
(* The compositor.                                                         *)
Settled(o) == Hasty \/ (~Waiting(o) /\ \A i \in DOMAIN wire : wire[i].o # o)
Booted == Hasty \/ boot = "run"
Emit(evs) == wire' = wire \o evs
Silent == UNCHANGED <<mons, mon, waits, boot, refs>>

PlugIn(o) ==
    /\ o \notin world /\ moWork.plugs < MaxPlugs /\ boot # "bind" /\ Booted
    /\ ~Has(o) /\ \A i \in DOMAIN wire : wire[i].o # o
    /\ world' = world \union {o}
    /\ Emit(<<[ev |-> "global", o |-> o], [ev |-> "done", o |-> o]>>)
    /\ moWork' = [moWork EXCEPT !.plugs = @ + 1]
    /\ Silent
Unplug(o) ==
    /\ o \in world /\ moWork.plugs < MaxPlugs /\ boot = "run"
    /\ ~Waiting(o) /\ \A i \in DOMAIN wire : wire[i].o # o
    /\ world' = world \ {o}
    /\ Emit(<<[ev |-> "remove", o |-> o]>>)
    /\ moWork' = [moWork EXCEPT !.plugs = @ + 1]
    /\ Silent
Changes(o) ==                       \* a new mode or scale ends with done
    /\ o \in world /\ moWork.dones < MaxDones /\ Booted /\ Settled(o)
    /\ Emit(<<[ev |-> "done", o |-> o]>>)
    /\ moWork' = [moWork EXCEPT !.dones = @ + 1]
    /\ Silent /\ UNCHANGED world

Next ==
    \/ Configures \/ Dispatch \/ WaitEnds \/ StartFirst \/ CreateOverlays \/ StartRest
    \/ \E o \in Outputs : PlugIn(o) \/ Unplug(o) \/ Changes(o) \/ MovePointer(o)
    \/ \E p \in Panels : TogglePanel(p)

Spec == Init /\ [][Next]_vars

-----------------------------------------------------------------------------
TypeOK ==
    /\ ToSet(mons) \subseteq Outputs /\ Len(mons) = Cardinality(ToSet(mons))
    /\ boot \in {"bind", "first", "overlays", "rest", "run"}
    /\ ToSet(waits) \subseteq Outputs
    /\ refs.open \subseteq Panels /\ refs.lock \subseteq Outputs

(* The modules of an output are created once and initialised once, however *)
(* often the output changes and however the waits nest.                    *)
CreatedOnce == \A o \in Outputs : mon[o].created <= 1 /\ mon[o].inited <= mon[o].created

(* Nothing names an output that is gone: no overlay, not the pointer's     *)
(* monitor, not the lock, and an open overlay has an output.               *)
NoneDangling ==
    /\ \A p \in Panels : refs.bound[p] # NoOutput => Has(refs.bound[p])
    /\ refs.pointer # NoOutput => Has(refs.pointer)
    /\ \A o \in refs.lock : Has(o)
    /\ \A p \in refs.open : refs.bound[p] # NoOutput
    /\ \A i \in DOMAIN waits : Has(waits[i])

(* With nothing under way every output of the compositor is there and      *)
(* ready, in whatever order they were announced, activated and removed.    *)
OutputsReady ==
    boot = "run" /\ waits = <<>> /\ wire = <<>> /\ (\A o \in Outputs : ~mon[o].asked) =>
        /\ ToSet(mons) = world
        /\ \A o \in world : mon[o].activated /\ mon[o].inited = 1 /\ mon[o].configured
=============================================================================
