# Kokusei in TLA+

Kokusei is a desktop shell for Hyprland in one C++ process: bar, launcher, dashboard, overview,
notifications, lock screen, wallpaper and so on, each a Wayland surface of its own, driven by one
`poll()` loop and a few helper threads. This directory holds TLA+ models of the parts whose
correctness depends on the order of events, the TLC configurations that check them on small
instances, and TLAPS proofs about them for all instances. Paths below are relative to the
repository's `src/` unless they begin with `important/`.

* [1 Inventory](#1-inventory): the system's parts, their state, how they interact
* [2 Plan](#2-plan): what is written, what comes next, in which order
* [3 Modules](#3-modules): which module models which code
* [4 Runs](#4-runs): what TLC checks, with which bounds and fairness
* [5 Proofs](#5-proofs): what TLAPS proves and how
* [6 Findings](#6-findings): where the code and its documents disagree
* [7 Limits](#7-limits): what is only model-checked, and what is not modelled

`PROJECT.json` lists the components, runs, mutants, the map from definitions to source lines, the
findings, the hazards and the theorems.

## 1 Inventory

### 1.1 The frame everything runs in

`kokusei.cpp` owns one loop. Every iteration collects poll sources (the Wayland socket, the control
socket, a one second timer, the deferred-call pipe, the config watch, the descriptors of services
and of open overlays), polls, dispatches Wayland events and then each ready source in turn. There
is no lock around this: a handler runs to its end before the next one, **except** that a few
handlers dispatch Wayland events themselves (`overlay_panel_retarget`, `overlay_panel_ensure`,
`monitor_output_wait_configured`, the opening of a toplevel window, the roundtrip of
`finish_unlock`), so that any event handler may run in the middle of them. Helper threads (subprocess workers, PAM, image and video decoding, the
visualizer's renderer) hand results over with `DeferredCall::call_later` or with an eventfd.

Interaction is therefore of five kinds: direct calls on the main thread; closures through
`DeferredCall`; eventfds of `AsyncProcess` handles; Wayland requests and events (asynchronous,
ordered per connection); D-Bus calls and signals (asynchronous, each reply in its own callback).

### 1.2 Components

| component | state | operations | what makes it correct |
|---|---|---|---|
| deferred calls (`core/deferred_call`) | list of closures, self pipe | `call_later`, `drain` | every closure runs once, in order; no lost wakeup |
| processes (`core/async_process`) | done, buffer, pid, eventfd, generation; one thread per run | start, poll, cancel, worker | a result belongs to the last start; cancelled means killed; completions are noticed |
| configuration (`app/config`) | `app.cfg`, inotify descriptor, own-write flag | load, save, watch, apply | the shell runs what the file says; its own saves do not echo; edits are picked up |
| session lock (`modules/lock`) | lock object, flags, one surface per output, animations, PAM check | request, locked, finished, key, click, auth answer, unlock, hotplug | locked implies covered; a check and an unlock terminate; stale answers do nothing |
| launcher (`modules/launcher`) | text, mode, debounce, two searches, restart, results, surface | key, tick, poll, restart, toggle, launch | results match the text; nothing left running after close |
| frame pacing (`service/frame_service`) | pending callback, redraw flag, mapped | request, frame_done, drop | one callback at a time; a request is never forgotten |
| overlay panels (`render/overlay_panel`) | surface, EGL surface, open, fade, bound output | create, configure, retarget, toggle, release | keyboard grabbed exactly while open; fades progress; bound to a live output |
| dashboard, overview, logout, settings | an overlay panel and their own content | toggle, keys, clicks, timer, paint | as overlay panels; settings also save the configuration |
| monitors (`app/monitor_output`, `wayland_registry`) | list of outputs, per-monitor modules | global, done, remove, activate, retarget | each output activated once, torn down once, told to everybody |
| input (`input_service`, `text_input_service`, `text_field`) | focus, keymap, active text client, serials | enter/leave, key, done | edits go to the focused client only and in order |
| network | wifi state, networks, process handles of `nmcli` | scan chain, connect, disconnect, forget, rescan | one scan at a time; flags match processes; results newest |
| bluetooth service, panel | copy of BlueZ's objects, in-flight marks, discovery | refresh, connect, pair, remove, power | the copy converges; discovery runs while the panel wants it |
| MPRIS service, media card | scan generation, chosen player, position request | scan, subscribe, poll, buttons | the player shown is the one of the last scan; polls are answered |
| UPower service, battery pill and panel | devices, reads under way | added, removed, changed | what is shown is what UPower exports |
| tray service, panel | items, fetched menus, the popup and its levels | register, layout, click, resize | an item has a client; a menu is painted at its last size |
| PipeWire service, volume panel, OSD | nodes, defaults, levels, slider | registry and metadata events, set level | defaults follow the metadata; own writes do not bounce |
| Hyprland service, workspace row, dock | monitors, workspaces, windows, event buffer | refresh, events, scripts of commands | the copy agrees with Hyprland when all events are read |
| notifications, OSD | records, timers, per-monitor cards | notify, close, expire, dismiss | an id names one record; each expires once |
| capture, overview | captures in flight, buffers | request, ready, failed, prune | no callback on a pruned capture |
| media, wallpaper, thumbnails | columns, decode threads, generations, frames in video memory | configure, load, deliver, scan | what is configured is shown; each frame is released once |
| idle clock, screensavers | time of last activity per monitor, overlay, logo decode | tick, activity, configure, unplug | a monitor in use shows none; a timeout is waited for |
| visualizer, rain | toplevel windows, render thread, EGL contexts | open, configure, frame, close | the thread has its window while it runs; windows are repainted |
| bar, dock | panel that is open, autohide, geometry, reserved zone | click, hover, tick of an animation, settings | one panel at a time; the edges end where the settings say |
| widgets, rendering | layout, textures | paint, hit test | mostly drawing |
| telemetry | samples, `nvidia-smi` handle | tick | pure reading of sysfs, one handle |
| ipc, single instance, log | a socket, a lock file | request | pure I/O |

### 1.3 What is hard

The hazards are listed with their lines in `PROJECT.json`. In short: worker threads racing the
handle that is reused under them; a handler that dispatches events from inside; callbacks that are
queued for a session, an output or a query that no longer exists; animations and repaints that
live only as long as one frame callback begets the next; flags that stand for a process or a reply
that may never have started; copies of another process's state that are patched by signals and
replaced by replies older than the signals; requests that cross events on their way; threads that
work on pictures for something that has been closed; and a file that is replaced while it is watched.

## 2 Plan

Order: first what everything else rests on, then the components where a mistake locks the user out
or loses input, then the services, then the rest.

| step | modules | status |
|---|---|---|
| 1 | `Mailbox`, `DeferredCall` | checked, refinement and wakeup proved |
| 2 | `JobHandle`, `AsyncProcess` | checked, all safety properties and the refinement (safety) proved |
| 3 | `SessionLock` | checked, all invariants proved |
| 4 | `LauncherSearch` (on `JobHandle`) | checked, all invariants proved |
| 5 | `ConfigWatch` | checked, all safety properties proved |
| 6 | `FrameClock`, `OverlayPanel` | checked, all safety properties proved |
| 7 | `NetworkService`: scan chain, connect, disconnect, forget, rescan | checked, all invariants proved |
| 8 | `Notifications`: records, cards, views, two expiry clocks | checked, all invariants proved |
| 9 | `MonitorLifecycle`: activation with its nested dispatch, removal, who points to a monitor | checked, all invariants proved |
| 10 | `Bluetooth`, `Mpris`, `UPower`, `Volume`, `Hyprland`, `Tray`: the copies of other processes' state | checked, all invariants proved |
| 11 | `TextInput`: enter, leave, done, the lending of one object | checked, its invariant proved |
| 12 | `Wallpaper`, `WallpaperPicker`, `Idle`, `Windows`: what threads decode or paint | checked, all invariants proved |
| 13 | `Overview` (on `Hyprland`): captures, drags, scripts | checked, all invariants proved |
| 14 | `LauncherList`, `Settings`, `Logout`, `Bar`: inputs, phases, repaints | checked, all invariants proved |
| 15 | proofs about the services of step 10 and `TextInput` | done |
| 16 | telemetry polling, the control socket, the settings tabs left out, the drawn parts of the dashboard | planned |

Composition, by use: `LauncherSearch` takes the operators of `JobHandle`, the abstract handle that
`AsyncProcess` is shown to implement, and `NetworkService` relies on the same promise. `OverlayPanel`,
`Notifications`, `Settings`, `Logout`, `LauncherList`, `Tray`, `Wallpaper`, `WallpaperPicker`, `Idle`
and `Windows` use the operators of `FrameClock` for their repaints. `Overview` extends `Hyprland`,
whose copy it draws. Closures queued with `DeferredCall` appear in client models as the first-in
first-out queue of `Mailbox`, which `DeferredCall` is proved to refine.

Composition, for checking: components that share nothing but the main loop are checked in one run,
one at a time (see [4](#4-runs)); a product of their states would say nothing more.

Every safety property that a passing run checks is stated by a theorem. What the plan has left is
step 16; the theorems worth proving with it are those of its modules.

## 3 Modules

**`Mailbox`, `DeferredCall`.** `pending` is the mutex-protected vector, `fns` the local vector of
`drain`, `pipe` the number of bytes in the self pipe. `WorkerPush`/`WorkerWrite` split `call_later`
at the point where the mutex is released; `Wake`, `ReadPipe`, `SwapPending`, `RunCall`, `DrainDone`
are the main thread; `CallPush`/`CallWrite` are a callback that itself posts. `fd_ok` is chosen at
the start: `init` may fail to make the pipe. `Mailbox` is the specification: a queue with `Post`,
`Run` and `Close`; `DeferredCall` implements it with `queue <- fns \o pending`.

**`JobHandle`, `AsyncProcess`.** `proc[h]` has the fields of `struct AsyncProcess`; `workers[h]` are
the detached threads still alive, each with the generation it was started for and the fate of its
child. A run is named by its generation, and so are its pid and its eventfd. `Start`, `Poll`,
`Cancel` are the functions; `ChildExits`, `WorkerReaps`, `WorkerEnds` the worker, whose look at the
generation and whose publication happen under the mutex and so in one step. `wanted` and `seen` are
history: what the caller last asked for and whether it was told. `JobHandle` is what callers may
assume; the refinement mapping `Handle` computes its state from the detailed one.

**`SessionLock`.** The variables are the fields of `LockState`, `session_locked` and the outputs.
`surfaces` is ordered, because the first surface is the primary one. Per surface the model keeps the
two animation owners that matter: `kLockOwnerSequence` (the shrink) and `kLockOwnerPanelRotation`
(entrance or spin), since a new animation of an owner replaces the old one together with its
completion. `deferred` is the queue of `DeferredCall` restricted to the closures of the lock. `stage`
is `roundtrip` between `unlock_and_destroy` and `lock_teardown`, where only event handlers run, and
`dead` after a protocol error or a null lock. `from`, `carried` and `stale` are history variables.

**`LauncherSearch`.** The variables are the fields of `LauncherState` that the search uses; each of
the two commands is a `JobHandle`. `Type`, `Tick` (after the debounce), `SearchStart` with its three
branches, `SearchStartPending` (all iterations of the loop), `SearchPoll`, `Close`, `FadeDone`,
`DestroySurface`, `Open` and `OutputRemoved` follow the functions of `launcher.cpp` and of
`LauncherModule`. A spawn may fail for either command. `Alive` is `async_process_is_alive` on the
pid a cancel returned, `GraceElapses` the 50 ms clock.

**`ConfigWatch`.** `file` is what the path names, `watch` what has become of the inode the inotify
watch was put on, `events` the kinds of event waiting. `SaveAndApply`, `ConfigEvents` are the shell;
`EditorOpens`, `EditorCloses`, `EditorClosesOrphan`, `Replace`, `Delete` are other programs, as the
kernel shows them: truncation and close give `IN_MODIFY`/`IN_CLOSE_WRITE`, losing the last name and
the last descriptor gives `IN_IGNORED`.

**`FrameClock`, `OverlayPanel`.** `FrameClock` has the three fields of the struct, with the pending
callback split into *armed* (requested) and *committed* (the surface was committed since, so the
compositor will answer). `OverlayPanel` is the dashboard: `panel` is `OverlayPanelBase`, `bound` its
`bound_output`, and `wait` the stack frame of a handler inside the nested dispatch loop of
`overlay_panel_retarget`. `Plug`, `Unplug`, `Configure`, `ScaleChange`, `Frame` are events, allowed
while `wait` is set; `Change`, `Toggle`, `Retarget` are handlers of the main loop, and `Resume` is
the loop seeing `configured`, with EGL working, failing, or failing twice.

**`NetworkService`.** `net` is `NetworkState`: for each of six `nmcli` commands its handle and its
`x_running` flag, then the list, the radio, and the flags of the chain *profile, quick, scan*. A
handle is taken as `JobHandle` promises it: idle, running, or done and readable until polled. `world`
is what NetworkManager knows: radio, access points in range, the active one, the profiles. A handler
is a function from `net` to `net` that is given the commands whose start fails; an action applies it
and says what the handler does to the world. `refused` and `missed` are history: the last start of
the command failed; the radio changed before the service listened to its signals.

**`Notifications`.** `service` is `NotificationService`, each record with the time it has `left`;
`cards` is the shared `NotificationRenderModel`: the entries, and of its tweens the progress and the
exit, which have completions (the entrance tweens have none). `views` holds one view per monitor: its
frame clock (`FrameClock`), the cards dismissed there and their fades, and the close buttons as they
were last painted. `Painted` is the whole of `notification_paint`: tick the shared tweens, tick the
fades, prune, commit, ask for the next frame. The bus, the own messages and the sweep end in
`Refresh`, which synchronises the cards and asks the views in turn; the first request of a view paints
at once, inside the request. `ApplyConfig` keeps the order of `apply_config_update`, in which the
views look at the old configuration. `wrapped` and `clash` are history: the counter has overflowed;
an id given out was in use.

**`MonitorLifecycle`.** `wire` holds the events the compositor has sent, `mons` is `app.outputs`,
`mon` what became of each monitor's modules, `waits` the stack of activations inside
`monitor_output_wait_configured` (whatever arrives there is handled by actions that push another
wait), `boot` the roundtrips of the start, `refs` the pointers other parts keep. `Hasty` lets an
output change again while it is being activated.

**`Bluetooth`, `Mpris`, `UPower`.** Each has the other process's truth (`bluez`, `owner` and
`playing`, `upowerd`), the messages both ways in the order D-Bus keeps, and the shell's copy. The
actions are the other process's changes, its answers, and the callbacks of the replies and signals,
in which a reply is as old as its request. Each
call of `Mpris` carries a *mark*, the scan or the proxy it was made for, and its reply is heard only by
that one, as the closures compare `gen` and as a reply to a proxy that was replaced is dropped; a read
of a device that goes is answered to `Nobody`. `Bluetooth` has the panel's buttons, which patch the copy
at once and send a request nobody waits for; `Mpris` the scan generation and the position poll;
`UPower` the reads that are under way for the same object, and the battery pill and panel.

**`Volume`.** One socket carries the server's events (nodes, levels, the metadata that names the
defaults), another the shell's requests. A poll takes one event or all that have come, one after the
other (`Dispatched`). `pw` is the service, `volPanel` the panel with the slider
in hand, `osd` the display a change of level shows.

**`Tray`.** `client` is what the clients export, `tray` the items with their fetched properties and
menus, `menu` the popup with its stack of levels. A resize waits for its configure (`owed`), and
paint returns early until it comes.

**`TextInput`.** `ime` is the shell's side of the one `zwp_text_input_v3` object, `imeServer` the
compositor's, with a queue in each direction between them.

**`Hyprland`, `Overview`.** `hyprland` is the compositor: monitors, the workspace each shows, the
windows of each workspace. `hypr` is the copy, refreshed by three requests between which Hyprland
may change, and patched by `events`. `script` is the rest of a sequence of commands that a pill or a
shortcut sends, `row` what the bar has drawn;
`AfterLines` is the copy after each line of a batch. `Overview` adds the overlay with its tiles and its
drag (`ov`), the captures kept (`capture`) and the frames the compositor owes. A prune erases a
capture without destroying its frame, as `toplevel_export_prune` does (`capture_service.cpp:224-240`):
`late` counts the answers that still come for captures that are gone. Such an answer writes through a
pointer to an erased map entry, so in the model it changes nothing or any capture that is kept;
`struck` remembers the captures whose wait it ended.

**`Wallpaper`.** `wp` has the columns with their generation and life token, the threads that decode
for them, the closures posted and the surface with its frame clock. A still picture is decoded once
by a detached thread; an animated one is fed by a worker whose frames stay in video memory until the
last holder releases them. Lock and screensaver pause it. Without the media plugin (`wpWork.plugin`)
`media_decode_stream` starts nothing (`media_service.cpp:237`): an animated column has its path and
nothing to show. The return for a target without a size
(`wallpaper.cpp:311`) is left out: a column is set only on an anchored surface that was configured,
whose sizes are positive.

**`WallpaperPicker`.** The grid of the settings panel: painting starts a scan when the directory has
changed and asks for missing thumbnails; threads post what they found with the generation they were
started for.

**`Idle`.** One tick a second compares each monitor's time since its last activity with the
timeouts; `screens` are the overlays with their fade, their logo and its decode thread, `closures`
what the threads have posted. `stray` remembers a closure whose overlay has gone.

**`Windows`.** `rain` and `viz` are the two toplevel windows, each from its creation through the
nested dispatch until it is configured to its destruction; `thread` is the visualizer's render thread
with its step (started, waits, reads, draws, ended); `current` is what the EGL context of the main
thread is current on. Closing joins the thread: the main thread is then `at` a join, and only the
thread moves. The size is stored in two words, so the thread may read one from each of two sizes.

**`LauncherList`.** `list` is what `LauncherState` keeps besides the search: text, mode, rows,
selection, the submenu; `painted` what the last frame drew and a click is resolved against. Keys and
clicks go on reaching the launcher through its closing fade.

**`Settings`.** A click first commits the field in hand, then acts on the configuration as it is
afterwards; what can be clicked is what was last painted. `moved` records that text typed for one
scope was later applied to another: the idle tab selects a monitor, and unplugging drops one,
without a commit (`idle_tab.cpp:157-165`). `EditsLand` speaks of the other edits. A toggle of a
closed panel may first move it to the active monitor (`Retarget`): it gets a new surface, or none and
stays disabled, and a field that was still focused from the closing fade stays focused while the
input method knows only the old surface (`ime` is *stale*). What may be dispatched while it waits for
the new surface is `OverlayPanel`'s.

**`Logout`.** `tween` holds, by owner, what the end of the running animation does; the phases
(slash, burst, travel, ring, exit) exist only as that chain. `glow` is the highlight of each button,
`seat` what the compositor has seen of the surface, which lags behind.

**`Bar`.** `panels` is the phase of each panel the bar's pills open (a closing one counts as open),
`edge` the wish of the bar and of the dock to hide and the animation that carries it out, `shape` and
`zone` the geometry and the reserved space the compositor was told. A bar that hides by itself starts
hidden, collapsed and transparent on a surface created at full height, and no geometry is told for
that (`bar.cpp:386-407` and `534-538`); `unsized` marks it until it is first shown or its setting
changes. A change of the setting does not cancel the animation under way; `cut` marks one that hides,
which goes on and leaves the edge transparent whatever its wish is by then.

`MCWorkers`, `MCCommands`, `MCServices` and `MCPanels` compose the modules for TLC (next section);
`MCSessionLock`, `MCLauncherSearch`, `MCConfigWatch`, `MCOverlayPanel`, `MCMonitorLifecycle` and
`MCIdle` instantiate one. Operators with names such as `CancelHandleKeepsGeneration` that stand
before the definition they vary are *mutants*: plausible mistakes in the code, at least one for each
checked property; with the definition replaced by its mutant TLC finds the property violated.

## 4 Runs

| run | parts | states | what it shows |
|---|---|---|---|
| `workers` | calls, wallpaper, picker, notifications, monitors, idle, windows | 2.3 million | no wakeup is lost; threads that finish late do no harm; cards, monitors and screensavers stay in step |
| `commands` | handles, network | 279 thousand | stale workers never publish, completions are noticed, refinement of `JobHandle`; the network list settles on the machine |
| `session_lock` | - | 700 thousand | flags, lock object and surfaces in step; checks and unlocks conclude |
| `launcher_search` | - | 395 thousand | results answer their query, nothing is orphaned, typing settles |
| `services` | config, bluetooth, mpris, tray, volume, upower, textinput | 2.8 million | no echo of own saves; every copy ends up right and every request answered |
| `panels` | dashboard, bar, settings, logout, launcher, overview | 1.1 million | fades are driven, inputs land once and where they were meant, captures are answered |
| `session_lock_stale`, `launcher_search_replace`, `config_watch_reload`, `overlay_panel_unplug`, `monitor_lifecycle`, `idle_unplug` | - | - | expected violations, see [6](#6-findings) |

**Composed runs.** A composed run has a *host*, which its module extends, and *guests*, which it
instantiates. The variable `part` is chosen at the start and says which of them moves; the variables
of the guests that do not are the constant `Off`, and the host then rests in one of its initial
states. Its properties are conjunctions by part: `PicturesShown` says `part = "wallpaper" =>
Columns!ShowsConfigured /\ ...`; in `MCPanels` what could leave a surface waiting is
`SurfacesSettle`, what an input does is `InputsLand`, and `OverviewSettles` is the row of workspaces
and the scripts. Every guest is thus explored completely, as if in a run of its own. The constants of the
guests are parameters of the compositions, given values in the `.cfg`, so that the proofs speak of all
their values. The fairness is the host's (and that of
`NetworkService`): in the other parts the host rests where none of its fair actions is enabled, so that
it excludes no behaviour of a guest. Guests other than the network service are checked for safety: *at rest* invariants, which say
that once nothing is under way the copy is right, the picture painted, the request answered. They
find what is lost, not what is slow.

**Bounds.** All appear only in guards.

* Calls: two workers, two calls each, and a pipe of two bytes read one at a time: the pipe is full
  while both workers still have a byte to write, and a drain takes several reads.
* Handles: five generations of one handle, so that three runs are alive at once with cancels between
  them (handles share nothing; the proofs are for any number).
* Network: two networks, two inputs and one refused start: a request meets a scan or a second
  request, and the radio goes off in between.
* Session lock: two sessions, two checks, three plugs of two outputs, one of them gated: a callback
  of one session meets the next, and an output leaves and returns.
* Launcher search: five inputs: type, retype while the first search dies, close, reopen, type again.
  The list: two openings, five keys or clicks, three outcomes of a search.
* Configuration: six edits by anybody. The dashboard has no counter at all; its three outputs give a
  target, a previous one and a bystander.
* Notifications: two views, two messages alone or in one batch, two changes of configuration or
  outputs, ids up to 2, where `MaxId` stands for `UINT32_MAX`: a card is replaced, closed or timed
  out while another view comes, goes or is clicked, and the counter overflows.
* Monitors: three outputs, three plugs, one further `done`, two panels: waits nest.
* Wallpaper: a still, a pair with an empty column and an animated configuration, two changes, three
  frames: a change meets a decode under way and a frame that is held. Thumbnails: two directories
  with one file in common and one that cannot be decoded, three scans, two decodes at once: after
  a change of the directory the limit is reached with thumbnails of the old one.
* Idle: two monitors, one setting with the ambient wallpaper before the screensaver and one with it
  off, two events, and time counted to three seconds. Windows: two looks, two sizes, four events.
* Bluetooth: two adapters, one device, two changes, two clicks, two messages under way. Players: two
  names, two changes of owner, one of status. Tray: two clients, two menus each, three clicks.
  Audio: two sinks, a source, a stream, two ids that are used again, three turns of the server, one
  input. UPower: a battery, a mouse, two changes. Text input: two fields, six moves of either focus,
  one edit. In each the smallest numbers with which an answer can be older than a change, and a name
  can go and come back.
* Bar: three panels, one overlay, four acts. Settings: one selectable monitor, two
  texts. Logout: three buttons, no counter. Overview: two monitors, two windows, two workspaces each,
  one move of Hyprland's own and two commands.

Deadlock checking is off where such a bound, or the end of the main loop, lets the model stop; that
is everywhere. What must go on is stated as liveness or at rest.

**Fairness.** Assumed: the main loop goes round and serves a readable descriptor; a thread that has
started a step of its own finishes it; a worker whose child is gone reports; PAM answers; the
compositor answers a committed frame callback of a surface it shows, and time passes, so that a fade
or a grace period ends; an editor that has opened the file writes and closes it. An `nmcli` command
that was started ends: only `NetworkService` assumes so, and only its two liveness properties need
it, since the service has no timeout of its own. Not assumed: that any other command ends, that the
compositor configures a surface, grants or finishes a lock, that EGL or a spawn succeeds, or that the
user does anything. `CallReturn` is fair on its own in `DeferredCall` because a callback that posts
for ever is not something the code does.

**What the models take from the outside world.** D-Bus, Wayland and PipeWire keep the order of each
connection. Beyond that:

* an adapter is plugged in only while no message about one is under way (`Bluetooth`); no device
  comes or goes while `upower_init` runs (`UPower`); a registry id is used again only when nothing
  about its first owner is under way (`Volume`);
* the compositor configures a resized popup before it asks for the next frame
  (`ConfigureFirst`, `important/critical-knowledge.md:182`; without it `MenuSettles` fails);
* Hyprland sends `focusedmonv2` before `workspacev2`, and nothing changes between the refresh of
  `hypr_init` and the opening of the event socket;
* the keyboard's leave and enter come before those of the text input;
* outputs are not unplugged while the shell starts, and in the passing run an output does not change
  while it is being activated (`Hasty`; the violation run lifts it);
* timeouts of the idle clock are at least a second; a window that is not yet configured is not asked
  to close.

## 5 Proofs

Everything here is proved for every value of the constants, from the assumptions named in the modules
(`DeferredCallAssumption`, `AsyncProcessAssumption`, `ConfigAssumption`, `OutputsAssumption`,
`EglAssumption`, `SessionLockAssumption`, `LauncherAssumption`, `NothingAssumption`,
`CommandsAssumption`, `PanelsAssumption`, `WorkersAssumption`, `ServicesAssumption`) and nothing else; one theorem,
`ScreensaversWait`, has a hypothesis besides (see `Idle` below). `SessionLockProofs`
and `LauncherSearchProofs` speak of their component's own specification; `MCCommandsProofs`,
`MCPanelsProofs`, `MCWorkersProofs` and `MCServicesProofs` of the compositions that TLC runs, one part at
a time, and of the specification of the host alone (`AsyncProcess`, `OverlayPanel`, `DeferredCall`,
`ConfigWatch`). `WallpaperProofs` holds the part of `MCWorkers` that is the wallpaper, and
`MCWorkersProofs` extends it; `ServicesProofs` holds the configuration, the text input, UPower and MPRIS,
and `MCServicesProofs` extends it. Each proof has the same
outline: an inductive invariant, which TLC was asked about first, a lemma for its start and one for
its steps with a step per action, and the properties as consequences of it. Theorems without a
property in `PROJECT.json` are facts no run lists: the type invariants of hosts, `RefinesMailbox` and
`RefinesJobHandle`, `CompletionAlwaysWakes`, `OpenAlwaysOnBound`, `DashboardIsOverlayPanel`,
`ConfigRuns`, the four that `PicturesAlwaysShown` and `ThreadsAlwaysOwn` join (`WallpaperSettles`,
`GridKeepsUp`, `OverlaysAlwaysSettle`, `WindowsAlwaysDriven`), and the six that say of each guest of
`MCServices` alone what `CachesAlwaysFollow` and `RequestsAlwaysConclude` say of their composition.

* **`DeferredCall`** (in `MCWorkersProofs`). `NoLostWakeup` holds only outside the read-and-swap of `drain`; it is inductive
  together with the type invariant, because bytes are read *before* the list is swapped. The
  refinement needs one more invariant, `DrainLocal`: the local vector is empty outside `drain`, and
  without a pipe `drain` is never entered. Then `SwapPending` is a stutter of the mailbox
  (`fns \o pending` is unchanged) and every other step maps to `Post`, `Run`, `Close` or a stutter.
* **`AsyncProcess`.** `ResultIsCurrent` is not inductive: one must know that the workers alive have
  distinct generations not above the handle's (`GenerationsDistinct`), and that the worker of the
  current generation carries the job that is wanted, has not been killed and has not published
  (`CurrentWorker`). `IInv` is their conjunction with the published result being current and
  unseen results being readable (`DoneIsCurrent`), the pid having a worker (`PidHasWorker`), and
  killed children (`UnwantedIsKilled`), for each handle; one lemma for each action. With it
  `RefinesJobHandle` shows that each step, seen through `Handle`, is one of `JobHandle` or a stutter:
  the worker's reaping of its child is the abstract one, the end of the current worker the abstract
  finish, and the end of a superseded worker a stutter.
* **`ConfigWatch`.** `SavedIsApplied` is inductive as it stands, `WatchFollowsPath` relative to the
  type invariant.
* **`OverlayPanel`** (in `MCPanelsProofs`). The inductive invariant `Inductive` joins the four properties with what the
  waiting retarget may assume: while it waits the panel is closed, has no EGL surface and its clock
  is idle; no callback is ever left merely armed; a closed panel has no fade. Requests, paints and
  toggles are lemmas about the set of panels they may return, so that each action's step is short.
* **`SessionLock`.** The three safety properties are not inductive one by one, and `Inductive` is their
  conjunction with the types and `SessionInv`: surfaces exist only in an active session, an active
  session has a number, the roundtrip of the unlock has given the lock object up, and before the
  compositor grants the lock there is neither text nor a check. That a surface is taken out once rests
  on lemmas about `RemoveAt` and on the surfaces having distinct outputs.
* **`LauncherSearch`.** `Inductive` follows a text on its way: what was typed last is in the debounce,
  in the restart that waits, in the commands that run, or on screen (`TextOnItsWay`); commands that
  run work for `query` (`SearchForQuery`). `SettledShowsText` is the last case of it. The types need a
  count of the handles' generations against the inputs left (`GenerationsCounted`): two for an input
  that waits in the debounce, one for a restart.
* **`NetworkService`** (in `MCCommandsProofs`). `Chained` says that a stage of the scan has its flag up
  exactly while its command exists, that one has at most, that every command has a handler or was
  refused, and that with the radio off the list is empty and no stage is left. `ScanComes` adds that
  with the radio on a stage or a rescan is due. Handlers are functions of the state, so each has a
  lemma of its own (what a refused start, a poll, a scan keep), and an action's step cites it. With
  the handles at work the service does not move, and `MCSpec` keeps it as it was.
* **`Bar`** (`EdgesInv`). An edge is where its wish and its animation have brought it (`Carried`), its
  geometry is that of its state unless it is a tucked bar that was never shown (`unsized`), the zone
  follows the setting and the windows, and an edge without a frame to come rests where it is wanted
  (`AtRest`), transparent if its hiding was cut short. One panel is open at a time because opening one
  closes the others first.
* **`Settings`** (`TabsInv`). Unless the selection moved under an edited field, the configuration is
  what was asked for and an edited timeout is in the selected scope; a field is edited only in a
  panel that the input method knows, if only by the surface it had before it moved. An open panel without a repaint to come shows its tab.
* **`Logout`** (`RingInv`). An open ring has one link of its chain at most, and takes input exactly
  when it has none (`OneLink`); a button is lit exactly when it is selected or hovered and the ring
  takes input (`Lit`, except for a torn ring); a ring in motion is behind a committed callback
  (`Paced`). A command runs only from a ring that takes input, and hiding ends that.
* **`LauncherList`** (`RowsInv`). A closed or closing list that was not typed into has no search and,
  once closed, no rows; rows point into the applications of this opening; an open list without a
  repaint to come shows what was painted, with its selection among the rows or a search under way.
* **`Overview`** (`CapturesInv`). A capture is in flight exactly while the compositor owes its frame
  and no late answer to an erased capture has ended its wait (`struck`), and is kept then.
* **`Hyprland`** (`TilesInv`). That the row agrees with Hyprland once all is read and drawn is not
  inductive: it needs what the lines under way will make of the copy. `Orderly` says what the queue
  tells of the compositor of now: the last line about a monitor names its workspace, and a workspace
  line is about the monitor that had the focus when it was written. `Arrives` says which copies the
  queue will put right: the focus is right unless a monitor line is to come, and a monitor that no
  monitor line names is right already or will be by the workspace lines at the head of the queue,
  which are then all about it. Every line written keeps both (`Tells`), a line taken from the head
  keeps both with the copy it patches (`SomeTaken`), and the answer of `ReadMonitors` satisfies
  `Arrives` whatever is under way. This is why older lines may patch a newer copy. The occupied
  workspaces are right or a structural line is under way, the clients are right or a tick is due, and
  a drawn row shows the copy (`CopyFollows`, `RowFollows`). The scripts: every command that parks a
  window is followed by one that takes it from there (`Retrieved`), and a window that is parked has
  such a command to come (`Parked`); the script of a swap is shown to be so for every set of windows
  (`SwapRetrieves`), all others park nothing. The lines of a batch are applied by a recursive function
  (`AfterLines`). That it exists, with the copies between the lines as its values (`LinesInTurn`), and
  that each of them keeps the invariant (`SomeTaken`), is shown by the least line for which it would
  fail, since induction theorems cannot be cited.
* **`Notifications`.** Ids (`IdsAbove`): until `next_id` has overflowed it is above every id in use, also
  those that clients name. Cards (`CardsInv`): cards and records agree or the card leaves, a card that
  leaves has its exit and one that stays its progress, and a view that shows a running tween has a
  frame to come. Ticking ends tweens and starts exits in one step, so the lemmas about it speak of the
  cards and their tweens together.
* **`MonitorLifecycle`** (`OutputsInv`). An output is in one of seven phases (`InPhase`), from unknown
  over announced, listed, done and waiting to ready and removed; a phase fixes the events still on the
  wire about it, whether a wait is for it and what became of its modules. Events about one output come
  in order (`Ordered`), and the pointers other parts keep lead to listed outputs. An output that
  changes while it is being activated (`Hasty`) breaks the phases; that is the finding.
* **`Idle`.** `IdleInv`: a monitor found in use was used within the second, and one found so twice shows
  nothing. It needs `TimeoutsLast`, that no timeout is zero: with one, the tick that finds the monitor
  in use shows the screensaver, and the configuration accepts zero (`config.cpp:247-252`). `ScreensInv`:
  an overlay without a frame to come is where its fades lead (`Placed`).
* **`Windows`** (`RainInv`, `VizInv`). An open rain window is behind a committed callback, whatever
  closed and opened it. The render thread lives only between the start and the join of its window, and
  a frame it began *fresh*, after the last change, carries the look and the size of now.
* **`WallpaperPicker`** (`GridInv`). What is pending is decoded by exactly one thread or brought by
  exactly one result (`Flight`); a result of the current generation is about the directory shown, and
  the sign of the scan is on only while one is under way (`ScansOK`); an open grid is about to be
  painted or has asked for all it may (`GridDriven`).
* **`Wallpaper`** (`WallInv`). `Steady` is about the columns and what works for them. Lives are given out
  once, so that a closure of an earlier column finds nobody (`LivesOK`); of what is about a column now,
  its generation says whether it fits it (`NewsOK`); a still that is not there is under way or failed
  (`Served`); a frame has one holder, a posted closure or a pin (`FramesOK`). Each operation on the
  columns has one lemma that it keeps `Steady` (made, cleared, set, resized, a closure posted, received,
  imported), and one for the surface: a repaint to come stays to come until the picture is painted
  (`Kept`, `Visible`). `MaxFrames` numbers the frames, so that *held once* is a statement about each.
* **Types of the guests** (`TypesAlwaysOK` in `MCWorkersProofs`). For the cards and the windows the types
  are an invariant of their own. `CardTypes` needs that a frame callback never outlives its surface,
  for a repaint to give back a sound clock. `WindowTypes` needs more than the types it shows: what the
  thread draws has the width it read, maybe before a configure, so that the width is one of a size
  (`Widths`), and what is seen may mix two sizes. The types of the outputs, the grid, the overlays and
  the wallpaper follow from their invariants above; the monitors are listed once because `mons` is a
  bijection onto its members.
* **The services** (`ServicesProofs`, `MCServicesProofs`). What each promises holds *at rest*, which says
  nothing of a state with messages under way; so each invariant says what those messages will still do.
  Lemmas about queues carry them: how appending and taking keep that something is not in a queue
  (`Without`), at most once (`Once`), that nothing of one kind follows another (`Ends`), what the last
  message of a kind says (`LastFits`, `LastWord`), and that a queue leads from one value to another
  (`Walk`, `Route`).
  * *Text input* (`ImeInv`): the events under way lead from the focus the shell knows to the
    compositor's, and a surface seen on the way is the last one or will be left; the commits under way
    bring the serial of the compositor to the shell's; and if no leave is under way, what the shell
    enabled is on or the last request under way turns it on.
  * *UPower* (`UpInv`): the comings and goings under way lead from the devices the shell has to those
    exported; of each object the value held is shown, or the last reply about it brings it, or a read
    or a signal is still to come.
  * *MPRIS* (`MpInv`): in the current scan the names are asked for once, and each player once, so that
    what was asked, is under way and was collected are, unless an owner changed, the players that are
    there; the last word under way about the player's status is the true one; a position request that
    is marked is with the player or its answer on the way.
  * *Bluetooth* (`BtInv`): unless BlueZ changed since, its state is the copy or the reply at the head of
    the queue; discovery runs on the adapter of the proxy only; of a closed panel, the last request
    under way about discovery is a stop.
  * *Tray* (`TrInv`): registration, answers and the notice of the end of each client come in that order,
    so that nothing is kept of one that is gone; an open menu has a frame to come behind a committed
    callback, or shows the level it stands on at its size.
  * *Volume* (`VolInv`): for each node, the server's, the shell's and what is under way agree (`VolNode`);
    a name is announced again only after its node was taken away (`VolOrder`), so that the default's
    name finds one node (`VolDefault`); a level shown that is wrong is noted as changed or excused by a
    message under way, and what is noted a poll will show (`Excused`, `Stirs`). `Dispatched` is a
    recursive function; that its values are the states between the events follows from the events being
    handled one by one, by induction through the least event that does not keep the invariant.
  `ServicesInv` joins them by part; `ConfigRuns` proves `MCSpec => Spec` of `ConfigWatch`.
* **Composition** (`MCPanelsProofs`). `PartsInv` says of the part that runs that it keeps its invariant;
  a step of one part leaves the variables of the others unchanged. `DashboardIsOverlayPanel` proves
  `MCSpec => Spec` of `OverlayPanel`, by which the dashboard's own theorems hold in the composition.

## 6 Findings

* `session_lock_stale` (`modules/lock.cpp:1082`): `auth_generation` is not changed when a session
  begins, so a password check of one session may be answered in the next one.
* `launcher_search_replace` (`modules/launcher.cpp:396`): closing the launcher forgets the pids it
  killed, so the next search does not wait for their death, as a restart does.
* `config_watch_reload` (`app/config.cpp:383`): an own save produces only `IN_IGNORED`; the flag that
  should swallow its echo stays set and swallows the next foreign edit, and replacements by rename
  are not loaded at all.
* `overlay_panel_unplug` (`render/overlay_panel.h:112`): the target of a retarget can be configured
  and unplugged in one dispatch; the panel is then bound to an output that is gone.
* `monitor_lifecycle` (`app/monitor_output.cpp:64`): `activated` is set after the nested dispatch of
  the activation, so a second `done` event in that dispatch activates the monitor again.
* `idle_unplug` (`service/media_service.cpp:440`): the closure of the screensaver's logo refers to
  the job and the overlay of the monitor, which unplugging destroys while the closure waits.

Met while reading, in code the properties leave out or except by name; none of them is asserted:

* overlays: the nested loop of `overlay_panel_retarget` never returns if its target goes away before
  the configure; a paint that returns after `frame_done` armed a callback leaves it uncommitted;
* notifications: a view follows the configuration one change late, and a view that is made again
  never paints;
* settings: after its output was unplugged the panel cannot be reopened (`settings_enabled` is
  cleared, `module_registry.cpp:476`); a field focused during the closing fade stays focused when the
  panel moves to another monitor, with the input method on the surface that is gone; Escape leaves a field without telling the text input;
* launcher: during the closing fade a second Enter launches again and typing searches into the
  applications the next opening frees; a click between results and their frame takes another row; a
  path with a space ends the reading of the visit store (`visit_store.cpp:31`);
* logout: `execute` hides the ring with a request that is a no-op once closed, so a ring without
  animation stays painted; unplugging while open leaves its highlights (`torn`);
* bar: with autohide it starts collapsed on a surface the compositor holds at full height
  (`bar.cpp:534-538`) and stays so until the pointer enters it, a panel opens or the setting changes
  (`unsized`); the setting turned off, or off and on again, within a hiding leaves a bar that should be
  shown transparent until it next hides (`cut`);
* overview: a prune erases a capture whose frame stays alive, and the answer writes where the capture
  was (`capture_service.cpp:237`; it may end the wait of another, `struck`); positions are resolved against the focused monitor;
  `dragging` may survive a close;
* wallpaper: a failed import leaves `zeroCopy` stale; a still that failed is not tried again; a
  decoder started during the screensaver is not paused. Thumbnails: one dropped by the generation
  check asks for no frame (`missed`);
* windows: with no monitor plugged in `rest_egl_current` does nothing (`monitor_output.cpp:80`), so
  the render thread cannot take its surface and the window stays blank (`bare`); two Escapes in one
  batch close and reopen;
* idle: `last_activity` survives an unplug, so a monitor that returns gets its screensaver at once;
* MPRIS: a position request of a player that was replaced stays marked; a player that restarts under
  its name between two scans is not subscribed to again;
* volume: ticks of the OSD restart its hiding every turn of the loop;
* Hyprland: a disconnect found after data was received drops the data and does not redraw;
* network: requests for a refresh are dropped while one runs; a radio signal before the service is
  initialised is ignored;
* telemetry: `nvidia_smi_running` stays set when the spawn failed.

## 7 Limits

* **Only model-checked**: all liveness properties and the liveness half of both refinements, which need
  fairness and `ENABLED` and so are out of the prover's reach.
* **Checked for safety only**: the guests of the composed runs except the network service.
* **Abstracted**: texts, argv, passwords, configurations, titles and pictures are members of small
  sets; what an output says of a job is its job or *truncated*. Drawing is the fact of having painted
  something. Animations end at any tick; easing and positions in between are left out. Reuse of pids
  and descriptors by the kernel is not modelled. The Wayland compositor is trusted to be orderly, and
  to stop answering surfaces on outputs it lost.
* **One dispatch within another** is modelled where code depends on it: the retarget of the dashboard,
  the roundtrip of the unlock, the activation of a monitor, the opening of a window. An output
  unplugged during its own activation (the monitor is freed under the wait), and the resync of the
  notification views inside an iteration over the outputs, are not.
* **Between components** that the runs keep apart only the events they send each other are modelled,
  as inputs that may come at any time.
* **Not modelled**: telemetry, the control socket (its requests are inputs of the components they
  reach), the single instance lock and the log, the keymap, device routes of PipeWire, four of the
  six settings tabs, the audio capture of the visualizer, layout and drawing. Shaders, the FFT and
  the vendored protocol files are out of scope. The notes in `PROJECT.json` say so by component.
