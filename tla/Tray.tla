-------------------------------- MODULE Tray --------------------------------
(* The system tray: the StatusNotifier service keeps the items clients     *)
(* registered and the menus it fetched; the tray panel opens one menu, an  *)
(* xdg_popup resized to the level it shows.  A menu is painted by its      *)
(* frame clock: paint returns early while the popup waits for the          *)
(* configure of its new size.  D-Bus delivers everything in one order, so  *)
(* what a client sent arrives before the notice that it is gone.           *)
EXTENDS Naturals, Sequences, FrameClock

CONSTANTS
    Clients,          \* bus connections that may register an item; names are never reused
    MaxLayout,        \* versions of a client's menu
    MaxClicks,        \* clicks of the user
    ConfigureFirst    \* the compositor configures a resized popup before its next frame

VARIABLES
    client,    \* each client: not started, running or gone, and its menu
    trCalls,   \* calls each client has not answered
    trInbox,   \* messages on their way to the shell
    tray,      \* TrayState
    menu,      \* TrayMenuState
    owed,      \* a configure of the popup the compositor has not sent
    trClicks   \* clicks so far

vars == <<client, trCalls, trInbox, tray, menu, owed, trClicks>>

NoItem == "none"
NoMenu == [item |-> NoItem, popup |-> FALSE, configured |-> FALSE, done |-> FALSE,
           path |-> 0, applied |-> <<0, 0>>, shown |-> <<>>, clock |-> IdleClock]

Init ==
    /\ client = [c \in Clients |-> [life |-> "new", layout |-> 1]]
    /\ trCalls = [c \in Clients |-> <<>>]
    /\ trInbox = <<>>
    /\ tray = [items |-> {}, proxies |-> {}, withMenu |-> {},
               cache |-> [c \in Clients |-> 0]]
    /\ menu = NoMenu
    /\ owed = FALSE
    /\ trClicks = 0

-----------------------------------------------------------------------------
(* The menu.  The height of the popup follows the level it shows: what the *)
(* cache holds of the item's menu, and how deep the path is.               *)
MenuLevelHeight(t, m) == <<t.cache[m.item], m.path>>

(* xdg_popup_reposition, committed at once so that the armed callback comes. *)
RepositionForgetsCommit(m, h) ==        \* mutant: no wl_surface_commit
    [m EXCEPT !.applied = h, !.configured = FALSE, !.clock = Deferred(@)]
Reposition(m, h) == [m EXCEPT !.applied = h, !.configured = FALSE,
                              !.clock = Deferred(Committed(@))]

Paint(m, t) ==
    IF m.item \notin t.items THEN [m EXCEPT !.done = TRUE]
    ELSE IF MenuLevelHeight(t, m) # m.applied THEN Reposition(m, MenuLevelHeight(t, m))
    ELSE IF ~m.configured THEN [m EXCEPT !.clock = Deferred(@)]
    ELSE [m EXCEPT !.shown = MenuLevelHeight(t, m), !.clock = Committed(@)]

RequestFrame(m, t) ==
    IF ~m.popup \/ m.done THEN m
    ELSE IF m.clock.callback # "none" THEN [m EXCEPT !.clock = Deferred(@)]
    ELSE IF ~m.clock.mapped THEN Paint([m EXCEPT !.clock = FirstDraw(@)], t)
    ELSE [m EXCEPT !.clock = Scheduled(@)]

(* A new popup waits in a nested loop for its first configure.             *)
MenuOpen(m, t, c) ==
    IF m.popup /\ m.item = c THEN [m EXCEPT !.path = 0]
    ELSE [NoMenu EXCEPT !.item = c, !.popup = TRUE, !.configured = TRUE,
                        !.applied = <<t.cache[c], 0>>]

(* owed follows the popup: a reposition owes a configure, a closed popup   *)
(* none.                                                                   *)
SetMenu(m) ==
    /\ menu' = m
    /\ owed' = (m.popup /\ (owed \/ (m.applied # menu.applied /\ ~m.configured)))

-----------------------------------------------------------------------------
(* The service.                                                            *)
RegisterItem(t, c) ==
    IF c \in t.items THEN t
    ELSE [t EXCEPT !.items = @ \union {c}, !.proxies = @ \union {c}]

NameLostKeepsCache(t, c) ==             \* mutant: the fetched menu is kept
    [t EXCEPT !.items = @ \ {c}, !.proxies = @ \ {c}, !.withMenu = @ \ {c}]
NameLost(t, c) ==
    [t EXCEPT !.items = @ \ {c}, !.proxies = @ \ {c}, !.withMenu = @ \ {c},
              !.cache[c] = 0]

Heard(t, msg) ==
    LET c == msg.from
    IN  CASE msg.op = "register" -> RegisterItem(t, c)
          [] msg.op = "exited" -> NameLost(t, c)
          [] msg.op = "props" /\ c \in t.items -> [t EXCEPT !.withMenu = @ \union {c}]
          [] msg.op = "layout" -> [t EXCEPT !.cache[c] = msg.layout]
          [] OTHER -> t

(* Every change of the tray redraws the bar, its panels and the menu.      *)
Dispatch ==
    /\ trInbox # <<>>
    /\ trInbox' = Tail(trInbox)
    /\ LET msg == Head(trInbox)
       IN  /\ tray' = Heard(tray, msg)
           /\ SetMenu(IF msg.op = "failed" THEN menu ELSE RequestFrame(menu, tray'))
           /\ trCalls' = IF msg.op = "register" /\ msg.from \notin tray.items
                         THEN [trCalls EXCEPT ![msg.from] = Append(@, "props")]
                         ELSE trCalls
    /\ UNCHANGED <<client, trClicks>>

-----------------------------------------------------------------------------
(* The user.                                                               *)
Click == trClicks < MaxClicks /\ trClicks' = trClicks + 1 /\ UNCHANGED <<client, trInbox, tray>>

RightClick(c) ==
    /\ Click /\ c \in tray.withMenu
    /\ LET fresh == ~(menu.popup /\ menu.item = c)
       IN  /\ SetMenu(RequestFrame(MenuOpen(menu, tray, c), tray))
           /\ trCalls' = IF fresh THEN [trCalls EXCEPT ![c] = Append(@, "layout")]
                         ELSE trCalls

LeftClick(c) == Click /\ c \in tray.items /\ SetMenu(NoMenu) /\ UNCHANGED trCalls

(* Only painted entries can be clicked; one with children opens them, a    *)
(* leaf tells the client and closes the menu.                              *)
ClickEntry ==
    /\ Click /\ menu.popup /\ menu.shown # <<>> /\ menu.shown[1] # 0
    /\ tray.cache[menu.item] # 0
    /\ \/ menu.path = 0 /\ SetMenu(RequestFrame([menu EXCEPT !.path = 1], tray))
       \/ SetMenu(NoMenu)
    /\ UNCHANGED trCalls

Back ==                         \* the back row, or Escape
    /\ Click /\ menu.popup
    /\ SetMenu(IF menu.path = 0 THEN NoMenu
               ELSE RequestFrame([menu EXCEPT !.path = 0], tray))
    /\ UNCHANGED trCalls

PopupDone ==                    \* the compositor dismissed the popup
    /\ Click /\ menu.popup /\ ~menu.done
    /\ SetMenu([menu EXCEPT !.done = TRUE])
    /\ UNCHANGED trCalls

Tick ==                         \* a popup is destroyed by the next tick
    /\ menu.popup /\ menu.done
    /\ SetMenu(NoMenu)
    /\ UNCHANGED <<client, trCalls, trInbox, tray, trClicks>>

-----------------------------------------------------------------------------
(* The compositor and the clients.                                         *)
FrameDone ==
    /\ menu.popup /\ menu.clock.callback = "committed"
    /\ ConfigureFirst => ~owed
    /\ SetMenu(IF ~menu.clock.redraw THEN [menu EXCEPT !.clock = DoneIdle(@)]
               ELSE IF menu.done THEN [menu EXCEPT !.clock = DoneForDraw(@)]
               ELSE Paint([menu EXCEPT !.clock = DoneForDraw(@)], tray))
    /\ UNCHANGED <<client, trCalls, trInbox, tray, trClicks>>

Configure ==
    /\ owed
    /\ owed' = FALSE
    /\ menu' = [menu EXCEPT !.configured = TRUE]
    /\ UNCHANGED <<client, trCalls, trInbox, tray, trClicks>>

Send(msg) == trInbox' = Append(trInbox, msg)
ClientActs == UNCHANGED <<tray, menu, owed, trClicks>>

ClientStarts(c) ==
    /\ client[c].life = "new"
    /\ client' = [client EXCEPT ![c].life = "running"]
    /\ Send([op |-> "register", from |-> c])
    /\ UNCHANGED trCalls /\ ClientActs

MenuChanges(c) ==
    /\ client[c].life = "running" /\ client[c].layout < MaxLayout
    /\ client' = [client EXCEPT ![c].layout = @ + 1]
    /\ UNCHANGED <<trCalls, trInbox>> /\ ClientActs

Answers(c) ==
    /\ trCalls[c] # <<>>
    /\ Send(IF client[c].life # "running" THEN [op |-> "failed", from |-> c]
            ELSE [op |-> Head(trCalls[c]), from |-> c, layout |-> client[c].layout])
    /\ trCalls' = [trCalls EXCEPT ![c] = Tail(@)]
    /\ UNCHANGED client /\ ClientActs

ClientExits(c) ==
    /\ client[c].life = "running"
    /\ client' = [client EXCEPT ![c].life = "gone"]
    /\ Send([op |-> "exited", from |-> c])
    /\ UNCHANGED trCalls /\ ClientActs

Next ==
    \/ Dispatch \/ ClickEntry \/ Back \/ PopupDone \/ Tick \/ FrameDone \/ Configure
    \/ \E c \in Clients :
          \/ RightClick(c) \/ LeftClick(c)
          \/ ClientStarts(c) \/ MenuChanges(c) \/ Answers(c) \/ ClientExits(c)

Spec == Init /\ [][Next]_vars

-----------------------------------------------------------------------------
TypeOK ==
    /\ client \in [Clients -> [life : {"new", "running", "gone"}, layout : 1..MaxLayout]]
    /\ tray \in [items : SUBSET Clients, proxies : SUBSET Clients,
                 withMenu : SUBSET Clients, cache : [Clients -> 0..MaxLayout]]
    /\ ClockOK(menu.clock) /\ owed \in BOOLEAN
    /\ menu.popup => menu.item \in Clients

(* What is kept for an item goes with it, although replies of the client   *)
(* may still be handled when it is already gone; an item of a client that  *)
(* is gone stays only until the notice arrives.                            *)
ItemsFollowClients ==
    /\ tray.proxies = tray.items /\ tray.withMenu \subseteq tray.items
    /\ \A c \in Clients : tray.cache[c] # 0 => c \in tray.items
    /\ \A c \in tray.items : client[c].life = "gone" =>
          \E i \in DOMAIN trInbox : trInbox[i] = [op |-> "exited", from |-> c]

(* With nothing under way an open menu shows the level it is at: the       *)
(* layout that came last, of an item that is still there.                  *)
Quiet ==
    /\ trInbox = <<>> /\ \A c \in Clients : trCalls[c] = <<>>
    /\ ~owed /\ menu.clock.callback # "committed" /\ ~menu.done
MenuSettles ==
    Quiet /\ menu.popup =>
        menu.item \in tray.items /\ menu.shown = MenuLevelHeight(tray, menu)
=============================================================================
