----------------------------- MODULE PanePolling -----------------------------
(***************************************************************************)
(* What becomes of what the panes' workers publish: a turn of the main     *)
(* thread polls them (poll_backend, Backend::poll), does the commands that *)
(* wait, and publishes the tabs that are dirty.  Only the panes of the     *)
(* active tab are polled.  The polls feed the snapshots the clients are    *)
(* sent, the command each tab shows as running, and the status bar         *)
(* (StatusComponentStore), whose components run commands when clicked.     *)
(*                                                                         *)
(* A snapshot is its version, a command or a component's click an action.  *)
(* A tab is the sequence of its panes with one that has the focus.  The    *)
(* panes are there from the start; new ones are left to Workspace.         *)
(***************************************************************************)
EXTENDS Naturals, Sequences, SequencesExt, FiniteSetsExt

CONSTANTS
    FirstPanes, SecondPanes,    \* of the two tabs, in the order of their trees
    Clients,                    \* viewers with a subscription
    MaxEvents                   \* bound: what workers publish and others send

VARIABLES
    workers,    \* WorkerState of each pane
    srv,        \* what the main thread owns
    commands,   \* under way to the main thread
    wake,       \* a headless wakeup is pending
    shown,      \* the screens each client was sent last
    closed,     \* panes closed by a command
    moved,      \* the active tab or its focus has changed since it was polled
    events      \* how many there have been

vars == <<workers, srv, commands, wake, shown, closed, moved, events>>

TabPanes == Range(FirstPanes) \cup Range(SecondPanes)
TabIds == {1, 2}
Zones == {"Left", "Right"}
Actions == {"next-tab", "next-pane", "close-pane"}

\* osc_source_for_pane, or the name a script gives itself.
Sources == TabPanes \cup {"script"}

Updates == [zone : Zones, shows : {"close-pane", "nothing"}]

Entries == [source : Sources, zone : Zones, shows : Actions]

TabCommands ==
    [op : {"Execute"}, action : Actions]
        \cup [op : {"Set"}, zone : {"Left"}, shows : {"next-tab", "nothing"}]
        \cup [op : {"Invoke"}, source : Sources]
        \cup [op : {"View"}, client : Clients, tab : TabIds]

TabType == [id : TabIds, panes : Seq(TabPanes), focus : TabPanes, running : BOOLEAN]

TypeOK ==
    /\ workers \in [TabPanes -> [version : 0..MaxEvents, running : BOOLEAN,
                              exited : BOOLEAN, updates : Seq(Updates)]]
    /\ srv.tabs \in Seq(TabType)
    /\ \A t \in Range(srv.tabs) : t.focus \in Range(t.panes)
    /\ srv.active \in 1..Len(srv.tabs) \/ srv.tabs = <<>>
    /\ srv.seen \in [TabPanes -> 0..MaxEvents]
    /\ srv.bar \in Seq(Entries)
    /\ \A i, j \in 1..Len(srv.bar) :
            (srv.bar[i].source = srv.bar[j].source /\ srv.bar[i].zone = srv.bar[j].zone) => i = j
    /\ srv.dirty \subseteq TabIds
    /\ srv.views \in [Clients -> TabIds]
    /\ Len(commands) <= 1 /\ Range(commands) \subseteq TabCommands
    /\ wake \in BOOLEAN
    /\ shown \in [Clients -> [TabPanes -> 0..MaxEvents]]
    /\ closed \subseteq TabPanes
    /\ moved \in BOOLEAN
    /\ events \in 0..MaxEvents

Tab(id, panes) == [id |-> id, panes |-> panes, focus |-> Head(panes), running |-> FALSE]

Init ==
    /\ workers = [p \in TabPanes |-> [version |-> 0, running |-> FALSE,
                                   exited |-> FALSE, updates |-> <<>>]]
    /\ \E views \in [Clients -> TabIds] :
        srv = [tabs |-> <<Tab(1, FirstPanes), Tab(2, SecondPanes)>>, active |-> 1,
               seen |-> [p \in TabPanes |-> 0], bar |-> <<>>, dirty |-> {}, views |-> views]
    /\ commands = <<>>
    /\ wake = FALSE
    /\ shown = [c \in Clients |-> [p \in TabPanes |-> 0]]
    /\ closed = {}
    /\ moved = FALSE
    /\ events = 0

LivePanes(s) == UNION {Range(t.panes) : t \in Range(s.tabs)}

-----------------------------------------------------------------------------
(* StatusComponentStore.                                                   *)

Cuts(entry, source, zones) == entry.source = source /\ entry.zone \in zones

Cleared(bar, source, zones) == SelectSeq(bar, LAMBDA e : ~Cuts(e, source, zones))

\* Mutant: what a source shows already is added again.
SetBarAgain(bar, entry) ==
    IF entry.shows = "nothing" THEN Cleared(bar, entry.source, {entry.zone})
    ELSE Append(bar, entry)

SetBar(bar, entry) ==
    IF entry.shows = "nothing" THEN Cleared(bar, entry.source, {entry.zone})
    ELSE IF \E i \in 1..Len(bar) : Cuts(bar[i], entry.source, {entry.zone})
    THEN [i \in 1..Len(bar) |-> IF Cuts(bar[i], entry.source, {entry.zone}) THEN entry ELSE bar[i]]
    ELSE Append(bar, entry)

\* The first of the source's components is found, in whichever zone.
ClickAction(bar, source) ==
    LET of == SelectSeq(bar, LAMBDA e : e.source = source)
    IN  IF of = <<>> THEN "nothing" ELSE Head(of).shows

-----------------------------------------------------------------------------
(* The tabs.                                                               *)

ActiveTab(s) == s.tabs[s.active]

ActivePanes(s) == IF s.tabs = <<>> THEN <<>> ELSE ActiveTab(s).panes

\* remove_focused: the focus goes to a leaf that is left; remove_tab.
WithoutPane(s, i, pane) ==
    LET left == SelectSeq(s.tabs[i].panes, LAMBDA p : p # pane)
        less == RemoveAt(s.tabs, i)
    IN  IF left # <<>>
        THEN {[s EXCEPT !.tabs[i].panes = left, !.tabs[i].focus = f] :
                f \in IF s.tabs[i].focus = pane THEN Range(left) ELSE {s.tabs[i].focus}}
        ELSE {[s EXCEPT !.tabs = less,
                        !.active = IF s.active > Len(less) /\ less # <<>> THEN Len(less) ELSE @]}

\* close_pane_by_id: the tab of the pane becomes the active one.
ClosePaneById(s, pane) ==
    UNION {WithoutPane([s EXCEPT !.active = i, !.tabs[i].focus = pane], i, pane) :
            i \in {i \in 1..Len(s.tabs) : pane \in Range(s.tabs[i].panes)}}

\* execute_command, for the commands that matter here.
Executed(s, action) ==
    IF s.tabs = <<>> THEN {s}
    ELSE CASE action = "next-tab"   -> {[s EXCEPT !.active = (@ % Len(s.tabs)) + 1]}
           [] action = "next-pane"  -> {[s EXCEPT !.tabs[s.active].focus = p] :
                                            p \in Range(ActivePanes(s))}
           [] action = "close-pane" -> WithoutPane(s, s.active, ActiveTab(s).focus)
           [] OTHER                 -> {s}

-----------------------------------------------------------------------------
(* poll_backend.                                                           *)

\* Mutant: only a command that was started is set, one that has ended stays.
RunningOnlySet(tab, polled) ==
    IF tab.focus \in polled /\ workers[tab.focus].running THEN TRUE ELSE tab.running

\* set_running_command_for_pane, for each polled pane.
RunningOf(tab, polled) == IF tab.focus \in polled THEN workers[tab.focus].running ELSE tab.running

\* The updates of the polled panes, in the order of the tree.
Told(s) ==
    FlattenSeq([i \in 1..Len(ActivePanes(s)) |->
        LET p == ActivePanes(s)[i]
        IN  [k \in 1..Len(workers[p].updates) |->
                [source |-> p, zone |-> workers[p].updates[k].zone,
                 shows |-> workers[p].updates[k].shows]]])

\* Mutant: the components of a pane that exits stay.
ClearsNothing(bar, pane) == bar

ClearsPane(bar, pane) == Cleared(bar, pane, Zones)

Exits(s, exited) ==
    FoldLeft(LAMBDA states, p :
                UNION {ClosePaneById([t EXCEPT !.bar = ClearsPane(@, p)], p) : t \in states},
             {s}, exited)

PollsActive(s) == Range(ActivePanes(s))

Polled(s) ==
    LET polled  == PollsActive(s)
        told    == [s EXCEPT !.tabs = [i \in DOMAIN s.tabs |->
                                [s.tabs[i] EXCEPT !.running = RunningOf(s.tabs[i], polled)]],
                             !.bar = FoldLeft(SetBar, s.bar, Told(s)),
                             !.seen = [p \in TabPanes |-> IF p \in polled THEN workers[p].version
                                                       ELSE s.seen[p]]]
        exited  == SelectSeq(ActivePanes(s), LAMBDA p : workers[p].exited)
        changed == told # s \/ exited # <<>>
    IN  {IF changed /\ t.tabs # <<>> THEN [t EXCEPT !.dirty = @ \cup {ActiveTab(t).id}] ELSE t :
            t \in Exits(told, exited)}

-----------------------------------------------------------------------------
(* A turn of the main thread.                                              *)

\* handle_server_cmd, for the first command that waits.
Done(s, command) ==
    CASE command.op = "Execute" -> Executed(s, command.action)
      [] command.op = "Set" ->
            LET bar == SetBar(s.bar, [source |-> "script", zone |-> command.zone,
                                      shows |-> command.shows])
            IN  {IF bar = s.bar \/ s.tabs = <<>> THEN s
                 ELSE [s EXCEPT !.bar = bar, !.dirty = @ \cup {ActiveTab(s).id}]}
      [] command.op = "Invoke" -> Executed(s, ClickAction(s.bar, command.source))
      [] command.op = "View" ->
            {IF \E t \in Range(s.tabs) : t.id = command.tab
             THEN [s EXCEPT !.views[command.client] = command.tab] ELSE s}

PanesOf(s, id) == UNION {Range(t.panes) : t \in {t \in Range(s.tabs) : t.id = id}}

\* What each client is shown after the dirty tabs are published; one that has
\* chosen a tab is sent its screens at once.
Shown(s, viewer) ==
    [c \in Clients |-> [p \in TabPanes |->
        IF (s.views[c] \in s.dirty \/ c = viewer) /\ p \in PanesOf(s, s.views[c])
        THEN s.seen[p] ELSE shown[c][p]]]

FocusOf(s) == IF s.tabs = <<>> THEN <<>> ELSE <<ActiveTab(s).id, ActiveTab(s).focus>>

Turn ==
    /\ wake
    /\ \E s \in Polled(srv) :
        LET polled == Range(ActivePanes(srv))
            viewer == IF commands # <<>> /\ Head(commands).op = "View"
                      THEN Head(commands).client ELSE "nobody"
        IN  \E t \in IF commands = <<>> THEN {s} ELSE Done(s, Head(commands)) :
                /\ shown' = Shown(t, viewer)
                /\ srv' = [t EXCEPT !.dirty = {}]
                /\ workers' = [p \in TabPanes |-> IF p \in polled
                                               THEN [workers[p] EXCEPT !.updates = <<>>]
                                               ELSE workers[p]]
                /\ closed' = closed \cup (LivePanes(s) \ LivePanes(t))
                /\ moved' = (FocusOf(t) # FocusOf(srv))
                /\ commands' = <<>>
                /\ wake' = FALSE
                /\ UNCHANGED events

Happens == events < MaxEvents /\ events' = events + 1

Sends(command) ==
    /\ Happens
    /\ commands = <<>>
    /\ commands' = <<command>>
    /\ wake' = TRUE
    /\ UNCHANGED <<workers, srv, shown, closed, moved>>

\* Mutant: a change of the running command does not wake the main thread.
WakesForScreen(before, after) == before.version # after.version \/ after.exited

Wakes(before, after) == TRUE

\* A worker publishes; it is gone with its pane.
Publishes(p, state) ==
    /\ Happens
    /\ p \in LivePanes(srv)
    /\ ~workers[p].exited
    /\ state # workers[p]
    /\ workers' = [workers EXCEPT ![p] = state]
    /\ wake' = (wake \/ Wakes(workers[p], state))
    /\ UNCHANGED <<srv, commands, shown, closed, moved>>

Draws(p) == Publishes(p, [workers[p] EXCEPT !.version = @ + 1])

Starts(p) == Publishes(p, [workers[p] EXCEPT !.running = ~@])

Reports(p, update) == workers[p].updates = <<>>
                        /\ Publishes(p, [workers[p] EXCEPT !.updates = <<update>>])

Dies(p) == Publishes(p, [workers[p] EXCEPT !.exited = TRUE])

Next ==
    \/ Turn
    \/ \E command \in TabCommands : Sends(command)
    \/ \E p \in TabPanes :
        \/ Draws(p)
        \/ Starts(p)
        \/ Dies(p)
        \/ \E update \in Updates : Reports(p, update)

Spec == Init /\ [][Next]_vars

-----------------------------------------------------------------------------
Quiet == ~wake /\ ~moved /\ srv.tabs # <<>>

\* When the main thread has nothing to do the active tab is up to date: no
\* program that has exited is left in it, it shows the command its focused
\* pane runs, and whoever views it has the newest screens of its panes.  The
\* exception: a turn polls before it does its commands, so after a command
\* (or an exit) that makes another tab or pane the active one nothing is
\* polled until something else wakes the thread.
QuietIsCurrent ==
    Quiet =>
        /\ ActiveTab(srv).running = workers[ActiveTab(srv).focus].running
        /\ \A p \in Range(ActivePanes(srv)) :
            /\ ~workers[p].exited
            /\ srv.seen[p] = workers[p].version
            /\ \A c \in Clients :
                    srv.views[c] = ActiveTab(srv).id => shown[c][p] = workers[p].version

\* The status bar shows and runs what living panes and scripts have put there.
\* The exception: a pane that is closed by a command leaves its components,
\* and the commands they run, for ever.
StatusBarOfLivingPanes ==
    \A i \in 1..Len(srv.bar) :
        srv.bar[i].source = "script" \/ srv.bar[i].source \in LivePanes(srv) \cup closed

\* "allow different screens to track different viewed tabs server-side": while
\* the main thread sleeps each client has the newest screens of the tab it
\* views.  Only the panes of the active tab are polled.
EveryViewFollows ==
    Quiet => \A c \in Clients : \A p \in PanesOf(srv, srv.views[c]) :
                shown[c][p] = workers[p].version
=============================================================================
