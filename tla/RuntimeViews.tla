---------------------------- MODULE RuntimeViews ----------------------------
(***************************************************************************)
(* The clients' views over the one shared tab list (runtime_server.rs,     *)
(* remote_state.rs, remote.rs): which tab and pane each client looks at,   *)
(* what the server last told it and which screens it sent.  The server     *)
(* thread runs one handler at a time; connections come and go in threads   *)
(* of their own.  A handler is a sequence of steps on the record           *)
(*                                                                         *)
(*    tm     the tab list (module TabManager)                              *)
(*    next   NEXT_PANE_ID                                                  *)
(*    view   per client its ClientRuntimeView                              *)
(*    sent   per client what this handler has sent it: the tab and panes   *)
(*           of a UiRuntimeState, None and {} without one, and the panes   *)
(*           whose screens followed                                        *)
(*                                                                         *)
(* so the operators below take and return such a record.  Option values    *)
(* are numbers with 0 for None.  Revisions, deltas and the screens of tabs *)
(* marked dirty are the business of GuiStream and OutboundStream.          *)
(***************************************************************************)
EXTENDS TabManager

CONSTANTS
    Clients,
    Locals,     \* the clients of the local stream socket; the others use QUIC
    MaxPanes,   \* bound: pane ids handed out
    MaxTabs,    \* bound: tabs open at once
    MaxTabId    \* bound: tab ids handed out

ASSUME LocalsAssumption == Locals \subseteq Clients

ASSUME BoundsAssumption ==
    MaxPanes \in Nat \ {0} /\ MaxTabs \in Nat /\ MaxTabId \in Nat \ {0}

VARIABLES
    tm, next, view,
    sent,       \* what the last step has sent; no step reads it
    event       \* history: the handler of the last step, its client and argument

vars == <<tm, next, view, sent, event>>

None == 0

PaneIds == 1..MaxPanes
TabIdsOrNone == 0..MaxTabId

ViewType ==
    [on : BOOLEAN, fresh : BOOLEAN, sub : BOOLEAN, attached : BOOLEAN,
     detachedAt : BOOLEAN,
     tab : TabIdsOrNone, focus : 0..MaxPanes, visible : SUBSET PaneIds]

SentType == [tab : TabIdsOrNone, panes : SUBSET PaneIds, screens : SUBSET PaneIds]

TypeOK ==
    /\ tm \in ManagerType(PaneIds)
    /\ tm.tabs # <<>> => HasActive(tm)
    /\ next \in 1..(MaxPanes + 1)
    /\ view \in [Clients -> ViewType]
    /\ sent \in [Clients -> SentType]

IdleView ==
    [on |-> TRUE, fresh |-> TRUE, sub |-> FALSE, attached |-> TRUE,
     detachedAt |-> FALSE,
     tab |-> None, focus |-> None, visible |-> {}]

Nothing == [name |-> "none", by |-> "nobody", arg |-> None]

SentNothing == [tab |-> None, panes |-> {}, screens |-> {}]

\* The server has set up its first tab; nobody is connected.
Init ==
    /\ tm = AddInitialTab(EmptyManager, 1)
    /\ next = 2
    /\ view = [c \in Clients |-> [IdleView EXCEPT !.on = FALSE]]
    /\ sent = [c \in Clients |-> SentNothing]
    /\ event = Nothing

Now == [tm |-> tm, next |-> next, view |-> view,
        sent |-> [c \in Clients |-> SentNothing]]

Becomes(result) ==
    \E s \in {result} :
        /\ tm' = s.tm
        /\ next' = s.next
        /\ view' = s.view
        /\ sent' = [c \in Clients |-> s.sent[c]]

-----------------------------------------------------------------------------
(* The tab list as the handlers see it.                                    *)

\* pane_ids_for_tab; nothing for a tab that is gone.
PaneIdsForTab(m, tab) ==
    UNION {PanesOf(m.tabs[i].tree) : i \in {j \in DOMAIN m.tabs : m.tabs[j].id = tab}}

DefaultFocusedPane(m, tab) ==
    IF tab \in TabIds(m)
    THEN FocusedPane(m.tabs[IndexOfTab(m, tab) + 1].tree)
    ELSE None

FocusOrDefault(m, tab, focus, among) ==
    IF focus \in among THEN focus ELSE DefaultFocusedPane(m, tab)

ActiveRuntimeTab(m) == IF HasActive(m) THEN ActiveTabId(m) ELSE None

FocusPaneById(m, pane) ==
    IF HasActive(m) THEN WithActiveTree(m, SetFocusToPane(ActiveTree(m), pane)) ELSE m

\* focus_runtime_tab, for a tab that exists.
FocusRuntimeTab(m, tab) == GotoIndex(m, IndexOfTab(m, tab))

\* What a key, a command or a bound action may do to the tabs.
Operations(s) ==
    LET m == s.tm
        more == s.next <= MaxPanes
        Same(m2) == [s EXCEPT !.tm = m2]
        Grown(m2) == [s EXCEPT !.tm = m2, !.next = @ + 1]
    IN  {s}
        \cup (IF more /\ Len(m.tabs) < MaxTabs /\ m.nextId <= MaxTabId
              THEN {Grown(NewTabWith(m, s.next))} ELSE {})
        \cup (IF HasActive(m)
              THEN {Same(GotoIndex(m, i)) : i \in 0..(Len(m.tabs) - 1)}
                   \cup {Same(FocusPaneById(m, p)) : p \in PanesOf(ActiveTree(m))}
                   \cup {Same(DropIfEmpty(WithActiveTree(m, RemoveFocused(ActiveTree(m))),
                                          m.active))}
                   \cup (IF more
                         THEN {Grown(WithActiveTree(m, SplitFocused(ActiveTree(m), s.next)))}
                         ELSE {})
              ELSE {})

-----------------------------------------------------------------------------
(* Steps on one view.                                                      *)

WithView(s, c, v) ==
    IF s.view[c].on THEN [s EXCEPT !.view[c] = v] ELSE s

Showing(v, m, tab, focus) ==
    [v EXCEPT !.tab = tab, !.focus = focus, !.visible = PaneIdsForTab(m, tab)]

\* Mutant: a client that comes back keeps its idle timer.
InitializeViewOnly(s, c) ==
    LET tab == ActiveRuntimeTab(s.tm)
    IN  WithView(s, c,
            [Showing(s.view[c], s.tm, tab, DefaultFocusedPane(s.tm, tab))
                EXCEPT !.fresh = FALSE, !.attached = TRUE])

\* initialize_client_view on the active tab.
InitializeView(s, c) ==
    LET tab == ActiveRuntimeTab(s.tm)
    IN  WithView(s, c,
            [Showing(s.view[c], s.tm, tab, DefaultFocusedPane(s.tm, tab))
                EXCEPT !.fresh = FALSE, !.attached = TRUE, !.detachedAt = FALSE])

\* ensure_remote_client_view_state: the focus and the visible panes of the
\* view follow the tab it names.
EnsureView(s, c) ==
    LET s1 == IF s.view[c].fresh THEN InitializeView(s, c) ELSE s
        v  == s1.view[c]
        valid == PaneIdsForTab(s1.tm, v.tab)
    IN  IF v.on /\ v.tab # None /\ (v.focus \notin valid \/ v.visible # valid)
        THEN WithView(s1, c,
                 Showing(v, s1.tm, v.tab, FocusOrDefault(s1.tm, v.tab, v.focus, valid)))
        ELSE s1

\* Mutant: the active tab is everybody's, as before there were views.
SyncAllToActive(s, c) ==
    [s EXCEPT !.view = [d \in Clients |->
        IF s.view[d].on /\ HasActive(s.tm)
        THEN Showing(s.view[d], s.tm, ActiveTabId(s.tm), FocusedPaneOf(s.tm))
        ELSE s.view[d]]]

\* sync_client_view_to_active_runtime: the client follows where its own
\* action has taken the tab list.
SyncToActive(s, c) ==
    LET tab == ActiveRuntimeTab(s.tm)
        panes == PaneIdsForTab(s.tm, tab)
    IN  IF tab = None THEN s
        ELSE WithView(s, c,
                 Showing(s.view[c], s.tm, tab, FocusOrDefault(s.tm, tab, FocusedPaneOf(s.tm), panes)))

-----------------------------------------------------------------------------
(* What the clients are sent.                                              *)

\* ui_runtime_state_for_client; the screens a client holds are of no use
\* after it, as the view revision has gone on.
StateFor(s, c) ==
    LET v   == s.view[c]
        tab == IF v.tab # None THEN v.tab ELSE ActiveRuntimeTab(s.tm)
    IN  [tab |-> tab, panes |-> PaneIdsForTab(s.tm, tab), screens |-> {}]

Tell(s, c) == IF s.view[c].on THEN [s EXCEPT !.sent[c] = StateFor(s, c)] ELSE s

TellAll(s) ==
    [s EXCEPT !.sent = [c \in Clients |->
        IF s.view[c].on THEN StateFor(s, c) ELSE s.sent[c]]]

\* publish_remote_tab: the focused pane, then the other visible ones, of
\* every subscribed view on that tab; a pane that is gone has no screen.
Publish(s, tab) ==
    LET Screens(v) == ({FocusOrDefault(s.tm, tab, v.focus, v.visible)}
                          \cup v.visible) \cap AllPanes(s.tm)
    IN  [s EXCEPT !.sent = [c \in Clients |->
            LET v == s.view[c]
            IN  IF v.on /\ v.sub /\ v.tab = tab
                THEN [s.sent[c] EXCEPT !.screens = @ \cup Screens(v)]
                ELSE s.sent[c]]]

PublishActive(s) == IF HasActive(s.tm) THEN Publish(s, ActiveTabId(s.tm)) ELSE s

\* broadcast_runtime_view_to_all_viewers
Broadcast(s) == PublishActive(TellAll(s))

\* sync_remote_client_runtime_view; recover_remote_client_runtime_view is the
\* same with `subscribe' for a non-empty tab list.
Resync(s, c) ==
    LET s1 == Tell(InitializeView(s, c), c)
    IN  IF HasActive(s.tm)
        THEN PublishActive(WithView(s1, c, [s1.view[c] EXCEPT !.sub = TRUE]))
        ELSE WithView(s1, c, [s1.view[c] EXCEPT !.sub = FALSE])

-----------------------------------------------------------------------------
(* Handlers of one client's messages.                                      *)

\* focus_client_runtime_target: the tab list goes where the client looks.
\* It fails without a viewed tab, and recovers the view when the tab is gone.
HasTarget(s, c) ==
    LET s1 == EnsureView(s, c)
    IN  s1.view[c].on /\ s1.view[c].tab \in TabIds(s1.tm)

Focused(s, c) ==
    LET s1 == EnsureView(s, c)
        v  == s1.view[c]
        pane == FocusOrDefault(s1.tm, v.tab, v.focus, PaneIdsForTab(s1.tm, v.tab))
    IN  IF ~v.on \/ v.tab = None THEN s1
        ELSE IF v.tab \notin TabIds(s1.tm) THEN Resync(s1, c)
        ELSE [s1 EXCEPT !.tm = FocusPaneById(FocusRuntimeTab(@, v.tab), pane)]

Connect(c) ==
    /\ ~view[c].on
    /\ Becomes([Now EXCEPT !.view[c] = IdleView])

\* The reader thread ends; commands it has queued are handled all the same.
Disconnect(c) ==
    /\ view[c].on
    /\ Becomes([Now EXCEPT !.view[c] = [IdleView EXCEPT !.on = FALSE]])

\* RemoteConnected, queued on connection and again by an Auth message.
RemoteConnected(c) == Becomes(Resync(Now, c))

RemoteListTabs(c) == Becomes(Tell(Now, c))

\* create_remote_runtime_tab, for Create and NewTab; spawning may fail.
CreateTab(c) ==
    /\ next <= MaxPanes /\ Len(tm.tabs) < MaxTabs /\ tm.nextId <= MaxTabId
    /\ LET s1 == [Now EXCEPT !.tm = NewTabWith(tm, next), !.next = @ + 1]
           tab == tm.nextId
       IN  Becomes(Broadcast(WithView(s1, c,
               Showing(view[c], s1.tm, tab, DefaultFocusedPane(s1.tm, tab)))))

\* Mutant: nobody looks after the other clients.
DestroyTabNoRepair(c, tab) ==
    IF tab \in TabIds(tm)
    THEN Becomes(Broadcast([Now EXCEPT !.tm = RemoveTab(tm, IndexOfTab(tm, tab))]))
    ELSE Becomes(Resync(Now, c))

\* repair_all_remote_views after the tab at `closed' has gone.
RepairAll(s, closed) ==
    LET last == Len(s.tm.tabs) - 1
        Fallback == IF s.tm.tabs = <<>> THEN None
                    ELSE s.tm.tabs[(IF closed < last THEN closed ELSE last) + 1].id
        Repaired(v) ==
            LET tab == IF v.tab \in TabIds(s.tm) THEN v.tab ELSE Fallback
            IN  Showing(v, s.tm, tab,
                        FocusOrDefault(s.tm, tab, v.focus, PaneIdsForTab(s.tm, tab)))
    IN  [s EXCEPT !.view = [c \in Clients |->
                               IF s.view[c].on THEN Repaired(s.view[c]) ELSE s.view[c]]]

\* destroy_remote_runtime_tab, for Destroy and CloseTab with the id of a tab
\* or, for None, on the active one.
DestroyTab(c, tab) ==
    IF tab \in TabIds(tm)
    THEN LET index == IndexOfTab(tm, tab)
         IN  Becomes(Broadcast(RepairAll([Now EXCEPT !.tm = RemoveTab(tm, index)], index)))
    ELSE Becomes(Resync(Now, c))

RequestedTab(tab) == IF tab = None THEN ActiveRuntimeTab(tm) ELSE tab

RemoteDestroy(c, tab) ==
    /\ RequestedTab(tab) # None
    /\ DestroyTab(c, RequestedTab(tab))

\* Mutant: the pane is looked up in whatever tab is active.
RemoteInputNoGoto(c) ==
    LET s1 == EnsureView(Now, c)
        v  == s1.view[c]
    IN  /\ v.on
        /\ v.tab \in TabIds(tm)
        /\ Becomes(SyncToActive([s1 EXCEPT !.tm = FocusPaneById(@, v.focus)], c))

\* Mutant: the bytes for a tab that is gone are refused.
RemoteInputRefused(c) ==
    /\ view[c].on
    /\ Becomes(IF HasTarget(Now, c) THEN SyncToActive(Focused(Now, c), c) ELSE Now)

\* RemoteInput: without a tab an error, with a dead one a fresh start.
RemoteInput(c) ==
    LET s1 == EnsureView(Now, c)
        v  == s1.view[c]
        pane == FocusOrDefault(s1.tm, v.tab, v.focus, v.visible)
    IN  /\ v.on
        /\ IF v.tab = None THEN Becomes(s1)
           ELSE IF v.tab \notin TabIds(tm) THEN Becomes(Resync(s1, c))
           ELSE Becomes(SyncToActive(
                    [s1 EXCEPT !.tm = FocusPaneById(FocusRuntimeTab(@, v.tab), pane)], c))

\* RemoteKey, and a RemoteAppKeyEvent that no binding consumes.
RemoteKey(c) ==
    /\ view[c].on
    /\ IF HasTarget(Now, c)
       THEN \E s \in Operations(Focused(Now, c)) : Becomes(SyncToActive(s, c))
       ELSE Becomes(Focused(Now, c))

\* RemoteAppKeyEvent when consumed, and RemoteAppMouseEvent when it changes
\* the interface.
RemoteAppEvent(c) ==
    /\ HasTarget(Now, c)
    /\ \E s \in Operations(Focused(Now, c)) : Becomes(Broadcast(SyncToActive(s, c)))

\* Mutant: everybody is told before the view has followed.
RemoteActionTellsFirst(c) ==
    \E s \in Operations(Focused(Now, c)) : Becomes(SyncToActive(Broadcast(s), c))

\* RemoteExecuteCommand, RemoteAppAction, ResizeSplit by amount: also for a
\* client that is gone or looks at nothing.
RemoteAction(c) ==
    \E s \in Operations(Focused(Now, c)) : Becomes(Broadcast(SyncToActive(s, c)))

\* The handlers of local sockets tell the local viewers about the active tab,
\* whatever they look at.
TellLocalViewers(s) ==
    [s EXCEPT !.sent = [c \in Clients |->
        IF HasActive(s.tm) /\ c \in Locals /\ s.view[c].on /\ s.view[c].sub
        THEN [tab |-> ActiveTabId(s.tm), panes |-> PanesOf(ActiveTree(s.tm)), screens |-> {}]
        ELSE s.sent[c]]]

\* publish_local_gui_after_ui_action
PublishLocalGui(before, s) ==
    LET s1 == TellLocalViewers(s)
    IN  IF HasActive(s.tm) /\ s.tm # before THEN Publish(s1, ActiveTabId(s.tm)) ELSE s1

\* The runtime action NewSplit.
NewSplit(c) ==
    LET s1 == Focused(Now, c)
        s2 == IF HasActive(s1.tm)
              THEN [s1 EXCEPT !.tm = WithActiveTree(@, SplitFocused(ActiveTree(@), next)),
                              !.next = @ + 1]
              ELSE s1
    IN  /\ next <= MaxPanes
        /\ Becomes(Broadcast(PublishLocalGui(tm, SyncToActive(s2, c))))

RemoteResize(c) == view[c].on /\ Becomes(Now)

\* ScrollFocusedPane, SetCopyMode, SetSearchQuery, NavigateSearch.
UpdateLocalState(c) == view[c].on /\ Becomes(Tell(Now, c))

Noop(c) == view[c].on /\ Becomes(Tell(Now, c))

\* Mutant: any pane of the server.
FocusAnyPaneStep(s, c, pane) ==
    LET s1 == EnsureView(s, c)
        v  == s1.view[c]
    IN  IF v.on /\ v.tab # None
        THEN Publish(Tell(WithView(s1, c, Showing(v, s1.tm, v.tab, pane)), c), v.tab)
        ELSE s1

\* RemoteFocusPane: only a pane of the viewed tab.
FocusPaneStep(s, c, pane) ==
    LET s1 == EnsureView(s, c)
        v  == s1.view[c]
    IN  IF v.on /\ v.tab # None /\ pane \in PaneIdsForTab(s1.tm, v.tab)
        THEN Publish(Tell(WithView(s1, c, Showing(v, s1.tm, v.tab, pane)), c), v.tab)
        ELSE s1

RemoteFocusPane(c, pane) == Becomes(FocusPaneStep(Now, c, pane))

\* The runtime action FocusPane moves the view to its tab afterwards, without
\* a look at what RemoteFocusPane made of the pane.
FocusPane(c, tab, pane) ==
    LET s1 == FocusPaneStep(Now, c, pane)
    IN  Becomes(WithView(s1, c, [s1.view[c] EXCEPT !.tab = tab]))

\* SetViewedTab takes any id.
ViewTab(s, c, tab) ==
    Publish(Tell(WithView(s, c,
        Showing(s.view[c], s.tm, tab, DefaultFocusedPane(s.tm, tab))), c), tab)

SetViewedTab(c, tab) == Becomes(ViewTab(Now, c, tab))

\* NextTab and PrevTab move the view alone, not the tab list.
StepTab(c, forward) ==
    LET s1 == EnsureView(Now, c)
        v  == s1.view[c]
        n  == Len(tm.tabs)
        at == IF v.tab \in TabIds(tm) THEN IndexOfTab(tm, v.tab) ELSE tm.active
        to == IF forward THEN (at + 1) % n ELSE (at + n - 1) % n
    IN  /\ v.on
        /\ n > 0
        /\ Becomes(ViewTab(s1, c, tm.tabs[to + 1].id))

AttachView(c) ==
    LET s1 == Tell(WithView(Now, c,
                  [view[c] EXCEPT !.attached = TRUE, !.detachedAt = FALSE, !.sub = TRUE]), c)
    IN  /\ view[c].on
        /\ Becomes(IF s1.sent[c].tab # None THEN Publish(s1, s1.sent[c].tab) ELSE s1)

DetachView(c) ==
    /\ view[c].on
    /\ Becomes(WithView(Now, c,
           [view[c] EXCEPT !.attached = FALSE, !.detachedAt = TRUE, !.sub = FALSE]))

-----------------------------------------------------------------------------
(* What the server does by itself.                                         *)

\* sweep_idle_views, once the timeout of some detached views has passed.
SweepIdleViews ==
    \E expired \in SUBSET {c \in Clients : view[c].on /\ view[c].detachedAt /\ ~view[c].attached} :
        /\ expired # {}
        /\ Becomes(Broadcast([Now EXCEPT !.view = [c \in Clients |->
               IF c \in expired
               THEN [view[c] EXCEPT !.sub = FALSE, !.tab = None, !.focus = None,
                                    !.visible = {}, !.detachedAt = FALSE]
               ELSE view[c]]]))

HasSubscribers == \E c \in Clients : view[c].on /\ view[c].sub

\* poll_backend: a pane of the active tab has exited.
PaneExited(pane) ==
    /\ HasActive(tm)
    /\ pane \in PanesOf(ActiveTree(tm))
    /\ LET m  == DropIfEmpty(WithActiveTree(tm, RemovePane(ActiveTree(tm), pane)), tm.active)
           s1 == [Now EXCEPT !.tm = m]
       IN  Becomes(IF ~HasSubscribers THEN s1
                   ELSE IF HasActive(m) THEN s1
                   ELSE Broadcast(s1))

\* A command of the control socket.
ControlCommand ==
    \E s \in Operations(Now) : Becomes(PublishLocalGui(tm, s))

-----------------------------------------------------------------------------
Did(name, c, arg) == event' = [name |-> name, by |-> c, arg |-> arg]

\* The messages of one client.  Its reader starts after `Connected' is queued,
\* so nothing of it is handled while its view is fresh.
Acts(c) ==
    /\ ~(view[c].on /\ view[c].fresh)
    /\ \/ RemoteListTabs(c) /\ Did("ListTabs", c, None)
       \/ CreateTab(c) /\ Did("Create", c, None)
       \/ \E tab \in TabIdsOrNone : RemoteDestroy(c, tab) /\ Did("Destroy", c, RequestedTab(tab))
       \/ RemoteInput(c) /\ Did("Input", c, None)
       \/ RemoteKey(c) /\ Did("Key", c, None)
       \/ RemoteAppEvent(c) /\ Did("AppEvent", c, None)
       \/ RemoteAction(c) /\ Did("Action", c, None)
       \/ NewSplit(c) /\ Did("NewSplit", c, next)
       \/ RemoteResize(c) /\ Did("Resize", c, None)
       \/ UpdateLocalState(c) /\ Did("LocalState", c, None)
       \/ Noop(c) /\ Did("Noop", c, None)
       \/ \E pane \in PaneIds : RemoteFocusPane(c, pane) /\ Did("FocusPane", c, pane)
       \/ \E tab \in 1..MaxTabId, pane \in PaneIds :
              FocusPane(c, tab, pane) /\ Did("FocusPane", c, pane)
       \/ \E tab \in 1..MaxTabId : SetViewedTab(c, tab) /\ Did("SetViewedTab", c, tab)
       \/ \E forward \in BOOLEAN : StepTab(c, forward) /\ Did("StepTab", c, None)
       \/ AttachView(c) /\ Did("Attach", c, None)
       \/ DetachView(c) /\ Did("Detach", c, None)

Serves ==
    \/ SweepIdleViews
    \/ \E pane \in PaneIds : PaneExited(pane)
    \/ ControlCommand

Next ==
    \/ \E c \in Clients :
          \/ (Connect(c) \/ Disconnect(c) \/ RemoteConnected(c)) /\ Did("Connect", c, None)
          \/ Acts(c)
    \/ Serves /\ event' = Nothing

\* The state up to what no handler reads here: leaf ids, prev_active, and the
\* last step.
Shape ==
    <<[i \in DOMAIN tm.tabs |->
          LET tab == tm.tabs[i]
          IN  <<tab.id, [k \in DOMAIN tab.tree.leaves |-> tab.tree.leaves[k].pane],
                FocusedPane(tab.tree)>>],
      tm.active, tm.nextId, next, view>>

Spec == Init /\ [][Next]_vars

-----------------------------------------------------------------------------
\* A view is focused on a pane it shows, or on none: keys that come with the
\* view's focus cannot go to a pane of another tab.
FocusIsVisible ==
    \A c \in Clients : view[c].focus # None => view[c].focus \in view[c].visible

\* A client whose idle timer runs is not streamed to: the sweep never takes
\* the view from one that is.
DetachedIsSilent ==
    \A c \in Clients : view[c].detachedAt => ~view[c].sub /\ ~view[c].attached

\* "Verify changing viewed tab only affects that screen": whatever the others
\* do, short of closing the tab a client looks at, it stays there.
ViewsAreTheirOwners ==
    [][ \A c \in Clients :
            (event'.by # c /\ view[c].on /\ view[c].attached /\ view[c].tab \in TabIds(tm'))
                => view'[c].tab = view[c].tab ]_vars

\* Closing a tab leaves no connected client looking at a tab that is gone,
\* also not one that an earlier pane exit had left behind.
CloseRepairsViews ==
    [][ (event'.name = "Destroy" /\ event'.arg \in TabIds(tm)) =>
            \A c \in Clients : view'[c].on =>
                IF tm'.tabs = <<>> THEN view'[c].tab = None
                ELSE view'[c].tab \in TabIds(tm') ]_vars

\* Typed bytes go to the pane the client has focused in its own tab, wherever
\* other clients and the control socket have taken the shared focus.
InputReachesOwnPane ==
    [][ \A c \in Clients :
            (event' = [name |-> "Input", by |-> c, arg |-> None] /\ view[c].tab \in TabIds(tm)) =>
                /\ ActiveTabId(tm') = view[c].tab
                /\ view[c].focus \in PaneIdsForTab(tm, view[c].tab)
                       => FocusedPaneOf(tm') = view[c].focus ]_vars

\* A client that types is not left behind on a tab that is gone.
TypingRecovers ==
    [][ \A c \in Clients :
            (event' = [name |-> "Input", by |-> c, arg |-> None]
                 /\ view[c].tab # None /\ tm.tabs # <<>>)
                => view'[c].tab \in TabIds(tm') ]_vars

\* A subscribed client that acts on the shared tabs gets, with the state that
\* names the panes of its tab, the screen of every one of them.
ActorIsShownItsTab ==
    [][ \A c \in Clients :
            (event'.by = c /\ event'.name \in {"Create", "Destroy", "Action", "AppEvent", "NewSplit"}
                 /\ view'[c].on /\ view'[c].sub)
                => sent'[c].panes \subseteq sent'[c].screens ]_vars

-----------------------------------------------------------------------------
(* "Render all visible panes for the viewed tab" and "scope non-focused    *)
(* pane streaming to panes visible on that screen"                         *)
(* (docs/remote/implementation-checklist.md).                              *)

\* A split is shown to everyone who looks at the tab.  It is not: the others
\* are told of the new pane, but visible_pane_ids of their views is only
\* brought up to date when they act themselves.
SplitShownToPeers ==
    [][ event'.name = "NewSplit" =>
            \A c \in Clients :
                (view'[c].on /\ view'[c].sub /\ event'.arg \in sent'[c].panes)
                    => event'.arg \in sent'[c].screens ]_vars
=============================================================================
