------------------------------- MODULE GuiStream -------------------------------
(***************************************************************************)
(* A desktop window (client_gui.rs) that shows the panes of one tab of the *)
(* server (runtime_server.rs) next to other clients, its peers, and what   *)
(* makes its screens disagree with the terminals.  The server keeps a view *)
(* per client, so that one window is enough: another one is a peer.        *)
(*                                                                         *)
(*    up        whether the window is connected                            *)
(*    term      per pane, the contents of its terminal                     *)
(*    tfocus    the focused pane of the tab                                *)
(*    rev       runtime_revision                                           *)
(*    dirty     the tab is in dirty_remote_tabs                            *)
(*    view      the window's ClientRuntimeView: the focused pane, the      *)
(*              view_revision, and the screens sent last on the stream of  *)
(*              the focused pane (last) and of the other panes (panes)     *)
(*    wire      the messages sent to the window and not yet handled        *)
(*    gui       the window: its focused_pane_id, its runtime_revision      *)
(*              (rev) and view_revision (vrev), and its pane_snapshots     *)
(*    settled   whether nobody else's command has changed a revision or    *)
(*              sent a state since the window last got a state of its own  *)
(*                                                                         *)
(* A screen is the pane it was taken from and its contents.  A delta is    *)
(* cut against a base; on another screen it leaves rows of both.  The tab  *)
(* keeps its panes.                                                        *)
(***************************************************************************)
EXTENDS Naturals, Sequences, SequencesExt

CONSTANTS
    Panes,        \* the panes of the tab
    Contents,     \* the contents a terminal may have
    None,         \* no screen, no pane
    Garbled,      \* rows of more than one screen
    Peers,        \* whether there are other clients
    Commands,     \* whether the control socket gets commands
    MaxRevision,  \* bound: runtime and view revisions
    MaxWire       \* bound: messages sent to the window and not yet handled

ASSUME NamesAssumption ==
    /\ None \notin Panes
    /\ {None, Garbled} \cap (Panes \X Contents) = {}
    /\ None # Garbled

ASSUME FlagsAssumption == Peers \in BOOLEAN /\ Commands \in BOOLEAN

ASSUME BoundsAssumption == MaxRevision \in Nat /\ MaxWire \in Nat

VARIABLES up, term, tfocus, rev, dirty, view, wire, gui, settled

vars == <<up, term, tfocus, rev, dirty, view, wire, gui, settled>>

Screens == Panes \X Contents

ViewType ==
    [focus : Panes, rev : Nat, last : Screens \cup {None},
     panes : [Panes -> Screens \cup {None}]]

GuiType ==
    [focus : Panes \cup {None}, rev : Nat, vrev : Nat,
     screens : [Panes -> Screens \cup {None, Garbled}]]

Message ==
    [kind : {"state"}, focus : Panes, rev : Nat, vrev : Nat]
        \cup [kind : {"focused"}, base : Screens \cup {None}, screen : Screens]
        \cup [kind : {"pane"}, pane : Panes, base : Screens \cup {None}, screen : Screens,
              rev : Nat]

TypeOK ==
    /\ up \in BOOLEAN
    /\ term \in [Panes -> Contents]
    /\ tfocus \in Panes
    /\ rev \in Nat
    /\ dirty \in BOOLEAN
    /\ view \in ViewType
    /\ wire \in Seq(Message)
    /\ gui \in GuiType
    /\ settled \in BOOLEAN

NoScreens == [p \in Panes |-> None]

Init ==
    /\ up = FALSE
    /\ term \in [Panes -> Contents]
    /\ tfocus \in Panes
    /\ rev = 1
    /\ dirty = FALSE
    /\ view = [focus |-> tfocus, rev |-> 1, last |-> None, panes |-> NoScreens]
    /\ wire = <<>>
    /\ gui = [focus |-> None, rev |-> 0, vrev |-> 0, screens |-> NoScreens]
    /\ settled = FALSE

-----------------------------------------------------------------------------
(* What the server sends.                                                  *)

\* Mutant: the new revision does not make the server forget what it sent.
TouchedKeepingScreens(p) == [view EXCEPT !.focus = p, !.rev = @ + 1]

\* touch_view, with the focused pane of the view set.
Touched(p) == [focus |-> p, rev |-> view.rev + 1, last |-> None, panes |-> NoScreens]

\* Mutant: no default for a view that follows the focus of the tab.
StateOfNoFallback(v, r) ==
    <<[kind |-> "state", focus |-> IF v.focus = tfocus THEN None ELSE v.focus,
       rev |-> r, vrev |-> v.rev]>>

\* ui_runtime_state_for_client.
StateOf(v, r) == <<[kind |-> "state", focus |-> v.focus, rev |-> r, vrev |-> v.rev]>>

\* ui_runtime_state: of no client, with revisions of its own.
SharedState(focus) == <<[kind |-> "state", focus |-> focus, rev |-> 1, vrev |-> 1]>>

ScreenOf(p) == <<p, term[p]>>

\* publish_remote_tab, for a view: the focused pane, then the others.
ScreensFor(v, r) ==
    <<[kind |-> "focused", base |-> v.last, screen |-> ScreenOf(v.focus)]>>
        \o SetToSeq({[kind |-> "pane", pane |-> p, base |-> v.panes[p],
                      screen |-> ScreenOf(p), rev |-> r] : p \in Panes \ {v.focus}})

AllSent(v) ==
    [v EXCEPT !.last = ScreenOf(v.focus),
              !.panes = [p \in Panes |-> IF p = v.focus THEN @[p] ELSE ScreenOf(p)]]

Send(messages) ==
    /\ Len(wire) + Len(messages) <= MaxWire
    /\ wire' = wire \o messages

\* The window, if connected, is sent a state, or none, and the screens for v.
Publish(v, state) ==
    IF up
    THEN /\ Send(state \o ScreensFor(v, rev'))
         /\ view' = AllSent(v)
    ELSE UNCHANGED <<wire, view>>

Bump ==
    /\ rev < MaxRevision
    /\ rev' = rev + 1

MayTouch == up /\ view.rev < MaxRevision

-----------------------------------------------------------------------------
(* The turns of the server.                                                *)

\* poll_backend: a terminal of the tab has new contents.
Output(p, contents) ==
    /\ contents # term[p]
    /\ term' = [term EXCEPT ![p] = contents]
    /\ dirty' = TRUE
    /\ UNCHANGED <<up, tfocus, rev, view, wire, gui, settled>>

\* The end of BooApp::update: dirty tabs are published.
PublishDirty ==
    /\ dirty
    /\ dirty' = FALSE
    /\ UNCHANGED <<up, term, tfocus, rev, gui, settled>>
    /\ Publish(view, <<>>)

\* RemoteConnected, for a window that starts or comes back after its stream
\* broke: a view from ClientRuntimeView::idle, and whatever was on its way lost.
Connect ==
    LET v == [Touched(tfocus) EXCEPT !.rev = 2]
    IN  /\ up' = TRUE
        /\ view' = AllSent(v)
        /\ wire' = StateOf(v, rev) \o ScreensFor(v, rev)
        /\ settled' = TRUE
        /\ UNCHANGED <<term, tfocus, rev, dirty, gui>>

\* RemoteInput, RemoteKey, or a key event no binding consumes: the input goes to
\* the pane the window's view is focused on, and no state goes back.
Type ==
    /\ MayTouch
    /\ tfocus' = view.focus
    /\ view' = Touched(view.focus)
    /\ dirty' = TRUE
    /\ UNCHANGED <<up, term, rev, wire, gui, settled>>

\* RemoteAppMouseEvent that changes nothing, such as a cursor that moves.
MoveMouse ==
    /\ MayTouch
    /\ tfocus' = view.focus
    /\ view' = Touched(view.focus)
    /\ UNCHANGED <<up, term, rev, dirty, wire, gui, settled>>

\* A key bound to an action, a click, a wheel or a command: the action may focus
\* any pane p, the view follows, and every client gets a state and the screens.
Binding(p) ==
    /\ MayTouch
    /\ Bump
    /\ tfocus' = p
    /\ settled' = TRUE
    /\ UNCHANGED <<up, term, dirty, gui>>
    /\ Publish(Touched(p), StateOf(Touched(p), rev'))

\* SetViewedTab, a click on the tab.
SelectTab ==
    /\ MayTouch
    /\ Bump
    /\ settled' = TRUE
    /\ UNCHANGED <<up, term, tfocus, dirty, gui>>
    /\ Publish(Touched(tfocus), StateOf(Touched(tfocus), rev'))

-----------------------------------------------------------------------------
(* The other clients.                                                      *)

\* Input from a peer whose view is focused on p.
PeerTypes(p) ==
    /\ Peers
    /\ tfocus' = p
    /\ dirty' = TRUE
    /\ UNCHANGED <<up, term, rev, view, wire, gui, settled>>

\* RemoteConnected of a peer: the tab is published to all its viewers.
PeerConnects ==
    /\ Peers
    /\ UNCHANGED <<up, term, tfocus, rev, dirty, gui, settled>>
    /\ Publish(view, <<>>)

\* broadcast_runtime_view_to_all_viewers after an action of a peer, which may
\* focus any pane, or after sweep_idle_views expired one: the window's view is as
\* it was, and its state tells a view revision the window may not have seen.
PeerActs(p) ==
    /\ Peers
    /\ Bump
    /\ tfocus' = p
    /\ settled' = FALSE
    /\ UNCHANGED <<up, term, dirty, gui>>
    /\ Publish(view, StateOf(view, rev'))

\* SetViewedTab or RemoteFocusPane of a peer, who alone gets a state.
PeerSelects ==
    /\ Peers
    /\ Bump
    /\ settled' = FALSE
    /\ UNCHANGED <<up, term, tfocus, dirty, gui>>
    /\ Publish(view, <<>>)

\* publish_local_gui_after_ui_action, for a command of the control socket that
\* may focus any pane p or resize the panes.  The window tells its size there.
ControlCommand(p, resized) ==
    /\ Commands
    /\ up
    /\ tfocus' = p
    /\ settled' = FALSE
    /\ UNCHANGED <<up, term, rev, dirty, gui>>
    /\ IF p # tfocus \/ resized
       THEN Publish(view, SharedState(p))
       ELSE Send(SharedState(p)) /\ UNCHANGED view

-----------------------------------------------------------------------------
(* The window.                                                             *)

\* apply_remote_delta_snapshot, and a full state where base is None.
Shown(held, base, screen) ==
    CASE base = None -> screen
      [] base # None /\ held \in {None, Garbled} -> held
      [] base # None /\ held \in Screens ->
            IF held = base THEN screen ELSE IF base = screen THEN held ELSE Garbled

\* apply_ui_runtime_state.
WithState(m) ==
    [focus |-> m.focus, rev |-> m.rev, vrev |-> m.vrev,
     screens |-> IF gui.vrev # 0 /\ m.vrev # gui.vrev THEN NoScreens ELSE gui.screens]

\* FullState and Delta, for the pane the window takes for the focused one.
WithFocused(m) ==
    IF gui.focus = None THEN gui
    ELSE [gui EXCEPT !.screens[gui.focus] = Shown(@, m.base, m.screen)]

Stale(m) == IF m.base = None THEN m.rev < gui.rev ELSE m.rev # gui.rev

\* UiPaneFullState and UiPaneDelta.
WithPane(m) ==
    IF Stale(m) THEN gui ELSE [gui EXCEPT !.screens[m.pane] = Shown(@, m.base, m.screen)]

\* handle_stream_event.
Handle ==
    /\ wire # <<>>
    /\ LET m == Head(wire)
       IN  gui' = CASE m.kind = "state" -> WithState(m)
                    [] m.kind = "focused" -> WithFocused(m)
                    [] m.kind = "pane" -> WithPane(m)
    /\ wire' = Tail(wire)
    /\ UNCHANGED <<up, term, tfocus, rev, dirty, view, settled>>

Next ==
    \/ \E p \in Panes, contents \in Contents : Output(p, contents)
    \/ PublishDirty
    \/ Connect
    \/ Type
    \/ MoveMouse
    \/ \E p \in Panes : Binding(p)
    \/ SelectTab
    \/ \E p \in Panes : PeerTypes(p)
    \/ PeerConnects
    \/ \E p \in Panes : PeerActs(p)
    \/ PeerSelects
    \/ \E p \in Panes, resized \in BOOLEAN : ControlCommand(p, resized)
    \/ Handle

Spec == Init /\ [][Next]_vars

-----------------------------------------------------------------------------
\* Nothing is left to publish or to handle.
Quiet == up /\ ~dirty /\ wire = <<>>

\* The window shows every terminal as it is once it has handled all it was sent:
\* no cleared snapshot, skipped delta or revision that is behind leaves it stale.
UpToDate == Quiet => \A p \in Panes : gui.screens[p] = ScreenOf(p)

\* The same as long as nobody else disturbs: whatever a window missed, a bound
\* key, a click on the tab or a reconnection repairs, and its own input, mouse
\* and output in any order do no harm.
SettledUpToDate == settled => UpToDate

\* The window applies no delta to a screen it was not cut against.
NothingGarbled == \A p \in Panes : gui.screens[p] # Garbled
=============================================================================
