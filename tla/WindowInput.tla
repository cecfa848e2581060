------------------------------ MODULE WindowInput ------------------------------
(***************************************************************************)
(* What a desktop window (client_gui.rs) does with what its user types, and *)
(* how it comes to life and comes back.  The window has a stream, which a  *)
(* subscription opens again whenever it ends, and falls back to a request  *)
(* on the control socket when the stream is not ready.  The server         *)
(* (runtime.rs, runtime_server.rs) reads both, and the first turn of its    *)
(* main thread opens the first tab after the commands of that turn.        *)
(*                                                                         *)
(*    server   the server: its tabs (a number), whether init_surface ran   *)
(*             (initialized), the connections it knows (clients) and those *)
(*             subscribed to the runtime (viewers), and its last_size      *)
(*    link     whether the window reaches the sockets of the server, which *)
(*             a tunnel may forward (launch.rs)                            *)
(*    stream   the connection the subscription holds, 0 for none           *)
(*    made     the connections made so far                                 *)
(*    wire     per connection, the commands of the window on their way     *)
(*    local    local_gui_rx, the commands read from the streams            *)
(*    control  ctl_rx, the requests of this window                         *)
(*    inbox    the messages of iced that update has not handled            *)
(*    win      the window: its mode ("exited" after should_exit), the      *)
(*             connection of its stream_tx, whether it waits for a         *)
(*             snapshot (asking), and last_requested_viewport_points       *)
(*    typed    the keys typed so far; key k is the k-th                    *)
(*    via      per key, the connection it was given to, 0 for the control  *)
(*             socket, Nowhere for a key the window dropped                *)
(*    seen     the keys the panes got, in order                            *)
(*    excused  what the faults of the run excuse: the keys that may be     *)
(*             lost, whether a key may overtake others on the control      *)
(*             socket, whether the size may be lost, whether the window    *)
(*             found an empty server                                       *)
(*    faults   the faults so far                                           *)
(***************************************************************************)
EXTENDS Naturals, Sequences, SequencesExt, FiniteSets

CONSTANTS
    Nowhere,    \* no path
    MaxKeys,    \* bound: keys typed
    MaxSizes,   \* bound: sizes the window is given
    MaxActs,    \* bound: keys and sizes together
    MaxFaults   \* bound: cuts, restarts and times the last tab ends

NowhereAssumption == Nowhere \notin Nat

BoundsAssumption == {MaxKeys, MaxSizes, MaxActs, MaxFaults} \subseteq Nat

VARIABLES server, link, stream, made, wire, local, control, inbox, win,
          typed, via, seen, excused, faults

vars == <<server, link, stream, made, wire, local, control, inbox, win,
          typed, via, seen, excused, faults>>

Keys == 1..MaxKeys

\* The size of the window is the number of times it changed, 0 for none yet.
WindowSizes == 0..MaxSizes

Conns == 1..(MaxFaults + 1)

Commands ==
    [kind : {"connected", "new-tab"}, by : Conns] \cup [kind : {"key"}, by : Conns, key : Keys]

Requests ==
    [kind : {"key"}, key : Keys] \cup [kind : {"size"}, size : WindowSizes] \cup [kind : {"snapshot"}]

Messages ==
    [kind : {"ready"}, by : Conns] \cup [kind : {"tabs", "state"}, tabs : Nat]
        \cup [kind : {"full", "disconnected"}]

Modes == {"bootstrapping", "active", "recovering", "exited"}

\* No key arrives twice, only clients are subscribed, and everything has its type.
TypeOK ==
    /\ server \in [tabs : Nat, initialized : BOOLEAN, clients : SUBSET Conns,
                   viewers : SUBSET Conns, size : WindowSizes]
    /\ server.viewers \subseteq server.clients
    /\ link \in BOOLEAN
    /\ stream \in {0, made}
    /\ made \in {0} \cup Conns
    /\ wire \in [Conns -> Seq(Commands)]
    /\ local \in Seq(Commands)
    /\ control \in Seq(Requests)
    /\ inbox \in Seq(Messages)
    /\ win \in [mode : Modes, tx : {0} \cup Conns, asking : BOOLEAN,
                size : WindowSizes]
    /\ typed \in 0..MaxKeys
    /\ via \in [Keys -> {0, Nowhere} \cup Conns]
    /\ seen \in Seq(1..typed)
    /\ IsInjective(seen)
    /\ excused \in [keys : SUBSET Keys, order : BOOLEAN, size : BOOLEAN, blank : BOOLEAN]
    /\ faults \in 0..MaxFaults

NewServer(tabs, initialized) ==
    [tabs |-> tabs, initialized |-> initialized, clients |-> {}, viewers |-> {},
     size |-> 0]

\* The window is opened next to a server that has yet to take its first turn,
\* that has a tab, or whose last tab has ended.
Init ==
    /\ \E s \in {<<0, FALSE>>, <<1, TRUE>>, <<0, TRUE>>} : server = NewServer(s[1], s[2])
    /\ link = TRUE
    /\ stream = 0
    /\ made = 0
    /\ wire = [c \in Conns |-> <<>>]
    /\ local = <<>>
    /\ control = <<>>
    /\ inbox = <<>>
    /\ win = [mode |-> "bootstrapping", tx |-> 0, asking |-> FALSE, size |-> 0]
    /\ typed = 0
    /\ via = [k \in Keys |-> Nowhere]
    /\ seen = <<>>
    /\ excused = [keys |-> {}, order |-> FALSE, size |-> FALSE, blank |-> FALSE]
    /\ faults = 0

-----------------------------------------------------------------------------
(* The user.  While the window waits for a snapshot nothing else is done.  *)

CanUpdate == win.mode # "exited" /\ ~win.asking

\* stream_ready_for_terminal_io.
Ready == win.tx # 0 /\ win.mode = "active"

\* send_stream_command: nothing tells of a connection that has ended.
GiveToStream(commands) ==
    IF win.tx = stream /\ link
    THEN wire' = [wire EXCEPT ![win.tx] = @ \o commands]
    ELSE UNCHANGED wire

\* Mutant: text from an input method always takes the control socket.
PathOfMixed(kind) ==
    IF Ready /\ kind = "event" THEN win.tx
    ELSE IF win.mode = "bootstrapping" THEN Nowhere ELSE 0

\* send_stream_or_control for a key event, send_text_input for text.
PathOf(kind) ==
    IF Ready THEN win.tx ELSE IF win.mode = "bootstrapping" THEN Nowhere ELSE 0

\* A key that will not arrive: no path, a path that has ended and the window has
\* yet to be told, or no tab.
Doomed(path) ==
    \/ path = Nowhere
    \/ ~link
    \/ path # 0 /\ \E i \in 1..Len(inbox) : inbox[i].kind = "disconnected"
    \/ server.tabs = 0

\* handle_keyboard, or handle_input_method with a text that is committed.  The
\* request on the control socket, and the one for a snapshot that follows, are
\* one step; the window then waits.
Type(kind) ==
    LET k == typed + 1
        path == PathOf(kind)
    IN  /\ CanUpdate
        /\ typed < MaxKeys
        /\ typed + win.size < MaxActs
        /\ typed' = k
        /\ via' = [via EXCEPT ![k] = path]
        /\ excused' = [excused EXCEPT !.keys = IF Doomed(path) THEN @ \cup {k} ELSE @]
        /\ IF path \in Conns
           THEN GiveToStream(<<[kind |-> "key", by |-> path, key |-> k]>>)
           ELSE UNCHANGED wire
        /\ IF path = 0 /\ link
           THEN /\ control' = control \o <<[kind |-> "key", key |-> k], [kind |-> "snapshot"]>>
                /\ win' = [win EXCEPT !.asking = TRUE]
           ELSE UNCHANGED <<control, win>>
        /\ UNCHANGED <<server, link, stream, made, local, inbox, seen, faults>>

\* Mutant: a window that has asked for a size asks for no other.
ResizeOnce(size) ==
    /\ CanUpdate
    /\ size = win.size + 1
    /\ typed + size <= MaxActs
    /\ win' = [win EXCEPT !.size = size]
    /\ control' = IF link /\ win.size = 0
                  THEN Append(control, [kind |-> "size", size |-> size]) ELSE control
    /\ excused' = [excused EXCEPT !.size = ~link]
    /\ UNCHANGED <<server, link, stream, made, wire, local, inbox, typed, via, seen, faults>>

\* send_resize, for a size that is not the last one: it is remembered whether or
\* not the request succeeds.
Resize(size) ==
    /\ CanUpdate
    /\ size = win.size + 1
    /\ typed + size <= MaxActs
    /\ win' = [win EXCEPT !.size = size]
    /\ control' = IF link THEN Append(control, [kind |-> "size", size |-> size]) ELSE control
    /\ excused' = [excused EXCEPT !.size = ~link]
    /\ UNCHANGED <<server, link, stream, made, wire, local, inbox, typed, via, seen, faults>>

-----------------------------------------------------------------------------
(* The messages of the stream.                                             *)

\* handle_stream_event for a TabList.  A window that is bootstrapping has no terminal
\* it could paint (has_paintable_terminal): the first one it gets is that of its
\* focused pane, which makes it active.
OnTabs(tabs) ==
    CASE win.mode = "bootstrapping" /\ tabs = 0 ->
             /\ GiveToStream(<<[kind |-> "new-tab", by |-> win.tx]>>)
             /\ excused' = [excused EXCEPT !.blank = TRUE]
             /\ UNCHANGED win
      [] win.mode # "bootstrapping" /\ tabs = 0 ->
             /\ win' = [win EXCEPT !.mode = "exited"]
             /\ UNCHANGED <<wire, excused>>
      [] tabs # 0 -> UNCHANGED <<win, wire, excused>>

\* handle_stream_event for a UiRuntimeState, with the same test.
OnState(tabs) ==
    IF win.mode = "bootstrapping" /\ tabs = 0
    THEN /\ GiveToStream(<<[kind |-> "new-tab", by |-> win.tx]>>)
         /\ UNCHANGED <<win, excused>>
    ELSE UNCHANGED <<win, wire, excused>>

\* Mutant: the window goes on with the stream it had.
OnDisconnectedKeepsStream == UNCHANGED <<win, wire, excused>>

\* handle_stream_event for Disconnected.
OnDisconnected ==
    /\ win' = [win EXCEPT !.tx = 0, !.mode = "recovering"]
    /\ UNCHANGED <<wire, excused>>

\* update, for the next message.
Update ==
    /\ CanUpdate
    /\ inbox # <<>>
    /\ inbox' = Tail(inbox)
    /\ LET m == Head(inbox)
       IN  CASE m.kind = "ready" ->
                    win' = [win EXCEPT !.tx = m.by] /\ UNCHANGED <<wire, excused>>
             [] m.kind = "tabs" -> OnTabs(m.tabs)
             [] m.kind = "state" -> OnState(m.tabs)
             [] m.kind = "full" ->
                    win' = [win EXCEPT !.mode = "active"] /\ UNCHANGED <<wire, excused>>
             [] m.kind = "disconnected" -> OnDisconnected
    /\ UNCHANGED <<server, link, stream, made, local, control, typed, via, seen, faults>>

\* get_ui_snapshot gives up after CONTROL_SOCKET_TIMEOUT.
GiveUp ==
    /\ win.asking
    /\ win' = [win EXCEPT !.asking = FALSE]
    /\ excused' = [excused EXCEPT !.order = TRUE]
    /\ UNCHANGED <<server, link, stream, made, wire, local, control, inbox, typed, via, seen,
                   faults>>

-----------------------------------------------------------------------------
(* The connection.                                                         *)

\* local_stream_subscription connects; the listener of the server inserts the
\* client and sends Connected.
Connect ==
    /\ stream = 0
    /\ link
    /\ win.mode # "exited"
    /\ made < MaxFaults + 1
    /\ made' = made + 1
    /\ stream' = made'
    /\ inbox' = Append(inbox, [kind |-> "ready", by |-> made'])
    /\ server' = [server EXCEPT !.clients = @ \cup {made'}]
    /\ local' = Append(local, [kind |-> "connected", by |-> made'])
    /\ UNCHANGED <<link, wire, control, win, typed, via, seen, excused, faults>>

\* read_loop reads the next command of a stream.
Deliver(c) ==
    /\ wire[c] # <<>>
    /\ c \in server.clients
    /\ wire' = [wire EXCEPT ![c] = Tail(@)]
    /\ local' = Append(local, Head(wire[c]))
    /\ UNCHANGED <<server, link, stream, made, control, inbox, win, typed, via, seen, excused,
                   faults>>

\* read_loop meets the end of a stream that was cut and removes the client.
Notice(c) ==
    /\ c \in server.clients
    /\ c # stream
    /\ server' = [server EXCEPT !.clients = @ \ {c}, !.viewers = @ \ {c}]
    /\ wire' = [wire EXCEPT ![c] = <<>>]
    /\ UNCHANGED <<link, stream, made, local, control, inbox, win, typed, via, seen, excused,
                   faults>>

\* The stream of the window ends: of what was sent to it some last frames are
\* lost, and one of its threads emits Disconnected, the last event of the stream.
EndOfStream ==
    IF stream = 0
    THEN UNCHANGED <<stream, inbox>>
    ELSE /\ stream' = 0
         /\ \E n \in 0..Len(inbox) :
                /\ \A i \in (n + 1)..Len(inbox) : inbox[i].kind \notin {"ready", "disconnected"}
                /\ inbox' = Append(SubSeq(inbox, 1, n), [kind |-> "disconnected"])

NotSeen == (1..typed) \ {seen[i] : i \in 1..Len(seen)}

\* The tunnel ends.  A request that waits for its reply fails.
Cut ==
    /\ link
    /\ faults < MaxFaults
    /\ faults' = faults + 1
    /\ link' = FALSE
    /\ EndOfStream
    /\ win' = [win EXCEPT !.asking = FALSE]
    /\ excused' = [excused EXCEPT !.keys = @ \cup NotSeen, !.order = @ \/ win.asking]
    /\ UNCHANGED <<server, made, wire, local, control, typed, via, seen>>

\* The server ends and another one is started in its place.
Restart ==
    /\ faults < MaxFaults
    /\ faults' = faults + 1
    /\ link' = FALSE
    /\ EndOfStream
    /\ server' = NewServer(0, FALSE)
    /\ wire' = [c \in Conns |-> <<>>]
    /\ local' = <<>>
    /\ control' = <<>>
    /\ win' = [win EXCEPT !.asking = FALSE]
    /\ excused' = [excused EXCEPT !.keys = @ \cup NotSeen, !.size = TRUE]
    /\ UNCHANGED <<made, typed, via, seen>>

\* The tunnel or the new server answers.
Mend ==
    /\ ~link
    /\ link' = TRUE
    /\ UNCHANGED <<server, stream, made, wire, local, control, inbox, win, typed, via, seen,
                   excused, faults>>

-----------------------------------------------------------------------------
(* The main thread of the server.  Its state, the keys it passed on, and    *)
(* the messages to the window, are changed together.                       *)

Tell(s, c, messages) ==
    IF c = stream /\ c \in s.server.clients THEN [s EXCEPT !.out = @ \o messages] ELSE s

TabsAndState(tabs) == <<[kind |-> "tabs", tabs |-> tabs], [kind |-> "state", tabs |-> tabs]>>

FullState == <<[kind |-> "full"]>>

\* broadcast_runtime_view_to_all_viewers: the tab list and the screens are for
\* the viewers, the state is for every client.
Broadcast(s) ==
    LET open == s.server.tabs
    IN  IF stream \in s.server.viewers
        THEN Tell(s, stream, TabsAndState(open) \o (IF open = 0 THEN <<>> ELSE FullState))
        ELSE Tell(s, stream, <<[kind |-> "state", tabs |-> open]>>)

\* Mutant: a client is subscribed and sent no screens.
OnConnectedQuietly(s, c) ==
    Tell([s EXCEPT !.server.viewers = IF s.server.tabs = 0 THEN @ \ {c} ELSE @ \cup {c}],
         c, TabsAndState(s.server.tabs))

\* Mutant: a client that is gone already is subscribed.
OnConnectedAnyone(s, c) ==
    IF s.server.tabs = 0
    THEN Tell([s EXCEPT !.server.viewers = @ \ {c}], c, TabsAndState(0))
    ELSE Tell([s EXCEPT !.server.viewers = @ \cup {c}], c,
              TabsAndState(s.server.tabs) \o FullState)

\* RemoteConnected, sync_remote_client_runtime_view: subscribed if there is a tab.
OnConnected(s, c) ==
    IF c \notin s.server.clients THEN s
    ELSE IF s.server.tabs = 0
    THEN Tell([s EXCEPT !.server.viewers = @ \ {c}], c, TabsAndState(0))
    ELSE Tell([s EXCEPT !.server.viewers = @ \cup {c}], c,
              TabsAndState(s.server.tabs) \o FullState)

\* create_remote_runtime_tab, which asks for no client.
OnNewTab(s) == Broadcast([s EXCEPT !.server.tabs = @ + 1])

\* RemoteAppKeyEvent and RemoteInput: a client with a view on a tab.
OnKey(s, c, k) ==
    IF c \in s.server.clients /\ c \in s.server.viewers /\ s.server.tabs # 0
    THEN [s EXCEPT !.seen = Append(@, k)] ELSE s

OnCommand(s, m) ==
    CASE m.kind = "connected" -> OnConnected(s, m.by)
      [] m.kind = "new-tab" -> OnNewTab(s)
      [] m.kind = "key" -> OnKey(s, m.by, m.key)

\* AppKeyEvent and SendText, ResizeViewportPoints, GetUiSnapshot.
OnRequest(s, m) ==
    CASE m.kind = "key" ->
             IF s.server.tabs # 0 THEN [s EXCEPT !.seen = Append(@, m.key)] ELSE s
      [] m.kind = "size" -> [s EXCEPT !.server.size = m.size]
      [] m.kind = "snapshot" -> s

\* init_surface, for a server without tabs, once.
Surface(s) ==
    IF s.server.tabs = 0 /\ ~s.server.initialized
    THEN [s EXCEPT !.server.tabs = 1, !.server.initialized = TRUE] ELSE s

Answers == control # <<>> /\ Head(control).kind = "snapshot"

\* BooApp::update: one request of the control socket, one command of the local
\* streams (LOCAL_GUI_CMD_DRAIN_BUDGET), and the first tab.
Turn ==
    LET s0 == [server |-> server, seen |-> seen, out |-> <<>>]
        s1 == IF control = <<>> THEN s0 ELSE OnRequest(s0, Head(control))
        s2 == IF local = <<>> THEN s1 ELSE OnCommand(s1, Head(local))
    IN  /\ control # <<>> \/ local # <<>> \/ (server.tabs = 0 /\ ~server.initialized)
        /\ \E s \in {Surface(s2)} :
               /\ server' = s.server
               /\ seen' = s.seen
               /\ inbox' = inbox \o s.out
        /\ control' = IF control = <<>> THEN control ELSE Tail(control)
        /\ local' = IF local = <<>> THEN local ELSE Tail(local)
        /\ win' = [win EXCEPT !.asking = @ /\ ~Answers]
        /\ UNCHANGED <<link, stream, made, wire, typed, via, excused, faults>>

\* poll_backend: the shells of all tabs end, in a turn without commands.
LastTabEnds ==
    /\ server.tabs # 0
    /\ faults < MaxFaults
    /\ faults' = faults + 1
    /\ \E s \in {[server |-> [server EXCEPT !.tabs = 0], seen |-> seen, out |-> <<>>]} :
           \E t \in {Surface(IF s.server.viewers = {} THEN s ELSE Broadcast(s))} :
               /\ server' = t.server
               /\ inbox' = inbox \o t.out
    /\ excused' = [excused EXCEPT !.keys = @ \cup NotSeen]
    /\ UNCHANGED <<link, stream, made, wire, local, control, win, typed, via, seen>>

-----------------------------------------------------------------------------

UserActs == (\E kind \in {"event", "text"} : Type(kind)) \/ (\E size \in WindowSizes : Resize(size))

Works ==
    \/ Update
    \/ Connect
    \/ Mend
    \/ Turn
    \/ \E c \in Conns : Deliver(c)

Fails == Cut \/ Restart \/ LastTabEnds \/ GiveUp

Next == UserActs \/ Works \/ Fails \/ (\E c \in Conns : Notice(c))

Spec == Init /\ [][Next]_vars

-----------------------------------------------------------------------------
(* Properties.                                                             *)

Position(k) == CHOOSE i \in 1..Len(seen) : seen[i] = k

Seen == {seen[i] : i \in 1..Len(seen)}

\* Two keys reach the panes in the order they were typed in, unless the first was
\* given to a stream that was cut before it arrived, or a request was given up.
KeysInOrder ==
    \A j, k \in Seen :
        (j < k /\ Position(j) > Position(k)) =>
            (j \in excused.keys /\ via[j] \in Conns) \/ excused.order

\* Nothing is on its way between the window and the server.
Quiet ==
    /\ win.mode # "exited"
    /\ link
    /\ stream # 0
    /\ inbox = <<>>
    /\ local = <<>>
    /\ control = <<>>
    /\ ~win.asking
    /\ \A c \in Conns : wire[c] = <<>>
    /\ server.initialized \/ server.tabs # 0

\* A key is lost only if it was typed before the first state of the window, on a
\* path that had ended, with no tab, or before a fault that took it away.
KeysArrive == Quiet => (1..typed) \ excused.keys \subseteq Seen

\* A window that still runs and is connected shows a terminal and takes keys: a
\* stream that ended was opened again.  Only a window that found the server
\* empty when it opened may not.
WindowIsLive == Quiet /\ ~excused.blank => win.mode = "active" /\ win.tx = stream

\* The server has the size the window asked for last, unless the request failed
\* or the server was started again: it is not repeated.
SizeFollows == Quiet /\ win.size # 0 /\ ~excused.size => server.size = win.size

\* "Interactive attach/connect keeps the one-shot explicit NewTab bootstrap for
\* empty runtimes" (docs/remote/runtime-view-todo-finish-plan.md:70-71): the
\* window shows the tab it made.  It does not: a client that connects to an empty
\* server is not subscribed, and nothing subscribes it when its tab is made.
BootstrapShowsATab == Quiet /\ faults = 0 /\ server.tabs # 0 => win.mode = "active"
=============================================================================
