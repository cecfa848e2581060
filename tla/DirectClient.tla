---------------------------- MODULE DirectClient ----------------------------
(***************************************************************************)
(* The commands that talk to a remote daemon over QUIC (remote_client.rs,  *)
(* remote_direct_transport.rs) and the daemon at the other end of their    *)
(* connection: the reader thread (remote_auth.rs), the main thread         *)
(* (runtime_server.rs) and the writer thread (module OutboundStream).      *)
(*                                                                         *)
(* A command opens a connection, says hello, sends a heartbeat, asks, and  *)
(* takes for its answers the first messages of the right types that the    *)
(* daemon sends.  But the daemon shows every client its screen from the    *)
(* moment it connects, and again at the hello; and windows elsewhere go on *)
(* changing the tabs.                                                      *)
(*                                                                         *)
(* The main thread runs one handler at a time, a function on the record of *)
(* its state, Now.  One connection at a time is modelled; commands of the  *)
(* one before may still wait for the main thread.                          *)
(***************************************************************************)
EXTENDS Naturals, Sequences, SequencesExt

CONSTANTS
    MaxCalls,   \* bound on the commands
    MaxTabs,    \* bound on the tabs there are at first
    MaxOthers,  \* bound on what others do and what goes wrong
    PaneCounts  \* how many panes a tab may show

ASSUME DirectAssumption ==
    /\ MaxCalls \in Nat /\ MaxTabs \in Nat /\ MaxOthers \in Nat
    /\ PaneCounts \subseteq Nat \ {0}

VARIABLES
    panes,      \* the panes of every tab
    tabs, active,
    tabId,      \* the last id handed out
    cache,      \* cached_remote_tabs: no list or one
    view,       \* the connection's ClientState, with the payloads sent last
    up,         \* requests written and not yet read
    cmds,       \* the channel to the main thread: connection and command
    queue, wire,\* messages for the client, before and after the writer thread
    conn,       \* the number of the connection
    call,       \* the command, where it is, and what it returned
    others,
    seen, made, \* history: the lists the server had during the call; tabs it made
    quiet,      \* history: nobody else has done anything during the call
    stale       \* history: a tab came or went and the cached list was kept

vars == <<panes, tabs, active, tabId, cache, view, up, cmds, queue, wire, conn, call,
          others, seen, made, quiet, stale>>

Out == INSTANCE OutboundStream WITH
    Focused <- 1, Passive <- Nat \ {0, 1}, Slots <- {"tabs", "state", "appearance"},
    TabList <- "tabs", Payloads <- {}, Sizes <- {}, Glyphs <- {}, Screens <- {},
    MaxUnderWay <- 0, local <- FALSE, last <- view, cached <- view, held <- view,
    shown <- view, owed <- <<>>

Control(slot, value) == [kind |-> "control", slot |-> slot, value |-> value]
Screen(pane) == [kind |-> "update", stream |-> pane]
Priority(what) == [kind |-> "priority", what |-> what]

\* read_probe_reply and read_probe_auth_reply take eight messages.
MaxReads == 8

\* cached: of every slot, the payload sent last.
NoView == [on |-> FALSE, sub |-> FALSE, tab |-> 0, cached |-> {}]

Jobs == {"probe", "list", "create"}
Calling == call.name \in Jobs

Init ==
    /\ panes \in PaneCounts
    /\ tabs \in {[i \in 1..n |-> i] : n \in 0..MaxTabs}
    /\ active = Len(tabs) /\ tabId = Len(tabs)
    /\ cache = {} /\ view = NoView
    /\ up = <<>> /\ cmds = <<>> /\ queue = <<>> /\ wire = <<>>
    /\ conn = 0 /\ call = [name |-> "none", step |-> "off", skipped |-> 0, answer |-> <<>>,
                            sure |-> TRUE]
    /\ others = 0 /\ seen = {tabs} /\ made = 0 /\ quiet = TRUE /\ stale = FALSE
------------------------------------------------------------------------------
(* The main thread.                                                        *)

Now == [tabs |-> tabs, active |-> active, tabId |-> tabId, cache |-> cache, view |-> view,
        queue |-> queue]

Becomes(after) ==
    \E s \in {after} :
        /\ tabs' = s.tabs /\ active' = s.active /\ tabId' = s.tabId
        /\ cache' = s.cache /\ view' = s.view /\ queue' = s.queue
        /\ seen' = IF Calling THEN seen \cup {s.tabs} ELSE seen

ActiveTab(s) == IF s.tabs = <<>> THEN 0 ELSE s.tabs[s.active]

\* current_remote_tabs.
RemoteTabs(s) == IF s.cache = {} THEN [s EXCEPT !.cache = {s.tabs}] ELSE s
CurrentTabs(s) == CHOOSE list \in s.cache : TRUE

\* Mutant: every payload is sent.
TellAlways(s, m) == [s EXCEPT !.queue = Append(@, m)]

\* send_cached_control_payload_bytes: no payload is sent twice in a row.
Tell(s, m) ==
    IF m \in s.view.cached THEN s
    ELSE [s EXCEPT !.queue = Append(@, m),
                   !.view.cached = {n \in @ : n.slot # m.slot} \cup {m}]

TabList(s) == Control("tabs", CurrentTabs(s))
Appearance == Control("appearance", 0)

\* ui_runtime_state_for_client: the viewed tab; a new revision makes it another
\* payload.
State(s) == Control("state", IF s.view.tab # 0 THEN s.view.tab ELSE ActiveTab(s))
Revised(s) == [s EXCEPT !.view.cached = {m \in @ : m.slot # "state"}]

Looking(s, tab) == IF s.view.on THEN [Revised(s) EXCEPT !.view.tab = tab] ELSE s

\* publish_remote_tab: every pane of the tab, for those who look at it.
Publish(s, tab) ==
    IF s.view.on /\ s.view.sub /\ s.view.tab = tab /\ tab \in ToSet(s.tabs)
    THEN [s EXCEPT !.queue = @ \o [i \in 1..panes |-> Screen(i)]]
    ELSE s

\* sync_remote_client_runtime_view.
Connected(s) ==
    LET shown == Looking(RemoteTabs(s), ActiveTab(s))
        told == Tell(Tell(Tell(shown, TabList(shown)), State(shown)), Appearance)
    IN  Publish([told EXCEPT !.view.sub = (ActiveTab(s) # 0)], ActiveTab(s))

\* RemoteListTabs: the reply is sent whatever was sent before.
ListTabs(s) ==
    LET listed == RemoteTabs(s)
        answered == [listed EXCEPT !.queue = Append(@, TabList(listed))]
    IN  Tell(Tell(answered, State(listed)), Appearance)

\* Mutant: only viewers are told the new state.
BroadcastToViewers(s) ==
    LET listed == Revised(RemoteTabs(s))
    IN  IF ~s.view.sub THEN listed
        ELSE Publish(Tell(Tell(Tell(listed, TabList(listed)), Appearance), State(listed)),
                     ActiveTab(s))

\* broadcast_runtime_view_to_all_viewers.
Broadcast(s) ==
    LET listed == Revised(RemoteTabs(s))
        told == IF s.view.sub THEN Tell(Tell(listed, TabList(listed)), Appearance) ELSE listed
    IN  IF s.view.on THEN Publish(Tell(told, State(listed)), ActiveTab(s)) ELSE listed

Invalidated(s) == [s EXCEPT !.cache = {}]

WithNewTab(s) ==
    [s EXCEPT !.tabs = Append(@, s.tabId + 1), !.active = Len(s.tabs) + 1, !.tabId = @ + 1]

\* Mutant: the tab list is kept.
NewTabCached(s) == Broadcast(Looking(WithNewTab(s), s.tabId + 1))

\* create_remote_runtime_tab.
NewTab(s) == Broadcast(Looking(Invalidated(WithNewTab(s)), s.tabId + 1))

\* The same when new_tab fails.
Refuse(s) == [s EXCEPT !.queue = Append(@, Priority("error"))]

\* Mutant: the active index stays.
WithoutTabOnly(s, i) == [s EXCEPT !.tabs = RemoveAt(@, i)]

WithoutTab(s, i) ==
    LET left == RemoveAt(s.tabs, i)
    IN  [s EXCEPT !.tabs = left,
                  !.active = IF s.active > i \/ s.active > Len(left) THEN s.active - 1 ELSE s.active]

\* repair_all_remote_views: a view of the closed tab goes to its neighbour.
Repaired(s, i) ==
    Looking(s, IF s.view.tab \in ToSet(s.tabs) THEN s.view.tab
               ELSE IF s.tabs = <<>> THEN 0
               ELSE s.tabs[IF i > Len(s.tabs) THEN Len(s.tabs) ELSE i])

\* destroy_remote_runtime_tab.
CloseTab(s, i) == Broadcast(Repaired(Invalidated(WithoutTab(s, i)), i))

\* poll_backend with terminal output of the active tab, or when the only pane
\* of a tab exits: the views are not moved, and without subscribers, or when no
\* tab is left, the list that is cached stays.
Output(s) == Publish(Invalidated(s), ActiveTab(s))
PaneExits(s, i, watched) ==
    LET left == WithoutTab(s, i)
    IN  IF ~watched THEN left
        ELSE IF left.tabs = <<>> THEN Broadcast(left)
        ELSE Output(left)

\* Commands of a connection that is gone find no client, those that need one do
\* nothing.
Handled(s, cmd) ==
    LET gone == cmd.conn # conn \/ ~s.view.on
    IN  CASE cmd.name = "connected" -> IF gone THEN RemoteTabs(s) ELSE Connected(s)
          [] cmd.name = "list"      -> IF gone THEN RemoteTabs(s) ELSE ListTabs(s)
          [] cmd.name = "create"    -> IF gone THEN Broadcast(Invalidated(WithNewTab(s)))
                                       ELSE NewTab(s)
          [] cmd.name = "refused"   -> IF gone THEN s ELSE Refuse(s)

Main ==
    /\ cmds # <<>>
    /\ Becomes(Handled(Now, Head(cmds)))
    /\ made' = IF Head(cmds).name = "create" /\ Head(cmds).conn = conn THEN made + 1 ELSE made
    /\ cmds' = Tail(cmds)
    /\ UNCHANGED <<panes, up, wire, conn, call, others, quiet, stale>>

Meddle ==
    /\ others < MaxOthers
    /\ others' = others + 1
    /\ quiet' = FALSE

\* The next command fails: a terminal cannot be started.
CreateFails ==
    /\ cmds # <<>> /\ Head(cmds).name = "create"
    /\ Meddle
    /\ cmds' = [cmds EXCEPT ![1].name = "refused"]
    /\ UNCHANGED <<panes, tabs, active, tabId, cache, view, up, queue, wire, conn, call, seen, made,
                   stale>>

\* What windows and programs elsewhere make the main thread do: tabs come and go
\* by commands,
Commanded ==
    /\ \/ Becomes(Broadcast(Invalidated(WithNewTab(Now))))
       \/ \E i \in DOMAIN tabs : Becomes(CloseTab(Now, i))
       \/ tabs # <<>> /\ Becomes(Output(Now))
    /\ UNCHANGED stale

\* or by a key binding or an exit, with the cached list left as it is.
Uncommanded ==
    /\ \/ Becomes(Broadcast(WithNewTab(Now)))
       \/ /\ panes = 1
          /\ \E i \in DOMAIN tabs, watched \in {TRUE, view.sub} :
                Becomes(PaneExits(Now, i, watched))
    /\ stale' = TRUE

Elsewhere ==
    /\ Meddle
    /\ Commanded \/ Uncommanded
    /\ UNCHANGED <<panes, up, cmds, wire, conn, call, made>>
------------------------------------------------------------------------------
(* The connection: listener, reader and writer threads.                    *)

\* run_remote_client_connection: over QUIC a client is authenticated before it
\* says anything, and connected before its hello.
Accept ==
    /\ ~view.on /\ up # <<>>
    /\ view' = [NoView EXCEPT !.on = TRUE]
    /\ cmds' = Append(cmds, [conn |-> conn, name |-> "connected"])
    /\ UNCHANGED <<panes, tabs, active, tabId, cache, up, queue, wire, conn, call, others,
                   seen, made, quiet, stale>>

\* read_loop: hellos and heartbeats are answered by the reader itself.
Read ==
    /\ view.on /\ up # <<>>
    /\ up' = Tail(up)
    /\ queue' = CASE Head(up) = "auth" -> Append(queue, Priority("authok"))
                  [] Head(up) = "beat" -> Append(queue, Priority("ack"))
                  [] Head(up) \in {"list", "create"} -> queue
    /\ cmds' = CASE Head(up) = "auth" -> Append(cmds, [conn |-> conn, name |-> "connected"])
                 [] Head(up) = "beat" -> cmds
                 [] Head(up) \in {"list", "create"} ->
                        Append(cmds, [conn |-> conn, name |-> Head(up)])
    /\ UNCHANGED <<panes, tabs, active, tabId, cache, view, wire, conn, call, others, seen,
                   made, quiet, stale>>

\* read_loop at the end of the stream.
Disconnect ==
    /\ view.on /\ up = <<>> /\ ~Calling
    /\ view' = NoView /\ queue' = <<>>
    /\ UNCHANGED <<panes, tabs, active, tabId, cache, up, cmds, wire, conn, call, others, seen,
                   made, quiet, stale>>

\* writer_loop, coalescing.
Write ==
    /\ Calling
    /\ \E n \in 1..Len(queue) :
        /\ wire' = wire \o Out!Batch(SubSeq(queue, 1, n))
        /\ queue' = SubSeq(queue, n + 1, Len(queue))
    /\ UNCHANGED <<panes, tabs, active, tabId, cache, view, up, cmds, conn, call, others, seen,
                   made, quiet, stale>>
------------------------------------------------------------------------------
(* The command.                                                            *)

server == <<panes, tabs, active, tabId, cache, view, cmds, queue, conn, others, made>>

\* connect_direct and connect_over_stream.
Begin ==
    /\ ~Calling /\ ~view.on /\ up = <<>>
    /\ conn < MaxCalls /\ conn' = conn + 1
    /\ \E job \in Jobs :
        call' = [name |-> job, step |-> "auth", skipped |-> 0, answer |-> <<>>, sure |-> TRUE]
    /\ up' = <<"auth">>
    /\ seen' = {tabs} /\ made' = 0 /\ quiet' = TRUE
    /\ UNCHANGED <<panes, tabs, active, tabId, cache, view, cmds, queue, wire, others, stale>>

\* The process ends.  quinn only buffers what it is given; what is not sent yet
\* is lost.
End(name, answer) ==
    /\ call' = [name |-> name, step |-> "off", skipped |-> 0, answer |-> answer, sure |-> ~stale]
    /\ wire' = <<>>
    /\ \E n \in 0..Len(up) : up' = SubSeq(up, 1, n)

Ask(step) ==
    /\ call' = [call EXCEPT !.step = step, !.skipped = 0]
    /\ up' = Append(up, step)
    /\ wire' = Tail(wire)

IsControl(m, slot) == m.kind = "control" /\ m.slot = slot

\* What read_probe_reply waits for.
Expected(m) ==
    CASE call.step = "auth" -> m = Priority("authok")
      [] call.step = "beat" -> m = Priority("ack")
      [] call.step = "list" -> IsControl(m, "tabs")

\* A reply to the hello or to the heartbeat, and the next request.
Answered ==
    /\ call.step \in {"auth", "beat"} /\ Expected(Head(wire))
    /\ IF call.step = "auth" THEN Ask("beat")
       ELSE IF call.name = "probe" THEN End("probed", <<>>)
       ELSE Ask(call.name)

Listed ==
    /\ call.step = "list" /\ Expected(Head(wire))
    /\ End("listed", Head(wire).value)

\* read_probe_reply on a message that is not the reply.
Skip ==
    /\ call.step \in {"auth", "beat", "list"} /\ ~Expected(Head(wire))
    /\ IF call.skipped + 1 = MaxReads THEN End("failed", <<>>)
       ELSE /\ call' = [call EXCEPT !.skipped = @ + 1]
            /\ wire' = Tail(wire)
            /\ UNCHANGED up

\* create_tab: the first runtime state with a viewed tab is the answer.
Created ==
    /\ call.step = "create"
    /\ IsControl(Head(wire), "state") /\ Head(wire).value # 0
    /\ End("created", <<Head(wire).value>>)

Rejected ==
    /\ call.step = "create" /\ Head(wire) = Priority("error")
    /\ End("failed", <<>>)

PassOver ==
    /\ call.step = "create"
    /\ Head(wire) # Priority("error")
    /\ ~(IsControl(Head(wire), "state") /\ Head(wire).value # 0)
    /\ wire' = Tail(wire)
    /\ UNCHANGED <<up, call>>

Receive ==
    /\ Calling /\ wire # <<>>
    /\ Answered \/ Listed \/ Skip \/ Created \/ Rejected \/ PassOver
    /\ UNCHANGED <<server, seen, quiet, stale>>

\* The connection breaks, or the process is killed.
Lost ==
    /\ Calling /\ Meddle
    /\ End("failed", <<>>)
    /\ UNCHANGED <<panes, tabs, active, tabId, cache, view, cmds, queue, conn, seen, made, stale>>
------------------------------------------------------------------------------
Next ==
    \/ Main \/ CreateFails \/ Elsewhere
    \/ Accept \/ Read \/ Disconnect \/ Write
    \/ Begin \/ Receive \/ Lost

Spec == Init /\ [][Next]_vars
------------------------------------------------------------------------------
Answer == [name |-> call.name, answer |-> call.answer]

\* A list that may be stale counts for no answer.
SureAnswer ==
    IF call.name = "listed" /\ ~call.sure THEN [name |-> "failed", answer |-> <<>>] ELSE Answer

Service == INSTANCE TabService WITH call <- SureAnswer

StrictService == INSTANCE TabService WITH call <- Answer

TypeOK ==
    /\ ToSet(tabs) \subseteq 1..tabId
    /\ active \in (IF tabs = <<>> THEN {0} ELSE 1..Len(tabs))
    /\ view.tab \in 0..tabId
    /\ view.sub => view.on
    /\ up \in Seq({"auth", "beat", "list", "create"})
    /\ \A i \in DOMAIN cmds :
        cmds[i] \in [conn : 1..conn, name : {"connected", "list", "create", "refused"}]
    /\ call.skipped \in 0..(MaxReads - 1)

\* The daemon and the commands implement TabService: whatever the reader, the
\* main and the writer thread race and coalesce, a list that is printed is one
\* the server had during the call (and not an older one from its cache, as long
\* as nobody has left a stale list there), the tab that is
\* printed was there, and one call makes one tab at most, of which nothing is
\* undone when the call fails.
ServesTabs == Service!Spec

\* The same of every list, those after a key binding or an exit included.
ServesCurrentTabs == StrictService!Spec

\* A call to a server that is left alone, whose tabs have one pane, does not
\* fail: the screens it is sent unasked do not use up the eight messages it
\* reads for each reply.
QuietServerAnswers == panes = 1 /\ quiet => call.name # "failed"

\* The same whatever is on screen.
ServerAnswers == quiet => call.name # "failed"

\* A call that waits has something to wait for, its request or a message for it:
\* no reply is withheld because it was sent before, lost between the threads or
\* coalesced away.  There is one exception: the tab made for the call was the
\* only one, and is closed before the writer has sent the state that shows it.
AnswerUnderWay ==
    Calling => \/ up # <<>> \/ cmds # <<>> \/ queue # <<>> \/ wire # <<>>
               \/ call.step = "create" /\ made > 0 /\ tabs = <<>>

\* Calls are answered: one that waits has an answer under way, and one to a server
\* that is left alone, whose tabs have one pane, does not fail.
CallsAreAnswered == TypeOK /\ AnswerUnderWay /\ QuietServerAnswers

\* remote-daemon-create prints the tab it has created.
CreatedTabIsNew ==
    [][call.name = "create" /\ call'.name = "created" => made > 0]_vars
=============================================================================
