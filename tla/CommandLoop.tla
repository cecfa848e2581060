------------------------------ MODULE CommandLoop ------------------------------
(***************************************************************************)
(* The main thread of the headless server (run_headless, BooApp::update)   *)
(* and the threads that give it work: a connection of the control socket,  *)
(* a reader of a local or remote stream, the worker of a pane.  Each puts  *)
(* its work where the main thread finds it and then, in a step of its own, *)
(* raises the flag the main thread sleeps on.                              *)
(*                                                                         *)
(*    pc       where the main thread is: before the gate is installed      *)
(*             ("boot"), at the start of update ("poll"), at a channel, at *)
(*             the end of update ("publish"), or asleep: after a whole     *)
(*             turn ("wait") or after one that only loaded a font          *)
(*             ("skipped")                                                 *)
(*    pending  HeadlessWakeGate.pending                                    *)
(*    more     more_server_cmds_pending                                    *)
(*    budget   local_gui_cmd_budget, then remote_cmd_budget                *)
(*    queue    per channel (ctl_rx, local_gui_rx, remote_rx), the threads  *)
(*             whose commands wait in it                                   *)
(*    owing    the threads that left work and have not raised the flag yet *)
(*    fresh    the panes with output that was not polled yet               *)
(*    dirty    the panes with output polled and not published yet          *)
(*    fonts    pending_font_bytes is some                                  *)
(*                                                                         *)
(* A thread has one command in its channel; a connection that queues many  *)
(* stands for as many threads.  The panes are those of the active tab, the *)
(* only ones that are polled, and somebody is subscribed to it.            *)
(***************************************************************************)
EXTENDS Naturals, Sequences

CONSTANTS
    ControlThreads,  \* connections of the control socket
    LocalThreads,    \* readers of the local stream socket
    RemoteThreads,   \* readers of QUIC connections
    Panes,           \* the workers of the panes
    LocalBudget,     \* LOCAL_GUI_CMD_DRAIN_BUDGET
    RemoteBudget,    \* REMOTE_CMD_DRAIN_BUDGET
    FontFiles        \* whether resolve_linux_font finds files: never but on Linux

ASSUME BudgetsAssumption == LocalBudget \in Nat \ {0} /\ RemoteBudget \in Nat \ {0}

ASSUME FontsAssumption == FontFiles \in BOOLEAN

VARIABLES pc, pending, more, budget, queue, owing, fresh, dirty, fonts

vars == <<pc, pending, more, budget, queue, owing, fresh, dirty, fonts>>

Channels == {"control", "local", "remote"}

Streams == {"local", "remote"}

Senders(ch) ==
    CASE ch = "control" -> ControlThreads
      [] ch = "local" -> LocalThreads
      [] ch = "remote" -> RemoteThreads

Threads == ControlThreads \cup LocalThreads \cup RemoteThreads \cup Panes

TypeOK ==
    /\ pc \in {"boot", "poll", "control", "local", "remote", "publish", "wait", "skipped"}
    /\ pending \in BOOLEAN
    /\ more \in BOOLEAN
    /\ budget \in Nat
    /\ queue \in [Channels -> Seq(Threads)]
    /\ owing \in SUBSET Threads
    /\ fresh \in SUBSET Panes
    /\ dirty \in SUBSET Panes
    /\ fonts \in BOOLEAN

Init ==
    /\ pc = "boot"
    /\ pending = FALSE
    /\ more = FALSE
    /\ budget = 0
    /\ queue = [ch \in Channels |-> <<>>]
    /\ owing = {}
    /\ fresh = {}
    /\ dirty = {}
    /\ fonts \in {FALSE, FontFiles}

Queued(ch, t) == \E i \in 1..Len(queue[ch]) : queue[ch][i] = t

-----------------------------------------------------------------------------
(* The threads that give work.                                             *)

\* read_loop, up to cmd_tx.send.
Send(ch, t) ==
    /\ t \in Senders(ch)
    /\ t \notin owing
    /\ ~Queued(ch, t)
    /\ queue' = [queue EXCEPT ![ch] = Append(@, t)]
    /\ owing' = owing \cup {t}
    /\ UNCHANGED <<pc, pending, more, budget, fresh, dirty, fonts>>

\* dispatch_request, up to tx.send.  The wait for a reply, which gives up after
\* CONTROL_REPLY_TIMEOUT, leaves the command where it is.
Request(t) == Send("control", t)

\* Mutant: new output alone does not wake the server.
OutputSilently(p) ==
    /\ p \notin owing
    /\ fresh' = fresh \cup {p}
    /\ UNCHANGED <<pc, pending, more, budget, queue, owing, dirty, fonts>>

\* worker_loop, up to the end of its lock on the shared state.
Output(p) ==
    /\ p \notin owing
    /\ fresh' = fresh \cup {p}
    /\ owing' = owing \cup {p}
    /\ UNCHANGED <<pc, pending, more, budget, queue, dirty, fonts>>

\* notify_headless_wakeup, which does nothing until the gate is installed.
Notify(t) ==
    /\ t \in owing
    /\ owing' = owing \ {t}
    /\ pending' = (pending \/ pc # "boot")
    /\ UNCHANGED <<pc, more, budget, queue, fresh, dirty, fonts>>

-----------------------------------------------------------------------------
(* The main thread.                                                        *)

\* install_headless_waker, after new_headless has started the listeners.
InstallWaker ==
    /\ pc = "boot"
    /\ pc' = "poll"
    /\ UNCHANGED <<pending, more, budget, queue, owing, fresh, dirty, fonts>>

\* update hands a new font to iced and returns before it looks at any channel.
LoadFont ==
    /\ pc = "poll"
    /\ fonts
    /\ fonts' = FALSE
    /\ pc' = "skipped"
    /\ UNCHANGED <<pending, more, budget, queue, owing, fresh, dirty>>

\* poll_backend.
Poll ==
    /\ pc = "poll"
    /\ ~fonts
    /\ dirty' = dirty \cup fresh
    /\ fresh' = {}
    /\ more' = FALSE
    /\ pc' = "control"
    /\ UNCHANGED <<pending, budget, queue, owing, fonts>>

\* handle_server_cmd, of which only ReloadConfig concerns the loop: it resolves
\* the font again.
HandleFirst(ch) ==
    /\ queue' = [queue EXCEPT ![ch] = Tail(@)]
    /\ fonts' \in {fonts, FALSE, FontFiles}

\* At most one command of the control socket.
ServeControl ==
    /\ pc = "control"
    /\ IF queue["control"] # <<>> THEN HandleFirst("control") ELSE UNCHANGED <<queue, fonts>>
    /\ budget' = LocalBudget
    /\ pc' = "local"
    /\ UNCHANGED <<pending, more, owing, fresh, dirty>>

\* A command of a stream within the budget.
ServeStream(ch) ==
    /\ pc = ch
    /\ budget > 0
    /\ queue[ch] # <<>>
    /\ HandleFirst(ch)
    /\ budget' = budget - 1
    /\ UNCHANGED <<pc, pending, more, owing, fresh, dirty>>

\* The end of the loop over a stream: the channel is empty or the budget spent.
LeaveStream(ch) ==
    /\ pc = ch
    /\ budget = 0 \/ queue[ch] = <<>>
    /\ more' = (more \/ budget = 0)
    /\ budget' = IF ch = "local" THEN RemoteBudget ELSE budget
    /\ pc' = IF ch = "local" THEN "remote" ELSE "publish"
    /\ UNCHANGED <<pending, queue, owing, fresh, dirty, fonts>>

\* Mutant: the rest of a channel waits for the next wakeup.
PublishOnly ==
    /\ pc = "publish"
    /\ dirty' = {}
    /\ pc' = "wait"
    /\ UNCHANGED <<pending, more, budget, queue, owing, fresh, fonts>>

\* Dirty tabs are published, and the server wakes itself for what it left.
Publish ==
    /\ pc = "publish"
    /\ dirty' = {}
    /\ pending' = (pending \/ more)
    /\ pc' = "wait"
    /\ UNCHANGED <<more, budget, queue, owing, fresh, fonts>>

\* wait_for_headless_wakeup.
Wake ==
    /\ pc \in {"wait", "skipped"}
    /\ pending
    /\ pending' = FALSE
    /\ pc' = "poll"
    /\ UNCHANGED <<more, budget, queue, owing, fresh, dirty, fonts>>

MainThread ==
    \/ InstallWaker
    \/ LoadFont
    \/ Poll
    \/ ServeControl
    \/ \E ch \in Streams : ServeStream(ch)
    \/ \E ch \in Streams : LeaveStream(ch)
    \/ Publish
    \/ Wake

Next ==
    \/ \E ch \in Streams : \E t \in Senders(ch) : Send(ch, t)
    \/ \E t \in ControlThreads : Request(t)
    \/ \E p \in Panes : Output(p)
    \/ \E t \in Threads : Notify(t)
    \/ MainThread

\* The scheduler runs every thread that can run: the main thread, and one
\* between its send and its notification.  Nobody has to send anything.
Fairness == WF_vars(MainThread) /\ \A t \in Threads : WF_vars(Notify(t))

Spec == Init /\ [][Next]_vars /\ Fairness

-----------------------------------------------------------------------------
\* The server is asleep after a whole turn and nothing raised the flag.
Asleep == pc = "wait" /\ ~pending

\* The server does not sleep on a channel with a command in it, unless one of
\* the threads whose command it is will wake it next.
Attended(ch) == Asleep /\ queue[ch] # <<>> => \E t \in owing : Queued(ch, t)

\* No wakeup of a stream is lost: not when commands come in while the server
\* drains, when flags merge, when the budget cuts a burst short, nor when they
\* come before the gate is there.
NoLostWakeup == \A ch \in Streams : Attended(ch)

\* Every command of a stream is handled, however busy the other channels are,
\* unless a font is loaded on the turn it woke the server for.
StreamsServed ==
    \A ch \in Streams : \A t \in Senders(ch) :
        Queued(ch, t) ~> (~Queued(ch, t) \/ pc = "skipped")

\* The output of every pane is polled, with the same exception, and published.
OutputPublished ==
    \A p \in Panes :
        /\ p \in fresh ~> (p \in dirty \/ pc = "skipped")
        /\ p \in dirty ~> p \notin dirty

\* What comes in is served: the commands of the streams and the output of the panes.
WorkIsServed == StreamsServed /\ OutputPublished

\* A server with nothing else to do and nobody about to wake it has answered
\* the control socket (control.rs:36-37: a "request can complete very quickly
\* when the main thread is idle").
ControlAttended == Asleep /\ owing = {} => queue["control"] = <<>>
=============================================================================
