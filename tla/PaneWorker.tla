----------------------------- MODULE PaneWorker -----------------------------
(***************************************************************************)
(* One pane of the server: the program in its pseudo terminal, the thread  *)
(* that reads its output (unix_pty.rs), the worker thread that owns the    *)
(* emulator (vt_backend_core.rs), and the main thread that polls the       *)
(* worker, sends it commands and, to close the pane, waits for it          *)
(* (backend.rs).  The worker's loop is one action per place where another  *)
(* thread can come in between.                                             *)
(*                                                                         *)
(* The emulator is reduced to how many chunks of output it has taken and   *)
(* its size; a chunk may carry a note: an OSC sequence for a finished      *)
(* command, a status component or a notification.  A refresh of the        *)
(* snapshot always succeeds, which leaves out the wait after a failed one. *)
(***************************************************************************)
EXTENDS Naturals, Sequences

CONSTANTS
    Sizes,          \* of the pane; SomeSize is the one it starts with
    SomeSize,
    PtyRoom,        \* input the pseudo terminal holds for the program
    MaxOutput,      \* bound: chunks the program writes
    MaxCommands     \* bound: commands sent before the close

ASSUME SizesAssumption == SomeSize \in Sizes

ASSUME BoundsAssumption == PtyRoom \in Nat /\ MaxOutput \in Nat /\ MaxCommands \in Nat

VARIABLES
    child,      \* the program: alive, input it has not read, chunks and notes written
    reader,     \* the reader thread
    events,     \* PtyReadEvents under way to the worker
    inbox,      \* WorkerCommands under way to the worker
    worker,     \* where the worker is in its loop
    pane,       \* what the worker owns
    shared,     \* WorkerState, under its lock
    main,       \* the main thread, with what it has taken from `shared'
    wake,       \* a headless wakeup is pending
    slot        \* what the number reader_fd stands for in the process

vars == <<child, reader, events, inbox, worker, pane, shared, main, wake, slot>>

ScreenType == [chunks : 0..MaxOutput, size : Sizes]

Commands == [op : {"Input", "Link", "Shutdown"}] \cup [op : {"Resize"}, size : Sizes]

TypeOK ==
    /\ child \in [alive : BOOLEAN, unread : 0..PtyRoom,
                  chunks : 0..MaxOutput, notes : 0..MaxOutput]
    /\ reader \in {"reading", "reaping", "done"}
    /\ events \in Seq({"text", "note", "exited"})
    /\ inbox \in Seq(Commands)
    /\ worker \in {"select", "commands", "events", "process", "publish", "wake",
                   "decide", "gone"}
    /\ pane \in [pending : 0..MaxOutput, term : ScreenType, snap : ScreenType,
                 notes : 0..MaxOutput, dirty : BOOLEAN, exited : BOOLEAN,
                 disconnected : BOOLEAN, changed : BOOLEAN]
    /\ shared \in [snap : ScreenType, notes : 0..MaxOutput, version : Nat, exited : BOOLEAN]
    /\ main \in [at : {"idle", "asking", "joining", "closed"}, replied : BOOLEAN,
                 snap : ScreenType, notes : 0..MaxOutput, version : Nat,
                 exited : BOOLEAN, sent : 0..MaxCommands, size : Sizes]
    /\ wake \in BOOLEAN
    /\ slot \in {"reader", "free", "stranger", "robbed"}

Blank == [chunks |-> 0, size |-> SomeSize]

\* VtPaneWorker::spawn and create_pane, which takes the first snapshot.
Init ==
    /\ child = [alive |-> TRUE, unread |-> 0, chunks |-> 0, notes |-> 0]
    /\ reader = "reading"
    /\ events = <<>>
    /\ inbox = <<>>
    /\ worker = "select"
    /\ pane = [pending |-> 0, term |-> Blank, snap |-> Blank, notes |-> 0, dirty |-> FALSE,
               exited |-> FALSE, disconnected |-> FALSE, changed |-> FALSE]
    /\ shared = [snap |-> Blank, notes |-> 0, version |-> 1, exited |-> FALSE]
    /\ main = [at |-> "idle", replied |-> FALSE, snap |-> Blank, notes |-> 0,
               version |-> 1, exited |-> FALSE, sent |-> 0, size |-> SomeSize]
    /\ wake = FALSE
    /\ slot = "reader"

-----------------------------------------------------------------------------
(* The program, and who else is in the process.                            *)

Writes(chunk) ==
    /\ child.alive
    /\ child.chunks < MaxOutput
    /\ reader = "reading"
    /\ child' = [child EXCEPT !.chunks = @ + 1, !.notes = @ + IF chunk = "note" THEN 1 ELSE 0]
    /\ events' = IF worker = "gone" THEN events ELSE Append(events, chunk)
    /\ UNCHANGED <<reader, inbox, worker, pane, shared, main, wake, slot>>

Reads ==
    /\ child.alive
    /\ child.unread > 0
    /\ child' = [child EXCEPT !.unread = @ - 1]
    /\ UNCHANGED <<reader, events, inbox, worker, pane, shared, main, wake, slot>>

Exits ==
    /\ child.alive
    /\ child' = [child EXCEPT !.alive = FALSE, !.unread = 0]
    /\ UNCHANGED <<reader, events, inbox, worker, pane, shared, main, wake, slot>>

\* A connection is accepted, a pane spawned: the lowest free number is taken.
StrangerOpens ==
    /\ slot = "free"
    /\ slot' = "stranger"
    /\ UNCHANGED <<child, reader, events, inbox, worker, pane, shared, main, wake>>

StrangerCloses ==
    /\ slot = "stranger"
    /\ slot' = "free"
    /\ UNCHANGED <<child, reader, events, inbox, worker, pane, shared, main, wake>>

-----------------------------------------------------------------------------
(* The reader thread.                                                      *)

\* close(reader_fd): of a number that is free it fails with EBADF.
CloseReaderFd ==
    slot' = CASE slot = "reader" -> "free" [] slot = "stranger" -> "robbed" [] OTHER -> slot

\* read fails once the program is gone, send once the worker is.
ReaderEnds ==
    /\ reader = "reading"
    /\ ~child.alive \/ worker = "gone"
    /\ reader' = "reaping"
    /\ CloseReaderFd
    /\ UNCHANGED <<child, events, inbox, worker, pane, shared, main, wake>>

ReaderReaps ==
    /\ reader = "reaping"
    /\ ~child.alive
    /\ reader' = "done"
    /\ events' = IF worker = "gone" THEN events ELSE Append(events, "exited")
    /\ UNCHANGED <<child, inbox, worker, pane, shared, main, wake, slot>>

-----------------------------------------------------------------------------
(* The worker thread: worker_loop.                                         *)

Busy == pane.pending > 0 \/ pane.exited \/ pane.disconnected

\* Mutant: a resize alone does not make the snapshot stale.
HandleNotDirty(command, to) ==
    /\ child.alive /\ command.op = "Input" => child.unread < PtyRoom
    /\ child' = IF child.alive /\ command.op = "Input"
                THEN [child EXCEPT !.unread = @ + 1] ELSE child
    /\ pane' = CASE command.op = "Resize" -> [pane EXCEPT !.term.size = command.size]
                 [] command.op = "Shutdown" -> [pane EXCEPT !.disconnected = TRUE]
                 [] OTHER -> pane
    /\ main' = IF command.op = "Link" THEN [main EXCEPT !.replied = TRUE] ELSE main
    /\ inbox' = Tail(inbox)
    /\ worker' = to
    /\ UNCHANGED <<reader, events, shared, wake, slot>>

\* handle_worker_command.  A write waits for the program to make room.
Handle(command, to) ==
    /\ child.alive /\ command.op = "Input" => child.unread < PtyRoom
    /\ child' = IF child.alive /\ command.op = "Input"
                THEN [child EXCEPT !.unread = @ + 1] ELSE child
    /\ pane' = CASE command.op = "Resize" ->
                        [pane EXCEPT !.term.size = command.size, !.dirty = TRUE]
                 [] command.op = "Shutdown" -> [pane EXCEPT !.disconnected = TRUE]
                 [] OTHER -> pane
    /\ main' = IF command.op = "Link" THEN [main EXCEPT !.replied = TRUE] ELSE main
    /\ inbox' = Tail(inbox)
    /\ worker' = to
    /\ UNCHANGED <<reader, events, shared, wake, slot>>

\* enqueue_pty_chunk reads the notes of a chunk before the emulator has it.
Receive(event, to) ==
    /\ pane' = CASE event = "exited" -> [pane EXCEPT !.exited = TRUE]
                 [] event = "note" -> [pane EXCEPT !.pending = @ + 1, !.notes = @ + 1]
                 [] OTHER -> [pane EXCEPT !.pending = @ + 1]
    /\ events' = Tail(events)
    /\ worker' = to
    /\ UNCHANGED <<child, reader, inbox, shared, main, wake, slot>>

Goes(from, to) ==
    /\ worker = from
    /\ worker' = to
    /\ UNCHANGED <<child, reader, events, inbox, pane, shared, main, wake, slot>>

Select ==
    \/ Busy /\ Goes("select", "commands")
    \/ /\ worker = "select"
       /\ ~Busy
       /\ \/ inbox # <<>> /\ Handle(Head(inbox), "commands")
          \/ events # <<>> /\ Receive(Head(events), "commands")

DrainCommands ==
    \/ inbox = <<>> /\ Goes("commands", "events")
    \/ /\ worker = "commands"
       /\ inbox # <<>>
       /\ Handle(Head(inbox),
                 IF Head(inbox).op = "Shutdown" THEN "events" ELSE "commands")

DrainEvents ==
    \/ events = <<>> /\ Goes("events", "process")
    \/ /\ worker = "events"
       /\ events # <<>>
       /\ Receive(Head(events), IF Head(events) = "exited" THEN "process" ELSE "events")

\* Mutant: a chunk that was written to its end stays at the front.
ProcessKeeping ==
    /\ worker = "process"
    /\ pane' = [pane EXCEPT !.term.chunks = @ + pane.pending, !.dirty = FALSE,
                            !.changed = pane.dirty \/ pane.pending > 0]
    /\ worker' = "publish"
    /\ UNCHANGED <<child, reader, events, inbox, shared, main, wake, slot>>

\* process_pending_pty_work within its two milliseconds, and the refresh of
\* the snapshot: at once, or under a backlog when the last one is old enough.
Process ==
    /\ worker = "process"
    /\ \E taken \in 0..pane.pending, late \in BOOLEAN :
        /\ pane.pending > 0 => taken > 0
        /\ LET term  == [pane.term EXCEPT !.chunks = @ + taken]
               dirty == pane.dirty \/ taken > 0
               rest  == pane.pending - taken
               refresh == dirty /\ (rest = 0 \/ late)
           IN  pane' = [pane EXCEPT !.term = term, !.pending = rest,
                                    !.dirty = dirty /\ ~refresh, !.changed = refresh,
                                    !.snap = IF refresh THEN term ELSE @]
    /\ worker' = "publish"
    /\ UNCHANGED <<child, reader, events, inbox, shared, main, wake, slot>>

\* Mutant: notes wait for the next screen.
ShouldWakeForScreen == pane.changed \/ (pane.exited /\ ~shared.exited)

ShouldWake == pane.changed \/ pane.notes > 0 \/ (pane.exited /\ ~shared.exited)

\* Mutant: the last turn leaves before it hands over the notes.
PublishedBeforeNotes ==
    [snap    |-> IF pane.changed THEN pane.snap ELSE shared.snap,
     version |-> shared.version + IF pane.changed THEN 1 ELSE 0,
     notes   |-> shared.notes + IF pane.exited THEN 0 ELSE pane.notes,
     exited  |-> shared.exited \/ pane.exited]

Published ==
    [snap    |-> IF pane.changed THEN pane.snap ELSE shared.snap,
     version |-> shared.version + IF pane.changed THEN 1 ELSE 0,
     notes   |-> shared.notes + pane.notes,
     exited  |-> shared.exited \/ pane.exited]

Publish ==
    /\ worker = "publish"
    /\ shared' = Published
    /\ pane' = [pane EXCEPT !.notes = 0, !.changed = FALSE]
    /\ worker' = IF ShouldWake THEN "wake" ELSE "decide"
    /\ UNCHANGED <<child, reader, events, inbox, main, wake, slot>>

Wake ==
    /\ worker = "wake"
    /\ wake' = TRUE
    /\ worker' = "decide"
    /\ UNCHANGED <<child, reader, events, inbox, pane, shared, main, slot>>

\* At the end the worker drops its receivers, and PtyProcess closes reader_fd
\* whatever the reader thread has done with it.
Decide ==
    \/ ~pane.exited /\ ~pane.disconnected /\ Goes("decide", "select")
    \/ /\ worker = "decide"
       /\ pane.exited \/ pane.disconnected
       /\ worker' = "gone"
       /\ inbox' = <<>>
       /\ events' = <<>>
       /\ CloseReaderFd
       /\ UNCHANGED <<child, reader, pane, shared, main, wake>>

-----------------------------------------------------------------------------
(* The main thread: VtPaneWorker's methods.                                *)

Send(command) == inbox' = IF worker = "gone" THEN inbox ELSE Append(inbox, command)

Commanded(command) ==
    /\ main.at = "idle"
    /\ main.sent < MaxCommands
    /\ Send(command)
    /\ main' = [main EXCEPT !.sent = @ + 1,
                            !.size = IF command.op = "Resize" THEN command.size ELSE @]
    /\ UNCHANGED <<child, reader, events, worker, pane, shared, wake, slot>>

\* hyperlink_at waits for the worker's reply.
AsksLink ==
    /\ main.at = "idle"
    /\ main.sent < MaxCommands
    /\ Send([op |-> "Link"])
    /\ main' = [main EXCEPT !.at = "asking", !.sent = @ + 1]
    /\ UNCHANGED <<child, reader, events, worker, pane, shared, wake, slot>>

GetsLink ==
    /\ main.at = "asking"
    /\ main.replied \/ worker = "gone"
    /\ main' = [main EXCEPT !.at = "idle", !.replied = FALSE]
    /\ UNCHANGED <<child, reader, events, inbox, worker, pane, shared, wake, slot>>

\* poll, after a wakeup; an exited pane is closed.
Polls ==
    /\ main.at = "idle"
    /\ wake
    /\ wake' = FALSE
    /\ main' = [main EXCEPT !.snap = shared.snap, !.version = shared.version,
                            !.notes = @ + shared.notes, !.exited = shared.exited,
                            !.at = IF shared.exited THEN "joining" ELSE @]
    /\ shared' = [shared EXCEPT !.notes = 0]
    /\ IF shared.exited THEN Send([op |-> "Shutdown"]) ELSE UNCHANGED inbox
    /\ UNCHANGED <<child, reader, events, worker, pane, slot>>

\* Mutant: the worker is left to find its channel closed, after the wait.
ClosesSilently ==
    /\ main.at = "idle"
    /\ main' = [main EXCEPT !.at = "joining"]
    /\ UNCHANGED <<child, reader, events, inbox, worker, pane, shared, wake, slot>>

\* Drop of the VtPaneWorker.
Closes ==
    /\ main.at = "idle"
    /\ Send([op |-> "Shutdown"])
    /\ main' = [main EXCEPT !.at = "joining"]
    /\ UNCHANGED <<child, reader, events, worker, pane, shared, wake, slot>>

Joined ==
    /\ main.at = "joining"
    /\ worker = "gone"
    /\ main' = [main EXCEPT !.at = "closed"]
    /\ UNCHANGED <<child, reader, events, inbox, worker, pane, shared, wake, slot>>

-----------------------------------------------------------------------------
Program == Reads \/ Exits \/ \E chunk \in {"text", "note"} : Writes(chunk)

Reader == ReaderEnds \/ ReaderReaps

Worker == Select \/ DrainCommands \/ DrainEvents \/ Process \/ Publish \/ Wake \/ Decide

Resumes == GetsLink \/ Joined \/ Polls

Main ==
    \/ Resumes
    \/ AsksLink
    \/ Closes
    \/ Commanded([op |-> "Input"])
    \/ \E size \in Sizes : Commanded([op |-> "Resize", size |-> size])

Next == Program \/ Reader \/ Worker \/ Main \/ StrangerOpens \/ StrangerCloses

\* The threads run; the program goes on reading its input.  Without that the
\* worker waits in its write, and the main thread for the worker.
Fairness == WF_vars(Worker) /\ WF_vars(Reader) /\ WF_vars(Resumes) /\ WF_vars(Reads)

Spec == Init /\ [][Next]_vars /\ Fairness

-----------------------------------------------------------------------------
\* The main thread never sleeps on something the worker has published.
UnseenMeansWoken ==
    (/\ main.at \in {"idle", "asking"}
     /\ worker # "wake"
     /\ \/ shared.version # main.version
        \/ shared.notes > 0
        \/ shared.exited)
        => wake

\* When the main thread learns that the program has exited it has been given
\* everything the program said before: a pane is closed right after, and what
\* comes later is lost.
ExitComesLast == main.exited => main.notes = child.notes

\* A worker with nothing to do has published the screen after all output and
\* the last resize.
SettledSnapshot ==
    (/\ worker = "select"
     /\ ~Busy
     /\ events = <<>>
     /\ inbox = <<>>)
        => shared.snap = [chunks |-> child.chunks, size |-> main.size]

\* A closed pane or an asked link does not keep the server waiting for ever.
MainReturns == main.at \in {"asking", "joining"} ~> main.at \in {"idle", "closed"}

\* "VtPane ... are never accessed concurrently. The worker thread becomes the
\* sole owner after spawn": no other thread, and no stranger's file, is hit
\* when reader_fd is closed.  It is: both the reader thread and PtyProcess
\* close the number, and somebody else may have been given it in between.
ClosesOnlyItsOwn == slot # "robbed"
=============================================================================
