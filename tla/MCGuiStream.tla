------------------------------ MODULE MCGuiStream ------------------------------
(***************************************************************************)
(* Small instances for TLC of what a desktop window shows: PanePolling, how *)
(* the output of the panes gets to the screens that are published, and      *)
(* GuiStream, what the window makes of the screens it is sent.  A behaviour *)
(* takes the steps of one of them, its subject, and leaves the other as it  *)
(* begins.                                                                  *)
(***************************************************************************)
EXTENDS GuiStream

CONSTANTS p1, p2, p3, FirstPanes, SecondPanes, Clients, MaxEvents

VARIABLES subject, workers, srv, commands, wake, visible, closed, moved, events

polling == <<workers, srv, commands, wake, visible, closed, moved, events>>

Polling == INSTANCE PanePolling WITH shown <- visible

\* No action tells one contents from another.
MCSymmetry == Permutations(Contents)

\* A tab with two panes and one with one, a client that views either.
MCFirst == <<p1, p2>>
MCSecond == <<p3>>

MCInit ==
    /\ Init
    /\ Polling!Init
    /\ subject \in {"screens", "polling"}
    /\ subject = "screens" => srv.views = [c \in Clients |-> 1]
    /\ subject = "polling" => tfocus = p1 /\ \A p \in Panes : term[p] = term[p1]

\* The panes end with their bound on events.
MCNext ==
    \/ subject = "screens" /\ Next /\ UNCHANGED <<polling, subject>>
    \/ subject = "polling" /\ Polling!Next /\ UNCHANGED <<vars, subject>>
    \/ subject = "polling" /\ UNCHANGED <<vars, polling, subject>>

MCSpec == MCInit /\ [][MCNext]_<<vars, polling, subject>>

\* A main thread with nothing to do has polled the active tab: no program that
\* has exited is left in it, it shows the command its focused pane runs, and who
\* views it has the newest screens.  (After a command that makes another tab or
\* pane the active one nothing is polled until something else wakes the thread.)
\* And the status bar shows and runs what living panes and scripts have put there,
\* but for panes that a command has closed.
PolledIsShown ==
    subject = "polling" =>
        /\ Polling!TypeOK
        /\ Polling!QuietIsCurrent
        /\ Polling!StatusBarOfLivingPanes
=============================================================================
