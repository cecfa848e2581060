--------------------------- MODULE MCOutboundStream ---------------------------
(***************************************************************************)
(* Small instances for TLC of the two directions of a window's connection:  *)
(* OutboundStream, what is queued for a client and written, and             *)
(* WindowInput, what becomes of what the user of a window does.  A          *)
(* behaviour takes the steps of one of them, its subject, and leaves the    *)
(* other as it begins.                                                      *)
(***************************************************************************)
EXTENDS OutboundStream, TLC

CONSTANTS a, b, tabs, state, Nowhere, MaxKeys, MaxSizes, MaxActs, MaxFaults

VARIABLES
    subject,
    server, link, stream, made, given, localrx, control, inbox, win, typed, via, seen,
    excused, faults

input ==
    <<server, link, stream, made, given, localrx, control, inbox, win, typed, via, seen,
      excused, faults>>

Window == INSTANCE WindowInput WITH wire <- given, local <- localrx

ASSUME Window!NowhereAssumption /\ Window!BoundsAssumption

MCPayloads == (tabs :> {1}) @@ (state :> {1, 2})

MCSizes == {1, 2}

\* Of two rows, differing in one; of one row, so that no row stays.
MCScreens == {<<a, a>>, <<a, b>>, <<b>>}

MCInit ==
    /\ Init
    /\ Window!Init
    /\ subject \in {"queue", "input"}
    /\ subject = "queue" => server.tabs = 1
    /\ subject = "input" => local

\* The input ends with its bounds.
MCNext ==
    \/ subject = "queue" /\ Next /\ UNCHANGED <<input, subject>>
    \/ subject = "input" /\ Window!Next /\ UNCHANGED <<vars, subject>>
    \/ subject = "input" /\ UNCHANGED <<vars, input, subject>>

MCSpec == MCInit /\ [][MCNext]_<<vars, input, subject>>

\* No key arrives twice; two keys reach the panes in the order they were typed in,
\* unless the first was given to a stream that was cut before it arrived, or a
\* request was given up; and a key is lost only if it was typed before the first
\* state of the window, on a path that had ended, with no tab, or before a fault
\* that took it away.
KeysArrive ==
    subject = "input" => Window!TypeOK /\ Window!KeysInOrder /\ Window!KeysArrive

\* A window that still runs and is connected shows a terminal and takes keys, also
\* after its stream was cut or the server started again; only one that found the
\* server empty when it opened may not.  And the server has the size the window
\* asked for last, unless the request failed or the server was started again.
WindowIsLive == subject = "input" => Window!WindowIsLive /\ Window!SizeFollows
=============================================================================
