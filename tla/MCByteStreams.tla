---------------------------- MODULE MCByteStreams ----------------------------
(***************************************************************************)
(* Small instances for TLC of streams of bytes that are cut anywhere:       *)
(* EscapeScanner, what a pane's worker hears in the output of its program,  *)
(* and WireCodec, the messages a connection reads.  A behaviour takes the   *)
(* steps of one of them, its subject, and leaves the other as it begins.    *)
(***************************************************************************)
EXTENDS EscapeScanner

CONSTANTS Texts, MaxText, TabIds, MaxTabs, MaxMessages, Refused

VARIABLES subject, sent, pipe, pace, received, state

frames == <<sent, pipe, pace, received, state>>

Wire == INSTANCE WireCodec WITH Ids <- TabIds, read <- received

ASSUME Wire!TextsAssumption /\ Wire!BoundsAssumption

\* Texts around the largest length, three bytes here: one that fits, one that is
\* cut within a character, one that is cut after one.
MCTexts == {<<>>, <<"a", "a", "lead", "trail">>, <<"lead", "trail", "a", "a">>}

MCInit ==
    /\ Init
    /\ Wire!Init
    /\ subject \in {"output", "frames"}

\* Each ends with its bound, on words and on messages.
MCNext ==
    \/ subject = "output" /\ Next /\ UNCHANGED <<frames, subject>>
    \/ subject = "frames" /\ Wire!Next /\ UNCHANGED <<vars, subject>>

MCSpec == MCInit /\ [][MCNext]_<<vars, frames, subject>>

\* What the worker makes of the output does not depend on where the reads have cut
\* it: it hears the commands, notifications and status components the program has
\* said, each once, and a fresh snapshot shows every erase sequence, unless a
\* refresh was forced by one the emulator had yet to get.
OutputIsHeard ==
    subject = "output" => TypeOK /\ CutsDoNotMatter /\ HeardIsSaid /\ ErasesReachSnapshot

\* However the bytes of the stream come in and wherever it ends, the messages are
\* read whole and in order: a tab list reaches the window and the direct client as
\* it was sent, with long texts cut, or is refused by both; and no client goes on
\* after a handshake with a server that is not of its version or lacks what it
\* needs.
FramesArrive ==
    subject = "frames" =>
        /\ Wire!TypeOK
        /\ Wire!FramesArrive
        /\ Wire!TabListsArrive
        /\ Wire!HandshakeIsSound
=============================================================================
