---------------------------- MODULE EscapeScanner ----------------------------
(***************************************************************************)
(* What a pane's worker makes of the bytes of its program before and after *)
(* the emulator has them (vt_backend_core.rs): a scanner looks for the OSC *)
(* sequences that report commands, notifications and status components,    *)
(* and for the sequences after which a snapshot has to be rebuilt whole.   *)
(* The bytes come in pieces cut wherever a read of the pseudo terminal     *)
(* ended; the scanner sees them when they are queued, the emulator up to   *)
(* some later turn.                                                        *)
(*                                                                         *)
(* A number, a prefix such as "133;C" or the rest of an erase sequence is  *)
(* one byte here.  The program writes whole words; a cut may be anywhere   *)
(* in them.  That the emulator need not mark the rows an erase sequence    *)
(* empties is what force_full_snapshot_refresh is there for.               *)
(***************************************************************************)
EXTENDS Naturals, Sequences, SequencesExt, FiniteSetsExt

CONSTANTS
    MaxPayload,     \* 4096: what the scanner keeps of an OSC sequence
    MaxTail,        \* 16: what it keeps of the bytes before a piece
    MaxWords        \* bound: words the program writes

VARIABLES
    out,        \* all the program has written
    said,       \* the payloads of the sequences in it that are complete
    broken,     \* the program has left a sequence without its end
    read,       \* bytes of `out' queued by the worker, and scanned
    written,    \* bytes of `out' the emulator has
    scan,       \* OscState and control_sequence_tail
    told,       \* what the scanner has found
    force,      \* force_full_snapshot_refresh
    snap,       \* erase sequences the snapshot shows
    dirty,      \* the emulator has changed since the snapshot
    early       \* a refresh was forced by a sequence the emulator had not got

vars == <<out, said, broken, read, written, scan, told, force, snap, dirty, early>>

Ids == {"first", "second"}

\* A word: its bytes.  `bel' or `esc \' ends a sequence; 133;C and 133;D start
\* and end a command, 99 is a part of a notification (with more to follow, or
\* its end), 1337 a status bar.
Osc(payload) == [bytes |-> <<"esc", "]">> \o payload \o <<"bel">>, payload |-> payload]

Words ==
    {Osc(<<"C">>), Osc(<<"first.more", "x">>), Osc(<<"first.end">>),
     Osc(<<"second.end", "y">>), Osc(<<"S", "x">>), Osc(<<"C", "x", "x", "x">>),
     [bytes |-> <<"esc", "]", "D", "esc", "\\">>, payload |-> <<"D">>],
     [bytes |-> <<"esc", "]", "C">>, payload |-> <<>>],
     [bytes |-> <<"esc">>, payload |-> <<>>],
     [bytes |-> <<"esc", "clear">>, payload |-> <<>>],
     [bytes |-> <<"x">>, payload |-> <<>>]}

Bytes == UNION {Range(w.bytes) : w \in Words}

-----------------------------------------------------------------------------
(* The payload of a complete sequence.                                     *)

Nothing == [running |-> FALSE, finished |-> <<>>, bars |-> <<>>,
            parts |-> [id \in Ids |-> <<>>], notes |-> <<>>]

\* Mutant: the end of a command leaves it running.
Osc133KeepsRunning(t, payload) ==
    IF Head(payload) = "C" THEN [t EXCEPT !.running = TRUE]
    ELSE [t EXCEPT !.finished = Append(@, t.running)]

\* A command that ends is told with its duration when its start was seen.
Osc133(t, payload) ==
    IF Head(payload) = "C" THEN [t EXCEPT !.running = TRUE]
    ELSE [t EXCEPT !.finished = Append(@, t.running), !.running = FALSE]

\* Parts of a notification wait under its id until the last; an empty one is
\* not shown.
Osc99(t, id, done, text) ==
    LET whole == t.parts[id] \o text
    IN  IF ~done THEN [t EXCEPT !.parts[id] = whole]
        ELSE [t EXCEPT !.parts[id] = <<>>,
                       !.notes = IF whole = <<>> THEN @ ELSE Append(@, whole)]

\* What does not decode is dropped.
SetUserVar(t, text) ==
    IF "esc" \in Range(text) THEN t ELSE [t EXCEPT !.bars = Append(@, text)]

HandleOscPayload(t, payload) ==
    IF payload = <<>> THEN t
    ELSE CASE Head(payload) \in {"C", "D"} -> Osc133(t, payload)
           [] Head(payload) = "first.more" -> Osc99(t, "first", FALSE, Tail(payload))
           [] Head(payload) = "first.end" -> Osc99(t, "first", TRUE, Tail(payload))
           [] Head(payload) = "second.end" -> Osc99(t, "second", TRUE, Tail(payload))
           [] Head(payload) = "S" -> SetUserVar(t, Tail(payload))
           [] OTHER -> t

-----------------------------------------------------------------------------
(* The scanner.  `s' holds the mode, the payload and what has been told.   *)

Ground == [mode |-> "Ground", payload |-> <<>>]

WithOsc(s, osc) == [s EXCEPT !.osc = osc]

FinishOscPayload(s) ==
    [osc |-> Ground, told |-> HandleOscPayload(s.told, s.osc.payload)]

Step(s, byte) ==
    LET osc == s.osc
        To(mode) == WithOsc(s, [osc EXCEPT !.mode = mode])
    IN  CASE osc.mode = "Ground" -> IF byte = "esc" THEN To("Escape") ELSE s
          [] osc.mode = "Escape" ->
                IF byte = "]" THEN WithOsc(s, [mode |-> "Osc", payload |-> <<>>])
                ELSE To(IF byte = "esc" THEN "Escape" ELSE "Ground")
          [] osc.mode = "Osc" ->
                IF byte = "bel" THEN FinishOscPayload(s)
                ELSE IF byte = "esc" THEN To("OscEscape")
                ELSE WithOsc(s, IF Len(osc.payload) < MaxPayload
                                THEN [osc EXCEPT !.payload = Append(@, byte)] ELSE Ground)
          [] osc.mode = "OscEscape" ->
                IF byte = "\\" THEN FinishOscPayload(s)
                ELSE WithOsc(s, IF Len(osc.payload) + 2 <= MaxPayload
                                THEN [mode |-> "Osc", payload |-> osc.payload \o <<"esc", byte>>]
                                ELSE Ground)

Scanned(s, bytes) == FoldLeft(Step, s, bytes)

\* Mutant: a piece without an escape is passed over in every mode.
PieceScannedIfEscape(s, piece) ==
    IF "esc" \notin Range(piece) THEN s ELSE Scanned(s, piece)

PieceScanned(s, piece) ==
    IF s.osc.mode = "Ground" /\ "esc" \notin Range(piece) THEN s ELSE Scanned(s, piece)

\* should_force_full_snapshot_refresh, over the tail and the piece.
Forces(bytes) == \E i \in 1..(Len(bytes) - 1) : bytes[i] = "esc" /\ bytes[i + 1] = "clear"

\* Mutant: the tail is not kept.
ForgottenTail(tail, piece) == <<>>

\* Mutant: the tail is not trimmed.
WholeTail(tail, piece) == tail \o piece

NextTail(tail, piece) ==
    LET all == tail \o piece
    IN  SubSeq(all, 1 + IF Len(all) > MaxTail THEN Len(all) - MaxTail ELSE 0, Len(all))

-----------------------------------------------------------------------------
TypeOK ==
    /\ out \in Seq(Bytes)
    /\ said \in Seq(Seq(Bytes))
    /\ written \in 0..read
    /\ read \in 0..Len(out)
    /\ scan.mode \in {"Ground", "Escape", "Osc", "OscEscape"}
    /\ Len(scan.payload) <= MaxPayload
    /\ Len(scan.tail) <= MaxTail
    /\ told.running \in BOOLEAN
    /\ snap \in Nat
    /\ {force, dirty, early, broken} \subseteq BOOLEAN

Init ==
    /\ out = <<>>
    /\ said = <<>>
    /\ broken = FALSE
    /\ read = 0
    /\ written = 0
    /\ scan = [mode |-> "Ground", payload |-> <<>>, tail |-> <<>>]
    /\ told = Nothing
    /\ force = FALSE
    /\ snap = 0
    /\ dirty = FALSE
    /\ early = FALSE

\* The program.  Its sequence ends before the next, unless it is left broken.
Says(word) ==
    /\ Len(said) < MaxWords
    /\ out' = out \o word.bytes
    /\ said' = Append(said, IF Len(word.payload) <= MaxPayload THEN word.payload ELSE <<>>)
    /\ broken' = (broken \/ word.bytes \in {<<"esc">>, <<"esc", "]", "C">>})
    /\ UNCHANGED <<read, written, scan, told, force, snap, dirty, early>>

\* enqueue_pty_chunk.
Enqueues(piece) ==
    LET quiet == scan.tail = <<>> /\ scan.mode = "Ground" /\ "esc" \notin Range(piece)
        s     == PieceScanned([osc |-> [mode |-> scan.mode, payload |-> scan.payload],
                               told |-> told], piece)
    IN  /\ piece # <<>>
        /\ IF quiet THEN UNCHANGED <<scan, told, force>>
           ELSE /\ force' = (force \/ Forces(scan.tail \o piece))
                /\ told' = s.told
                /\ scan' = [mode |-> s.osc.mode, payload |-> s.osc.payload,
                            tail |-> NextTail(scan.tail, piece)]
        /\ read' = read + Len(piece)
        /\ UNCHANGED <<out, said, broken, written, snap, dirty, early>>

Reads == \E n \in (read + 1)..Len(out) : Enqueues(SubSeq(out, read + 1, n))

\* process_pending_pty_work, as far as it comes in its time.
Processes ==
    \E n \in (written + 1)..read :
        /\ written' = n
        /\ dirty' = TRUE
        /\ UNCHANGED <<out, said, broken, read, scan, told, force, snap, early>>

Clears(bytes) == Cardinality({i \in 2..Len(bytes) : bytes[i - 1] = "esc" /\ bytes[i] = "clear"})

InEmulator == Clears(SubSeq(out, 1, written))

\* Mutant: the rows are rebuilt only where they are marked.
RowsMarked == snap

\* The rows of a refresh: all of them when it is forced, else the marked ones.
RowsRebuilt == IF force THEN InEmulator ELSE snap

\* refresh_snapshot, with or without bytes still queued.
Refreshes ==
    /\ dirty
    /\ snap' = RowsRebuilt
    /\ dirty' = FALSE
    /\ force' = FALSE
    /\ early' = (early \/ (force /\ Clears(SubSeq(out, 1, read)) > InEmulator))
    /\ UNCHANGED <<out, said, broken, read, written, scan, told>>

Next == (\E word \in Words : Says(word)) \/ Reads \/ Processes \/ Refreshes

Spec == Init /\ [][Next]_vars

-----------------------------------------------------------------------------
\* What the scanner has found does not depend on where the reads have cut the
\* program's output.
CutsDoNotMatter ==
    Scanned([osc |-> Ground, told |-> Nothing], SubSeq(out, 1, read))
        = [osc |-> [mode |-> scan.mode, payload |-> scan.payload], told |-> told]

SaidOf(heads) == SelectSeq(said, LAMBDA p : p # <<>> /\ Head(p) \in heads)

\* When the program ends each sequence it begins, the worker ends up with what
\* it has said: the command that runs is the last one that was started and has
\* not ended, each end is told once, and with a duration exactly when it came
\* after a start, and no text of a notification that is complete is lost.
HeardIsSaid ==
    (~broken /\ read = Len(out)) =>
        LET commands == SaidOf({"C", "D"})
            ends == {i \in 1..Len(commands) : Head(commands[i]) = "D"}
            texts == SaidOf({"first.more", "first.end", "second.end"})
            shown == FlattenSeq(told.notes)
            waiting == told.parts["first"]
            Count(s, x) == Cardinality({i \in 1..Len(s) : s[i] = x})
            pieces == FlattenSeq([i \in 1..Len(texts) |-> Tail(texts[i])])
        IN  /\ told.running = (commands # <<>> /\ Head(Last(commands)) = "C")
            /\ Len(told.finished) = Cardinality(ends)
            /\ Cardinality({k \in 1..Len(told.finished) : told.finished[k]})
                 = Cardinality({i \in ends : i > 1 /\ Head(commands[i - 1]) = "C"})
            /\ Len(told.bars) = Len(SaidOf({"S"}))
            /\ \A x \in {"x", "y"} : Count(pieces, x) = Count(shown, x) + Count(waiting, x)

\* Once the emulator has all bytes and the snapshot is fresh, it shows every
\* erase sequence, wherever a read has cut it.  The exception is the code's:
\* the scanner forces the next refresh, not the next one after the emulator
\* has the sequence, and under a backlog that may be an earlier one.
ErasesReachSnapshot ==
    (~dirty /\ written = Len(out)) => snap = InEmulator \/ early
=============================================================================
