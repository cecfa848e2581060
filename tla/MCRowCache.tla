---------------------------- MODULE MCRowCache ----------------------------
(***************************************************************************)
(* Small instances for TLC of the rows of a pane on their way to the eye    *)
(* and the clipboard: RowReplicas, what the server and its clients keep of  *)
(* them; RowCache, what the desktop client draws; and CopyMode, the cursor  *)
(* and the selection in them.  A behaviour takes the steps of one of them,  *)
(* its subject, and leaves the others as they begin.                        *)
(***************************************************************************)
EXTENDS RowCache

CONSTANTS Texts, PaneRows, Widths, MaxLines, MaxRetained, Prefetch, MaxMail, MaxSteps,
    Screens, CopyColumns, NoPoint

VARIABLES
    subject, term, cache, sent, mail, desk, phone, asks, published, misfiled, lost, steps,
    screen, place, anchor, select, mark, up

rows == <<term, cache, sent, mail, desk, phone, asks, published, misfiled, lost, steps>>

copying == <<screen, place, anchor, select, mark, up>>

Replicas == INSTANCE RowReplicas WITH Rows <- PaneRows

Copy == INSTANCE CopyMode WITH Columns <- CopyColumns, cursor <- place

ASSUME Copy!ScreensAssumption

\* Two rows of four columns, of six shapes.
MCScreens == {
    << <<"w", "_", "(", "w">>, <<"(", ")", "(", ")">> >>,
    << <<"(", "(", ")", ")">>, <<"_", "w", "w", "_">> >>,
    << <<"_", "_", "_", "_">>, <<"w", ")", "_", "w">> >>,
    << <<"w", ")", "_", "w">>, <<"_", "_", "_", "_">> >>}

Cell(text, width, bg, colour, underline, ascii) ==
    [text |-> text, width |-> width, bg |-> bg, colour |-> colour,
     underline |-> underline, ascii |-> ascii]

Blank == Cell(" ", 1, "none", "white", FALSE, TRUE)

\* An empty row, and one of all that breaks a run: a wide character on a
\* background, its other half, a letter and an underlined space of another colour.
MCLines == {
    <<Blank, Blank, Blank, Blank>>,
    <<Cell("W", 2, "red", "white", TRUE, FALSE), Cell("", 1, "red", "white", TRUE, TRUE),
      Cell("x", 1, "none", "white", FALSE, TRUE), Cell(" ", 1, "none", "blue", TRUE, TRUE)>>}

Rect(top, bottom, left, right) == [top |-> top, bottom |-> bottom, left |-> left, right |-> right]

\* None, and the end of one row with the start of the next in two pieces that
\* touch, the right one first.
MCSelections == {
    <<>>,
    <<Rect(1, 2, 2, 5), Rect(2, 3, 2, 4), Rect(2, 3, 1, 2)>>}

MCIdle == CHOOSE s \in Screens : TRUE

MCInit ==
    /\ Init
    /\ Replicas!Init
    /\ Copy!Init
    /\ subject \in {"drawing", "rows", "copying"}
    /\ subject # "drawing" => impl = "canvas"
    /\ subject # "copying" => screen = MCIdle /\ place = <<0, 0>>

\* The rows end with their bound on steps.
MCNext ==
    \/ subject = "drawing" /\ Next /\ UNCHANGED <<rows, copying, subject>>
    \/ subject = "rows" /\ Replicas!Next /\ UNCHANGED <<vars, copying, subject>>
    \/ subject = "copying" /\ Copy!Next /\ UNCHANGED <<vars, rows, subject>>

MCSpec == MCInit /\ [][MCNext]_<<vars, rows, copying, subject>>

\* Revisions and prints matter only as long as the style is the one they belong
\* to, and the cursor only to the paragraphs.
MCShape ==
    LET old == canvas.style # generation
        print(i) == IF canvas.prints[i][1] = generation THEN canvas.prints[i][2] ELSE 0
    IN  <<subject, rows, copying, snapshot, nextRevision, rects, impl, old, selected,
          paragraphs, pending, overrun,
          IF impl = "paragraph" THEN cursor ELSE 0,
          IF old THEN <<>>
          ELSE <<canvas.seen, canvas.artifacts, canvas.bands, canvas.occupied, shifted,
                 [i \in DOMAIN canvas.prints |-> print(i)]>> >>

\* Once drawn, what is kept for each row is of what it holds: no change of a row
\* leaves it with the fingerprint it had, whatever full states, deltas and
\* selections came since, for this pane or another.  Nothing is missing on the
\* canvas, left behind or painted twice while the same chunks have something to
\* draw; the selection covers its columns once; runs paint every cell once; and the
\* paragraphs are those of the row, as long as no row was changed so often that a
\* full state gave it a number it already had.
RowsAreDrawn ==
    subject = "drawing" =>
        /\ TypeOK
        /\ ArtifactsCurrent
        /\ CanvasCurrent
        /\ SelectionCurrent
        /\ RunsPaintTheRow
        /\ ParagraphsCurrent

\* Once all that was sent has arrived, the desktop and the phone show the text
\* the server published last; a row in the phone's scrollback is one that was
\* published under that id, but for those of a delta; and no request of the
\* phone waits for an answer that is not under way, but those a connection lost.
ReplicasFollow ==
    subject = "rows" =>
        /\ Replicas!TypeOK
        /\ Replicas!ScreensFollow
        /\ Replicas!RowsWerePublished
        /\ Replicas!RequestUnderWay

\* As in vi, w goes to the next start of a word, e to the next end and b to the
\* last start before; on a bracket, the match of its match is the bracket; and
\* what is copied is what is highlighted, but for characters whose first column
\* is right of the last, and as long as both ends are on the screen.
CopiesWhatIsShown ==
    subject = "copying" =>
        /\ Copy!TypeOK
        /\ Copy!MotionsFindWords
        /\ Copy!BracketsReturn
        /\ Copy!CopiesTheHighlight
=============================================================================
