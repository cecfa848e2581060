------------------------------ MODULE RowCache ------------------------------
(***************************************************************************)
(* How the desktop client draws one pane: the snapshot the stream keeps    *)
(* (client_gui.rs) and what the two drawing layers keep from one frame to  *)
(* the next (vt_terminal_canvas.rs).                                       *)
(*                                                                         *)
(* The text is drawn by one of two layers.  The canvas, the default, keeps *)
(* the artifacts of each row and one drawing for each band of chunks that  *)
(* have something to draw.  The paragraph layers keep entries row by row.  *)
(* Both decide what to rebuild from row revisions that the client makes    *)
(* up: a full state hands out new numbers, a delta adds one to the row it  *)
(* changes.                                                                *)
(*                                                                         *)
(* A delta carries no scroll: encode_delta of this server never sets the   *)
(* flag.  Rectangles of the selection are in cells and a hash is taken to  *)
(* be injective.                                                           *)
(***************************************************************************)
EXTENDS Integers, Sequences, FiniteSets, SequencesExt

CONSTANTS
    Lines,          \* the contents a row may have: sequences of cells
    Columns,        \* the columns of the pane
    Heights,        \* the numbers of rows it may have
    ChunkRows,      \* rows of a chunk (row_cache_chunk_size)
    Selections,     \* the lists of selection rectangles
    MaxRevision,    \* bound on row revisions, for TLC
    MaxPending      \* bound on the changes between two frames, for TLC

ASSUME RowCacheAssumption ==
    /\ Columns \in Nat \ {0} /\ ChunkRows \in Nat \ {0}
    /\ Heights \subseteq Nat \ {0}
    /\ \A line \in Lines : DOMAIN line = 1..Columns

VARIABLES
    snapshot,       \* pane_snapshots of the pane: lines and row_revisions
    generation,     \* terminal_snapshot_generation
    nextRevision,   \* next_full_snapshot_revision
    cursor,         \* the cursor's row
    rects,          \* mouse_selection.selection_rects
    impl,           \* TerminalBodyImpl, from BOO_TERMINAL_BODY_IMPL
    canvas,         \* TerminalCanvasState
    paragraphs,     \* TerminalTextLayerState
    selected,       \* the selection_row_spans of either, and what they are of
    pending,        \* changes since the last frame
    shifted,        \* history: other chunks than at the last full redraw had something to draw
    overrun         \* history: a full state came whose numbers some row had reached

vars == <<snapshot, generation, nextRevision, cursor, rects, impl, canvas, paragraphs,
          selected, pending, shifted, overrun>>

NoSnapshot == [lines |-> <<>>, revisions |-> <<>>]

-----------------------------------------------------------------------------
(* What a row looks like.  A cell has a text ("" behind a wide cell), a     *)
(* display width, a background ("none" for the default), a colour and an    *)
(* underline.                                                               *)

Visible(cell) == cell.text # "" /\ (cell.text # " " \/ cell.underline)

\* Mutant: runs are not broken by a colour.
JoinsAnyColour(run, cell, col) == run.start + run.width = col

\* A cell joins the run before it when it touches it, looks alike and neither
\* is anything but ASCII.
JoinsRun(run, cell, col) ==
    /\ run.start + run.width = col
    /\ run.colour = cell.colour /\ run.underline = cell.underline
    /\ run.ascii /\ cell.ascii

TextRuns(line) ==
    FoldLeft(LAMBDA runs, col :
        LET cell == line[col]
        IN  IF ~Visible(cell) THEN runs
            ELSE IF runs # <<>> /\ JoinsRun(Last(runs), cell, col)
            THEN [runs EXCEPT ![Len(runs)] =
                    [@ EXCEPT !.width = @ + cell.width, !.text = Append(@, cell.text)]]
            ELSE Append(runs, [start |-> col, width |-> cell.width, text |-> <<cell.text>>,
                               colour |-> cell.colour, underline |-> cell.underline,
                               ascii |-> cell.ascii]),
        <<>>, [c \in 1..Columns |-> c])

BackgroundSpans(line) ==
    FoldLeft(LAMBDA spans, col :
        LET bg == line[col].bg
        IN  IF bg = "none" THEN spans
            ELSE IF spans # <<>> /\ Last(spans).colour = bg /\ Last(spans).end = col
            THEN [spans EXCEPT ![Len(spans)].end = col + 1]
            ELSE Append(spans, [start |-> col, end |-> col + 1, colour |-> bg]),
        <<>>, [c \in 1..Columns |-> c])

\* An underlined wide cell and the cell behind it give two spans that overlap; a
\* cell that is not underlined ends a span, though it be behind a wide one.
UnderlineSpans(line) ==
    FoldLeft(LAMBDA spans, col :
        LET cell == line[col]
        IN  IF ~cell.underline THEN spans
            ELSE IF /\ col > 1 /\ line[col - 1].underline
                    /\ Last(spans).end = col /\ Last(spans).colour = cell.colour
            THEN [spans EXCEPT ![Len(spans)].end = @ + cell.width]
            ELSE Append(spans, [start |-> col, end |-> col + cell.width, colour |-> cell.colour]),
        <<>>, [c \in 1..Columns |-> c])

Artifacts(line) ==
    [runs |-> TextRuns(line), backgrounds |-> BackgroundSpans(line),
     underlines |-> UnderlineSpans(line)]

NoArtifacts == [runs |-> <<>>, backgrounds |-> <<>>, underlines |-> <<>>]

-----------------------------------------------------------------------------
(* The selection: rectangles [top, bottom, left, right] of cells, the last  *)
(* row and column excluded, rows and columns counted from 1.                *)

Touches(previous, span) == span.start <= previous.end

SpansOfRow(rectangles, row) ==
    LET hit == SelectSeq(rectangles, LAMBDA r : r.top <= row /\ row < r.bottom)
        cut == [i \in DOMAIN hit |-> [start |-> hit[i].left,
                                      end |-> Min({hit[i].right, Columns + 1})]]
        sorted == SortSeq(SelectSeq(cut, LAMBDA s : s.start < s.end),
                          LAMBDA a, b : a.start < b.start)
    IN  FoldLeft(LAMBDA merged, span :
            IF merged # <<>> /\ Touches(Last(merged), span)
            THEN [merged EXCEPT ![Len(merged)].end = Max({@, span.end})]
            ELSE Append(merged, span),
            <<>>, sorted)

\* The first row of a selection and the row behind its last; none is 0..0.
RowRange(rectangles, rows) ==
    LET cut == {<<r.top, Min({r.bottom, rows + 1})>> : r \in ToSet(rectangles)}
        real == {r \in cut : r[1] < r[2]}
    IN  IF real = {} THEN <<0, 0>>
        ELSE <<Min({r[1] : r \in real}), Max({r[2] : r \in real})>>

\* Mutant: only the rows of the new selection are worked out again.
SpansOfNewRange(spans, old, rectangles, rows) ==
    LET new == RowRange(rectangles, rows)
    IN  [i \in 1..rows |-> IF new[1] <= i /\ i < new[2] THEN SpansOfRow(rectangles, i)
                           ELSE IF i \in DOMAIN spans THEN spans[i] ELSE <<>>]

\* Mutant: rows the pane has lost keep their spans.
SpansUntruncated(spans, old, rectangles, rows) ==
    [i \in 1..Max({rows, Len(spans)}) |-> SpansOfRow(rectangles, i)]

\* The spans kept row by row, worked out again from the first to the last row of
\* the selection before and the one now.
SpansKept(spans, old, rectangles, rows) ==
    LET new == RowRange(rectangles, rows)
        ends == {r \in {old, new} : r # <<0, 0>>}
        touched == {i \in 1..rows : \E r, q \in ends : r[1] <= i /\ i < q[2]}
    IN  [i \in 1..rows |->
            IF i \in touched
            THEN IF new[1] <= i /\ i < new[2] THEN SpansOfRow(rectangles, i) ELSE <<>>
            ELSE IF i \in DOMAIN spans THEN spans[i] ELSE <<>>]

NewSelected == [of |-> <<>>, range |-> <<0, 0>>, spans |-> <<>>]

\* Both layers work the spans out again when the rectangles or the number of
\* rows are others (selection_spans_fingerprint).
SelectedDrawn ==
    LET n == Len(snapshot.lines)
    IN  IF selected.of = <<n, rects>> THEN selected
        ELSE [of |-> <<n, rects>>, range |-> RowRange(rects, n),
              spans |-> SpansKept(selected.spans, selected.range, rects, n)]

-----------------------------------------------------------------------------
(* The canvas.                                                             *)

Resized(seq, n, default) == [i \in 1..n |-> IF i <= Len(seq) THEN seq[i] ELSE default]

NewCanvas == [style |-> 0, seen |-> <<>>, prints |-> <<>>, artifacts |-> <<>>, bands |-> <<>>,
              occupied |-> {}]

NoDrawing == <<>>

ChunkOf(row) == (row - 1) \div ChunkRows

\* The bands, first to last, each the set of its chunks: chunks with something
\* to draw that follow one another.
Bands(occupied) ==
    LET starts == SetToSortSeq({k \in occupied : k - 1 \notin occupied}, <)
    IN  [b \in DOMAIN starts |-> {k \in occupied : starts[b]..k \subseteq occupied /\ k >= starts[b]}]

\* row_fingerprint: style, revision and index.
RowPrint(i) == <<generation, snapshot.revisions[i], i>>

\* Mutant: a band is as dirty as its last chunk.
LastChunkDirty(band, dirty) == Max(band) \in dirty

\* band_dirty: any of its chunks is.
BandDirty(band, dirty) == band \cap dirty # {}

\* TerminalCanvas::draw.  Only a band with a dirty chunk gives up its drawing,
\* and drawings are kept by the position of the band.
CanvasDrawn ==
    LET n == Len(snapshot.lines)
        restyled == canvas.style # generation
        prints == Resized(canvas.prints, n, <<0, 0, 0>>)
        artifacts == [i \in 1..n |-> IF prints[i] # RowPrint(i) THEN Artifacts(snapshot.lines[i])
                                     ELSE canvas.artifacts[i]]
        seen == Resized(canvas.seen, n, 0)
        dirty == {ChunkOf(i) : i \in {k \in 1..n : restyled \/ seen[k] # snapshot.revisions[k]}}
        occupied == {ChunkOf(i) : i \in {k \in 1..n : artifacts[k] # NoArtifacts}}
        bands == Bands(occupied)
        Kept(b) == IF restyled \/ b > Len(canvas.bands) \/ BandDirty(bands[b], dirty)
                   THEN NoDrawing ELSE canvas.bands[b]
        Drawing(b) == [i \in {k \in 1..n : ChunkOf(k) \in bands[b]} |-> artifacts[i]]
    IN  [style |-> generation,
         seen |-> snapshot.revisions,
         prints |-> [i \in 1..n |-> RowPrint(i)],
         artifacts |-> artifacts,
         bands |-> [b \in DOMAIN bands |-> IF Kept(b) = NoDrawing THEN Drawing(b) ELSE Kept(b)],
         occupied |-> occupied]

-----------------------------------------------------------------------------
(* The paragraphs.  Fonts and viewport stay as they are, so the style never *)
(* changes after the first frame; the generation is no part of it.          *)

NewParagraphs == [prints |-> <<>>, base |-> <<>>, overlayPrints |-> <<>>, overlay |-> <<>>]

\* Mutant: the overlay's fingerprint leaves the cursor out.
OverlayPrintNoCursor(i, spans) == <<i, snapshot.revisions[i], spans, FALSE>>

\* overlay_row_fingerprint: the cursor counts on its own row only.
OverlayPrint(i, spans) == <<i, snapshot.revisions[i], spans, cursor = i>>

\* The overlay runs of build_terminal_body_row_model: the selected cells in the
\* selection's colour and the cell under the cursor in the cursor's.
OverlayRuns(line, spans, atCursor) ==
    [selected |-> {c \in 1..Columns : Visible(line[c]) /\
                      \E k \in DOMAIN spans : c < spans[k].end /\ spans[k].start < c + line[c].width},
     under |-> IF atCursor THEN {line[1]} ELSE {},
     line |-> line]

\* TerminalTextLayer::diff and ModelParagraphTerminalBodyLayer::diff.
ParagraphsDrawn(spans) ==
    LET n == Len(snapshot.lines)
        prints == Resized(paragraphs.prints, n, <<0, 0>>)
        overlayPrints == Resized(paragraphs.overlayPrints, n, <<0, 0, <<>>, FALSE>>)
        lines == snapshot.lines
    IN  [prints |-> [i \in 1..n |-> <<snapshot.revisions[i], i>>],
         base |-> [i \in 1..n |-> IF prints[i] # <<snapshot.revisions[i], i>>
                                  THEN TextRuns(lines[i]) ELSE paragraphs.base[i]],
         overlayPrints |-> [i \in 1..n |-> OverlayPrint(i, spans[i])],
         overlay |-> [i \in 1..n |-> IF overlayPrints[i] # OverlayPrint(i, spans[i])
                                     THEN OverlayRuns(lines[i], spans[i], cursor = i)
                                     ELSE paragraphs.overlay[i]]]

-----------------------------------------------------------------------------
Init ==
    /\ snapshot = NoSnapshot
    /\ generation = 1
    /\ nextRevision = 1
    /\ cursor = 1
    /\ rects = <<>>
    /\ impl \in {"canvas", "paragraph"}
    /\ canvas = NewCanvas
    /\ selected = NewSelected
    /\ paragraphs = NewParagraphs
    /\ pending = 0
    /\ shifted = FALSE
    /\ overrun = FALSE

\* The window draws at its own pace.
Change ==
    /\ pending < MaxPending
    /\ pending' = pending + 1

\* Some row, as it is or as it was drawn, has a number that is still to be given.
Reached ==
    \/ \E i \in DOMAIN snapshot.lines : snapshot.revisions[i] >= nextRevision + i - 1
    \/ \E p \in ToSet(paragraphs.prints) : p[1] >= nextRevision + p[2] - 1

\* Mutant: a full state keeps the generation.
FullStateKeepingGeneration(lines, row) ==
    /\ nextRevision + Len(lines) <= MaxRevision
    /\ snapshot' = [lines |-> lines,
                    revisions |-> [i \in DOMAIN lines |-> nextRevision + i - 1]]
    /\ nextRevision' = nextRevision + Len(lines)
    /\ cursor' = row
    /\ overrun' = (overrun \/ Reached)
    /\ Change
    /\ UNCHANGED <<generation, rects, impl, canvas, paragraphs, selected, shifted>>

\* handle_stream_event, FullState and UiPaneFullState of the pane.
FullState(lines, row) ==
    /\ nextRevision + Len(lines) <= MaxRevision
    /\ snapshot' = [lines |-> lines,
                    revisions |-> [i \in DOMAIN lines |-> nextRevision + i - 1]]
    /\ nextRevision' = nextRevision + Len(lines)
    /\ generation' = generation + 1
    /\ cursor' = row
    /\ overrun' = (overrun \/ Reached)
    /\ Change
    /\ UNCHANGED <<rects, impl, canvas, paragraphs, selected, shifted>>

\* UiPaneFullState of another pane: the counters are shared.
OtherPane(height) ==
    /\ nextRevision + height <= MaxRevision
    /\ nextRevision' = nextRevision + height
    /\ generation' = generation + 1
    /\ Change
    /\ UNCHANGED <<snapshot, cursor, rects, impl, canvas, paragraphs, selected, shifted, overrun>>

\* apply_remote_delta_snapshot with one changed row.
Delta(i, line, row) ==
    /\ i \in DOMAIN snapshot.lines /\ row \in DOMAIN snapshot.lines
    /\ snapshot.revisions[i] < MaxRevision
    /\ snapshot' = [snapshot EXCEPT !.lines[i] = line, !.revisions[i] = @ + 1]
    /\ cursor' = row
    /\ Change
    /\ UNCHANGED <<generation, nextRevision, rects, impl, canvas, paragraphs, selected, shifted, overrun>>

\* A UiRuntimeState with another selection.
Select(selection) ==
    /\ rects' = selection
    /\ Change
    /\ UNCHANGED <<snapshot, generation, nextRevision, cursor, impl, canvas, paragraphs, selected, shifted, overrun>>

\* A UiRuntimeState of another view revision drops every snapshot.
Forget ==
    /\ snapshot # NoSnapshot
    /\ snapshot' = NoSnapshot
    /\ Change
    /\ UNCHANGED <<generation, nextRevision, cursor, rects, impl, canvas, paragraphs, selected, shifted, overrun>>

\* render_terminal_scene: a pane without a snapshot has no layers, and what they
\* kept goes with them.
Draw ==
    /\ pending > 0
    /\ pending' = 0
    /\ IF snapshot = NoSnapshot
       THEN /\ canvas' = NewCanvas /\ paragraphs' = NewParagraphs /\ selected' = NewSelected
            /\ shifted' = FALSE
       ELSE /\ selected' = SelectedDrawn
            /\ canvas' = IF impl = "canvas" THEN CanvasDrawn ELSE canvas
            /\ paragraphs' = IF impl = "paragraph" THEN ParagraphsDrawn(selected'.spans)
                             ELSE paragraphs
            /\ shifted' = (canvas.style = generation
                              /\ (shifted \/ canvas'.occupied # canvas.occupied))
    /\ UNCHANGED <<snapshot, generation, nextRevision, cursor, rects, impl, overrun>>

Next ==
    \/ \E n \in Heights : \E lines \in [1..n -> Lines], row \in 1..n : FullState(lines, row)
    \/ \E n \in Heights : OtherPane(n)
    \/ \E i \in 1..Max(Heights), line \in Lines, row \in 1..Max(Heights) : Delta(i, line, row)
    \/ \E selection \in Selections : Select(selection)
    \/ Forget
    \/ Draw

Spec == Init /\ [][Next]_vars

-----------------------------------------------------------------------------
Rows == DOMAIN snapshot.lines

Drawn(layer) == pending = 0 /\ impl = layer

TypeOK ==
    /\ snapshot.lines \in Seq(Lines)
    /\ DOMAIN snapshot.revisions = Rows
    /\ \A i \in Rows : snapshot.revisions[i] \in 1..MaxRevision
    /\ generation \in Nat /\ canvas.style <= generation
    /\ nextRevision \in 1..MaxRevision /\ pending \in 0..MaxPending
    /\ \A b \in DOMAIN canvas.bands : canvas.bands[b] # NoDrawing
    /\ Drawn("canvas") => Len(canvas.artifacts) = Len(snapshot.lines)
    /\ pending = 0 => DOMAIN selected.spans = Rows

\* What all the bands paint on a row.
Painted(i) == {band[i] : band \in {b \in ToSet(canvas.bands) : i \in DOMAIN b}}

\* The row's contents, once, and nothing on rows the pane does not have.
Shows(i) == Painted(i) \ {NoArtifacts} =
                IF i \in Rows THEN {Artifacts(snapshot.lines[i])} \ {NoArtifacts} ELSE {}

\* Once drawn, the artifacts kept for each row are those of what it holds: no
\* change of a row leaves it with the fingerprint it had, whatever full states,
\* deltas and selections came since, for this pane or another.
ArtifactsCurrent ==
    Drawn("canvas") => \A i \in Rows : canvas.artifacts[i] = Artifacts(snapshot.lines[i])

\* While the same chunks have something to draw, what is on the canvas is the
\* snapshot: nothing is missing, left behind or painted twice.
CanvasCurrent ==
    Drawn("canvas") /\ ~shifted => \A i \in 1..Max(Heights) : Shows(i)

\* docs/modules/renderer.md:15: the renderer is to "draw VT snapshots into the
\* GUI".  The drawings are kept by position, so it does not once a chunk becomes
\* empty or is filled.
CanvasShowsSnapshot ==
    Drawn("canvas") => \A i \in 1..Max(Heights) : Shows(i)

\* The spans of the selection are worked out for every row it covers or has
\* left, and cover its columns once, in order.
SelectionCurrent ==
    pending = 0 => \A i \in Rows :
        LET spans == selected.spans[i]
        IN  /\ UNION {spans[k].start..(spans[k].end - 1) : k \in DOMAIN spans}
                  = {c \in 1..Columns : \E r \in ToSet(rects) :
                        r.top <= i /\ i < r.bottom /\ r.left <= c /\ c < r.right}
            /\ \A k \in DOMAIN spans : k > 1 => spans[k - 1].end < spans[k].start

\* The paragraphs are those of the row too, base and overlay, as long as no row
\* was changed so often that a full state gave it a number it already had.
ParagraphsCurrent ==
    Drawn("paragraph") /\ ~overrun => \A i \in Rows :
        /\ paragraphs.base[i] = TextRuns(snapshot.lines[i])
        /\ paragraphs.overlay[i] = OverlayRuns(snapshot.lines[i], selected.spans[i], cursor = i)

\* Runs paint every visible cell of the row once, at its own column, in its own
\* colour, and nothing else.
RunsPaintTheRow ==
    \A i \in DOMAIN canvas.artifacts :
        LET runs == canvas.artifacts[i].runs
            glyphs == UNION {{[col |-> runs[k].start + g - 1, text |-> runs[k].text[g],
                               colour |-> runs[k].colour] : g \in DOMAIN runs[k].text}
                             : k \in DOMAIN runs}
        IN  Drawn("canvas") => /\ glyphs = {[col |-> c, text |-> snapshot.lines[i][c].text,
                                   colour |-> snapshot.lines[i][c].colour]
                                  : c \in {k \in 1..Columns : Visible(snapshot.lines[i][k])}}
                     /\ \A k, l \in DOMAIN runs :
                            k < l => runs[k].start + runs[k].width <= runs[l].start
=============================================================================
