------------------------------ MODULE CopyMode ------------------------------
(***************************************************************************)
(* Copy mode's cursor and selection (runtime_copy.rs) and the text they    *)
(* copy (vt_snapshot.rs), on a screen that does not change and has no      *)
(* scrollback: motions find words, brackets and blank lines in the text,   *)
(* the selection from an anchor to the cursor is highlighted and copied.   *)
(* Which key leads to which of these actions is in module InputModes.      *)
(*                                                                         *)
(* Rows and columns count from 0, as in the code.  A cell is "w" (a        *)
(* letter, a digit, an underscore), "(" or ")", which also stand for other *)
(* separators, or "_", a blank.                                            *)
(***************************************************************************)
EXTENDS Integers, Sequences, FiniteSets, SequencesExt, FiniteSetsExt

CONSTANTS
    Screens,    \* sequences of rows, each of them the cells of all columns
    Columns,
    NoPoint

Height == Len(CHOOSE s \in Screens : TRUE)

Cells == {"w", "(", ")", "_"}
Cols == 0..Columns - 1
Visible == (0..Height - 1) \X Cols

\* Bound: nothing keeps the row of the cursor on the screen.
Rows == -1..Height
Points == Rows \X Cols

ScreensAssumption ==
    /\ Columns \in Nat \ {0}
    /\ \A s \in Screens : Len(s) = Height /\ \A r \in 1..Height : s[r] \in [1..Columns -> Cells]
    /\ NoPoint \notin Points

VARIABLES
    screen,
    cursor,
    anchor,     \* where the selection began
    select,
    mark,
    up          \* whether the server runs

vars == <<screen, cursor, anchor, select, mark, up>>

TypeOK ==
    /\ screen \in Screens
    /\ cursor \in Points
    /\ anchor \in Points \cup {NoPoint}
    /\ select \in {"none", "char", "line", "rect"}
    /\ mark \in Points \cup {NoPoint}
    /\ up \in BOOLEAN
    /\ select = "none" <=> anchor = NoPoint

Init ==
    /\ screen \in Screens
    /\ cursor \in Visible       \* enter_copy_mode takes the terminal's own
    /\ anchor = NoPoint
    /\ select = "none"
    /\ mark = NoPoint
    /\ up = TRUE

Blank(cell) == cell = "_"
At(line, i) == line[i + 1]

\* read_viewport_line: the text of a row, of the first or last one when the
\* row is off the screen, without the blanks at its end.
Line(row) ==
    LET cells == screen[Max({0, Min({row, Height - 1})}) + 1]
    IN  SubSeq(cells, 1, Min({k \in 0..Columns : \A j \in k + 1..Columns : Blank(cells[j])}))

-----------------------------------------------------------------------------
(* Words.                                                                  *)

Class(cell, big) ==
    IF Blank(cell) THEN "blank" ELSE IF big \/ cell = "w" THEN "word" ELSE "separator"

\* The first place from i on that is not of the class, or the end.
SkipForward(line, i, class, big) ==
    IF i >= Len(line) THEN i
    ELSE Min({k \in i..Len(line) : k = Len(line) \/ Class(At(line, k), big) # class})

\* The leftmost place of the run of the class that ends at i.
SkipBack(line, i, class, big) ==
    Min({k \in 0..i : \A j \in k..i - 1 : Class(At(line, j), big) = class})

\* Mutant: the blanks after the word are not skipped.
NextWordInBlanks(line, col, big) ==
    LET class == IF col < Len(line) THEN Class(At(line, col), big) ELSE "blank"
        past == IF class = "blank" THEN col + 1 ELSE SkipForward(line, col, class, big)
    IN  IF past >= Len(line) THEN col ELSE past

NextWord(line, col, big) ==
    LET class == IF col < Len(line) THEN Class(At(line, col), big) ELSE "blank"
        past == IF class = "blank" THEN col + 1 ELSE SkipForward(line, col, class, big)
        start == SkipForward(line, past, "blank", big)
    IN  IF start >= Len(line) THEN col ELSE start

\* The line may end left of the cursor.
IndexesPastLine(line, col) == col > 0 /\ col - 1 >= Len(line)

PrevWord(line, col, big) ==
    LET words == {k \in 0..col - 1 : ~Blank(At(line, k))}
    IN  IF words = {} THEN 0
        ELSE SkipBack(line, Max(words), Class(At(line, Max(words)), big), big)

EndWord(line, col, big) ==
    IF col + 1 >= Len(line) THEN col
    ELSE LET start == SkipForward(line, col + 1, "blank", big)
         IN  SkipForward(line, start, Class(At(line, start), big), big) - 1

FirstNonBlank(line) ==
    LET text == {k \in 0..Len(line) - 1 : ~Blank(At(line, k))}
    IN  IF text = {} THEN 0 ELSE Min(text)

\* copy_mode_word_under_cursor: the columns of the word to search for.
WordUnderCursor(line, col) ==
    IF col >= Len(line) \/ Class(At(line, col), FALSE) # "word" THEN {}
    ELSE SkipBack(line, col, "word", FALSE)..SkipForward(line, col, "word", FALSE) - 1

-----------------------------------------------------------------------------
(* Brackets and paragraphs.                                                *)

Depth(line, lo, hi) ==
    Cardinality({k \in lo..hi : At(line, k) = "("}) - Cardinality({k \in lo..hi : At(line, k) = ")"})

\* Mutant: back to the outermost bracket.
MatchingBracketOutermost(line, col) ==
    LET brackets == {k \in col..Len(line) - 1 : At(line, k) \in {"(", ")"}}
        pos == Min(brackets)
        ahead == {j \in pos..Len(line) - 1 : Depth(line, pos, j) = 0}
        behind == {j \in 0..pos : Depth(line, j, pos) = 0}
    IN  IF brackets = {} THEN col
        ELSE IF At(line, pos) = "(" THEN IF ahead = {} THEN col ELSE Min(ahead)
        ELSE IF behind = {} THEN col ELSE Min(behind)

\* The first bracket from the cursor on, and from there its partner; without
\* one of them the cursor stays.
MatchingBracket(line, col) ==
    LET brackets == {k \in col..Len(line) - 1 : At(line, k) \in {"(", ")"}}
        pos == Min(brackets)
        ahead == {j \in pos..Len(line) - 1 : Depth(line, pos, j) = 0}
        behind == {j \in 0..pos : Depth(line, j, pos) = 0}
    IN  IF brackets = {} THEN col
        ELSE IF At(line, pos) = "(" THEN IF ahead = {} THEN col ELSE Min(ahead)
        ELSE IF behind = {} THEN col ELSE Max(behind)

\* The next row ahead or behind without text; the row after the last one
\* shows the last one.
Paragraph(forward) ==
    LET blank == {r \in 0..Height : Line(r) = <<>> /\ IF forward THEN r > cursor[1] ELSE r < cursor[1]}
    IN  IF blank = {} THEN cursor ELSE <<IF forward THEN Min(blank) ELSE Max(blank), 0>>

-----------------------------------------------------------------------------
(* Selections.                                                             *)

\* ordered_selection_bounds, and the same lines in runtime_copy.rs.
Ordered(a, b) ==
    IF a[1] < b[1] \/ (a[1] = b[1] /\ a[2] <= b[2]) THEN <<a, b>> ELSE <<b, a>>

\* compute_selection_rects_static: the cells that are highlighted.
Highlighted(mode, a, b) ==
    LET from == Ordered(a, b)[1]
        to == Ordered(a, b)[2]
    IN  {p \in Visible :
            /\ from[1] <= p[1] /\ p[1] <= to[1]
            /\ mode = "char" => /\ p[1] = from[1] => from[2] <= p[2]
                                /\ p[1] = to[1] => p[2] <= to[2]
            /\ mode = "rect" => Min({a[2], b[2]}) <= p[2] /\ p[2] <= Max({a[2], b[2]})}

\* selection_text: the cells from one corner to the other.  It orders the rows
\* and, apart from them, the columns.
SelectionText(c1, r1, c2, r2, rectangle) ==
    LET top == Min({r1, Height - 1})
        bottom == Min({r2, Height - 1})
    IN  {p \in Visible :
            /\ top <= p[1] /\ p[1] <= bottom
            /\ (rectangle \/ p[1] = r1) => Min({c1, c2}) <= p[2]
            /\ (rectangle \/ p[1] = r2) => p[2] <= Max({c1, c2})}

\* Mutant: whole lines are copied from the anchor's column on.
CopiedFromAnchor(mode, a, b) ==
    LET from == Ordered(a, b)[1]
        to == Ordered(a, b)[2]
    IN  SelectionText(from[2], Max({from[1], 0}), to[2], Max({to[1], 0}), mode = "rect")

\* copy_mode_copy, and copy_mode_append_copy.
Copied(mode, a, b) ==
    LET from == Ordered(a, b)[1]
        to == Ordered(a, b)[2]
        c1 == IF mode = "line" THEN 0 ELSE from[2]
        c2 == IF mode = "line" THEN Columns - 1 ELSE to[2]
    IN  SelectionText(c1, Max({from[1], 0}), c2, Max({to[1], 0}), mode = "rect")

-----------------------------------------------------------------------------
(* Actions.                                                                *)

Here == Line(cursor[1])

\* Bound: the row stays in Rows.
GoTo(point) ==
    /\ up
    /\ point \in Points
    /\ cursor' = point
    /\ UNCHANGED <<screen, anchor, select, mark, up>>

GoToCol(col) == GoTo(<<cursor[1], col>>)

Move ==
    \/ \E r \in {cursor[1] - 1, cursor[1] + 1} : GoTo(<<r, cursor[2]>>)
    \/ \E c \in {cursor[2] - 1, cursor[2] + 1} : c \in Cols /\ GoToCol(c)

WordMove ==
    \E big \in BOOLEAN :
        \/ GoToCol(NextWord(Here, cursor[2], big))
        \/ GoToCol(EndWord(Here, cursor[2], big))
        \/ ~IndexesPastLine(Here, cursor[2]) /\ GoToCol(PrevWord(Here, cursor[2], big))
        \* The index is checked: the thread, the main one, panics.
        \/ /\ up
           /\ IndexesPastLine(Here, cursor[2])
           /\ up' = FALSE
           /\ UNCHANGED <<screen, cursor, anchor, select, mark>>

\* LineStart, LineEnd, FirstNonBlank, MatchingBracket
LineMove ==
    \E col \in {0, Columns - 1, FirstNonBlank(Here), MatchingBracket(Here, cursor[2])} : GoToCol(col)

\* ScreenTop, ScreenMiddle, ScreenBottom, HistoryTop, HistoryBottom (the row
\* after the last) and the pages, which keep the column.
ScreenMove ==
    \/ \E row \in {0, Height \div 2, Height - 1, Height} : GoTo(<<row, 0>>)
    \/ \E by \in {Height, Height \div 2} :
          \E row \in {cursor[1] - by, cursor[1] + by} : GoTo(<<row, cursor[2]>>)
    \/ \E forward \in BOOLEAN : GoTo(Paragraph(forward))

\* StartCharSelect, StartLineSelect, StartRectSelect: a rectangle takes over
\* the anchor of another selection.
StartSelect ==
    /\ up
    /\ \E mode \in {"char", "line", "rect"} :
        IF select = mode
        THEN select' = "none" /\ anchor' = NoPoint
        ELSE /\ select' = mode
             /\ anchor' = IF mode = "rect" /\ anchor # NoPoint THEN anchor ELSE cursor
    /\ UNCHANGED <<screen, cursor, mark, up>>

\* Mutant: the anchor stays, for a rectangle to start from.
ClearSelectionOnly ==
    /\ up
    /\ select # "none"
    /\ select' = "none"
    /\ UNCHANGED <<screen, cursor, anchor, mark, up>>

ClearSelection ==
    /\ up
    /\ select # "none"
    /\ select' = "none"
    /\ anchor' = NoPoint
    /\ UNCHANGED <<screen, cursor, mark, up>>

SwapAnchor ==
    /\ up
    /\ anchor # NoPoint
    /\ cursor' = anchor
    /\ anchor' = cursor
    /\ UNCHANGED <<screen, select, mark, up>>

SetMark ==
    /\ up
    /\ mark' = cursor
    /\ UNCHANGED <<screen, cursor, anchor, select, up>>

JumpToMark == mark # NoPoint /\ GoTo(mark)

Next ==
    \/ Move \/ WordMove \/ LineMove \/ ScreenMove
    \/ StartSelect \/ ClearSelection \/ SwapAnchor
    \/ SetMark \/ JumpToMark

Spec == Init /\ [][Next]_vars

-----------------------------------------------------------------------------
\* What a word is, without a cursor that walks: a run of one class.
WordStarts(line, big) ==
    {k \in 0..Len(line) - 1 :
        /\ ~Blank(At(line, k))
        /\ k > 0 => Class(At(line, k - 1), big) # Class(At(line, k), big)}

WordEnds(line, big) ==
    {k \in 0..Len(line) - 1 :
        /\ ~Blank(At(line, k))
        /\ k < Len(line) - 1 => Class(At(line, k + 1), big) # Class(At(line, k), big)}

Nearest(places, col) == IF places = {} THEN col ELSE Min(places)

\* As in vi, w goes to the next start of a word, e to the next end and b, from
\* within the line, to the last start before; the word that * searches for is
\* the one they delimit.
MotionsFindWords ==
    \A big \in BOOLEAN :
        LET line == Here
            col == cursor[2]
            starts == WordStarts(line, big)
            before == {k \in starts : k < col}
            under == WordUnderCursor(line, col)
        IN  /\ NextWord(line, col, big) = Nearest({k \in starts : k > col}, col)
            /\ EndWord(line, col, big) = Nearest({k \in WordEnds(line, big) : k > col}, col)
            /\ col <= Len(line) => PrevWord(line, col, big) = IF before = {} THEN 0 ELSE Max(before)
            /\ under # {} => /\ Min(under) \in WordStarts(line, FALSE)
                             /\ Max(under) \in WordEnds(line, FALSE)

\* On a bracket, the match of its match is the bracket itself.
BracketsReturn ==
    LET line == Here
        col == cursor[2]
        match == MatchingBracket(line, col)
    IN  col < Len(line) /\ At(line, col) \in {"(", ")"} /\ match # col
            => MatchingBracket(line, match) = col

\* What is copied is what is highlighted: for lines, for a rectangle, and for
\* characters as long as the first column is not right of the last; and as
\* long as both ends are on the screen.
CopiesTheHighlight ==
    /\ select # "none"
    /\ {anchor, cursor} \subseteq Visible
    /\ select = "char" => Ordered(anchor, cursor)[1][2] <= Ordered(anchor, cursor)[2][2]
    => Copied(select, anchor, cursor) = Highlighted(select, anchor, cursor)

\* "copy the current copy-mode selection to the clipboard": also the one whose
\* last row ends left of where its first row begins.
CopiesTheSelection ==
    select # "none" /\ {anchor, cursor} \subseteq Visible
        => Copied(select, anchor, cursor) = Highlighted(select, anchor, cursor)

\* "tmux vi copy-mode compatible": a motion leaves the server running.
MotionsReturn == up
=============================================================================
