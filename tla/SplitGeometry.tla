---------------------------- MODULE SplitGeometry ----------------------------
(***************************************************************************)
(* The shape of one tab (src/splits.rs, src/layout.rs): its splits, the    *)
(* frames they give the panes, the moves of the focus and of the dividers, *)
(* the preset layouts, and what a saved layout keeps.                      *)
(*                                                                         *)
(* The tree is a prefix-closed set of paths: a path is the sequence of     *)
(* sides (1 the first child, 2 the second) that lead from the root to a    *)
(* node.  An inner node has a direction and a ratio, a leaf its pane (leaf *)
(* ids are in SplitTree).  Ratios are in thousandths, lengths in tenths of *)
(* a point, rounded down: Border is SPLIT_BORDER, Reach the half width of  *)
(* a divider with its DIVIDER_HIT_MARGIN.                                  *)
(***************************************************************************)
EXTENDS Integers, Sequences, FiniteSets, SequencesExt, FiniteSetsExt

CONSTANTS
    Width, Height,      \* the terminal frame
    MaxPanes,           \* bound on the panes of the tab
    MaxChanges,         \* bound on the operations that change a split or its ratio
    Points,             \* where the pointer goes
    CellSteps,          \* what resize-split moves a divider by
    RemoteRatios        \* the ratios a remote client asks for

GeometryAssumption ==
    /\ Width \in Nat /\ Height \in Nat /\ MaxPanes \in Nat /\ MaxChanges \in Nat
    /\ Points \subseteq Nat \X Nat /\ CellSteps \subseteq Int /\ RemoteRatios \subseteq Int

VARIABLES
    splits,     \* inner nodes: path -> direction and ratio
    panes,      \* leaves: path -> pane
    focus,      \* the pane of the focused leaf
    layout,     \* the preset the tab was last given
    pointer,    \* last_mouse_pos
    drag,       \* divider_drag
    held,       \* history: the path of the divider taken, while nothing else moved it
    preset,     \* history: nothing changed since the preset was applied
    changes     \* history: operations so far

vars == <<splits, panes, focus, layout, pointer, drag, held, preset, changes>>

Border == 10
Reach == 35
Axes == {"horizontal", "vertical"}
Sides == {"left", "right", "up", "down"}
Presets == {"even-horizontal", "even-vertical", "main-horizontal", "main-vertical", "tiled"}
Nowhere == <<0>>

Greater(a, b) == IF a > b THEN a ELSE b
Lesser(a, b) == IF a < b THEN a ELSE b
Distance(a, b) == IF a < b THEN b - a ELSE a - b
\* Mutant: what a client asks for is taken.
Unclamped(ratio) == ratio

Clamped(ratio) == Greater(100, Lesser(900, ratio))

\* Mutant: the second side does not make room for the border.
HalfFrameUnderBorder(frame, split, side) ==
    LET first(extent) == ((extent - Border) * split.ratio) \div 1000
    IN  IF split.dir = "horizontal"
        THEN IF side = 1
             THEN [frame EXCEPT !.w = first(frame.w)]
             ELSE [frame EXCEPT !.x = @ + first(frame.w), !.w = @ - first(frame.w)]
        ELSE IF side = 1
             THEN [frame EXCEPT !.h = first(frame.h)]
             ELSE [frame EXCEPT !.y = @ + first(frame.h), !.h = @ - first(frame.h)]

\* split_frame.
HalfFrame(frame, split, side) ==
    LET first(extent) == ((extent - Border) * split.ratio) \div 1000
        second(extent) == extent - Border - first(extent)
    IN  IF split.dir = "horizontal"
        THEN IF side = 1
             THEN [frame EXCEPT !.w = first(frame.w)]
             ELSE [frame EXCEPT !.x = @ + first(frame.w) + Border, !.w = second(frame.w)]
        ELSE IF side = 1
             THEN [frame EXCEPT !.h = first(frame.h)]
             ELSE [frame EXCEPT !.y = @ + first(frame.h) + Border, !.h = second(frame.h)]

\* The frame of a node: the terminal's, halved along the path.
Frame(tree, path) ==
    LET down[i \in 0..Len(path)] ==
            IF i = 0 THEN [x |-> 0, y |-> 0, w |-> Width, h |-> Height]
            ELSE HalfFrame(down[i - 1], tree[SubSeq(path, 1, i - 1)], path[i])
    IN  down[Len(path)]

\* In the order of the recursion: a node before its children, the first child before the second.
Precedes(p, q) ==
    \/ IsStrictPrefix(p, q)
    \/ \E i \in DOMAIN p \cap DOMAIN q :
           SubSeq(p, 1, i - 1) = SubSeq(q, 1, i - 1) /\ p[i] < q[i]

FirstOf(paths) == CHOOSE p \in paths : \A q \in paths \ {p} : Precedes(p, q)
InOrder(leaves) ==
    [i \in 1..Cardinality(DOMAIN leaves) |->
        CHOOSE p \in DOMAIN leaves : Cardinality({q \in DOMAIN leaves : Precedes(q, p)}) = i - 1]
PathOf(pane) == CHOOSE p \in DOMAIN panes : panes[p] = pane

Along(frame, axis) == IF axis = "horizontal" THEN frame.w ELSE frame.h
Start(frame, axis) == IF axis = "horizontal" THEN frame.x ELSE frame.y
End(frame, axis) == Start(frame, axis) + Along(frame, axis)
Across(axis) == IF axis = "horizontal" THEN "vertical" ELSE "horizontal"
Coordinate(point, axis) == IF axis = "horizontal" THEN point[1] ELSE point[2]
Spans(frame, axis, point) ==
    Coordinate(point, axis) \in Start(frame, axis)..End(frame, axis)
Middle(tree, path) ==
    End(Frame(tree, Append(path, 1)), tree[path].dir) + Border \div 2
------------------------------------------------------------------------------
\* split_node_with_ratio: the new pane is the second child, whatever the side asked for.
Split(dir) ==
    LET path == PathOf(focus)
        new == CHOOSE p \in 1..MaxPanes : \A q \in DOMAIN panes : panes[q] # p
    IN  /\ Cardinality(DOMAIN panes) < MaxPanes
        /\ splits' = [p \in DOMAIN splits \cup {path} |->
                         IF p = path THEN [dir |-> dir, ratio |-> 500] ELSE splits[p]]
        /\ panes' = [p \in (DOMAIN panes \ {path}) \cup {Append(path, 1), Append(path, 2)} |->
                        CASE p = Append(path, 1) -> focus
                          [] p = Append(path, 2) -> new
                          [] OTHER -> panes[p]]
        /\ focus' = new
        /\ UNCHANGED layout

\* remove_leaf: the sibling takes the place of the parent, with all below it;
\* the first leaf gets the focus.
Without(tree, parent, kept) ==
    LET below == Append(parent, kept)
        old(p) == IF IsPrefix(parent, p) THEN below \o SubSeq(p, Len(parent) + 1, Len(p)) ELSE p
        moved(p) == parent \o SubSeq(p, Len(below) + 1, Len(p))
    IN  [p \in {q \in DOMAIN tree : ~IsPrefix(parent, q)}
               \cup {moved(q) : q \in {r \in DOMAIN tree : IsPrefix(below, r)}} |-> tree[old(p)]]

\* remove_leaf and what remove_focused and remove_pane do after it.
CutPane(pane) ==
    LET path == PathOf(pane)
    IN  /\ path # <<>>
        /\ splits' = Without(splits, Front(path), 3 - Last(path))
        /\ panes' = Without(panes, Front(path), 3 - Last(path))
        /\ focus' = panes'[FirstOf(DOMAIN panes')]

\* handle_surface_closed: the tab keeps the name of the layout it was given.
ClosePane(pane) == CutPane(pane) /\ UNCHANGED layout

\* A marked pane joins another tab: remove_pane_by_id takes it from this one.
TakePane(pane) == CutPane(pane) /\ layout' = "manual"

SetRatio(path, ratio) ==
    /\ splits' = [splits EXCEPT ![path].ratio = Clamped(ratio)]
    /\ UNCHANGED <<panes, focus, layout>>

\* The split that resize_toward_leaf_* changes: the nearest above the leaf on the axis.
Ancestors(path, axis) == {p \in DOMAIN splits : IsStrictPrefix(p, path) /\ splits[p].dir = axis}
Nearest(paths) == CHOOSE p \in paths : \A q \in paths : Len(q) <= Len(p)

ResizeByCells(axis, step) ==
    LET here == PathOf(focus)
        above == Ancestors(here, axis)
        path == Nearest(above)
        usable == Greater(Along(Frame(splits, path), axis) - Border, Border)
    IN  /\ above # {}
        /\ SetRatio(path, splits[path].ratio + (step * 1000) \div usable)

ResizeToRatio(pane, axis, ratio) ==
    LET here == PathOf(pane)
        above == Ancestors(here, axis)
    IN  above # {} /\ SetRatio(Nearest(above), ratio)

\* rebalance_node: the directions stay, so does the preset's name.
Rebalance ==
    /\ splits' = [p \in DOMAIN splits |-> [splits[p] EXCEPT !.ratio = 500]]
    /\ UNCHANGED <<panes, focus, layout>>

\* Mutant: up was copied from left.
AxisCopied(side) == IF side = "down" THEN "vertical" ELSE "horizontal"

\* focus_direction: how far a pane is on a side, and how far off it; what is
\* not past the edge on that side is no candidate.
Axis(side) == IF side \in {"left", "right"} THEN "horizontal" ELSE "vertical"
IsBeyond(from, to, side) ==
    IF side \in {"left", "up"} THEN End(to, Axis(side)) <= Start(from, Axis(side))
                               ELSE End(from, Axis(side)) <= Start(to, Axis(side))
Gap(a, b, axis) ==
    Greater(0, Greater(Start(b, axis) - End(a, axis), Start(a, axis) - End(b, axis)))
Centre2(frame, axis) == Start(frame, axis) + End(frame, axis)
\* Twice the smaller of the separation and the distance of the centres.
Offside(from, to, side) ==
    Lesser(2 * Gap(from, to, Across(Axis(side))),
           Distance(Centre2(from, Across(Axis(side))), Centre2(to, Across(Axis(side)))))

Directed(from, side) ==
    LET frames == [p \in DOMAIN panes |-> Frame(splits, p)]
        beyond == {p \in DOMAIN panes \ {from} : IsBeyond(frames[from], frames[p], side)}
        near == [p \in beyond |-> Gap(frames[from], frames[p], Axis(side))]
        off == [p \in beyond |-> Offside(frames[from], frames[p], side)]
        best == {p \in beyond : \A q \in beyond :
                    near[p] < near[q] \/ (near[p] = near[q] /\ off[p] <= off[q])}
    IN  IF beyond = {} THEN from ELSE FirstOf(best)

SwitchFocus(side) ==
    /\ focus' = panes[Directed(PathOf(focus), side)]
    /\ UNCHANGED <<splits, panes, layout>>
------------------------------------------------------------------------------
\* divider_at_node: the outer dividers are asked first.
DividersAt(point) ==
    {p \in DOMAIN splits :
        /\ Distance(Coordinate(point, splits[p].dir), Middle(splits, p)) < Reach
        /\ Spans(Frame(splits, p), Across(splits[p].dir), point)}

\* leaf_at_point: edges belong to the leaf, the first in order wins.
LeavesAt(point) ==
    {p \in DOMAIN panes : \A axis \in Axes : Spans(Frame(splits, p), axis, point)}

\* handle_mouse, left button: on a divider a drag begins, of which only the
\* direction is kept; elsewhere the pane under the pointer gets the focus.
Press(point) ==
    /\ drag = "none"
    /\ pointer' = point
    /\ IF DividersAt(point) # {}
       THEN /\ drag' = splits[FirstOf(DividersAt(point))].dir
            /\ held' = FirstOf(DividersAt(point))
            /\ UNCHANGED focus
       ELSE /\ focus' = IF LeavesAt(point) = {} THEN focus ELSE panes[FirstOf(LeavesAt(point))]
            /\ UNCHANGED <<drag, held>>
    /\ UNCHANGED <<splits, panes, layout, preset, changes>>

\* Mutant: the split does not have to lie under the pointer.
SplitsOfDirection(point) == {p \in DOMAIN splits : splits[p].dir = drag}

\* resize_drag_node: the first split of the direction beside the pointer.
Dragged(point) ==
    {p \in DOMAIN splits :
        splits[p].dir = drag /\ Spans(Frame(splits, p), Across(drag), point)}

DragTo(point) ==
    /\ drag # "none"
    /\ point # pointer
    /\ pointer' = point
    /\ IF Dragged(point) = {} THEN UNCHANGED splits
       ELSE LET path == FirstOf(Dragged(point))
                frame == Frame(splits, path)
            IN  splits' = [splits EXCEPT ![path].ratio =
                    Clamped(((Coordinate(point, drag) - Start(frame, drag)) * 1000)
                            \div Greater(Along(frame, drag), Border))]
    /\ preset' = FALSE
    /\ UNCHANGED <<panes, focus, layout, drag, held>>

Release ==
    /\ drag # "none"
    /\ drag' = "none"
    /\ held' = Nowhere
    /\ UNCHANGED <<splits, panes, focus, layout, pointer, preset, changes>>
------------------------------------------------------------------------------
\* Mutant: the pane being split is not counted.
EvenRatioShort(n, i) == 1000 \div Greater(1, n - i)

\* layout_splits: what is left to share is the pane split and those to come.

EvenRatio(n, i) == 1000 \div (n - i + 1)

LayoutSplits(name, n) ==
    [i \in 1..(n - 1) |->
        CASE name = "even-horizontal" -> [dir |-> "horizontal", ratio |-> EvenRatio(n, i)]
          [] name = "even-vertical"   -> [dir |-> "vertical", ratio |-> EvenRatio(n, i)]
          [] name = "main-vertical"   ->
                IF i = 1 THEN [dir |-> "horizontal", ratio |-> 600]
                         ELSE [dir |-> "vertical", ratio |-> EvenRatio(n, i)]
          [] name = "main-horizontal" ->
                IF i = 1 THEN [dir |-> "vertical", ratio |-> 600]
                         ELSE [dir |-> "horizontal", ratio |-> EvenRatio(n, i)]
          [] name = "tiled"           ->
                [dir |-> IF i % 2 = 1 THEN "horizontal" ELSE "vertical", ratio |-> EvenRatio(n, i)]
          [] OTHER                    -> [dir |-> "vertical", ratio |-> 500]]

\* rebuild_from_panes, and the loading of a layout: the last leaf is split again and again.
Spine(k) == [i \in 1..k |-> 2]
ChainSplits(specs) ==
    [p \in {Spine(k - 1) : k \in 1..Len(specs)} |->
        [specs[Len(p) + 1] EXCEPT !.ratio = Clamped(@)]]
ChainPanes(row) ==
    [p \in {Append(Spine(k - 1), 1) : k \in 1..(Len(row) - 1)} \cup {Spine(Len(row) - 1)} |->
        IF p = Spine(Len(row) - 1) THEN Last(row) ELSE row[Len(p)]]

Row == LET order == InOrder(panes) IN [i \in DOMAIN order |-> panes[order[i]]]

ApplyLayout(name) ==
    /\ layout' = name
    /\ LET row == Row
       IN  IF Len(row) <= 1 THEN UNCHANGED <<splits, panes>>
           ELSE /\ splits' = ChainSplits(LayoutSplits(name, Len(row)))
                /\ panes' = ChainPanes(row)
    /\ UNCHANGED focus

\* cycle_active_layout: without a preset the tab counts as evenly split.
Cycle == <<"even-horizontal", "even-vertical", "main-horizontal", "main-vertical", "tiled">>
CycleLayout(step) ==
    LET at == IF layout = "manual" THEN 1 ELSE CHOOSE i \in 1..5 : Cycle[i] = layout
    IN  ApplyLayout(Cycle[((at + step + 4) % 5) + 1])

\* export_panes, save_current_layout and save_layout: a pane is written with
\* the split right above it, a preset with its name; close to half is half,
\* else whole percents.
WrittenCoarsely(ratio) == IF Distance(ratio, 500) < 100 THEN 500 ELSE ((ratio + 5) \div 10) * 10
Written(ratio) == IF Distance(ratio, 500) < 10 THEN 500 ELSE ((ratio + 5) \div 10) * 10

Saved ==
    [name |-> layout,
     specs |-> [i \in 1..Len(Row) |->
                   IF Len(Row) = 1 THEN [dir |-> "vertical", ratio |-> 500]
                   ELSE [splits[Front(InOrder(panes)[i])] EXCEPT !.ratio = Written(@)]]]

\* parse_layout and load_layout: the first pane is the root, each later one
\* splits the last; a preset's own splits are used instead of the panes'.
Loaded(file) ==
    ChainSplits(IF file.name \in Presets THEN LayoutSplits(file.name, Len(file.specs))
                ELSE Tail(file.specs))
------------------------------------------------------------------------------
Init ==
    /\ splits = <<>> /\ panes = (<<>> :> 1)
    /\ focus = 1 /\ layout = "manual"
    /\ pointer = <<0, 0>> /\ drag = "none" /\ held = Nowhere
    /\ preset = FALSE /\ changes = 0

\* A change by a key or a command, at any time of a drag: the drag goes on.
Change(isPreset) ==
    /\ changes < MaxChanges
    /\ changes' = changes + 1
    /\ held' = Nowhere
    /\ preset' = isPreset
    /\ UNCHANGED <<pointer, drag>>

Next ==
    \/ \E dir \in Axes : Split(dir) /\ Change(FALSE)
    \/ \E p \in 1..MaxPanes :
           (\E q \in DOMAIN panes : panes[q] = p) /\ (ClosePane(p) \/ TakePane(p)) /\ Change(FALSE)
    \/ \E axis \in Axes, step \in CellSteps : ResizeByCells(axis, step) /\ Change(FALSE)
    \/ \E q \in DOMAIN panes, axis \in Axes, ratio \in RemoteRatios :
           ResizeToRatio(panes[q], axis, ratio) /\ Change(FALSE)
    \/ Rebalance /\ Change(FALSE)
    \/ \E name \in Presets \cup {"manual"} : ApplyLayout(name) /\ Change(name # "manual")
    \/ \E step \in {1, -1} : CycleLayout(step) /\ Change(TRUE)
    \/ \E side \in Sides :
           SwitchFocus(side) /\ UNCHANGED <<pointer, drag, held, preset, changes>>
    \/ \E point \in Points : Press(point)
    \/ \E point \in Points : changes < MaxChanges /\ DragTo(point) /\ changes' = changes + 1
    \/ Release

Spec == Init /\ [][Next]_vars
------------------------------------------------------------------------------
TypeOK ==
    /\ DOMAIN splits \cup DOMAIN panes =
           {<<>>} \cup {Append(p, side) : p \in DOMAIN splits, side \in 1..2}
    /\ \A p \in DOMAIN splits : splits[p].dir \in Axes /\ splits[p].ratio \in 100..900
    /\ \E p \in DOMAIN panes : panes[p] = focus
    /\ \A p, q \in DOMAIN panes : panes[p] = panes[q] => p = q
    /\ layout \in Presets \cup {"manual"} /\ drag \in Axes \cup {"none"}

\* The panes share the frame: each lies in it, no two meet, and what they do
\* not cover are the borders, one between the two sides of every split.
PanesTile ==
    LET area(f) == f.w * f.h
        frame == [p \in DOMAIN panes \cup DOMAIN splits |-> Frame(splits, p)]
        borders == [p \in DOMAIN splits |-> Border * Along(frame[p], Across(splits[p].dir))]
    IN  /\ \A p \in DOMAIN panes : frame[p].w > 0 /\ frame[p].h > 0
        /\ \A p, q \in DOMAIN panes :
               p # q => \E axis \in Axes : \/ End(frame[p], axis) + Border <= Start(frame[q], axis)
                                          \/ End(frame[q], axis) + Border <= Start(frame[p], axis)
        /\ Width * Height = MapThenSumSet(LAMBDA p : area(frame[p]), DOMAIN panes)
                            + MapThenSumSet(LAMBDA p : borders[p], DOMAIN splits)

\* The four directions are enough to reach every pane from every other: the
\* rule that picks the nearest leaves none out, so no move is missing between
\* some panes and the rest.  It depends on the frames only: one focus stands for all.
EveryPaneReachable ==
    LET steps == [p \in DOMAIN panes |-> {Directed(p, side) : side \in Sides}]
    IN  drag = "none" /\ PathOf(focus) = FirstOf(DOMAIN panes) =>
            \A some \in SUBSET DOMAIN panes \ {{}, DOMAIN panes} :
                \E p \in some : ~(steps[p] \subseteq some)

\* A drag moves the divider it took: after every motion beside the split the
\* divider is under the pointer, or as far as it goes.  Only the direction of
\* the divider is kept, and the pointer is asked again each time: the property
\* is stated for a divider with no other of its direction around it.
UnderPointer ==
    /\ drag # "none" /\ held # Nowhere
    /\ Spans(Frame(splits, held), Across(drag), pointer)
    => \/ Distance(Coordinate(pointer, drag), Middle(splits, held)) < Reach
       \/ splits[held].ratio \in {100, 900}

DividerFollows == (held # Nowhere /\ Ancestors(held, drag) = {}) => UnderPointer

\* What the comment of resize_drag says of every divider ("Update the ratio of
\* the split being dragged").  Does not hold: the outermost split moves.
TakenDividerFollows == UnderPointer

\* A preset gives the panes it treats alike the same extent, but for the
\* borders: the ratios, one split inside the other, come out even.
PresetShares ==
    LET alike(leaves, axis) == \A p, q \in leaves :
            Distance(Along(Frame(splits, p), axis), Along(Frame(splits, q), axis))
                <= Border * Cardinality(DOMAIN panes)
    IN  preset => CASE layout = "even-horizontal" -> alike(DOMAIN panes, "horizontal")
                    [] layout = "even-vertical"   -> alike(DOMAIN panes, "vertical")
                    [] layout = "main-vertical"   -> alike(DOMAIN panes \ {<<1>>}, "vertical")
                    [] layout = "main-horizontal" -> alike(DOMAIN panes \ {<<1>>}, "horizontal")
                    [] OTHER                      -> TRUE

\* A saved layout, loaded, has the splits it was saved with, but for rounding:
\* for a preset nobody changed since, and for two panes.
Same(tree, other) ==
    /\ DOMAIN tree = DOMAIN other
    /\ \A p \in DOMAIN tree :
           tree[p].dir = other[p].dir /\ Distance(tree[p].ratio, other[p].ratio) <= 10

SavedLayoutLoads ==
    preset \/ (layout = "manual" /\ Cardinality(DOMAIN panes) = 2) => Same(Loaded(Saved), splits)

\* What the commands say of every tab ("save current layout", "load a saved
\* layout").  Does not hold: a pane is saved with its own split and loaded as
\* if it were that of the pane before, and a preset loads as it was at first.
SavedLayoutRestores == Cardinality(DOMAIN panes) > 1 => Same(Loaded(Saved), splits)
=============================================================================
