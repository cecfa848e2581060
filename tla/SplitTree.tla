------------------------------ MODULE SplitTree ------------------------------
(***************************************************************************)
(* The split tree of one tab (src/splits.rs), reduced to what its callers  *)
(* can observe of its structure: the leaves in in-order, each with its     *)
(* leaf id and its pane, the next leaf id to hand out, and the focused     *)
(* leaf id.  Every structural operation of the tree is an operation on     *)
(* that leaf order: a split puts the new leaf right after the one it       *)
(* splits, a removal collapses the parent onto the sibling, and a rebuild  *)
(* splits the last leaf again and again.  Directions, ratios and frames    *)
(* are geometry and do not change which leaves exist or their order.       *)
(*                                                                         *)
(* The focused id is a plain number: nothing in SplitTree keeps it equal   *)
(* to the id of an existing leaf, so the model does not either.            *)
(***************************************************************************)
EXTENDS Naturals, Sequences, SequencesExt

\* PaneHandle::null().id()
NullPane == 0

LeafType(PaneIds) == [id : Nat, pane : PaneIds]

TreeType(PaneIds) ==
    [leaves : Seq(LeafType(PaneIds)), next : Nat, focus : Nat]

PanesOf(t) == {t.leaves[i].pane : i \in DOMAIN t.leaves}

HasLeaf(t, id) == \E i \in DOMAIN t.leaves : t.leaves[i].id = id

LeafIndex(t, id) == CHOOSE i \in DOMAIN t.leaves : t.leaves[i].id = id

PaneIndex(t, pane) == CHOOSE i \in DOMAIN t.leaves : t.leaves[i].pane = pane

\* SplitTree::new followed by add_root: the only way a tab gets its tree.
RootTree(pane) == [leaves |-> <<[id |-> 0, pane |-> pane]>>, next |-> 1, focus |-> 0]

\* The pane of the focused leaf, or the null pane when no leaf has that id.
FocusedPane(t) ==
    IF HasLeaf(t, t.focus) THEN t.leaves[LeafIndex(t, t.focus)].pane ELSE NullPane

\* split_focused: the leaf id is consumed and focused even when no leaf has
\* the focused id, in which case split_node_with_ratio returns the tree as is.
SplitFocused(t, pane) ==
    IF t.leaves = <<>>
    THEN [t EXCEPT !.next = @ + 1]
    ELSE [leaves |-> IF HasLeaf(t, t.focus)
                     THEN InsertAt(t.leaves, LeafIndex(t, t.focus) + 1,
                                   [id |-> t.next, pane |-> pane])
                     ELSE t.leaves,
          next   |-> t.next + 1,
          focus  |-> t.next]

\* Mutant: the focus stays on the removed leaf.
RemoveLeafKeepFocus(t, i) == [t EXCEPT !.leaves = RemoveAt(t.leaves, i)]

\* The leaf at position i is taken out; the first remaining leaf gets the
\* focus.  An emptied tree keeps the old focused id.
RemoveLeaf(t, i) ==
    LET rest == RemoveAt(t.leaves, i)
    IN  [leaves |-> rest,
         next   |-> t.next,
         focus  |-> IF rest = <<>> THEN t.focus ELSE rest[1].id]

\* remove_focused, when the focused leaf exists.
RemoveFocused(t) == RemoveLeaf(t, LeafIndex(t, t.focus))

\* remove_pane, when the tree holds the pane.
RemovePane(t, pane) == RemoveLeaf(t, PaneIndex(t, pane))

\* set_focus takes any id; set_focus_to_pane only the pane of a leaf.
SetFocus(t, id) == [t EXCEPT !.focus = id]

SetFocusToPane(t, pane) ==
    IF pane \in PanesOf(t) THEN SetFocus(t, t.leaves[PaneIndex(t, pane)].id) ELSE t

\* focus_next / focus_prev: cyclic in leaf order, nothing without a focus.
FocusNext(t) ==
    IF HasLeaf(t, t.focus)
    THEN SetFocus(t, t.leaves[(LeafIndex(t, t.focus) % Len(t.leaves)) + 1].id)
    ELSE t

FocusPrev(t) ==
    IF HasLeaf(t, t.focus)
    THEN LET i == LeafIndex(t, t.focus)
         IN  SetFocus(t, t.leaves[IF i = 1 THEN Len(t.leaves) ELSE i - 1].id)
    ELSE t

\* The same leaves with the panes permuted: leaf ids and focus stay put.
WithPanes(t, source) ==
    [t EXCEPT !.leaves = [i \in 1..Len(t.leaves) |->
                             [id |-> t.leaves[i].id, pane |-> t.leaves[source[i]].pane]]]

\* Mutant: the neighbour is overwritten, not exchanged.
SwapOverwrites(t, next) ==
    IF HasLeaf(t, t.focus) /\ Len(t.leaves) > 1
    THEN LET n == Len(t.leaves)
             i == LeafIndex(t, t.focus)
             j == IF next THEN (i % n) + 1 ELSE IF i = 1 THEN n ELSE i - 1
         IN  WithPanes(t, [k \in 1..n |-> IF k = j THEN i ELSE k])
    ELSE t

\* swap_focused_with_adjacent: the focused leaf and its cyclic neighbour
\* exchange panes; the focus stays on the leaf.
SwapFocused(t, next) ==
    IF HasLeaf(t, t.focus) /\ Len(t.leaves) > 1
    THEN LET n == Len(t.leaves)
             i == LeafIndex(t, t.focus)
             j == IF next THEN (i % n) + 1 ELSE IF i = 1 THEN n ELSE i - 1
         IN  WithPanes(t, [k \in 1..n |-> IF k = i THEN j ELSE IF k = j THEN i ELSE k])
    ELSE t

\* rotate_panes: forward, every pane moves one leaf on and the last one to
\* the front; backward, the other way round.
RotatePanes(t, forward) ==
    LET n == Len(t.leaves)
    IN  IF n < 2 THEN t
        ELSE WithPanes(t, [k \in 1..n |->
                 IF forward THEN (IF k = 1 THEN n ELSE k - 1)
                            ELSE (IF k = n THEN 1 ELSE k + 1)])

\* Mutants: the next id is the last one used; the focused id is kept across
\* the renumbering.
RebuildStaleNext(t) ==
    LET n == Len(t.leaves)
    IN  [leaves |-> [i \in 1..n |-> [id |-> i - 1, pane |-> t.leaves[i].pane]],
         next   |-> n - 1,
         focus  |-> 0]

RebuildKeepsId(t) ==
    LET n == Len(t.leaves)
    IN  [leaves |-> [i \in 1..n |-> [id |-> i - 1, pane |-> t.leaves[i].pane]],
         next   |-> n,
         focus  |-> IF t.focus < n THEN t.focus ELSE 0]

\* rebuild_from_panes over the tree's own panes: leaves renumbered from 0 in
\* the old order.  The focus follows the focused pane.  Without one it stays
\* where it was, unless that id is now the id of a leaf: then leaf 0 gets it.
Rebuild(t) ==
    LET n == Len(t.leaves)
    IN  [leaves |-> [i \in 1..n |-> [id |-> i - 1, pane |-> t.leaves[i].pane]],
         next   |-> n,
         focus  |-> IF HasLeaf(t, t.focus) THEN LeafIndex(t, t.focus) - 1
                    ELSE IF t.focus < n THEN 0 ELSE t.focus]
=============================================================================
