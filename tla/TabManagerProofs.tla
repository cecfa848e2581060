--------------------------- MODULE TabManagerProofs ---------------------------
(***************************************************************************)
(* Lemmas about the operations of a split tree and of the tab list: what   *)
(* each of them returns, for every tree and every list of tabs.            *)
(***************************************************************************)
EXTENDS TabManager, SequenceLemmas, TLAPS

-----------------------------------------------------------------------------
(* Sequences.                                                              *)

\* What InsertAt yields: a longer sequence with the element at the position.
LEMMA InsertAtProperties ==
    ASSUME NEW S, NEW s \in Seq(S), NEW i \in 1..(Len(s) + 1), NEW e \in S
    PROVE  /\ InsertAt(s, i, e) \in Seq(S)
           /\ Len(InsertAt(s, i, e)) = Len(s) + 1
           /\ \A k \in 1..(Len(s) + 1) :
                 InsertAt(s, i, e)[k] =
                    IF k < i THEN s[k] ELSE IF k = i THEN e ELSE s[k - 1]
<1> DEFINE a == SubSeq(s, 1, i - 1)
           b == SubSeq(s, i, Len(s))
<1>1. Len(s) \in Nat /\ i \in Int /\ i - 1 \in Int
      /\ \A k \in 1..Len(s) : s[k] \in S
  BY LenProperties, ElementOfSeq
<1>2. a \in Seq(S) /\ Len(a) = i - 1 /\ \A k \in 1..(i - 1) : a[k] = s[k]
  <2>1. \A k \in 1..(i - 1) : s[k] \in S
    BY <1>1
  <2> QED BY <1>1, <2>1, SubSeqProperties
<1>3. b \in Seq(S) /\ Len(b) = Len(s) - i + 1
      /\ \A k \in 1..(Len(s) - i + 1) : b[k] = s[k + i - 1]
  <2>1. \A k \in i..Len(s) : s[k] \in S
    BY <1>1
  <2>2. b \in Seq(S) /\ Len(b) = (IF i <= Len(s) THEN Len(s) - i + 1 ELSE 0)
        /\ \A k \in 1..(Len(s) - i + 1) : b[k] = s[i + k - 1]
    BY <1>1, <2>1, SubSeqProperties
  <2> QED BY <1>1, <2>2
<1>4. <<e>> \in Seq(S) /\ Len(<<e>>) = 1 /\ <<e>>[1] = e
  OBVIOUS
<1> DEFINE c == a \o <<e>>
<1>5. InsertAt(s, i, e) = c \o b
  BY DEF InsertAt
<1> HIDE DEF a, b
<1>6. /\ c \in Seq(S)
      /\ Len(c) = i
      /\ \A k \in 1..i : c[k] = IF k <= i - 1 THEN a[k] ELSE <<e>>[k - (i - 1)]
  BY <1>1, <1>2, <1>4, ConcatProperties
<1>7. c[i] = e
  BY <1>1, <1>4, <1>6
<1> HIDE DEF c
<1>8. /\ c \o b \in Seq(S)
      /\ Len(c \o b) = i + (Len(s) - i + 1)
      /\ \A k \in 1..(i + (Len(s) - i + 1)) :
            (c \o b)[k] = IF k <= i THEN c[k] ELSE b[k - i]
  BY <1>1, <1>3, <1>6, ConcatProperties
<1>9. ASSUME NEW k \in 1..(Len(s) + 1)
      PROVE  InsertAt(s, i, e)[k] =
                IF k < i THEN s[k] ELSE IF k = i THEN e ELSE s[k - 1]
  <2>1. CASE k < i
    <3>1. k \in 1..(i - 1) /\ k \in 1..i /\ k \in 1..(i + (Len(s) - i + 1)) /\ k <= i /\ k <= i - 1
      BY <1>1, <2>1
    <3> QED BY <1>2, <1>6, <1>8, <1>5, <2>1, <3>1
  <2>2. CASE k = i
    <3>1. i \in 1..i /\ i \in 1..(i + (Len(s) - i + 1)) /\ i <= i /\ ~(i < i)
      BY <1>1
    <3> QED BY <1>7, <1>8, <1>5, <2>2, <3>1
  <2>3. CASE k > i
    <3>1. /\ k \in 1..(i + (Len(s) - i + 1))
          /\ ~(k <= i)
          /\ k - i \in 1..(Len(s) - i + 1)
          /\ (k - i) + i - 1 = k - 1
          /\ ~(k < i) /\ k # i
      BY <1>1, <2>3
    <3> QED BY <1>3, <1>8, <1>5, <3>1
  <2> QED BY <1>1, <2>1, <2>2, <2>3
<1>10. Len(c \o b) = Len(s) + 1
  BY <1>1, <1>8
<1> QED
  BY <1>8, <1>5, <1>9, <1>10

-----------------------------------------------------------------------------
(* The operations of a tree return a tree.                                 *)

\* The fields of a tree, for the provers.
LEMMA TreeFields ==
    ASSUME NEW P, NEW t \in TreeType(P)
    PROVE  /\ t.leaves \in Seq(LeafType(P)) /\ t.next \in Nat /\ t.focus \in Nat
           /\ DOMAIN t.leaves = 1..Len(t.leaves) /\ Len(t.leaves) \in Nat
           /\ \A i \in 1..Len(t.leaves) :
                 /\ t.leaves[i] \in LeafType(P)
                 /\ t.leaves[i].id \in Nat
                 /\ t.leaves[i].pane \in P
<1>1. t.leaves \in Seq(LeafType(P)) /\ t.next \in Nat /\ t.focus \in Nat
  BY DEF TreeType
<1>2. DOMAIN t.leaves = 1..Len(t.leaves) /\ Len(t.leaves) \in Nat
  BY <1>1, LenProperties
<1>3. ASSUME NEW i \in 1..Len(t.leaves)
      PROVE  t.leaves[i] \in LeafType(P)
  BY <1>1, ElementOfSeq
<1> QED
  BY <1>1, <1>2, <1>3 DEF LeafType

\* find_leaf and find_leaf_id_by_pane return an existing position.
LEMMA LeafIndexIn ==
    ASSUME NEW t, NEW id, HasLeaf(t, id)
    PROVE  LeafIndex(t, id) \in DOMAIN t.leaves /\ t.leaves[LeafIndex(t, id)].id = id
BY DEF HasLeaf, LeafIndex

LEMMA PaneIndexIn ==
    ASSUME NEW t, NEW pane \in PanesOf(t)
    PROVE  PaneIndex(t, pane) \in DOMAIN t.leaves /\ t.leaves[PaneIndex(t, pane)].pane = pane
<1>1. \E i \in DOMAIN t.leaves : t.leaves[i].pane = pane
  BY DEF PanesOf
<1> QED
  BY <1>1 DEF PaneIndex

\* add_root.
LEMMA RootTreeType ==
    ASSUME NEW P, NEW pane \in P
    PROVE  RootTree(pane) \in TreeType(P)
<1>1. [id |-> 0, pane |-> pane] \in LeafType(P)
  BY DEF LeafType
<1>2. <<[id |-> 0, pane |-> pane]>> \in Seq(LeafType(P))
  BY <1>1
<1> QED
  BY <1>2 DEF RootTree, TreeType

\* split_focused.
LEMMA SplitFocusedType ==
    ASSUME NEW P, NEW t \in TreeType(P), NEW pane \in P
    PROVE  SplitFocused(t, pane) \in TreeType(P)
<1>1. [id |-> t.next, pane |-> pane] \in LeafType(P)
  BY TreeFields DEF LeafType
<1>2. ASSUME HasLeaf(t, t.focus)
      PROVE  InsertAt(t.leaves, LeafIndex(t, t.focus) + 1, [id |-> t.next, pane |-> pane])
                \in Seq(LeafType(P))
  <2>1. LeafIndex(t, t.focus) \in 1..Len(t.leaves)
    BY <1>2, LeafIndexIn, TreeFields
  <2>2. LeafIndex(t, t.focus) + 1 \in 1..(Len(t.leaves) + 1)
    BY <2>1, TreeFields
  <2> QED
    BY <1>1, <2>2, TreeFields, InsertAtProperties
<1>3. CASE t.leaves = <<>>
  BY <1>3 DEF SplitFocused, TreeType
<1>4. CASE t.leaves # <<>>
  BY <1>2, <1>4, TreeFields DEF SplitFocused, TreeType
<1> QED BY <1>3, <1>4

\* remove_focused and remove_pane.
LEMMA RemoveLeafType ==
    ASSUME NEW P, NEW t \in TreeType(P), NEW i \in DOMAIN t.leaves
    PROVE  RemoveLeaf(t, i) \in TreeType(P)
<1> DEFINE rest == RemoveAt(t.leaves, i)
<1>1. rest \in Seq(LeafType(P))
  BY TreeFields, RemoveAtProperties
<1> HIDE DEF rest
<1>2. rest # <<>> => rest[1].id \in Nat
  <2> SUFFICES ASSUME rest # <<>> PROVE rest[1].id \in Nat
    OBVIOUS
  <2>1. 1 \in 1..Len(rest)
    BY <1>1, EmptySeq
  <2>2. rest[1] \in LeafType(P)
    BY <1>1, <2>1, ElementOfSeq
  <2> QED BY <2>2 DEF LeafType
<1>3. RemoveLeaf(t, i) = [leaves |-> rest, next |-> t.next,
                          focus |-> IF rest = <<>> THEN t.focus ELSE rest[1].id]
  BY DEF RemoveLeaf, rest
<1> QED
  BY <1>1, <1>2, <1>3, TreeFields DEF TreeType

LEMMA RemoveFocusedType ==
    ASSUME NEW P, NEW t \in TreeType(P), HasLeaf(t, t.focus)
    PROVE  RemoveFocused(t) \in TreeType(P)
BY LeafIndexIn, RemoveLeafType DEF RemoveFocused

LEMMA RemovePaneType ==
    ASSUME NEW P, NEW t \in TreeType(P), NEW pane \in PanesOf(t)
    PROVE  RemovePane(t, pane) \in TreeType(P)
BY PaneIndexIn, RemoveLeafType DEF RemovePane

\* set_focus, set_focus_to_pane, focus_next, focus_prev.
LEMMA SetFocusType ==
    ASSUME NEW P, NEW t \in TreeType(P), NEW id \in Nat
    PROVE  SetFocus(t, id) \in TreeType(P)
BY DEF SetFocus, TreeType

LEMMA SetFocusToPaneType ==
    ASSUME NEW P, NEW t \in TreeType(P), NEW pane
    PROVE  SetFocusToPane(t, pane) \in TreeType(P)
<1>1. CASE pane \in PanesOf(t)
  <2>1. t.leaves[PaneIndex(t, pane)].id \in Nat
    BY <1>1, PaneIndexIn, TreeFields
  <2> QED BY <1>1, <2>1, SetFocusType DEF SetFocusToPane
<1>2. CASE pane \notin PanesOf(t)
  BY <1>2 DEF SetFocusToPane
<1> QED BY <1>1, <1>2

LEMMA FocusNextType ==
    ASSUME NEW P, NEW t \in TreeType(P)
    PROVE  FocusNext(t) \in TreeType(P)
<1>1. CASE HasLeaf(t, t.focus)
  <2> DEFINE n == Len(t.leaves)
             i == LeafIndex(t, t.focus)
  <2>1. i \in 1..n /\ n \in Nat
    BY <1>1, LeafIndexIn, TreeFields
  <2> HIDE DEF n, i
  <2>2. (i % n) + 1 \in 1..n
    BY <2>1
  <2>3. t.leaves[(i % n) + 1].id \in Nat
    BY <2>2, TreeFields DEF n
  <2> QED BY <1>1, <2>3, SetFocusType DEF FocusNext, n, i
<1>2. CASE ~HasLeaf(t, t.focus)
  BY <1>2 DEF FocusNext
<1> QED BY <1>1, <1>2

LEMMA FocusPrevType ==
    ASSUME NEW P, NEW t \in TreeType(P)
    PROVE  FocusPrev(t) \in TreeType(P)
<1>1. CASE HasLeaf(t, t.focus)
  <2> DEFINE n == Len(t.leaves)
             i == LeafIndex(t, t.focus)
             j == IF i = 1 THEN n ELSE i - 1
  <2>1. i \in 1..n /\ n \in Nat
    BY <1>1, LeafIndexIn, TreeFields
  <2>2. j \in 1..n
    BY <2>1
  <2>3. t.leaves[j].id \in Nat
    BY <2>2, TreeFields
  <2>4. FocusPrev(t) = SetFocus(t, t.leaves[j].id)
    BY <1>1 DEF FocusPrev
  <2> QED BY <2>3, <2>4, SetFocusType
<1>2. CASE ~HasLeaf(t, t.focus)
  BY <1>2 DEF FocusPrev
<1> QED BY <1>1, <1>2

\* Any permutation, and any other choice, of the panes over the same leaves.
LEMMA WithPanesType ==
    ASSUME NEW P, NEW t \in TreeType(P), NEW source,
           \A k \in 1..Len(t.leaves) : source[k] \in 1..Len(t.leaves)
    PROVE  WithPanes(t, source) \in TreeType(P)
<1> DEFINE n == Len(t.leaves)
           e(i) == [id |-> t.leaves[i].id, pane |-> t.leaves[source[i]].pane]
<1>1. \A i \in 1..n : e(i) \in LeafType(P)
  BY TreeFields DEF LeafType
<1> HIDE DEF e
<1>2. [i \in 1..n |-> e(i)] \in Seq(LeafType(P))
  BY <1>1, TreeFields, IsASeq
<1>3. WithPanes(t, source) = [t EXCEPT !.leaves = [i \in 1..n |-> e(i)]]
  BY DEF WithPanes, e
<1> QED
  BY <1>2, <1>3 DEF TreeType

\* swap_focused_with_adjacent and rotate_panes.
LEMMA SwapFocusedType ==
    ASSUME NEW P, NEW t \in TreeType(P), NEW next \in BOOLEAN
    PROVE  SwapFocused(t, next) \in TreeType(P)
<1>1. CASE HasLeaf(t, t.focus) /\ Len(t.leaves) > 1
  <2> DEFINE n == Len(t.leaves)
             i == LeafIndex(t, t.focus)
             j == IF next THEN (i % n) + 1 ELSE IF i = 1 THEN n ELSE i - 1
             source == [k \in 1..n |-> IF k = i THEN j ELSE IF k = j THEN i ELSE k]
  <2>1. i \in 1..n /\ n \in Nat
    BY <1>1, LeafIndexIn, TreeFields
  <2>2. j \in 1..n
    <3> HIDE DEF n, i
    <3>1. (i % n) + 1 \in 1..n
      BY <2>1
    <3>2. i # 1 => i - 1 \in 1..n
      BY <2>1
    <3>3. i = 1 => n \in 1..n
      BY <2>1
    <3> QED BY <3>1, <3>2, <3>3
  <2> HIDE DEF n, i, j
  <2>3. \A k \in 1..n : source[k] \in 1..n
    BY <2>1, <2>2
  <2>4. SwapFocused(t, next) = WithPanes(t, source)
    BY <1>1 DEF SwapFocused, n, i, j
  <2> HIDE DEF source
  <2> QED BY <2>3, <2>4, WithPanesType DEF n
<1>2. CASE ~(HasLeaf(t, t.focus) /\ Len(t.leaves) > 1)
  BY <1>2 DEF SwapFocused
<1> QED BY <1>1, <1>2

LEMMA RotatePanesType ==
    ASSUME NEW P, NEW t \in TreeType(P), NEW forward \in BOOLEAN
    PROVE  RotatePanes(t, forward) \in TreeType(P)
<1> DEFINE n == Len(t.leaves)
           source == [k \in 1..n |->
                         IF forward THEN (IF k = 1 THEN n ELSE k - 1)
                                    ELSE (IF k = n THEN 1 ELSE k + 1)]
<1>0. n \in Nat
  BY TreeFields
<1>1. CASE n < 2
  BY <1>1 DEF RotatePanes
<1>2. CASE ~(n < 2)
  <2>1. \A k \in 1..n : source[k] \in 1..n
    BY <1>0, <1>2
  <2>2. RotatePanes(t, forward) = WithPanes(t, source)
    BY <1>2 DEF RotatePanes
  <2> HIDE DEF source
  <2> QED BY <2>1, <2>2, WithPanesType
<1> QED BY <1>1, <1>2

\* rebuild_from_panes.
LEMMA RebuildType ==
    ASSUME NEW P, NEW t \in TreeType(P)
    PROVE  Rebuild(t) \in TreeType(P)
<1> DEFINE n == Len(t.leaves)
           e(i) == [id |-> i - 1, pane |-> t.leaves[i].pane]
           f == IF HasLeaf(t, t.focus) THEN LeafIndex(t, t.focus) - 1
                ELSE IF t.focus < n THEN 0 ELSE t.focus
<1>1. ASSUME NEW i \in 1..n
      PROVE  e(i) \in LeafType(P)
  <2>1. i - 1 \in Nat /\ t.leaves[i].pane \in P
    BY TreeFields
  <2> QED BY <2>1 DEF LeafType
<1>2. f \in Nat
  <2>1. HasLeaf(t, t.focus) => LeafIndex(t, t.focus) \in 1..n
    BY LeafIndexIn, TreeFields
  <2> QED BY <2>1, TreeFields
<1>3. Rebuild(t) = [leaves |-> [i \in 1..n |-> e(i)], next |-> n, focus |-> f]
  BY DEF Rebuild
<1> HIDE DEF e, f
<1>4. [i \in 1..n |-> e(i)] \in Seq(LeafType(P))
  BY <1>1, TreeFields, IsASeq
<1> QED
  BY <1>2, <1>3, <1>4, TreeFields DEF TreeType

-----------------------------------------------------------------------------
(* The operations of the tab list return a tab list.                       *)

\* The fields of a tab list, for the provers.
LEMMA ManagerFields ==
    ASSUME NEW P, NEW m \in ManagerType(P)
    PROVE  /\ m.tabs \in Seq(TabType(P)) /\ m.active \in Nat /\ m.prev \in Nat
           /\ m.nextId \in Nat
           /\ m = [tabs |-> m.tabs, active |-> m.active, prev |-> m.prev, nextId |-> m.nextId]
           /\ DOMAIN m.tabs = 1..Len(m.tabs) /\ Len(m.tabs) \in Nat
           /\ \A i \in 1..Len(m.tabs) :
                 /\ m.tabs[i] \in TabType(P)
                 /\ m.tabs[i].id \in Nat
                 /\ m.tabs[i].tree \in TreeType(P)
<1>1. m.tabs \in Seq(TabType(P)) /\ m.active \in Nat /\ m.prev \in Nat /\ m.nextId \in Nat
  BY DEF ManagerType
<1>2. m = [tabs |-> m.tabs, active |-> m.active, prev |-> m.prev, nextId |-> m.nextId]
  BY DEF ManagerType
<1>3. DOMAIN m.tabs = 1..Len(m.tabs) /\ Len(m.tabs) \in Nat
  BY <1>1, LenProperties
<1>4. ASSUME NEW i \in 1..Len(m.tabs)
      PROVE  m.tabs[i] \in TabType(P)
  BY <1>1, ElementOfSeq
<1> QED
  BY <1>1, <1>2, <1>3, <1>4 DEF TabType

\* The tabs that stay when one is taken away, and where each of them was.
LEMMA RemainingTabs ==
    ASSUME NEW P, NEW m \in ManagerType(P), NEW index \in Nat, index < Len(m.tabs)
    PROVE  /\ RemoveAt(m.tabs, index + 1) \in Seq(TabType(P))
           /\ Len(RemoveAt(m.tabs, index + 1)) = Len(m.tabs) - 1
           /\ \A k \in 1..(Len(m.tabs) - 1) :
                 RemoveAt(m.tabs, index + 1)[k] =
                    IF k < index + 1 THEN m.tabs[k] ELSE m.tabs[k + 1]
<1> DEFINE i == index + 1
<1>1. m.tabs \in Seq(TabType(P)) /\ i \in 1..Len(m.tabs)
  BY ManagerFields
<1> HIDE DEF i
<1>2. /\ RemoveAt(m.tabs, i) \in Seq(TabType(P))
      /\ Len(RemoveAt(m.tabs, i)) = Len(m.tabs) - 1
      /\ \A k \in 1..(Len(m.tabs) - 1) :
            RemoveAt(m.tabs, i)[k] = IF k < i THEN m.tabs[k] ELSE m.tabs[k + 1]
  BY <1>1, RemoveAtProperties
<1> QED BY <1>2 DEF i

LEMMA ActiveTreeType ==
    ASSUME NEW P, NEW m \in ManagerType(P), HasActive(m)
    PROVE  ActiveTree(m) \in TreeType(P)
<1>1. m.active + 1 \in 1..Len(m.tabs)
  BY ManagerFields DEF HasActive
<1> QED
  BY <1>1, ManagerFields DEF ActiveTree

\* Replacing the tree of one tab.
LEMMA WithTreeType ==
    ASSUME NEW P, NEW m \in ManagerType(P), NEW i \in 1..Len(m.tabs), NEW t \in TreeType(P)
    PROVE  /\ [m EXCEPT !.tabs[i].tree = t] \in ManagerType(P)
           /\ [m EXCEPT !.tabs[i].tree = t].tabs = [m.tabs EXCEPT ![i].tree = t]
           /\ Len([m.tabs EXCEPT ![i].tree = t]) = Len(m.tabs)
<1> DEFINE tab == [m.tabs[i] EXCEPT !.tree = t]
<1>1. tab \in TabType(P)
  <2>1. \A x \in TabType(P) : [x EXCEPT !.tree = t] \in TabType(P)
    BY DEF TabType
  <2> QED BY <2>1, ManagerFields
<1> HIDE DEF tab
<1>2. /\ [m.tabs EXCEPT ![i] = tab] \in Seq(TabType(P))
      /\ Len([m.tabs EXCEPT ![i] = tab]) = Len(m.tabs)
  BY <1>1, ManagerFields, ExceptSeq
<1>3. [m.tabs EXCEPT ![i].tree = t] = [m.tabs EXCEPT ![i] = tab]
  BY DEF tab
<1> QED
  BY <1>2, <1>3, ManagerFields DEF ManagerType

LEMMA WithActiveTreeType ==
    ASSUME NEW P, NEW m \in ManagerType(P), HasActive(m), NEW t \in TreeType(P)
    PROVE  WithActiveTree(m, t) \in ManagerType(P)
<1>1. m.active + 1 \in 1..Len(m.tabs)
  BY ManagerFields DEF HasActive
<1> QED
  BY <1>1, WithTreeType DEF WithActiveTree

\* add_initial_tab and new_tab.
LEMMA PushedType ==
    ASSUME NEW P, NEW m \in ManagerType(P), NEW pane \in P
    PROVE  Pushed(m, pane) \in Seq(TabType(P)) /\ Len(Pushed(m, pane)) = Len(m.tabs) + 1
<1>1. [id |-> m.nextId, tree |-> RootTree(pane)] \in TabType(P)
  BY ManagerFields, RootTreeType DEF TabType
<1> QED
  BY <1>1, ManagerFields, AppendProperties DEF Pushed

LEMMA NewTabType ==
    ASSUME NEW P, NEW m \in ManagerType(P), NEW pane \in P
    PROVE  AddInitialTab(m, pane) \in ManagerType(P) /\ NewTabWith(m, pane) \in ManagerType(P)
<1>1. Pushed(m, pane) \in Seq(TabType(P)) /\ m.nextId + 1 \in Nat /\ Len(m.tabs) \in Nat
  BY PushedType, ManagerFields
<1> QED
  BY <1>1 DEF AddInitialTab, NewTabWith, ManagerType

\* goto_tab.
LEMMA GotoIndexType ==
    ASSUME NEW P, NEW m \in ManagerType(P), NEW index \in Nat
    PROVE  GotoIndex(m, index) \in ManagerType(P)
BY DEF GotoIndex, ManagerType

\* remove_tab.
LEMMA RemoveTabType ==
    ASSUME NEW P, NEW m \in ManagerType(P), NEW index \in Nat, index < Len(m.tabs)
    PROVE  RemoveTab(m, index) \in ManagerType(P)
<1> DEFINE rest == RemoveAt(m.tabs, index + 1)
           act  == IF rest = <<>> THEN 0
                   ELSE IF m.active >= Len(rest) THEN Len(rest) - 1
                   ELSE IF m.active > index THEN m.active - 1
                   ELSE m.active
<1>1. rest \in Seq(TabType(P))
  BY RemainingTabs
<1>2. RemoveTab(m, index) = [m EXCEPT !.tabs = rest, !.active = act]
  BY DEF RemoveTab
<1> HIDE DEF rest
<1>3. rest # <<>> => Len(rest) \in Nat \ {0}
  BY <1>1, EmptySeq
<1>4. act \in Nat
  BY <1>3, ManagerFields
<1> HIDE DEF act
<1> QED
  BY <1>1, <1>2, <1>4 DEF ManagerType

LEMMA DropIfEmptyType ==
    ASSUME NEW P, NEW m \in ManagerType(P), NEW index \in Nat, index < Len(m.tabs)
    PROVE  DropIfEmpty(m, index) \in ManagerType(P)
BY RemoveTabType DEF DropIfEmpty

\* find_index_by_tab_id and find_pane_location return an existing index.
LEMMA IndexOfTabIn ==
    ASSUME NEW P, NEW m \in ManagerType(P), NEW id \in TabIds(m)
    PROVE  IndexOfTab(m, id) \in Nat /\ IndexOfTab(m, id) < Len(m.tabs)
<1>1. \E i \in DOMAIN m.tabs : m.tabs[i].id = id
  BY DEF TabIds
<1>2. (CHOOSE i \in DOMAIN m.tabs : m.tabs[i].id = id) \in 1..Len(m.tabs)
  BY <1>1, ManagerFields
<1> QED
  BY <1>2, ManagerFields DEF IndexOfTab

LEMMA IndexOfPaneIn ==
    ASSUME NEW P, NEW m \in ManagerType(P), NEW pane \in AllPanes(m)
    PROVE  /\ IndexOfPane(m, pane) \in Nat /\ IndexOfPane(m, pane) < Len(m.tabs)
           /\ pane \in PanesOf(m.tabs[IndexOfPane(m, pane) + 1].tree)
<1> DEFINE i == CHOOSE i \in DOMAIN m.tabs : pane \in PanesOf(m.tabs[i].tree)
<1>1. \E k \in DOMAIN m.tabs : pane \in PanesOf(m.tabs[k].tree)
  BY DEF AllPanes
<1>2. i \in 1..Len(m.tabs) /\ pane \in PanesOf(m.tabs[i].tree)
  BY <1>1, ManagerFields
<1>3. IndexOfPane(m, pane) = i - 1
  BY DEF IndexOfPane
<1> HIDE DEF i
<1>4. (i - 1) + 1 = i /\ i - 1 \in Nat /\ i - 1 < Len(m.tabs)
  BY <1>2, ManagerFields
<1> QED
  BY <1>2, <1>3, <1>4

\* break_active_pane_to_tab and remove_pane_by_id.
LEMMA FocusedPaneType ==
    ASSUME NEW P, NEW t \in TreeType(P), HasLeaf(t, t.focus)
    PROVE  FocusedPane(t) \in P
BY LeafIndexIn, TreeFields DEF FocusedPane

LEMMA BreakActivePaneType ==
    ASSUME NEW P, NEW m \in ManagerType(P), HasActive(m),
           HasLeaf(ActiveTree(m), ActiveTree(m).focus)
    PROVE  BreakActivePane(m) \in ManagerType(P)
<1> DEFINE cut == WithActiveTree(m, RemoveFocused(ActiveTree(m)))
<1>1. FocusedPaneOf(m) \in P
  BY ActiveTreeType, FocusedPaneType DEF FocusedPaneOf
<1>2. RemoveFocused(ActiveTree(m)) \in TreeType(P)
  BY ActiveTreeType, RemoveFocusedType
<1>3. cut \in ManagerType(P)
  BY <1>2, WithActiveTreeType
<1>4. m.active \in Nat /\ m.active < Len(cut.tabs)
  <2>1. m.active + 1 \in 1..Len(m.tabs) /\ m.active \in Nat
    BY ManagerFields DEF HasActive
  <2>2. cut.tabs = [m.tabs EXCEPT ![m.active + 1].tree = RemoveFocused(ActiveTree(m))]
        /\ Len(cut.tabs) = Len(m.tabs)
    BY <1>2, <2>1, WithTreeType DEF WithActiveTree
  <2> QED BY <2>1, <2>2, ManagerFields
<1>5. DropIfEmpty(cut, m.active) \in ManagerType(P)
  BY <1>3, <1>4, DropIfEmptyType
<1>6. BreakActivePane(m) = NewTabWith(DropIfEmpty(cut, m.active), FocusedPaneOf(m))
  BY DEF BreakActivePane
<1> QED
  BY <1>1, <1>5, <1>6, NewTabType

LEMMA RemovePaneByIdType ==
    ASSUME NEW P, NEW m \in ManagerType(P), NEW pane \in AllPanes(m)
    PROVE  RemovePaneById(m, pane) \in ManagerType(P)
<1> DEFINE index == IndexOfPane(m, pane)
           t     == RemovePane(m.tabs[index + 1].tree, pane)
           cut   == [m EXCEPT !.tabs[index + 1].tree = t]
<1>1. index \in Nat /\ index < Len(m.tabs) /\ index + 1 \in 1..Len(m.tabs)
      /\ pane \in PanesOf(m.tabs[index + 1].tree)
  BY IndexOfPaneIn, ManagerFields
<1>2. RemovePaneById(m, pane) = DropIfEmpty(cut, index)
  BY DEF RemovePaneById
<1> HIDE DEF index
<1>3. t \in TreeType(P)
  BY <1>1, ManagerFields, RemovePaneType
<1> HIDE DEF t
<1>4. cut \in ManagerType(P) /\ Len(cut.tabs) = Len(m.tabs)
  BY <1>1, <1>3, WithTreeType
<1> HIDE DEF cut
<1> QED
  BY <1>1, <1>2, <1>4, DropIfEmptyType

-----------------------------------------------------------------------------
(* The operations of the tab list keep the active index in range and the   *)
(* tab ids sorted.                                                         *)

ActiveOK(m) == IF m.tabs = <<>> THEN m.active = 0 ELSE m.active < Len(m.tabs)

IdsOK(m) ==
    /\ \A i, j \in DOMAIN m.tabs : i < j => m.tabs[i].id < m.tabs[j].id
    /\ \A i \in DOMAIN m.tabs : m.tabs[i].id < m.nextId

ListOK(m) == ActiveOK(m) /\ IdsOK(m)

\* Whether the list is empty, in terms of its length.
LEMMA EmptyByLength ==
    ASSUME NEW P, NEW m \in ManagerType(P)
    PROVE  (m.tabs = <<>>) <=> (Len(m.tabs) = 0)
BY ManagerFields, EmptySeq

\* Replacing the tree of one tab touches neither.
LEMMA WithTreeList ==
    ASSUME NEW P, NEW m \in ManagerType(P), NEW i \in 1..Len(m.tabs), NEW t \in TreeType(P),
           ListOK(m)
    PROVE  ListOK([m EXCEPT !.tabs[i].tree = t])
<1> DEFINE x == [m EXCEPT !.tabs[i].tree = t]
<1>1. /\ x \in ManagerType(P) /\ Len(x.tabs) = Len(m.tabs)
      /\ x.tabs = [m.tabs EXCEPT ![i].tree = t]
  BY WithTreeType
<1>2. x.active = m.active /\ x.nextId = m.nextId
  BY ManagerFields
<1>3. ASSUME NEW k \in 1..Len(m.tabs)
      PROVE  x.tabs[k].id = m.tabs[k].id
  <2>1. k \in DOMAIN m.tabs
    BY ManagerFields
  <2>2. \A tab \in TabType(P) : [tab EXCEPT !.tree = t].id = tab.id
    BY DEF TabType
  <2>3. CASE k = i
    <3>1. x.tabs[k] = [m.tabs[k] EXCEPT !.tree = t]
      BY <1>1, <2>1, <2>3
    <3> QED BY <2>2, <3>1, ManagerFields
  <2>4. CASE k # i
    BY <1>1, <2>1, <2>4
  <2> QED BY <2>3, <2>4
<1> HIDE DEF x
<1>4. DOMAIN x.tabs = 1..Len(m.tabs) /\ DOMAIN m.tabs = 1..Len(m.tabs)
  BY <1>1, ManagerFields
<1>5. IdsOK(x)
  BY <1>2, <1>3, <1>4 DEF ListOK, IdsOK
<1>6. ActiveOK(x)
  BY <1>1, <1>2, EmptyByLength DEF ListOK, ActiveOK
<1> QED
  BY <1>5, <1>6 DEF ListOK, x

LEMMA WithActiveTreeList ==
    ASSUME NEW P, NEW m \in ManagerType(P), HasActive(m), NEW t \in TreeType(P), ListOK(m)
    PROVE  ListOK(WithActiveTree(m, t))
<1>1. m.active + 1 \in 1..Len(m.tabs)
  BY ManagerFields DEF HasActive
<1> QED
  BY <1>1, WithTreeList DEF WithActiveTree

\* A new tab gets an id above all others.
LEMMA PushedIds ==
    ASSUME NEW P, NEW m \in ManagerType(P), NEW pane \in P, ListOK(m),
           NEW x, x.tabs = Pushed(m, pane), x.nextId = m.nextId + 1
    PROVE  IdsOK(x)
<1> DEFINE n == Len(m.tabs)
           new == [id |-> m.nextId, tree |-> RootTree(pane)]
<1>0. n \in Nat /\ DOMAIN m.tabs = 1..n /\ m.nextId \in Nat
      /\ \A k \in 1..n : m.tabs[k].id \in Nat
  BY ManagerFields
<1>1. new \in TabType(P)
  BY ManagerFields, RootTreeType DEF TabType
<1>2. /\ x.tabs \in Seq(TabType(P)) /\ Len(x.tabs) = n + 1
      /\ \A k \in 1..n : x.tabs[k] = m.tabs[k]
      /\ x.tabs[n + 1] = new
  <2> HIDE DEF new
  <2>1. x.tabs = Append(m.tabs, new)
    BY DEF Pushed, new
  <2> QED BY <1>1, <2>1, ManagerFields, AppendProperties
<1>3. DOMAIN x.tabs = 1..(n + 1)
  BY <1>2, LenProperties
<1>4. x.tabs[n + 1].id = m.nextId
  BY <1>2
<1>5. ASSUME NEW k \in 1..n
      PROVE  x.tabs[k].id < m.nextId /\ x.tabs[k].id = m.tabs[k].id /\ x.tabs[k].id \in Nat
  BY <1>0, <1>2 DEF ListOK, IdsOK
<1> HIDE DEF n, new
<1>6. ASSUME NEW k \in 1..(n + 1)
      PROVE  x.tabs[k].id < x.nextId
  <2>1. CASE k = n + 1
    BY <1>0, <1>4, <2>1
  <2>2. CASE k # n + 1
    <3>1. k \in 1..n
      BY <1>0, <2>2
    <3> QED BY <1>0, <1>5, <3>1
  <2> QED BY <2>1, <2>2
<1>7. ASSUME NEW i \in 1..(n + 1), NEW j \in 1..(n + 1), i < j
      PROVE  x.tabs[i].id < x.tabs[j].id
  <2>1. i \in 1..n
    BY <1>0, <1>7
  <2>2. CASE j = n + 1
    BY <1>4, <1>5, <2>1, <2>2
  <2>3. CASE j # n + 1
    <3>1. j \in 1..n
      BY <1>0, <2>3
    <3>2. m.tabs[i].id < m.tabs[j].id
      BY <1>0, <1>7, <2>1, <3>1 DEF ListOK, IdsOK
    <3> QED BY <1>5, <2>1, <3>1, <3>2
  <2> QED BY <2>2, <2>3
<1> QED
  BY <1>3, <1>6, <1>7 DEF IdsOK

\* add_initial_tab on an empty list, and new_tab on any.
LEMMA AddInitialTabList ==
    ASSUME NEW P, NEW m \in ManagerType(P), NEW pane \in P, ListOK(m), m.tabs = <<>>
    PROVE  ListOK(AddInitialTab(m, pane))
<1> DEFINE x == AddInitialTab(m, pane)
<1>1. x.tabs = Pushed(m, pane) /\ x.nextId = m.nextId + 1 /\ x.active = 0
  BY ManagerFields DEF AddInitialTab, ListOK, ActiveOK
<1>2. x \in ManagerType(P)
  BY NewTabType
<1> HIDE DEF x
<1>3. Len(x.tabs) = 1
  <2>1. Len(m.tabs) = 0
    BY EmptyByLength
  <2>2. Len(Pushed(m, pane)) = Len(m.tabs) + 1
    BY PushedType
  <2> QED BY <1>1, <2>1, <2>2
<1>4. ActiveOK(x)
  BY <1>1, <1>2, <1>3, EmptyByLength DEF ActiveOK
<1>5. IdsOK(x)
  BY <1>1, PushedIds
<1> QED
  BY <1>4, <1>5 DEF ListOK, x

LEMMA NewTabList ==
    ASSUME NEW P, NEW m \in ManagerType(P), NEW pane \in P, ListOK(m)
    PROVE  ListOK(NewTabWith(m, pane))
<1> DEFINE x == NewTabWith(m, pane)
<1>1. x.tabs = Pushed(m, pane) /\ x.nextId = m.nextId + 1 /\ x.active = Len(m.tabs)
  BY ManagerFields DEF NewTabWith
<1>2. x \in ManagerType(P)
  BY NewTabType
<1> HIDE DEF x
<1>3. Len(x.tabs) = Len(m.tabs) + 1 /\ Len(m.tabs) \in Nat
  BY <1>1, PushedType, ManagerFields
<1>4. ActiveOK(x)
  BY <1>1, <1>2, <1>3, EmptyByLength DEF ActiveOK
<1>5. IdsOK(x)
  BY <1>1, PushedIds
<1> QED
  BY <1>4, <1>5 DEF ListOK, x

\* goto_tab.
LEMMA GotoIndexList ==
    ASSUME NEW P, NEW m \in ManagerType(P), NEW index \in Nat, ListOK(m)
    PROVE  ListOK(GotoIndex(m, index))
<1>1. CASE index < Len(m.tabs) /\ index # m.active
  <2> DEFINE x == GotoIndex(m, index)
  <2>1. x.tabs = m.tabs /\ x.nextId = m.nextId /\ x.active = index
    BY <1>1, ManagerFields DEF GotoIndex
  <2> HIDE DEF x
  <2>2. ActiveOK(x)
    BY <1>1, <2>1, ManagerFields, EmptyByLength DEF ActiveOK
  <2>3. IdsOK(x)
    BY <2>1 DEF ListOK, IdsOK
  <2> QED BY <2>2, <2>3 DEF ListOK, x
<1>2. CASE ~(index < Len(m.tabs) /\ index # m.active)
  BY <1>2 DEF GotoIndex
<1> QED BY <1>1, <1>2

\* remove_tab: the clamp and the shift keep `active' in range, and a removal
\* keeps the order of the rest.
LEMMA RemoveTabList ==
    ASSUME NEW P, NEW m \in ManagerType(P), NEW index \in Nat, index < Len(m.tabs), ListOK(m)
    PROVE  ListOK(RemoveTab(m, index))
<1> DEFINE x    == RemoveTab(m, index)
           rest == RemoveAt(m.tabs, index + 1)
           n    == Len(m.tabs)
<1>1. index + 1 \in 1..n /\ n \in Nat /\ DOMAIN m.tabs = 1..n /\ m.active \in Nat
  BY ManagerFields
<1>2. x.tabs = rest /\ x.nextId = m.nextId
      /\ x.active = IF rest = <<>> THEN 0
                    ELSE IF m.active >= Len(rest) THEN Len(rest) - 1
                    ELSE IF m.active > index THEN m.active - 1
                    ELSE m.active
  BY ManagerFields DEF RemoveTab
<1>3. x \in ManagerType(P)
  BY RemoveTabType
<1>4. /\ rest \in Seq(TabType(P))
      /\ Len(rest) = n - 1
      /\ \A k \in 1..(n - 1) :
            rest[k] = IF k < index + 1 THEN m.tabs[k] ELSE m.tabs[k + 1]
  BY RemainingTabs
<1> HIDE DEF x, rest, n
<1>5. DOMAIN x.tabs = 1..(n - 1)
  BY <1>2, <1>4, LenProperties
<1>6. ActiveOK(x)
  <2>1. CASE n = 1
    BY <1>2, <1>3, <1>4, <2>1, EmptyByLength DEF ActiveOK
  <2>2. CASE n # 1
    <3>1. rest # <<>> /\ n - 1 \in Nat \ {0}
      BY <1>1, <1>2, <1>3, <1>4, <2>2, EmptyByLength
    <3>2. x.active < Len(rest)
      BY <1>1, <1>2, <1>4, <3>1
    <3> QED BY <1>2, <3>1, <3>2 DEF ActiveOK
  <2> QED BY <2>1, <2>2
<1>7. ASSUME NEW k \in 1..(n - 1)
      PROVE  \E i \in 1..n : /\ x.tabs[k] = m.tabs[i]
                             /\ i = IF k < index + 1 THEN k ELSE k + 1
  BY <1>1, <1>2, <1>4
<1>8. ASSUME NEW k \in DOMAIN x.tabs
      PROVE  x.tabs[k].id < x.nextId
  <2>1. PICK i \in 1..n : x.tabs[k] = m.tabs[i]
    BY <1>5, <1>7
  <2> QED BY <1>1, <1>2, <2>1 DEF ListOK, IdsOK
<1>9. ASSUME NEW k \in DOMAIN x.tabs, NEW l \in DOMAIN x.tabs, k < l
      PROVE  x.tabs[k].id < x.tabs[l].id
  <2>1. PICK i \in 1..n : x.tabs[k] = m.tabs[i] /\ i = IF k < index + 1 THEN k ELSE k + 1
    BY <1>5, <1>7
  <2>2. PICK j \in 1..n : x.tabs[l] = m.tabs[j] /\ j = IF l < index + 1 THEN l ELSE l + 1
    BY <1>5, <1>7
  <2>3. i < j
    BY <1>1, <1>5, <1>9, <2>1, <2>2
  <2>4. m.tabs[i].id < m.tabs[j].id
    BY <1>1, <2>1, <2>2, <2>3 DEF ListOK, IdsOK
  <2> QED BY <2>1, <2>2, <2>4
<1>10. IdsOK(x)
  BY <1>8, <1>9 DEF IdsOK
<1> QED
  BY <1>6, <1>10 DEF ListOK, x

LEMMA DropIfEmptyList ==
    ASSUME NEW P, NEW m \in ManagerType(P), NEW index \in Nat, index < Len(m.tabs), ListOK(m)
    PROVE  ListOK(DropIfEmpty(m, index))
BY RemoveTabList DEF DropIfEmpty

\* break_active_pane_to_tab and remove_pane_by_id.
LEMMA BreakActivePaneList ==
    ASSUME NEW P, NEW m \in ManagerType(P), HasActive(m), ListOK(m),
           HasLeaf(ActiveTree(m), ActiveTree(m).focus)
    PROVE  ListOK(BreakActivePane(m))
<1> DEFINE t   == RemoveFocused(ActiveTree(m))
           cut == WithActiveTree(m, t)
<1>1. FocusedPaneOf(m) \in P
  BY ActiveTreeType, FocusedPaneType DEF FocusedPaneOf
<1>2. t \in TreeType(P)
  BY ActiveTreeType, RemoveFocusedType
<1>3. BreakActivePane(m) = NewTabWith(DropIfEmpty(cut, m.active), FocusedPaneOf(m))
  BY DEF BreakActivePane
<1> HIDE DEF t
<1>4. cut \in ManagerType(P) /\ ListOK(cut)
  BY <1>2, WithActiveTreeType, WithActiveTreeList
<1>5. m.active \in Nat /\ m.active < Len(cut.tabs)
  <2>1. m.active + 1 \in 1..Len(m.tabs) /\ m.active \in Nat
    BY ManagerFields DEF HasActive
  <2>2. Len(cut.tabs) = Len(m.tabs)
    BY <1>2, <2>1, WithTreeType DEF WithActiveTree
  <2> QED BY <2>1, <2>2, ManagerFields
<1> HIDE DEF cut
<1>6. DropIfEmpty(cut, m.active) \in ManagerType(P) /\ ListOK(DropIfEmpty(cut, m.active))
  BY <1>4, <1>5, DropIfEmptyType, DropIfEmptyList
<1> QED
  BY <1>1, <1>3, <1>6, NewTabList

LEMMA RemovePaneByIdList ==
    ASSUME NEW P, NEW m \in ManagerType(P), NEW pane \in AllPanes(m), ListOK(m)
    PROVE  ListOK(RemovePaneById(m, pane))
<1> DEFINE index == IndexOfPane(m, pane)
           t     == RemovePane(m.tabs[index + 1].tree, pane)
           cut   == [m EXCEPT !.tabs[index + 1].tree = t]
<1>1. index \in Nat /\ index < Len(m.tabs) /\ index + 1 \in 1..Len(m.tabs)
      /\ pane \in PanesOf(m.tabs[index + 1].tree)
  BY IndexOfPaneIn, ManagerFields
<1>2. RemovePaneById(m, pane) = DropIfEmpty(cut, index)
  BY DEF RemovePaneById
<1> HIDE DEF index
<1>3. t \in TreeType(P)
  BY <1>1, ManagerFields, RemovePaneType
<1> HIDE DEF t
<1>4. cut \in ManagerType(P) /\ Len(cut.tabs) = Len(m.tabs) /\ ListOK(cut)
  BY <1>1, <1>3, WithTreeType, WithTreeList
<1> HIDE DEF cut
<1> QED
  BY <1>1, <1>2, <1>4, DropIfEmptyList

-----------------------------------------------------------------------------
(* Which panes and leaf ids one tree holds.                                *)

\* No pane twice, no leaf id twice, and the next leaf id is above all.
TreeOK(t) ==
    /\ \A k, l \in DOMAIN t.leaves : t.leaves[k].pane = t.leaves[l].pane => k = l
    /\ \A k, l \in DOMAIN t.leaves : t.leaves[k].id = t.leaves[l].id => k = l
    /\ \A k \in DOMAIN t.leaves : t.leaves[k].id < t.next

\* add_root.
LEMMA RootTreePanes ==
    ASSUME NEW P, NEW pane \in P
    PROVE  TreeOK(RootTree(pane)) /\ PanesOf(RootTree(pane)) = {pane}
<1> DEFINE t == RootTree(pane)
<1>1. DOMAIN t.leaves = {1} /\ t.leaves[1] = [id |-> 0, pane |-> pane] /\ t.next = 1
  BY DEF RootTree
<1> HIDE DEF t
<1>2. \A k \in DOMAIN t.leaves : t.leaves[k].id = 0 /\ t.leaves[k].pane = pane /\ k = 1
  BY <1>1
<1>3. TreeOK(t)
  BY <1>1, <1>2 DEF TreeOK
<1>4. PanesOf(t) = {pane}
  BY <1>1, <1>2 DEF PanesOf
<1> QED BY <1>3, <1>4 DEF t

\* set_focus and all that ends in it change no leaf.
LEMMA SameLeavesPanes ==
    ASSUME NEW P, NEW t \in TreeType(P), NEW u, TreeOK(t), u.leaves = t.leaves,
           u.next \in Nat, t.next <= u.next
    PROVE  TreeOK(u) /\ PanesOf(u) = PanesOf(t)
<1>1. \A k \in DOMAIN t.leaves : t.leaves[k].id \in Nat /\ t.leaves[k].id < t.next
  BY TreeFields DEF TreeOK
<1>2. \A k \in DOMAIN t.leaves : t.leaves[k].id < u.next
  BY <1>1, TreeFields
<1>3. TreeOK(u)
  BY <1>2 DEF TreeOK
<1>4. PanesOf(u) = PanesOf(t)
  BY DEF PanesOf
<1> QED BY <1>3, <1>4

LEMMA FocusingKeepsLeaves ==
    ASSUME NEW P, NEW t \in TreeType(P)
    PROVE  /\ \A id : SetFocus(t, id).leaves = t.leaves /\ SetFocus(t, id).next = t.next
           /\ \A pane : /\ SetFocusToPane(t, pane).leaves = t.leaves
                        /\ SetFocusToPane(t, pane).next = t.next
           /\ FocusNext(t).leaves = t.leaves /\ FocusNext(t).next = t.next
           /\ FocusPrev(t).leaves = t.leaves /\ FocusPrev(t).next = t.next
<1>1. \A id : SetFocus(t, id).leaves = t.leaves /\ SetFocus(t, id).next = t.next
  BY DEF SetFocus, TreeType
<1> QED BY <1>1 DEF SetFocusToPane, FocusNext, FocusPrev

\* split_focused with a pane the tree does not have: at most that pane is added.
LEMMA SplitFocusedPanes ==
    ASSUME NEW P, NEW t \in TreeType(P), TreeOK(t), NEW pane \in P, pane \notin PanesOf(t)
    PROVE  /\ TreeOK(SplitFocused(t, pane))
           /\ PanesOf(SplitFocused(t, pane)) \subseteq PanesOf(t) \cup {pane}
           /\ PanesOf(t) \subseteq PanesOf(SplitFocused(t, pane))
<1> DEFINE n == Len(t.leaves)
           s == t.leaves
           e == [id |-> t.next, pane |-> pane]
           u == SplitFocused(t, pane)
<1>0. /\ n \in Nat /\ DOMAIN s = 1..n /\ s \in Seq(LeafType(P)) /\ t.next \in Nat
      /\ e \in LeafType(P) /\ e.id = t.next /\ e.pane = pane
      /\ \A k \in 1..n : s[k].id \in Nat /\ s[k].id < t.next /\ s[k].pane # pane
  <2>1. \A k \in 1..n : s[k].id \in Nat /\ s[k].pane # pane
    BY TreeFields DEF PanesOf
  <2> QED BY <2>1, TreeFields DEF TreeOK, LeafType
<1>1. CASE s = <<>>
  <2>1. u.leaves = s /\ u.next = t.next + 1
    BY <1>1 DEF SplitFocused, TreeType
  <2> HIDE DEF u
  <2>2. TreeOK(u) /\ PanesOf(u) = PanesOf(t)
    BY <1>0, <2>1, SameLeavesPanes
  <2> QED BY <2>2 DEF u
<1>2. CASE s # <<>> /\ ~HasLeaf(t, t.focus)
  <2>1. u.leaves = s /\ u.next = t.next + 1
    BY <1>2 DEF SplitFocused
  <2> HIDE DEF u
  <2>2. TreeOK(u) /\ PanesOf(u) = PanesOf(t)
    BY <1>0, <2>1, SameLeavesPanes
  <2> QED BY <2>2 DEF u
<1>3. CASE s # <<>> /\ HasLeaf(t, t.focus)
  <2> DEFINE p == LeafIndex(t, t.focus) + 1
             r == InsertAt(s, p, e)
  <2>1. p \in 1..(n + 1)
    BY <1>0, <1>3, LeafIndexIn
  <2>2. u.leaves = r /\ u.next = t.next + 1
    BY <1>3 DEF SplitFocused
  <2> HIDE DEF u, p
  <2>3. /\ r \in Seq(LeafType(P)) /\ Len(r) = n + 1
        /\ \A k \in 1..(n + 1) : r[k] = IF k < p THEN s[k] ELSE IF k = p THEN e ELSE s[k - 1]
    <3> HIDE DEF n, s, e
    <3>1. s \in Seq(LeafType(P)) /\ e \in LeafType(P) /\ p \in 1..(Len(s) + 1)
      BY <1>0, <2>1 DEF n, s
    <3>2. /\ InsertAt(s, p, e) \in Seq(LeafType(P))
          /\ Len(InsertAt(s, p, e)) = Len(s) + 1
          /\ \A k \in 1..(Len(s) + 1) : InsertAt(s, p, e)[k] =
                IF k < p THEN s[k] ELSE IF k = p THEN e ELSE s[k - 1]
      BY <3>1, InsertAtProperties
    <3> QED BY <3>2 DEF n, s
  <2> HIDE DEF r
  <2>4. DOMAIN r = 1..(n + 1)
    BY <2>3, LenProperties
  <2> DEFINE old(k) == IF k < p THEN k ELSE k - 1
  <2>5. ASSUME NEW k \in 1..(n + 1), k # p
        PROVE  old(k) \in 1..n /\ r[k] = s[old(k)]
    <3>1. old(k) \in 1..n
      BY <1>0, <2>1, <2>5
    <3>2. r[k] = s[old(k)]
      <4>1. CASE k < p
        BY <2>3, <4>1
      <4>2. CASE ~(k < p)
        BY <2>3, <2>5, <4>2
      <4> QED BY <4>1, <4>2
    <3> QED BY <3>1, <3>2
  <2>6. r[p] = e
    BY <1>0, <2>1, <2>3
  <2>7. ASSUME NEW k \in 1..(n + 1), NEW l \in 1..(n + 1), k # p, l # p, k # l
        PROVE  old(k) # old(l)
    BY <1>0, <2>1, <2>7
  <2> HIDE DEF old
  <2>8. TreeOK(u)
    <3>1. ASSUME NEW k \in 1..(n + 1), NEW l \in 1..(n + 1), k # l
          PROVE  r[k].pane # r[l].pane /\ r[k].id # r[l].id
      <4>1. CASE k # p /\ l # p
        BY <1>0, <2>5, <2>7, <3>1, <4>1 DEF TreeOK
      <4>2. ASSUME NEW i \in 1..(n + 1), i # p
            PROVE  r[i].pane # r[p].pane /\ r[i].id # r[p].id
        <5>1. r[i].pane # pane /\ r[i].id < t.next /\ r[i].id \in Nat
          BY <1>0, <2>5, <4>2
        <5>2. r[i].id # t.next
          BY <1>0, <5>1
        <5> QED BY <1>0, <2>6, <5>1, <5>2
      <4>3. CASE k = p
        BY <3>1, <4>2, <4>3
      <4>4. CASE l = p
        BY <3>1, <4>2, <4>4
      <4> QED BY <4>1, <4>3, <4>4
    <3>2. ASSUME NEW k \in 1..(n + 1)
          PROVE  r[k].id < t.next + 1
      <4>1. CASE k = p
        BY <1>0, <2>6, <4>1
      <4>2. CASE k # p
        <5>1. r[k].id = s[old(k)].id /\ s[old(k)].id < t.next /\ s[old(k)].id \in Nat
          BY <1>0, <2>5, <4>2
        <5> QED BY <1>0, <5>1
      <4> QED BY <4>1, <4>2
    <3> QED BY <2>2, <2>4, <3>1, <3>2 DEF TreeOK
  <2>9. PanesOf(u) \subseteq PanesOf(t) \cup {pane}
    <3>1. ASSUME NEW k \in 1..(n + 1)
          PROVE  r[k].pane \in PanesOf(t) \cup {pane}
      BY <1>0, <2>5, <2>6 DEF PanesOf
    <3> QED BY <2>2, <2>4, <3>1 DEF PanesOf
  <2>10. PanesOf(t) \subseteq PanesOf(u)
    <3>1. ASSUME NEW k \in 1..n
          PROVE  \E l \in 1..(n + 1) : r[l] = s[k]
      <4>1. CASE k < p
        <5>1. k \in 1..(n + 1)
          BY <1>0
        <5> QED BY <2>3, <4>1, <5>1
      <4>2. CASE ~(k < p)
        <5>1. k + 1 \in 1..(n + 1) /\ ~(k + 1 < p) /\ k + 1 # p /\ (k + 1) - 1 = k
          BY <1>0, <2>1, <4>2
        <5> QED BY <2>3, <5>1
      <4> QED BY <4>1, <4>2
    <3> SUFFICES ASSUME NEW k \in DOMAIN s
                 PROVE  \E l \in DOMAIN u.leaves : u.leaves[l].pane = s[k].pane
      BY DEF PanesOf
    <3> QED BY <1>0, <2>2, <2>4, <3>1
  <2> QED BY <2>8, <2>9, <2>10 DEF u
<1> QED BY <1>1, <1>2, <1>3

\* remove_leaf: exactly the pane of that leaf goes.
LEMMA RemoveLeafPanes ==
    ASSUME NEW P, NEW t \in TreeType(P), TreeOK(t), NEW i \in DOMAIN t.leaves
    PROVE  /\ TreeOK(RemoveLeaf(t, i))
           /\ PanesOf(RemoveLeaf(t, i)) = PanesOf(t) \ {t.leaves[i].pane}
<1> DEFINE n == Len(t.leaves)
           s == t.leaves
           r == RemoveAt(s, i)
           u == RemoveLeaf(t, i)
           old(k) == IF k < i THEN k ELSE k + 1
<1>0. n \in Nat /\ DOMAIN s = 1..n /\ i \in 1..n /\ s \in Seq(LeafType(P))
  BY TreeFields
<1>1. /\ r \in Seq(LeafType(P)) /\ Len(r) = n - 1
      /\ \A k \in 1..(n - 1) : r[k] = IF k < i THEN s[k] ELSE s[k + 1]
  BY <1>0, RemoveAtProperties
<1>2. u.leaves = r /\ u.next = t.next
  BY DEF RemoveLeaf
<1> HIDE DEF r, u
<1>3. DOMAIN r = 1..(n - 1)
  BY <1>1, LenProperties
<1>4. ASSUME NEW k \in 1..(n - 1)
      PROVE  old(k) \in 1..n /\ old(k) # i /\ r[k] = s[old(k)]
  <2>1. old(k) \in 1..n /\ old(k) # i
    BY <1>0
  <2>2. r[k] = s[old(k)]
    BY <1>1
  <2> QED BY <2>1, <2>2
<1>5. ASSUME NEW k \in 1..(n - 1), NEW l \in 1..(n - 1), old(k) = old(l)
      PROVE  k = l
  BY <1>0, <1>5
<1>6. ASSUME NEW k \in 1..n, k # i
      PROVE  \E l \in 1..(n - 1) : old(l) = k
  <2>1. CASE k < i
    <3>1. k \in 1..(n - 1) /\ old(k) = k
      BY <1>0, <2>1
    <3> QED BY <3>1
  <2>2. CASE ~(k < i)
    <3>1. k - 1 \in 1..(n - 1) /\ old(k - 1) = k
      BY <1>0, <1>6, <2>2
    <3> QED BY <3>1
  <2> QED BY <2>1, <2>2
<1> HIDE DEF old
<1>7. TreeOK(u)
  <2>1. ASSUME NEW k \in 1..(n - 1), NEW l \in 1..(n - 1),
               r[k].pane = r[l].pane \/ r[k].id = r[l].id
        PROVE  k = l
    <3>1. old(k) = old(l)
      BY <1>0, <1>4, <2>1 DEF TreeOK
    <3> QED BY <1>5, <3>1
  <2>2. ASSUME NEW k \in 1..(n - 1)
        PROVE  r[k].id < t.next
    BY <1>0, <1>4 DEF TreeOK
  <2> QED BY <1>2, <1>3, <2>1, <2>2 DEF TreeOK
<1>8. PanesOf(u) = PanesOf(t) \ {s[i].pane}
  <2>1. ASSUME NEW k \in 1..(n - 1)
        PROVE  r[k].pane \in PanesOf(t) /\ r[k].pane # s[i].pane
    BY <1>0, <1>4 DEF TreeOK, PanesOf
  <2>2. ASSUME NEW k \in 1..n, s[k].pane # s[i].pane
        PROVE  \E l \in 1..(n - 1) : r[l].pane = s[k].pane
    BY <1>4, <1>6, <2>2
  <2>3. PanesOf(u) = {r[k].pane : k \in 1..(n - 1)}
    BY <1>2, <1>3 DEF PanesOf
  <2>4. PanesOf(t) = {s[k].pane : k \in 1..n}
    BY <1>0 DEF PanesOf
  <2> QED BY <2>1, <2>2, <2>3, <2>4
<1> QED BY <1>7, <1>8 DEF u

LEMMA RemoveFocusedPanes ==
    ASSUME NEW P, NEW t \in TreeType(P), TreeOK(t), HasLeaf(t, t.focus)
    PROVE  /\ TreeOK(RemoveFocused(t))
           /\ PanesOf(RemoveFocused(t)) = PanesOf(t) \ {FocusedPane(t)}
           /\ FocusedPane(t) \in PanesOf(t)
<1>1. LeafIndex(t, t.focus) \in DOMAIN t.leaves
  BY LeafIndexIn
<1>2. FocusedPane(t) = t.leaves[LeafIndex(t, t.focus)].pane
  BY DEF FocusedPane
<1>3. FocusedPane(t) \in PanesOf(t)
  BY <1>1, <1>2 DEF PanesOf
<1> QED BY <1>1, <1>2, <1>3, RemoveLeafPanes DEF RemoveFocused

LEMMA RemovePanePanes ==
    ASSUME NEW P, NEW t \in TreeType(P), TreeOK(t), NEW pane \in PanesOf(t)
    PROVE  TreeOK(RemovePane(t, pane)) /\ PanesOf(RemovePane(t, pane)) = PanesOf(t) \ {pane}
BY PaneIndexIn, RemoveLeafPanes DEF RemovePane

\* assign_leaf_panes: a permutation of the panes over the same leaves.
LEMMA WithPanesPanes ==
    ASSUME NEW P, NEW t \in TreeType(P), TreeOK(t), NEW source,
           \A k \in 1..Len(t.leaves) : source[k] \in 1..Len(t.leaves),
           \A k, l \in 1..Len(t.leaves) : source[k] = source[l] => k = l,
           \A k \in 1..Len(t.leaves) : \E l \in 1..Len(t.leaves) : source[l] = k
    PROVE  TreeOK(WithPanes(t, source)) /\ PanesOf(WithPanes(t, source)) = PanesOf(t)
<1> DEFINE n == Len(t.leaves)
           s == t.leaves
           u == WithPanes(t, source)
<1>0. /\ n \in Nat /\ DOMAIN s = 1..n
      /\ \A k, l \in 1..n : s[k].pane = s[l].pane => k = l
      /\ \A k, l \in 1..n : s[k].id = s[l].id => k = l
      /\ \A k \in 1..n : s[k].id < t.next
  <2>1. n \in Nat /\ DOMAIN s = 1..n
    BY TreeFields
  <2> QED BY <2>1 DEF TreeOK
<1>1. /\ u.leaves = [i \in 1..n |-> [id |-> s[i].id, pane |-> s[source[i]].pane]]
      /\ u.next = t.next
  BY DEF WithPanes, TreeType
<1>2. /\ \A k \in 1..n : source[k] \in 1..n
      /\ \A k, l \in 1..n : source[k] = source[l] => k = l
      /\ \A k \in 1..n : \E l \in 1..n : source[l] = k
  OBVIOUS
<1> HIDE DEF n, u
<1>3. /\ DOMAIN u.leaves = 1..n
      /\ \A k \in 1..n : u.leaves[k].id = s[k].id /\ u.leaves[k].pane = s[source[k]].pane
  BY <1>1
<1>4. TreeOK(u)
  <2>1. ASSUME NEW k \in 1..n, NEW l \in 1..n, u.leaves[k].pane = u.leaves[l].pane
        PROVE  k = l
    <3> DEFINE a == source[k]
               b == source[l]
    <3>1. a \in 1..n /\ b \in 1..n
      BY <1>2
    <3>2. s[a].pane = s[b].pane
      BY <1>3, <2>1
    <3>3. a = b => k = l
      BY <1>2
    <3> HIDE DEF a, b
    <3> QED BY <1>0, <3>1, <3>2, <3>3
  <2>2. \A k, l \in 1..n : u.leaves[k].id = u.leaves[l].id => k = l
    BY <1>0, <1>3
  <2>3. \A k \in 1..n : u.leaves[k].id < u.next
    BY <1>0, <1>1, <1>3
  <2> QED BY <1>3, <2>1, <2>2, <2>3 DEF TreeOK
<1>5. PanesOf(u) \subseteq PanesOf(t)
  <2> SUFFICES ASSUME NEW k \in DOMAIN u.leaves
               PROVE  \E l \in DOMAIN t.leaves : u.leaves[k].pane = t.leaves[l].pane
    BY DEF PanesOf
  <2> DEFINE l == source[k]
  <2>1. k \in 1..n
    BY <1>3
  <2>2. l \in DOMAIN t.leaves /\ u.leaves[k].pane = t.leaves[l].pane
    BY <1>0, <1>2, <1>3, <2>1
  <2> HIDE DEF l
  <2> QED BY <2>2
<1>6. PanesOf(t) \subseteq PanesOf(u)
  <2> SUFFICES ASSUME NEW k \in DOMAIN t.leaves
               PROVE  \E l \in DOMAIN u.leaves : t.leaves[k].pane = u.leaves[l].pane
    BY DEF PanesOf
  <2>1. PICK l \in 1..n : source[l] = k
    BY <1>0, <1>2
  <2> QED BY <1>3, <2>1
<1> QED BY <1>4, <1>5, <1>6 DEF u

\* swap_focused_with_adjacent.
LEMMA SwapFocusedPanes ==
    ASSUME NEW P, NEW t \in TreeType(P), TreeOK(t), NEW next \in BOOLEAN
    PROVE  TreeOK(SwapFocused(t, next)) /\ PanesOf(SwapFocused(t, next)) = PanesOf(t)
<1>1. CASE HasLeaf(t, t.focus) /\ Len(t.leaves) > 1
  <2> DEFINE n == Len(t.leaves)
             i == LeafIndex(t, t.focus)
             j == IF next THEN (i % n) + 1 ELSE IF i = 1 THEN n ELSE i - 1
             source == [k \in 1..n |-> IF k = i THEN j ELSE IF k = j THEN i ELSE k]
  <2>1. i \in 1..n /\ n \in Nat
    BY <1>1, LeafIndexIn, TreeFields
  <2>2. j \in 1..n
    <3> HIDE DEF n, i
    <3>1. (i % n) + 1 \in 1..n
      BY <2>1
    <3>2. i # 1 => i - 1 \in 1..n
      BY <2>1
    <3>3. i = 1 => n \in 1..n
      BY <2>1
    <3> QED BY <3>1, <3>2, <3>3
  <2>3. SwapFocused(t, next) = WithPanes(t, source)
    BY <1>1 DEF SwapFocused
  <2> HIDE DEF n, i, j
  <2>4. /\ source[i] = j /\ source[j] = i
        /\ \A k \in 1..n : k # i /\ k # j => source[k] = k
    BY <2>1, <2>2
  <2>5. \A k \in 1..n : source[k] \in 1..n
    BY <2>1, <2>2, <2>4
  <2> HIDE DEF source
  <2>6. \A k \in 1..n : source[source[k]] = k
    BY <2>4
  <2>7. \A k, l \in 1..n : source[k] = source[l] => k = l
    BY <2>6
  <2>8. \A k \in 1..n : \E l \in 1..n : source[l] = k
    BY <2>5, <2>6
  <2> QED BY <2>3, <2>5, <2>7, <2>8, WithPanesPanes DEF n
<1>2. CASE ~(HasLeaf(t, t.focus) /\ Len(t.leaves) > 1)
  BY <1>2 DEF SwapFocused
<1> QED BY <1>1, <1>2

\* rotate_panes.
LEMMA RotatePanesPanes ==
    ASSUME NEW P, NEW t \in TreeType(P), TreeOK(t), NEW forward \in BOOLEAN
    PROVE  TreeOK(RotatePanes(t, forward)) /\ PanesOf(RotatePanes(t, forward)) = PanesOf(t)
<1> DEFINE n == Len(t.leaves)
           up   == [k \in 1..n |-> IF k = 1 THEN n ELSE k - 1]
           down == [k \in 1..n |-> IF k = n THEN 1 ELSE k + 1]
<1>0. n \in Nat
  BY TreeFields
<1>1. CASE n < 2
  BY <1>1 DEF RotatePanes
<1>2. CASE ~(n < 2)
  <2>1. RotatePanes(t, forward) = WithPanes(t, IF forward THEN up ELSE down)
    <3>1. CASE forward
      BY <1>2, <3>1 DEF RotatePanes
    <3>2. CASE ~forward
      BY <1>2, <3>2 DEF RotatePanes
    <3> QED BY <3>1, <3>2
  <2> HIDE DEF n
  <2>2. \A k \in 1..n : up[k] \in 1..n /\ down[k] \in 1..n
    BY <1>0, <1>2
  <2>3. \A k \in 1..n : up[down[k]] = k /\ down[up[k]] = k
    BY <1>0, <1>2
  <2> HIDE DEF up, down
  <2>4. \A k, l \in 1..n : (up[k] = up[l] => k = l) /\ (down[k] = down[l] => k = l)
    BY <2>3
  <2>5. \A k \in 1..n : (\E l \in 1..n : up[l] = k) /\ (\E l \in 1..n : down[l] = k)
    BY <2>2, <2>3
  <2>6. /\ TreeOK(WithPanes(t, up)) /\ PanesOf(WithPanes(t, up)) = PanesOf(t)
        /\ TreeOK(WithPanes(t, down)) /\ PanesOf(WithPanes(t, down)) = PanesOf(t)
    BY <2>2, <2>4, <2>5, WithPanesPanes DEF n
  <2> QED BY <2>1, <2>6
<1> QED BY <1>1, <1>2

\* rebuild_from_panes.
LEMMA RebuildPanes ==
    ASSUME NEW P, NEW t \in TreeType(P), TreeOK(t)
    PROVE  TreeOK(Rebuild(t)) /\ PanesOf(Rebuild(t)) = PanesOf(t)
<1> DEFINE n == Len(t.leaves)
           s == t.leaves
           u == Rebuild(t)
<1>0. n \in Nat /\ DOMAIN s = 1..n
  BY TreeFields
<1>1. u.leaves = [i \in 1..n |-> [id |-> i - 1, pane |-> s[i].pane]] /\ u.next = n
  BY DEF Rebuild
<1> HIDE DEF u
<1>2. /\ DOMAIN u.leaves = 1..n
      /\ \A k \in 1..n : u.leaves[k].id = k - 1 /\ u.leaves[k].pane = s[k].pane
  BY <1>1
<1>3. \A k \in 1..n : k - 1 < n /\ \A l \in 1..n : k - 1 = l - 1 => k = l
  BY <1>0
<1>4. TreeOK(u)
  BY <1>0, <1>1, <1>2, <1>3 DEF TreeOK
<1>5. PanesOf(u) = PanesOf(t)
  BY <1>0, <1>2 DEF PanesOf
<1> QED BY <1>4, <1>5 DEF u

-----------------------------------------------------------------------------
(* Which panes the tab list holds.                                         *)

\* Every tree is in order, no pane is in two of them, and all are panes of S.
PanesOK(m, S) ==
    /\ \A i \in DOMAIN m.tabs : TreeOK(m.tabs[i].tree)
    /\ \A i, j \in DOMAIN m.tabs :
          \A p \in PanesOf(m.tabs[i].tree) : p \in PanesOf(m.tabs[j].tree) => i = j
    /\ \A i \in DOMAIN m.tabs : PanesOf(m.tabs[i].tree) \subseteq S

LEMMA MorePanesOK ==
    ASSUME NEW m, NEW S, NEW T, PanesOK(m, S), S \subseteq T
    PROVE  PanesOK(m, T)
BY DEF PanesOK

\* A tree that takes the place of the one of tab i: it may hold fewer panes,
\* and panes no tab holds.
LEMMA WithTreePanes ==
    ASSUME NEW P, NEW m \in ManagerType(P), NEW i \in 1..Len(m.tabs), NEW t \in TreeType(P),
           NEW S, PanesOK(m, S), TreeOK(t), NEW fresh, fresh \cap S = {},
           PanesOf(t) \subseteq PanesOf(m.tabs[i].tree) \cup fresh
    PROVE  PanesOK([m EXCEPT !.tabs[i].tree = t], S \cup fresh)
<1> DEFINE x == [m EXCEPT !.tabs[i].tree = t]
<1>1. x.tabs = [m.tabs EXCEPT ![i].tree = t] /\ DOMAIN m.tabs = 1..Len(m.tabs)
  BY WithTreeType, ManagerFields
<1> HIDE DEF x
<1>2. DOMAIN x.tabs = DOMAIN m.tabs
  BY <1>1
<1>3. \A k \in DOMAIN m.tabs : k # i => x.tabs[k].tree = m.tabs[k].tree
  BY <1>1
<1>4. x.tabs[i].tree = t
  <2>1. \A tab \in TabType(P) : [tab EXCEPT !.tree = t].tree = t
    BY DEF TabType
  <2>2. m.tabs[i] \in TabType(P) /\ x.tabs[i] = [m.tabs[i] EXCEPT !.tree = t]
    BY <1>1, ManagerFields
  <2> QED BY <2>1, <2>2
<1>5. \A k \in DOMAIN x.tabs : TreeOK(x.tabs[k].tree)
  BY <1>2, <1>3, <1>4 DEF PanesOK
<1>6. \A k \in DOMAIN x.tabs : PanesOf(x.tabs[k].tree) \subseteq S \cup fresh
  BY <1>1, <1>2, <1>3, <1>4 DEF PanesOK
<1>7. ASSUME NEW k \in DOMAIN m.tabs, k # i
      PROVE  PanesOf(t) \cap PanesOf(m.tabs[k].tree) = {}
  BY <1>1, <1>7 DEF PanesOK
<1>8. ASSUME NEW k \in DOMAIN x.tabs, NEW l \in DOMAIN x.tabs,
             NEW p \in PanesOf(x.tabs[k].tree), p \in PanesOf(x.tabs[l].tree)
      PROVE  k = l
  <2>1. CASE k # i /\ l # i
    BY <1>2, <1>3, <1>8, <2>1 DEF PanesOK
  <2>2. CASE k = i \/ l = i
    BY <1>2, <1>3, <1>4, <1>7, <1>8, <2>2
  <2> QED BY <2>1, <2>2
<1> QED BY <1>5, <1>6, <1>8 DEF PanesOK, x

\* A tree that takes the place of the one of tab i without one of its panes.
LEMMA WithLessPanes ==
    ASSUME NEW P, NEW m \in ManagerType(P), NEW i \in 1..Len(m.tabs), NEW t \in TreeType(P),
           NEW S, PanesOK(m, S), TreeOK(t),
           NEW pane \in PanesOf(m.tabs[i].tree),
           PanesOf(t) = PanesOf(m.tabs[i].tree) \ {pane}
    PROVE  PanesOK([m EXCEPT !.tabs[i].tree = t], S \ {pane})
<1> DEFINE x == [m EXCEPT !.tabs[i].tree = t]
<1>0. PanesOK(x, S \cup {})
  BY WithTreePanes
<1>1. x.tabs = [m.tabs EXCEPT ![i].tree = t] /\ DOMAIN m.tabs = 1..Len(m.tabs)
  BY WithTreeType, ManagerFields
<1> HIDE DEF x
<1>2. DOMAIN x.tabs = DOMAIN m.tabs
  BY <1>1
<1>3. \A k \in DOMAIN m.tabs : k # i => x.tabs[k].tree = m.tabs[k].tree
  BY <1>1
<1>4. x.tabs[i].tree = t
  <2>1. \A tab \in TabType(P) : [tab EXCEPT !.tree = t].tree = t
    BY DEF TabType
  <2>2. m.tabs[i] \in TabType(P) /\ x.tabs[i] = [m.tabs[i] EXCEPT !.tree = t]
    BY <1>1, ManagerFields
  <2> QED BY <2>1, <2>2
<1>5. ASSUME NEW k \in DOMAIN x.tabs
      PROVE  pane \notin PanesOf(x.tabs[k].tree)
  <2>1. CASE k = i
    BY <1>4, <2>1
  <2>2. CASE k # i
    BY <1>1, <1>2, <1>3, <1>5, <2>2 DEF PanesOK
  <2> QED BY <2>1, <2>2
<1> QED BY <1>0, <1>5 DEF PanesOK, x

\* remove_tab frees the panes of that tab from the others.
LEMMA RemoveTabPanes ==
    ASSUME NEW P, NEW m \in ManagerType(P), NEW index \in Nat, index < Len(m.tabs),
           NEW S, PanesOK(m, S)
    PROVE  PanesOK(RemoveTab(m, index), S \ PanesOf(m.tabs[index + 1].tree))
<1> DEFINE x   == RemoveTab(m, index)
           r   == RemoveAt(m.tabs, index + 1)
           n   == Len(m.tabs)
           old(k) == IF k < index + 1 THEN k ELSE k + 1
<1>0. index + 1 \in 1..n /\ n \in Nat /\ DOMAIN m.tabs = 1..n
  BY ManagerFields
<1>1. x.tabs = r
  BY DEF RemoveTab, ManagerType
<1>2. /\ r \in Seq(TabType(P)) /\ Len(r) = n - 1
      /\ \A k \in 1..(n - 1) : r[k] = IF k < index + 1 THEN m.tabs[k] ELSE m.tabs[k + 1]
  BY RemainingTabs
<1> HIDE DEF x, r, n
<1>3. DOMAIN x.tabs = 1..(n - 1)
  BY <1>1, <1>2, LenProperties
<1>4. ASSUME NEW k \in 1..(n - 1)
      PROVE  old(k) \in 1..n /\ old(k) # index + 1 /\ x.tabs[k] = m.tabs[old(k)]
  <2>1. old(k) \in 1..n /\ old(k) # index + 1
    BY <1>0
  <2>2. x.tabs[k] = m.tabs[old(k)]
    BY <1>1, <1>2
  <2> QED BY <2>1, <2>2
<1>5. ASSUME NEW k \in 1..(n - 1), NEW l \in 1..(n - 1), old(k) = old(l)
      PROVE  k = l
  BY <1>0, <1>5
<1> HIDE DEF old
<1>6. ASSUME NEW k \in 1..(n - 1), NEW l \in 1..(n - 1),
             NEW p \in PanesOf(x.tabs[k].tree), p \in PanesOf(x.tabs[l].tree)
      PROVE  k = l
  <2>1. old(k) = old(l)
    BY <1>0, <1>4, <1>6 DEF PanesOK
  <2> QED BY <1>5, <2>1
<1>7. ASSUME NEW k \in 1..(n - 1)
      PROVE  /\ TreeOK(x.tabs[k].tree)
             /\ PanesOf(x.tabs[k].tree) \subseteq S \ PanesOf(m.tabs[index + 1].tree)
  BY <1>0, <1>4 DEF PanesOK
<1> QED BY <1>3, <1>6, <1>7 DEF PanesOK, x

LEMMA DropIfEmptyPanes ==
    ASSUME NEW P, NEW m \in ManagerType(P), NEW index \in Nat, index < Len(m.tabs),
           NEW S, PanesOK(m, S)
    PROVE  PanesOK(DropIfEmpty(m, index), S)
<1>1. PanesOK(RemoveTab(m, index), S \ PanesOf(m.tabs[index + 1].tree))
  BY RemoveTabPanes
<1>2. PanesOK(RemoveTab(m, index), S)
  BY <1>1, MorePanesOK
<1> QED BY <1>2 DEF DropIfEmpty

\* A new tab for a pane no tab holds.
LEMMA PushedPanes ==
    ASSUME NEW P, NEW m \in ManagerType(P), NEW pane \in P, NEW S, PanesOK(m, S),
           pane \notin S, NEW x, x.tabs = Pushed(m, pane)
    PROVE  PanesOK(x, S \cup {pane})
<1> DEFINE n == Len(m.tabs)
           new == [id |-> m.nextId, tree |-> RootTree(pane)]
<1>0. n \in Nat /\ DOMAIN m.tabs = 1..n
  BY ManagerFields
<1>1. new \in TabType(P) /\ new.tree = RootTree(pane)
  BY ManagerFields, RootTreeType DEF TabType
<1>2. /\ x.tabs \in Seq(TabType(P)) /\ Len(x.tabs) = n + 1
      /\ \A k \in 1..n : x.tabs[k] = m.tabs[k]
      /\ x.tabs[n + 1] = new
  <2> HIDE DEF new
  <2>1. x.tabs = Append(m.tabs, new)
    BY DEF Pushed, new
  <2> QED BY <1>1, <2>1, ManagerFields, AppendProperties
<1>3. DOMAIN x.tabs = 1..(n + 1)
  BY <1>2, LenProperties
<1>4. TreeOK(x.tabs[n + 1].tree) /\ PanesOf(x.tabs[n + 1].tree) = {pane}
  BY <1>1, <1>2, RootTreePanes
<1> HIDE DEF n, new
<1>5. \A k \in 1..(n + 1) : k # n + 1 => k \in 1..n
  BY <1>0
<1>6. ASSUME NEW k \in 1..n
      PROVE  /\ TreeOK(x.tabs[k].tree)
             /\ PanesOf(x.tabs[k].tree) \subseteq S
             /\ pane \notin PanesOf(x.tabs[k].tree)
  BY <1>0, <1>2 DEF PanesOK
<1>7. ASSUME NEW k \in 1..(n + 1), NEW l \in 1..(n + 1),
             NEW p \in PanesOf(x.tabs[k].tree), p \in PanesOf(x.tabs[l].tree)
      PROVE  k = l
  <2>1. CASE k # n + 1 /\ l # n + 1
    <3>1. k \in 1..n /\ l \in 1..n
      BY <1>5, <2>1
    <3> QED BY <1>0, <1>2, <1>7, <3>1 DEF PanesOK
  <2>2. CASE k = n + 1 \/ l = n + 1
    BY <1>4, <1>5, <1>6, <1>7, <2>2
  <2> QED BY <2>1, <2>2
<1>8. ASSUME NEW k \in 1..(n + 1)
      PROVE  TreeOK(x.tabs[k].tree) /\ PanesOf(x.tabs[k].tree) \subseteq S \cup {pane}
  BY <1>4, <1>5, <1>6
<1> QED BY <1>3, <1>7, <1>8 DEF PanesOK

LEMMA NewTabPanes ==
    ASSUME NEW P, NEW m \in ManagerType(P), NEW pane \in P, NEW S, PanesOK(m, S), pane \notin S
    PROVE  /\ PanesOK(AddInitialTab(m, pane), S \cup {pane})
           /\ PanesOK(NewTabWith(m, pane), S \cup {pane})
<1>1. /\ AddInitialTab(m, pane).tabs = Pushed(m, pane)
      /\ NewTabWith(m, pane).tabs = Pushed(m, pane)
  BY DEF AddInitialTab, NewTabWith, ManagerType
<1> QED BY <1>1, PushedPanes

\* break_active_pane_to_tab: the pane goes from one tab to a new one.
LEMMA BreakActivePanePanes ==
    ASSUME NEW P, NEW m \in ManagerType(P), HasActive(m), NEW S, PanesOK(m, S),
           HasLeaf(ActiveTree(m), ActiveTree(m).focus)
    PROVE  PanesOK(BreakActivePane(m), S)
<1> DEFINE i    == m.active + 1
           old  == ActiveTree(m)
           t    == RemoveFocused(old)
           pane == FocusedPane(old)
           cut  == WithActiveTree(m, t)
<1>0. i \in 1..Len(m.tabs) /\ m.active \in Nat /\ old = m.tabs[i].tree
      /\ DOMAIN m.tabs = 1..Len(m.tabs)
  BY ManagerFields DEF HasActive, ActiveTree
<1>1. old \in TreeType(P) /\ TreeOK(old) /\ PanesOf(old) \subseteq S
  BY <1>0, ActiveTreeType DEF PanesOK
<1>2. t \in TreeType(P) /\ pane \in P
  BY <1>1, RemoveFocusedType, FocusedPaneType
<1>3. TreeOK(t) /\ PanesOf(t) = PanesOf(old) \ {pane} /\ pane \in PanesOf(old)
  BY <1>1, RemoveFocusedPanes
<1>4. BreakActivePane(m) = NewTabWith(DropIfEmpty(cut, m.active), pane)
  BY DEF BreakActivePane, FocusedPaneOf
<1>5. cut = [m EXCEPT !.tabs[i].tree = t]
  BY DEF WithActiveTree
<1> HIDE DEF i, old, t, pane, cut
<1>6. cut \in ManagerType(P) /\ Len(cut.tabs) = Len(m.tabs) /\ PanesOK(cut, S \ {pane})
  <2>1. cut \in ManagerType(P) /\ Len(cut.tabs) = Len(m.tabs)
    BY <1>0, <1>2, <1>5, WithTreeType
  <2>2. pane \in PanesOf(m.tabs[i].tree) /\ PanesOf(t) = PanesOf(m.tabs[i].tree) \ {pane}
    BY <1>0, <1>3
  <2>3. PanesOK([m EXCEPT !.tabs[i].tree = t], S \ {pane})
    BY <1>0, <1>2, <1>3, <2>2, WithLessPanes
  <2> QED BY <1>5, <2>1, <2>3
<1>7. m.active < Len(cut.tabs)
  BY <1>0, <1>6 DEF HasActive
<1>8. /\ DropIfEmpty(cut, m.active) \in ManagerType(P)
      /\ PanesOK(DropIfEmpty(cut, m.active), S \ {pane})
  BY <1>0, <1>6, <1>7, DropIfEmptyType, DropIfEmptyPanes
<1>9. PanesOK(BreakActivePane(m), (S \ {pane}) \cup {pane})
  BY <1>2, <1>4, <1>8, NewTabPanes
<1>10. (S \ {pane}) \cup {pane} = S
  BY <1>1, <1>3
<1> QED BY <1>9, <1>10

\* remove_pane_by_id: that pane is in no tab any more.
LEMMA RemovePaneByIdPanes ==
    ASSUME NEW P, NEW m \in ManagerType(P), NEW pane \in AllPanes(m), NEW S, PanesOK(m, S)
    PROVE  PanesOK(RemovePaneById(m, pane), S \ {pane})
<1> DEFINE index == IndexOfPane(m, pane)
           old   == m.tabs[index + 1].tree
           t     == RemovePane(old, pane)
           cut   == [m EXCEPT !.tabs[index + 1].tree = t]
<1>1. /\ index \in Nat /\ index < Len(m.tabs) /\ index + 1 \in 1..Len(m.tabs)
      /\ pane \in PanesOf(old) /\ old \in TreeType(P) /\ TreeOK(old)
  BY IndexOfPaneIn, ManagerFields DEF PanesOK
<1>2. RemovePaneById(m, pane) = DropIfEmpty(cut, index)
  BY DEF RemovePaneById
<1>3. t \in TreeType(P) /\ TreeOK(t) /\ PanesOf(t) = PanesOf(old) \ {pane}
  BY <1>1, RemovePaneType, RemovePanePanes
<1> HIDE DEF t, index
<1>4. cut \in ManagerType(P) /\ Len(cut.tabs) = Len(m.tabs)
  BY <1>1, <1>3, WithTreeType
<1>5. PanesOK(cut, S \ {pane})
  BY <1>1, <1>3, WithLessPanes
<1> HIDE DEF cut
<1> QED BY <1>1, <1>2, <1>4, <1>5, DropIfEmptyPanes

\* split_focused in the active tab of any list, for a pane no tab holds.
LEMMA SplitPanes ==
    ASSUME NEW P, NEW m \in ManagerType(P), HasActive(m), NEW S, PanesOK(m, S),
           NEW pane \in P, pane \notin S
    PROVE  PanesOK(WithActiveTree(m, SplitFocused(ActiveTree(m), pane)), S \cup {pane})
<1> DEFINE i   == m.active + 1
           old == ActiveTree(m)
           t   == SplitFocused(old, pane)
<1>1. i \in 1..Len(m.tabs) /\ old = m.tabs[i].tree /\ DOMAIN m.tabs = 1..Len(m.tabs)
  BY ManagerFields DEF HasActive, ActiveTree
<1>2. old \in TreeType(P) /\ TreeOK(old) /\ pane \notin PanesOf(old)
  BY <1>1, ActiveTreeType DEF PanesOK
<1>3. t \in TreeType(P) /\ TreeOK(t) /\ PanesOf(t) \subseteq PanesOf(old) \cup {pane}
  BY <1>2, SplitFocusedType, SplitFocusedPanes
<1>4. {pane} \cap S = {}
  OBVIOUS
<1> HIDE DEF t, old, i
<1>5. PanesOK([m EXCEPT !.tabs[i].tree = t], S \cup {pane})
  BY <1>1, <1>3, <1>4, WithTreePanes
<1> QED BY <1>5 DEF WithActiveTree, t, old, i

\* set_focus_to_pane makes the pane the focused one.
LEMMA SetFocusToPaneFocuses ==
    ASSUME NEW P, NEW t \in TreeType(P), TreeOK(t), NEW pane \in PanesOf(t)
    PROVE  LET u == SetFocusToPane(t, pane)
           IN  HasLeaf(u, u.focus) /\ FocusedPane(u) = pane
<1> DEFINE u == SetFocusToPane(t, pane)
           i == PaneIndex(t, pane)
<1>1. i \in DOMAIN t.leaves /\ t.leaves[i].pane = pane
  BY PaneIndexIn
<1>2. u.leaves = t.leaves /\ u.focus = t.leaves[i].id
  BY DEF SetFocusToPane, SetFocus, TreeType
<1> HIDE DEF u, i
<1>3. HasLeaf(u, u.focus)
  BY <1>1, <1>2 DEF HasLeaf
<1>4. /\ LeafIndex(u, u.focus) \in DOMAIN t.leaves
      /\ t.leaves[LeafIndex(u, u.focus)].id = t.leaves[i].id
  BY <1>2, <1>3, LeafIndexIn
<1>5. LeafIndex(u, u.focus) = i
  BY <1>1, <1>4 DEF TreeOK
<1> QED BY <1>1, <1>2, <1>3, <1>5 DEF FocusedPane, u

\* Replacing the tree of one tab moves no tab and not the active index.
LEMMA WithTreeKeeps ==
    ASSUME NEW P, NEW m \in ManagerType(P), NEW i \in 1..Len(m.tabs), NEW t \in TreeType(P)
    PROVE  LET x == [m EXCEPT !.tabs[i].tree = t]
           IN  /\ x \in ManagerType(P) /\ x.active = m.active /\ Len(x.tabs) = Len(m.tabs)
               /\ \A k \in 1..Len(m.tabs) : x.tabs[k].id = m.tabs[k].id
               /\ x.tabs[i].tree = t
<1> DEFINE x == [m EXCEPT !.tabs[i].tree = t]
<1>1. /\ x \in ManagerType(P) /\ Len(x.tabs) = Len(m.tabs) /\ DOMAIN m.tabs = 1..Len(m.tabs)
      /\ x.tabs = [m.tabs EXCEPT ![i].tree = t]
  BY WithTreeType, ManagerFields
<1>2. x.active = m.active
  BY ManagerFields
<1>3. \A tab \in TabType(P) : [tab EXCEPT !.tree = t].id = tab.id
                              /\ [tab EXCEPT !.tree = t].tree = t
  BY DEF TabType
<1> HIDE DEF x
<1>4. x.tabs[i] = [m.tabs[i] EXCEPT !.tree = t]
  BY <1>1
<1>5. x.tabs[i].id = m.tabs[i].id /\ x.tabs[i].tree = t
  BY <1>3, <1>4, ManagerFields
<1>6. \A k \in 1..Len(m.tabs) : k # i => x.tabs[k] = m.tabs[k]
  BY <1>1
<1> QED BY <1>1, <1>2, <1>5, <1>6 DEF x

LEMMA WithActiveTreeKeeps ==
    ASSUME NEW P, NEW m \in ManagerType(P), HasActive(m), NEW t \in TreeType(P)
    PROVE  /\ WithActiveTree(m, t) \in ManagerType(P) /\ HasActive(WithActiveTree(m, t))
           /\ WithActiveTree(m, t).active = m.active
           /\ Len(WithActiveTree(m, t).tabs) = Len(m.tabs)
           /\ \A k \in 1..Len(m.tabs) : WithActiveTree(m, t).tabs[k].id = m.tabs[k].id
           /\ ActiveTree(WithActiveTree(m, t)) = t
<1> DEFINE x == WithActiveTree(m, t)
<1>1. m.active + 1 \in 1..Len(m.tabs)
  BY ManagerFields DEF HasActive
<1>2. /\ x \in ManagerType(P) /\ x.active = m.active /\ Len(x.tabs) = Len(m.tabs)
      /\ \A k \in 1..Len(m.tabs) : x.tabs[k].id = m.tabs[k].id
      /\ x.tabs[m.active + 1].tree = t
  BY <1>1, WithTreeKeeps DEF WithActiveTree
<1> HIDE DEF x
<1>3. HasActive(x) /\ ActiveTree(x) = t
  BY <1>2 DEF HasActive, ActiveTree
<1> QED BY <1>2, <1>3 DEF x

-----------------------------------------------------------------------------
(* One tree.  The focus is on a leaf:                                      *)

Resolves(t) == HasLeaf(t, t.focus)

LEMMA RootTreeResolves ==
    ASSUME NEW pane
    PROVE  Resolves(RootTree(pane))
<1> DEFINE t == RootTree(pane)
<1>1. DOMAIN t.leaves = {1} /\ t.leaves[1].id = 0 /\ t.focus = 0
  BY DEF RootTree
<1> HIDE DEF t
<1> QED BY <1>1 DEF Resolves, HasLeaf, t

\* split_focused focuses the leaf it makes.
LEMMA SplitFocusedResolves ==
    ASSUME NEW P, NEW t \in TreeType(P), Resolves(t), NEW pane \in P
    PROVE  Resolves(SplitFocused(t, pane)) /\ pane \in PanesOf(SplitFocused(t, pane))
<1> DEFINE n == Len(t.leaves)
           s == t.leaves
           e == [id |-> t.next, pane |-> pane]
           u == SplitFocused(t, pane)
           p == LeafIndex(t, t.focus) + 1
           r == InsertAt(s, p, e)
<1>0. n \in Nat /\ DOMAIN s = 1..n /\ s \in Seq(LeafType(P)) /\ t.next \in Nat
  BY TreeFields
<1>1. e \in LeafType(P) /\ e.id = t.next /\ e.pane = pane
  BY <1>0 DEF LeafType
<1>2. LeafIndex(t, t.focus) \in 1..n
  BY <1>0, LeafIndexIn DEF Resolves
<1>3. s # <<>>
  BY <1>0, <1>2, EmptySeq
<1>4. u.leaves = r /\ u.focus = t.next
  BY <1>3 DEF SplitFocused, Resolves
<1>5. p \in 1..(n + 1)
  BY <1>0, <1>2
<1>6. Len(r) = n + 1 /\ r \in Seq(LeafType(P)) /\ r[p] = e
  <2> HIDE DEF s, e, p
  <2>1. s \in Seq(LeafType(P)) /\ e \in LeafType(P) /\ p \in 1..(Len(s) + 1)
    BY <1>0, <1>1, <1>5 DEF s
  <2>2. /\ InsertAt(s, p, e) \in Seq(LeafType(P))
        /\ Len(InsertAt(s, p, e)) = Len(s) + 1
        /\ \A k \in 1..(Len(s) + 1) : InsertAt(s, p, e)[k] =
              IF k < p THEN s[k] ELSE IF k = p THEN e ELSE s[k - 1]
    BY <2>1, InsertAtProperties
  <2>3. ~(p < p)
    BY <1>0, <1>5
  <2>4. InsertAt(s, p, e)[p] = e
    BY <2>1, <2>2, <2>3
  <2> QED BY <2>2, <2>4 DEF s
<1> HIDE DEF r, u, e, p
<1>7. p \in DOMAIN r
  BY <1>5, <1>6, LenProperties
<1>8. p \in DOMAIN u.leaves /\ u.leaves[p].id = u.focus /\ u.leaves[p].pane = pane
  BY <1>1, <1>4, <1>6, <1>7
<1> QED BY <1>8 DEF Resolves, HasLeaf, PanesOf, u

\* remove_leaf focuses the first leaf that is left.
LEMMA RemoveLeafResolves ==
    ASSUME NEW P, NEW t \in TreeType(P), NEW i \in DOMAIN t.leaves
    PROVE  RemoveLeaf(t, i).leaves = <<>> \/ Resolves(RemoveLeaf(t, i))
<1> DEFINE r == RemoveAt(t.leaves, i)
           u == RemoveLeaf(t, i)
<1>1. r \in Seq(LeafType(P))
  BY TreeFields, RemoveAtProperties
<1>2. u.leaves = r /\ (r # <<>> => u.focus = r[1].id)
  BY DEF RemoveLeaf
<1> HIDE DEF r, u
<1>3. r # <<>> => 1 \in DOMAIN r
  BY <1>1, EmptySeq, LenProperties
<1> QED BY <1>2, <1>3 DEF Resolves, HasLeaf, u

\* focus_next and focus_prev go from leaf to leaf.
LEMMA FocusNextResolves ==
    ASSUME NEW P, NEW t \in TreeType(P), Resolves(t)
    PROVE  Resolves(FocusNext(t)) /\ Resolves(FocusPrev(t))
<1> DEFINE n == Len(t.leaves)
           i == LeafIndex(t, t.focus)
           j == (i % n) + 1
           k == IF i = 1 THEN n ELSE i - 1
<1>0. n \in Nat /\ DOMAIN t.leaves = 1..n /\ i \in 1..n
  BY LeafIndexIn, TreeFields DEF Resolves
<1>1. j \in 1..n /\ k \in 1..n
  <2> HIDE DEF n, i
  <2> QED BY <1>0
<1>2. /\ FocusNext(t) = SetFocus(t, t.leaves[j].id)
      /\ FocusPrev(t) = SetFocus(t, t.leaves[k].id)
  BY DEF FocusNext, FocusPrev, Resolves
<1> HIDE DEF j, k, n, i
<1>3. ASSUME NEW l \in 1..n
      PROVE  Resolves(SetFocus(t, t.leaves[l].id))
  <2>1. /\ SetFocus(t, t.leaves[l].id).leaves = t.leaves
        /\ SetFocus(t, t.leaves[l].id).focus = t.leaves[l].id
    BY DEF SetFocus, TreeType
  <2> QED BY <1>0, <2>1 DEF Resolves, HasLeaf
<1> QED BY <1>1, <1>2, <1>3

LEMMA SetFocusResolves ==
    ASSUME NEW P, NEW t \in TreeType(P), NEW id, HasLeaf(t, id)
    PROVE  Resolves(SetFocus(t, id))
<1>1. SetFocus(t, id).leaves = t.leaves /\ SetFocus(t, id).focus = id
  BY DEF SetFocus, TreeType
<1> QED BY <1>1 DEF Resolves, HasLeaf

LEMMA SetFocusToPaneResolves ==
    ASSUME NEW P, NEW t \in TreeType(P), Resolves(t), NEW pane
    PROVE  Resolves(SetFocusToPane(t, pane))
<1>1. CASE pane \in PanesOf(t)
  <2>1. HasLeaf(t, t.leaves[PaneIndex(t, pane)].id)
    BY <1>1, PaneIndexIn DEF HasLeaf
  <2> QED BY <1>1, <2>1, SetFocusResolves DEF SetFocusToPane
<1>2. CASE pane \notin PanesOf(t)
  BY <1>2 DEF SetFocusToPane
<1> QED BY <1>1, <1>2

\* assign_leaf_panes leaves the leaf ids and the focus alone.
LEMMA WithPanesResolves ==
    ASSUME NEW P, NEW t \in TreeType(P), Resolves(t)
    PROVE  /\ \A next \in BOOLEAN : Resolves(SwapFocused(t, next))
           /\ \A forward \in BOOLEAN : Resolves(RotatePanes(t, forward))
<1>1. ASSUME NEW source
      PROVE  Resolves(WithPanes(t, source))
  <2> DEFINE n == Len(t.leaves)
             u == WithPanes(t, source)
  <2>1. /\ u.leaves = [i \in 1..n |-> [id   |-> t.leaves[i].id,
                                       pane |-> t.leaves[source[i]].pane]]
        /\ u.focus = t.focus
    BY DEF WithPanes, TreeType
  <2>2. DOMAIN t.leaves = 1..n
    BY TreeFields
  <2> HIDE DEF u, n
  <2>3. DOMAIN u.leaves = 1..n /\ \A i \in 1..n : u.leaves[i].id = t.leaves[i].id
    BY <2>1
  <2> QED BY <2>1, <2>2, <2>3 DEF Resolves, HasLeaf, u
<1>2. \A next : SwapFocused(t, next) = t \/ \E source : SwapFocused(t, next) = WithPanes(t, source)
  BY DEF SwapFocused
<1>3. \A forward : RotatePanes(t, forward) = t
                   \/ \E source : RotatePanes(t, forward) = WithPanes(t, source)
  BY DEF RotatePanes
<1> QED BY <1>1, <1>2, <1>3

-----------------------------------------------------------------------------
(* The tab list: every tab has a focused leaf and the panes of S are all   *)
(* in some tab.                                                            *)

Covers(m, S) == \A p \in S : \E i \in DOMAIN m.tabs : p \in PanesOf(m.tabs[i].tree)

Sound(m, S) == Covers(m, S) /\ \A i \in DOMAIN m.tabs : Resolves(m.tabs[i].tree)

\* Replacing the tree of tab i.
LEMMA WithTreeCovers ==
    ASSUME NEW P, NEW m \in ManagerType(P), NEW i \in 1..Len(m.tabs), NEW t \in TreeType(P),
           NEW S, NEW T, Covers(m, S),
           \A p \in T : p \in PanesOf(t) \/ (p \in S /\ p \notin PanesOf(m.tabs[i].tree))
    PROVE  LET x == [m EXCEPT !.tabs[i].tree = t]
           IN  /\ Covers(x, T)
               /\ \A k \in DOMAIN x.tabs : k # i => x.tabs[k].tree = m.tabs[k].tree
               /\ x.tabs[i].tree = t /\ DOMAIN x.tabs = DOMAIN m.tabs
<1> DEFINE x == [m EXCEPT !.tabs[i].tree = t]
<1>1. x.tabs = [m.tabs EXCEPT ![i].tree = t] /\ DOMAIN m.tabs = 1..Len(m.tabs)
  BY WithTreeType, ManagerFields
<1>2. x.tabs[i].tree = t
  BY WithTreeKeeps
<1> HIDE DEF x
<1>3. DOMAIN x.tabs = DOMAIN m.tabs /\ \A k \in DOMAIN m.tabs : k # i => x.tabs[k] = m.tabs[k]
  BY <1>1
<1>4. ASSUME NEW p \in T
      PROVE  \E k \in DOMAIN x.tabs : p \in PanesOf(x.tabs[k].tree)
  <2>1. CASE p \in PanesOf(t)
    BY <1>1, <1>2, <1>3, <2>1
  <2>2. CASE p \in S /\ p \notin PanesOf(m.tabs[i].tree)
    <3>1. PICK k \in DOMAIN m.tabs : p \in PanesOf(m.tabs[k].tree)
      BY <2>2 DEF Covers
    <3> QED BY <1>3, <2>2, <3>1
  <2> QED BY <2>1, <2>2
<1> QED BY <1>2, <1>3, <1>4 DEF Covers, x

LEMMA WithActiveTreeSound ==
    ASSUME NEW P, NEW m \in ManagerType(P), HasActive(m), NEW t \in TreeType(P), Resolves(t),
           NEW S, NEW T, Sound(m, S),
           \A p \in T : p \in PanesOf(t) \/ (p \in S /\ p \notin PanesOf(ActiveTree(m)))
    PROVE  Sound(WithActiveTree(m, t), T)
<1> DEFINE i == m.active + 1
           x == [m EXCEPT !.tabs[i].tree = t]
<1>1. i \in 1..Len(m.tabs) /\ ActiveTree(m) = m.tabs[i].tree
  BY ManagerFields DEF HasActive, ActiveTree
<1>2. WithActiveTree(m, t) = x
  BY DEF WithActiveTree
<1> HIDE DEF i
<1>3. Covers(m, S) /\ \A k \in DOMAIN m.tabs : Resolves(m.tabs[k].tree)
  BY DEF Sound
<1>4. \A p \in T : p \in PanesOf(t) \/ (p \in S /\ p \notin PanesOf(m.tabs[i].tree))
  BY <1>1
<1>5. /\ Covers(x, T)
      /\ \A k \in DOMAIN x.tabs : k # i => x.tabs[k].tree = m.tabs[k].tree
      /\ x.tabs[i].tree = t /\ DOMAIN x.tabs = DOMAIN m.tabs
  BY <1>1, <1>3, <1>4, WithTreeCovers
<1> HIDE DEF x
<1>6. \A k \in DOMAIN x.tabs : Resolves(x.tabs[k].tree)
  BY <1>3, <1>5
<1> QED BY <1>2, <1>5, <1>6 DEF Sound

\* remove_tab of a tab whose own tree may have lost its focus.
LEMMA RemoveTabSound ==
    ASSUME NEW P, NEW m \in ManagerType(P), NEW index \in Nat, index < Len(m.tabs),
           NEW S, Covers(m, S),
           \A k \in DOMAIN m.tabs : k # index + 1 => Resolves(m.tabs[k].tree)
    PROVE  Sound(RemoveTab(m, index), S \ PanesOf(m.tabs[index + 1].tree))
<1> DEFINE x   == RemoveTab(m, index)
           r   == RemoveAt(m.tabs, index + 1)
           n   == Len(m.tabs)
           gone == PanesOf(m.tabs[index + 1].tree)
<1>0. index + 1 \in 1..n /\ n \in Nat /\ DOMAIN m.tabs = 1..n
  BY ManagerFields
<1>1. x.tabs = r
  BY DEF RemoveTab, ManagerType
<1>2. /\ r \in Seq(TabType(P)) /\ Len(r) = n - 1
      /\ \A k \in 1..(n - 1) : r[k] = IF k < index + 1 THEN m.tabs[k] ELSE m.tabs[k + 1]
  BY RemainingTabs
<1> HIDE DEF x, r, n
<1>3. DOMAIN x.tabs = 1..(n - 1)
  BY <1>1, <1>2, LenProperties
<1>4. ASSUME NEW k \in 1..(n - 1)
      PROVE  Resolves(x.tabs[k].tree)
  <2> DEFINE j == IF k < index + 1 THEN k ELSE k + 1
  <2>1. j \in 1..n /\ j # index + 1
    BY <1>0
  <2>2. x.tabs[k] = m.tabs[j]
    BY <1>1, <1>2
  <2> HIDE DEF j
  <2> QED BY <1>0, <2>1, <2>2
<1>5. ASSUME NEW i \in 1..n, i # index + 1
      PROVE  \E k \in 1..(n - 1) : x.tabs[k] = m.tabs[i]
  <2>1. CASE i < index + 1
    <3>1. i \in 1..(n - 1)
      BY <1>0, <2>1
    <3> QED BY <1>1, <1>2, <2>1, <3>1
  <2>2. CASE ~(i < index + 1)
    <3>1. i - 1 \in 1..(n - 1) /\ ~(i - 1 < index + 1) /\ (i - 1) + 1 = i
      BY <1>0, <1>5, <2>2
    <3> QED BY <1>1, <1>2, <3>1
  <2> QED BY <2>1, <2>2
<1>6. ASSUME NEW p \in S \ gone
      PROVE  \E k \in 1..(n - 1) : p \in PanesOf(x.tabs[k].tree)
  <2>1. PICK i \in 1..n : p \in PanesOf(m.tabs[i].tree)
    BY <1>0 DEF Covers
  <2>2. i # index + 1
    BY <2>1
  <2>3. PICK k \in 1..(n - 1) : x.tabs[k] = m.tabs[i]
    BY <1>5, <2>2
  <2> QED BY <2>1, <2>3
<1> QED BY <1>3, <1>4, <1>6 DEF Sound, Covers, x

\* A tree that lost a pane takes the place of the one at the index; without
\* leaves it goes with its tab.
LEMMA CutSound ==
    ASSUME NEW P, NEW m \in ManagerType(P), NEW index \in Nat, index < Len(m.tabs),
           NEW t \in TreeType(P), t.leaves = <<>> \/ Resolves(t), NEW S, Sound(m, S), NEW pane,
           PanesOf(t) = PanesOf(m.tabs[index + 1].tree) \ {pane}
    PROVE  Sound(DropIfEmpty([m EXCEPT !.tabs[index + 1].tree = t], index), S \ {pane})
<1> DEFINE i == index + 1
           c == [m EXCEPT !.tabs[i].tree = t]
<1>1. i \in 1..Len(m.tabs)
  BY ManagerFields
<1>2. Covers(m, S) /\ \A k \in DOMAIN m.tabs : Resolves(m.tabs[k].tree)
  BY DEF Sound
<1>3. \A p \in S \ {pane} : p \in PanesOf(t) \/ (p \in S /\ p \notin PanesOf(m.tabs[i].tree))
  OBVIOUS
<1>4. c \in ManagerType(P) /\ Len(c.tabs) = Len(m.tabs)
  BY <1>1, WithTreeKeeps
<1>5. /\ Covers(c, S \ {pane})
      /\ \A k \in DOMAIN c.tabs : k # i => c.tabs[k].tree = m.tabs[k].tree
      /\ c.tabs[i].tree = t /\ DOMAIN c.tabs = DOMAIN m.tabs
  <2> HIDE DEF i
  <2> QED BY <1>1, <1>2, <1>3, WithTreeCovers
<1>6. \A k \in DOMAIN c.tabs : k # i => Resolves(c.tabs[k].tree)
  <2> HIDE DEF c
  <2> QED BY <1>2, <1>5
<1> HIDE DEF c
<1>7. CASE t.leaves = <<>>
  <2>1. PanesOf(t) = {}
    BY <1>7 DEF PanesOf
  <2>2. Sound(RemoveTab(c, index), (S \ {pane}) \ PanesOf(c.tabs[index + 1].tree))
    BY <1>4, <1>5, <1>6, RemoveTabSound
  <2>3. DropIfEmpty(c, index) = RemoveTab(c, index)
    BY <1>5, <1>7 DEF DropIfEmpty
  <2>4. (S \ {pane}) \ PanesOf(c.tabs[index + 1].tree) = S \ {pane}
    BY <1>5, <2>1
  <2> QED BY <2>2, <2>3, <2>4 DEF c
<1>8. CASE t.leaves # <<>>
  <2>1. DropIfEmpty(c, index) = c
    BY <1>5, <1>8 DEF DropIfEmpty
  <2>2. \A k \in DOMAIN c.tabs : Resolves(c.tabs[k].tree)
    BY <1>5, <1>6, <1>8
  <2> QED BY <1>5, <2>1, <2>2 DEF Sound, c
<1> QED BY <1>7, <1>8

\* add_initial_tab and new_tab.
LEMMA NewTabSound ==
    ASSUME NEW P, NEW m \in ManagerType(P), NEW pane \in P, NEW S, NEW T, Sound(m, S),
           T \subseteq S \cup {pane}
    PROVE  Sound(AddInitialTab(m, pane), T) /\ Sound(NewTabWith(m, pane), T)
<1> DEFINE n == Len(m.tabs)
           new == [id |-> m.nextId, tree |-> RootTree(pane)]
<1>1. /\ AddInitialTab(m, pane).tabs = Append(m.tabs, new)
      /\ NewTabWith(m, pane).tabs = Append(m.tabs, new)
  BY DEF AddInitialTab, NewTabWith, ManagerType, Pushed
<1>2. new \in TabType(P) /\ new.tree = RootTree(pane)
  BY ManagerFields, RootTreeType DEF TabType
<1> HIDE DEF new
<1>3. n \in Nat /\ DOMAIN m.tabs = 1..n /\ m.tabs \in Seq(TabType(P))
  BY ManagerFields
<1>4. ASSUME NEW x, x.tabs = Append(m.tabs, new)
      PROVE  Sound(x, T)
  <2>1. /\ x.tabs \in Seq(TabType(P)) /\ Len(x.tabs) = n + 1
        /\ \A k \in 1..n : x.tabs[k] = m.tabs[k]
        /\ x.tabs[n + 1] = new
    BY <1>2, <1>3, <1>4, AppendProperties
  <2>2. DOMAIN x.tabs = 1..(n + 1)
    BY <2>1, LenProperties
  <2> HIDE DEF n
  <2>3. 1..n \subseteq 1..(n + 1) /\ n + 1 \in 1..(n + 1)
        /\ \A k \in 1..(n + 1) : k = n + 1 \/ k \in 1..n
    BY <1>3
  <2>4. Resolves(x.tabs[n + 1].tree) /\ PanesOf(x.tabs[n + 1].tree) = {pane}
    BY <1>2, <2>1, RootTreeResolves, RootTreePanes
  <2>5. \A k \in 1..(n + 1) : Resolves(x.tabs[k].tree)
    BY <1>3, <2>1, <2>3, <2>4 DEF Sound
  <2>6. ASSUME NEW p \in T
        PROVE  \E k \in 1..(n + 1) : p \in PanesOf(x.tabs[k].tree)
    <3>1. CASE p = pane
      BY <2>3, <2>4, <3>1
    <3>2. CASE p \in S
      <4>1. PICK i \in 1..n : p \in PanesOf(m.tabs[i].tree)
        BY <1>3, <3>2 DEF Sound, Covers
      <4> QED BY <2>1, <2>3, <4>1
    <3> QED BY <3>1, <3>2
  <2> QED BY <2>2, <2>5, <2>6 DEF Sound, Covers
<1> QED BY <1>1, <1>4

\* break_active_pane_to_tab and remove_pane_by_id.
LEMMA BreakActivePaneSound ==
    ASSUME NEW P, NEW m \in ManagerType(P), HasActive(m), NEW R, PanesOK(m, R),
           NEW S, Sound(m, S)
    PROVE  Sound(BreakActivePane(m), S)
<1> DEFINE old  == ActiveTree(m)
           t    == RemoveFocused(old)
           pane == FocusedPane(old)
           d    == DropIfEmpty([m EXCEPT !.tabs[m.active + 1].tree = t], m.active)
<1>0. /\ m.active \in Nat /\ m.active < Len(m.tabs) /\ old = m.tabs[m.active + 1].tree
      /\ m.active + 1 \in DOMAIN m.tabs
  BY ManagerFields DEF HasActive, ActiveTree
<1>1. old \in TreeType(P) /\ TreeOK(old) /\ HasLeaf(old, old.focus)
  BY <1>0, ActiveTreeType DEF PanesOK, Sound, Resolves
<1>2. t \in TreeType(P) /\ pane \in P /\ PanesOf(t) = PanesOf(old) \ {pane}
  BY <1>1, RemoveFocusedType, FocusedPaneType, RemoveFocusedPanes
<1>3. t.leaves = <<>> \/ Resolves(t)
  BY <1>1, LeafIndexIn, RemoveLeafResolves DEF RemoveFocused
<1>4. BreakActivePane(m) = NewTabWith(d, pane)
  BY DEF BreakActivePane, FocusedPaneOf, WithActiveTree
<1> HIDE DEF t, pane, old
<1>5. Sound(d, S \ {pane})
  BY <1>0, <1>2, <1>3, CutSound
<1>6. d \in ManagerType(P)
  <2> DEFINE c == [m EXCEPT !.tabs[m.active + 1].tree = t]
  <2>1. c \in ManagerType(P) /\ Len(c.tabs) = Len(m.tabs)
    <3> DEFINE i == m.active + 1
    <3>1. i \in 1..Len(m.tabs)
      BY <1>0, ManagerFields
    <3> HIDE DEF i
    <3>2. [m EXCEPT !.tabs[i].tree = t] \in ManagerType(P)
          /\ Len([m EXCEPT !.tabs[i].tree = t].tabs) = Len(m.tabs)
      BY <1>2, <3>1, WithTreeKeeps
    <3> QED BY <3>2 DEF i
  <2> HIDE DEF c
  <2>2. DropIfEmpty(c, m.active) \in ManagerType(P)
    BY <1>0, <2>1, DropIfEmptyType
  <2> QED BY <2>2 DEF c
<1> HIDE DEF d
<1>7. S \subseteq (S \ {pane}) \cup {pane}
  OBVIOUS
<1> QED BY <1>2, <1>4, <1>5, <1>6, <1>7, NewTabSound

LEMMA RemovePaneByIdSound ==
    ASSUME NEW P, NEW m \in ManagerType(P), NEW pane \in AllPanes(m), NEW R, PanesOK(m, R),
           NEW S, Sound(m, S)
    PROVE  Sound(RemovePaneById(m, pane), S \ {pane})
<1> DEFINE index == IndexOfPane(m, pane)
           old   == m.tabs[index + 1].tree
           t     == RemovePane(old, pane)
<1>1. /\ index \in Nat /\ index < Len(m.tabs) /\ index + 1 \in 1..Len(m.tabs)
      /\ pane \in PanesOf(old) /\ old \in TreeType(P) /\ TreeOK(old)
  BY IndexOfPaneIn, ManagerFields DEF PanesOK
<1>2. RemovePaneById(m, pane) = DropIfEmpty([m EXCEPT !.tabs[index + 1].tree = t], index)
  BY DEF RemovePaneById
<1>3. t \in TreeType(P) /\ PanesOf(t) = PanesOf(old) \ {pane}
  BY <1>1, RemovePaneType, RemovePanePanes
<1>4. t.leaves = <<>> \/ Resolves(t)
  BY <1>1, PaneIndexIn, RemoveLeafResolves DEF RemovePane
<1> HIDE DEF t, index
<1>5. PanesOf(t) = PanesOf(m.tabs[index + 1].tree) \ {pane}
  BY <1>3
<1>6. Sound(DropIfEmpty([m EXCEPT !.tabs[index + 1].tree = t], index), S \ {pane})
  BY <1>1, <1>3, <1>4, <1>5, CutSound
<1> QED BY <1>2, <1>6
=============================================================================
