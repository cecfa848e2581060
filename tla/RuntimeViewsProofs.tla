-------------------------- MODULE RuntimeViewsProofs --------------------------
(***************************************************************************)
(* The views of the clients, for any number of clients, panes and tabs:    *)
(* what every handler of the server does to the view of its own client and *)
(* to those of the others.                                                 *)
(***************************************************************************)
EXTENDS RuntimeViews, TabManagerProofs

-----------------------------------------------------------------------------
(* The tab list under the handlers.                                        *)

\* The tab list m with n the next pane: types, order, every pane once and
\* handed out, every tab with a focused leaf, ids that are not None and bounded.
Good(m, n) ==
    /\ m \in ManagerType(PaneIds)
    /\ ListOK(m)
    /\ PanesOK(m, 1..(n - 1))
    /\ Sound(m, {})
    /\ None \notin TabIds(m)
    /\ m.nextId \in 1..(MaxTabId + 1)
    /\ n \in 1..(MaxPanes + 1)

LEMMA Numbers ==
    /\ MaxPanes \in Nat /\ MaxPanes >= 1 /\ MaxTabId \in Nat /\ MaxTabId >= 1
    /\ \A n \in 1..(MaxPanes + 1) : n <= MaxPanes => n \in PaneIds /\ n + 1 \in 1..(MaxPanes + 1)
    /\ \A n \in 1..(MaxPanes + 1) : n \in Nat /\ n \notin 1..(n - 1) /\ (n + 1) - 1 = n
    /\ \A n \in 1..(MaxPanes + 1) : 1..n = 1..(n - 1) \cup {n}
  <1>1. MaxPanes \in Nat /\ MaxPanes >= 1 /\ MaxTabId \in Nat /\ MaxTabId >= 1
    BY BoundsAssumption
  <1>2. \A n \in Nat : n >= 1 => 1..n = 1..(n - 1) \cup {n}
    OBVIOUS
  <1> QED
    BY <1>1, <1>2 DEF PaneIds

\* An operation that leaves the next id alone.
LEMMA NextIdKept ==
    ASSUME NEW P, NEW m \in ManagerType(P)
    PROVE  /\ \A t : WithActiveTree(m, t).nextId = m.nextId
           /\ \A index : GotoIndex(m, index).nextId = m.nextId
           /\ \A index : RemoveTab(m, index).nextId = m.nextId
  BY DEF WithActiveTree, GotoIndex, RemoveTab, ManagerType

\* The ids an operation leaves in the list.
LEMMA IdsLeft ==
    ASSUME NEW P, NEW m \in ManagerType(P)
    PROVE  /\ \A t \in TreeType(P) : HasActive(m) => TabIds(WithActiveTree(m, t)) = TabIds(m)
           /\ \A index : TabIds(GotoIndex(m, index)) = TabIds(m)
           /\ \A pane \in P : TabIds(NewTabWith(m, pane)) = TabIds(m) \cup {m.nextId}
           /\ \A index \in Nat : index < Len(m.tabs) => TabIds(RemoveTab(m, index)) \subseteq TabIds(m)
  <1>1. m.tabs \in Seq(TabType(P)) /\ DOMAIN m.tabs = 1..Len(m.tabs) /\ Len(m.tabs) \in Nat
    BY ManagerFields
  <1>2. ASSUME NEW t \in TreeType(P), HasActive(m)
        PROVE  TabIds(WithActiveTree(m, t)) = TabIds(m)
    <2> DEFINE x == WithActiveTree(m, t)
    <2>1. x \in ManagerType(P) /\ Len(x.tabs) = Len(m.tabs)
          /\ \A k \in 1..Len(m.tabs) : x.tabs[k].id = m.tabs[k].id
      BY <1>2, WithActiveTreeKeeps
    <2> HIDE DEF x
    <2>2. DOMAIN x.tabs = 1..Len(m.tabs)
      BY <2>1, ManagerFields
    <2>3. TabIds(x) = TabIds(m)
      BY <1>1, <2>1, <2>2 DEF TabIds
    <2> QED
      BY <2>3 DEF x
  <1>3. ASSUME NEW index
        PROVE  TabIds(GotoIndex(m, index)) = TabIds(m)
    <2>1. GotoIndex(m, index).tabs = m.tabs
      BY DEF GotoIndex, ManagerType
    <2> QED
      BY <2>1 DEF TabIds
  <1>4. ASSUME NEW pane \in P
        PROVE  TabIds(NewTabWith(m, pane)) = TabIds(m) \cup {m.nextId}
    <2> DEFINE new == [id |-> m.nextId, tree |-> RootTree(pane)]
               x == NewTabWith(m, pane)
    <2>1. x.tabs = Append(m.tabs, new)
      BY DEF NewTabWith, Pushed, ManagerType
    <2>2. new \in TabType(P) /\ new.id = m.nextId
      BY RootTreeType, ManagerFields DEF TabType
    <2> HIDE DEF x, new
    <2>3. /\ DOMAIN x.tabs = 1..(Len(m.tabs) + 1) /\ x.tabs[Len(m.tabs) + 1] = new
          /\ \A k \in 1..Len(m.tabs) : x.tabs[k] = m.tabs[k]
      BY <1>1, <2>1, <2>2
    <2>4. \A k \in 1..(Len(m.tabs) + 1) : k \in 1..Len(m.tabs) \/ k = Len(m.tabs) + 1
      BY <1>1
    <2>5. \A k \in 1..Len(m.tabs) : k \in 1..(Len(m.tabs) + 1)
      BY <1>1
    <2>6. Len(m.tabs) + 1 \in 1..(Len(m.tabs) + 1)
      BY <1>1
    <2>7. TabIds(x) = TabIds(m) \cup {m.nextId}
      BY <1>1, <2>2, <2>3, <2>4, <2>5, <2>6 DEF TabIds
    <2> QED
      BY <2>7 DEF x
  <1>5. ASSUME NEW index \in Nat, index < Len(m.tabs)
        PROVE  TabIds(RemoveTab(m, index)) \subseteq TabIds(m)
    <2> DEFINE r == RemoveAt(m.tabs, index + 1)
    <2>1. /\ r \in Seq(TabType(P)) /\ Len(r) = Len(m.tabs) - 1
          /\ \A k \in 1..(Len(m.tabs) - 1) :
                r[k] = IF k < index + 1 THEN m.tabs[k] ELSE m.tabs[k + 1]
      BY <1>5, RemainingTabs
    <2>2. RemoveTab(m, index).tabs = r
      BY DEF RemoveTab, ManagerType
    <2> HIDE DEF r
    <2>3. DOMAIN r = 1..(Len(m.tabs) - 1)
      BY <2>1
    <2>4. \A k \in 1..(Len(m.tabs) - 1) : k \in 1..Len(m.tabs) /\ k + 1 \in 1..Len(m.tabs)
      BY <1>1
    <2>5. ASSUME NEW k \in DOMAIN r
          PROVE  r[k].id \in TabIds(m)
      <3>1. PICK i \in DOMAIN m.tabs : r[k] = m.tabs[i]
        BY <1>1, <2>1, <2>3, <2>4
      <3> QED
        BY <3>1 DEF TabIds
    <2> QED
      BY <2>2, <2>5 DEF TabIds
  <1> QED
    BY <1>2, <1>3, <1>4, <1>5

LEMMA ActiveTreeGood ==
    ASSUME NEW m, NEW n, Good(m, n), HasActive(m)
    PROVE  /\ m.active + 1 \in 1..Len(m.tabs) /\ DOMAIN m.tabs = 1..Len(m.tabs)
           /\ ActiveTree(m) \in TreeType(PaneIds) /\ TreeOK(ActiveTree(m))
           /\ Resolves(ActiveTree(m))
           /\ PanesOf(ActiveTree(m)) \subseteq 1..(n - 1)
  <1>1. m.active + 1 \in 1..Len(m.tabs) /\ DOMAIN m.tabs = 1..Len(m.tabs)
    BY ManagerFields DEF Good, HasActive
  <1>2. ActiveTree(m) \in TreeType(PaneIds)
    BY ActiveTreeType DEF Good
  <1> QED
    BY <1>1, <1>2 DEF Good, PanesOK, Sound, ActiveTree

\* A tree with no other panes takes the place of the active one.
LEMMA GoodWithTree ==
    ASSUME NEW m, NEW n, Good(m, n), HasActive(m), NEW t \in TreeType(PaneIds), TreeOK(t),
           Resolves(t), PanesOf(t) \subseteq PanesOf(ActiveTree(m))
    PROVE  Good(WithActiveTree(m, t), n)
  <1>1. m.active + 1 \in 1..Len(m.tabs)
    BY ActiveTreeGood
  <1>2. m \in ManagerType(PaneIds) /\ ListOK(m) /\ PanesOK(m, 1..(n - 1)) /\ Sound(m, {})
    BY DEF Good
  <1>3. WithActiveTree(m, t) \in ManagerType(PaneIds) /\ ListOK(WithActiveTree(m, t))
    BY <1>2, WithActiveTreeType, WithActiveTreeList
  <1>4. PanesOK(WithActiveTree(m, t), 1..(n - 1))
    <2>1. PanesOf(t) \subseteq PanesOf(m.tabs[m.active + 1].tree) \cup {}
      BY DEF ActiveTree
    <2>2. PanesOK([m EXCEPT !.tabs[m.active + 1].tree = t], 1..(n - 1) \cup {})
      BY <1>1, <1>2, <2>1, WithTreePanes
    <2> QED
      BY <2>2 DEF WithActiveTree
  <1>5. Sound(WithActiveTree(m, t), {})
    BY <1>2, WithActiveTreeSound
  <1>6. None \notin TabIds(WithActiveTree(m, t))
    BY <1>2, IdsLeft DEF Good
  <1> QED
    BY <1>2, <1>3, <1>4, <1>5, <1>6, NextIdKept DEF Good

\* focus_tab and set_focus_to_pane.
LEMMA GoodFocusPane ==
    ASSUME NEW m, NEW n, Good(m, n), NEW pane
    PROVE  Good(FocusPaneById(m, pane), n)
  <1>1. CASE HasActive(m)
    <2> DEFINE t == ActiveTree(m)
               u == SetFocusToPane(t, pane)
    <2>1. t \in TreeType(PaneIds) /\ TreeOK(t) /\ Resolves(t)
      BY <1>1, ActiveTreeGood
    <2> HIDE DEF t
    <2>2. u \in TreeType(PaneIds) /\ Resolves(u)
      BY <2>1, SetFocusToPaneType, SetFocusToPaneResolves
    <2>3. u.leaves = t.leaves /\ u.next = t.next
      BY <2>1, FocusingKeepsLeaves
    <2>4. TreeOK(u) /\ PanesOf(u) = PanesOf(t)
      <3> HIDE DEF u
      <3>1. t.next \in Nat /\ t.next <= u.next
        BY <2>1, <2>3, TreeFields
      <3> QED
        BY <2>1, <2>3, <3>1, SameLeavesPanes
    <2> HIDE DEF u
    <2>5. Good(WithActiveTree(m, u), n)
      BY <1>1, <2>2, <2>4, GoodWithTree DEF t
    <2> QED
      BY <1>1, <2>5 DEF FocusPaneById, u, t
  <1>2. CASE ~HasActive(m)
    BY <1>2 DEF FocusPaneById
  <1> QED
    BY <1>1, <1>2

LEMMA GoodGoto ==
    ASSUME NEW m, NEW n, Good(m, n), NEW index \in Nat
    PROVE  Good(GotoIndex(m, index), n)
  <1>1. m \in ManagerType(PaneIds) /\ ListOK(m)
    BY DEF Good
  <1>2. GotoIndex(m, index) \in ManagerType(PaneIds) /\ ListOK(GotoIndex(m, index))
    BY <1>1, GotoIndexType, GotoIndexList
  <1>3. GotoIndex(m, index).tabs = m.tabs
    BY <1>1 DEF GotoIndex, ManagerType
  <1> QED
    BY <1>1, <1>2, <1>3, NextIdKept DEF Good, PanesOK, Sound, Covers, TabIds

LEMMA GoodNewTab ==
    ASSUME NEW m, NEW n, Good(m, n), n <= MaxPanes, m.nextId <= MaxTabId
    PROVE  Good(NewTabWith(m, n), n + 1) /\ NewTabWith(m, n).nextId = m.nextId + 1
  <1>1. /\ m \in ManagerType(PaneIds) /\ ListOK(m) /\ PanesOK(m, 1..(n - 1)) /\ Sound(m, {})
        /\ m.nextId \in 1..(MaxTabId + 1) /\ n \in 1..(MaxPanes + 1)
    BY DEF Good
  <1>2. n \in PaneIds /\ n + 1 \in 1..(MaxPanes + 1) /\ n \notin 1..(n - 1)
        /\ 1..((n + 1) - 1) = 1..(n - 1) \cup {n}
    BY <1>1, Numbers
  <1>3. NewTabWith(m, n) \in ManagerType(PaneIds) /\ ListOK(NewTabWith(m, n))
    BY <1>1, <1>2, NewTabType, NewTabList
  <1>4. PanesOK(NewTabWith(m, n), 1..((n + 1) - 1))
    <2> DEFINE S == 1..(n - 1)
    <2>1. PanesOK(m, S) /\ n \notin S
      BY <1>1, <1>2
    <2> HIDE DEF S
    <2>2. PanesOK(NewTabWith(m, n), S \cup {n})
      BY <1>1, <1>2, <2>1, NewTabPanes
    <2> QED
      BY <1>2, <2>2 DEF S
  <1>5. Sound(NewTabWith(m, n), {})
    BY <1>1, <1>2, NewTabSound
  <1>6. NewTabWith(m, n).nextId = m.nextId + 1
    BY <1>1 DEF NewTabWith, ManagerType
  <1>7. m.nextId + 1 \in 1..(MaxTabId + 1)
    BY <1>1, Numbers
  <1>8. None \notin TabIds(NewTabWith(m, n))
    <2>1. TabIds(NewTabWith(m, n)) = TabIds(m) \cup {m.nextId}
      BY <1>1, <1>2, IdsLeft
    <2>2. None \notin TabIds(m) /\ m.nextId # None
      BY <1>1 DEF Good, None
    <2> QED
      BY <2>1, <2>2
  <1> QED
    BY <1>2, <1>3, <1>4, <1>5, <1>6, <1>7, <1>8 DEF Good

LEMMA GoodSplit ==
    ASSUME NEW m, NEW n, Good(m, n), HasActive(m), n <= MaxPanes
    PROVE  Good(WithActiveTree(m, SplitFocused(ActiveTree(m), n)), n + 1)
  <1> DEFINE t == SplitFocused(ActiveTree(m), n)
  <1>1. /\ m \in ManagerType(PaneIds) /\ ListOK(m) /\ PanesOK(m, 1..(n - 1)) /\ Sound(m, {})
        /\ m.nextId \in 1..(MaxTabId + 1) /\ n \in 1..(MaxPanes + 1)
    BY DEF Good
  <1>2. n \in PaneIds /\ n + 1 \in 1..(MaxPanes + 1) /\ n \notin 1..(n - 1)
        /\ 1..((n + 1) - 1) = 1..(n - 1) \cup {n}
    BY <1>1, Numbers
  <1>3. ActiveTree(m) \in TreeType(PaneIds) /\ TreeOK(ActiveTree(m)) /\ Resolves(ActiveTree(m))
    BY ActiveTreeGood
  <1>4. t \in TreeType(PaneIds) /\ Resolves(t)
    BY <1>2, <1>3, SplitFocusedType, SplitFocusedResolves
  <1>5. PanesOK(WithActiveTree(m, t), 1..((n + 1) - 1))
    BY <1>1, <1>2, SplitPanes
  <1> HIDE DEF t
  <1>6. WithActiveTree(m, t) \in ManagerType(PaneIds) /\ ListOK(WithActiveTree(m, t))
    BY <1>1, <1>4, WithActiveTreeType, WithActiveTreeList
  <1>7. Sound(WithActiveTree(m, t), {})
    BY <1>1, <1>4, WithActiveTreeSound
  <1>8. WithActiveTree(m, t).nextId = m.nextId
    BY <1>1, NextIdKept
  <1>9. None \notin TabIds(WithActiveTree(m, t))
    BY <1>1, <1>4, IdsLeft DEF Good
  <1>10. Good(WithActiveTree(m, t), n + 1)
    BY <1>1, <1>2, <1>5, <1>6, <1>7, <1>8, <1>9 DEF Good
  <1> QED
    BY <1>10 DEF t

LEMMA GoodRemoveTab ==
    ASSUME NEW m, NEW n, Good(m, n), NEW index \in Nat, index < Len(m.tabs)
    PROVE  Good(RemoveTab(m, index), n)
  <1> DEFINE S == 1..(n - 1)
             gone == PanesOf(m.tabs[index + 1].tree)
  <1>1. m \in ManagerType(PaneIds) /\ ListOK(m) /\ PanesOK(m, S) /\ Sound(m, {})
    BY DEF Good
  <1> HIDE DEF S, gone
  <1>2. RemoveTab(m, index) \in ManagerType(PaneIds) /\ ListOK(RemoveTab(m, index))
    BY <1>1, RemoveTabType, RemoveTabList
  <1>3. PanesOK(RemoveTab(m, index), S)
    <2>1. PanesOK(RemoveTab(m, index), S \ gone)
      BY <1>1, RemoveTabPanes DEF gone
    <2> QED
      BY <2>1, MorePanesOK
  <1>4. Sound(RemoveTab(m, index), {})
    <2>1. Covers(m, {}) /\ \A k \in DOMAIN m.tabs : Resolves(m.tabs[k].tree)
      BY <1>1 DEF Sound
    <2>2. Sound(RemoveTab(m, index), {} \ PanesOf(m.tabs[index + 1].tree))
      BY <1>1, <2>1, RemoveTabSound
    <2>3. {} \ PanesOf(m.tabs[index + 1].tree) = {}
      OBVIOUS
    <2> QED
      BY <2>2, <2>3
  <1>5. None \notin TabIds(RemoveTab(m, index))
    BY <1>1, IdsLeft DEF Good
  <1> QED
    BY <1>1, <1>2, <1>3, <1>4, <1>5, NextIdKept DEF Good, S

\* A tree of the active tab that lost one pane: without leaves it goes.
LEMMA GoodCut ==
    ASSUME NEW m, NEW n, Good(m, n), HasActive(m), NEW t \in TreeType(PaneIds), TreeOK(t),
           t.leaves = <<>> \/ Resolves(t), NEW pane \in PanesOf(ActiveTree(m)),
           PanesOf(t) = PanesOf(ActiveTree(m)) \ {pane}
    PROVE  Good(DropIfEmpty(WithActiveTree(m, t), m.active), n)
  <1> DEFINE S == 1..(n - 1)
             index == m.active
             c == WithActiveTree(m, t)
  <1>1. m \in ManagerType(PaneIds) /\ ListOK(m) /\ PanesOK(m, S) /\ Sound(m, {})
    BY DEF Good
  <1>2. index \in Nat /\ index < Len(m.tabs) /\ index + 1 \in 1..Len(m.tabs)
    BY <1>1, ManagerFields, ActiveTreeGood DEF HasActive
  <1>3. ActiveTree(m) = m.tabs[index + 1].tree /\ c = [m EXCEPT !.tabs[index + 1].tree = t]
    BY DEF ActiveTree, WithActiveTree
  <1> HIDE DEF S
  <1>4. /\ c \in ManagerType(PaneIds) /\ ListOK(c)
        /\ c.active = m.active /\ Len(c.tabs) = Len(m.tabs) /\ c.nextId = m.nextId
    BY <1>1, WithActiveTreeType, WithActiveTreeList, WithActiveTreeKeeps, NextIdKept
  <1>5. PanesOK(c, S)
    <2>1. pane \in PanesOf(m.tabs[index + 1].tree)
          /\ PanesOf(t) = PanesOf(m.tabs[index + 1].tree) \ {pane}
      BY <1>3
    <2> HIDE DEF index, c
    <2>2. PanesOK([m EXCEPT !.tabs[index + 1].tree = t], S \ {pane})
      BY <1>1, <1>2, <2>1, WithLessPanes
    <2> QED
      BY <1>3, <2>2, MorePanesOK
  <1>6. Sound(DropIfEmpty(c, index), {})
    <2> HIDE DEF index, c
    <2>1. PanesOf(t) = PanesOf(m.tabs[index + 1].tree) \ {pane}
      BY <1>3
    <2>2. Sound(DropIfEmpty([m EXCEPT !.tabs[index + 1].tree = t], index), {} \ {pane})
      BY <1>1, <1>2, <2>1, CutSound
    <2>3. {} \ {pane} = {}
      OBVIOUS
    <2> QED
      BY <1>3, <2>2, <2>3
  <1> HIDE DEF index, c
  <1>7. /\ DropIfEmpty(c, index) \in ManagerType(PaneIds) /\ ListOK(DropIfEmpty(c, index))
        /\ PanesOK(DropIfEmpty(c, index), S)
    BY <1>2, <1>4, <1>5, DropIfEmptyType, DropIfEmptyList, DropIfEmptyPanes
  <1>8. DropIfEmpty(c, index).nextId = m.nextId
    BY <1>4, NextIdKept DEF DropIfEmpty
  <1>9. None \notin TabIds(DropIfEmpty(c, index))
    <2>1. TabIds(c) = TabIds(m) /\ None \notin TabIds(m)
      BY <1>1, IdsLeft DEF Good, c
    <2>2. TabIds(RemoveTab(c, index)) \subseteq TabIds(c)
      BY <1>2, <1>4, IdsLeft
    <2> QED
      BY <2>1, <2>2 DEF DropIfEmpty
  <1>10. Good(DropIfEmpty(c, index), n)
    BY <1>6, <1>7, <1>8, <1>9 DEF Good, S
  <1> QED
    BY <1>10 DEF index, c

LEMMA GoodRemoveFocused ==
    ASSUME NEW m, NEW n, Good(m, n), HasActive(m)
    PROVE  Good(DropIfEmpty(WithActiveTree(m, RemoveFocused(ActiveTree(m))), m.active), n)
  <1> DEFINE t == ActiveTree(m)
             u == RemoveFocused(t)
  <1>1. t \in TreeType(PaneIds) /\ TreeOK(t) /\ Resolves(t)
    BY ActiveTreeGood
  <1> HIDE DEF t
  <1>2. HasLeaf(t, t.focus)
    BY <1>1 DEF Resolves
  <1>3. u \in TreeType(PaneIds)
    BY <1>1, <1>2, RemoveFocusedType
  <1>4. TreeOK(u) /\ PanesOf(u) = PanesOf(t) \ {FocusedPane(t)} /\ FocusedPane(t) \in PanesOf(t)
    BY <1>1, <1>2, RemoveFocusedPanes
  <1>5. u.leaves = <<>> \/ Resolves(u)
    BY <1>1, <1>2, LeafIndexIn, RemoveLeafResolves DEF RemoveFocused
  <1> HIDE DEF u
  <1>6. Good(DropIfEmpty(WithActiveTree(m, u), m.active), n)
    BY <1>3, <1>4, <1>5, GoodCut DEF t
  <1> QED
    BY <1>6 DEF u, t

LEMMA GoodRemovePane ==
    ASSUME NEW m, NEW n, Good(m, n), HasActive(m), NEW pane \in PanesOf(ActiveTree(m))
    PROVE  Good(DropIfEmpty(WithActiveTree(m, RemovePane(ActiveTree(m), pane)), m.active), n)
  <1> DEFINE t == ActiveTree(m)
             u == RemovePane(t, pane)
  <1>1. t \in TreeType(PaneIds) /\ TreeOK(t) /\ pane \in PanesOf(t)
    BY ActiveTreeGood
  <1> HIDE DEF t
  <1>2. u \in TreeType(PaneIds)
    BY <1>1, RemovePaneType
  <1>3. TreeOK(u) /\ PanesOf(u) = PanesOf(t) \ {pane}
    BY <1>1, RemovePanePanes
  <1>4. u.leaves = <<>> \/ Resolves(u)
    BY <1>1, PaneIndexIn, RemoveLeafResolves DEF RemovePane
  <1> HIDE DEF u
  <1>5. Good(DropIfEmpty(WithActiveTree(m, u), m.active), n)
    BY <1>1, <1>2, <1>3, <1>4, GoodCut DEF t
  <1> QED
    BY <1>5 DEF u, t

-----------------------------------------------------------------------------
(* What a view may name.                                                   *)

LEMMA Seen ==
    ASSUME NEW m, NEW n, Good(m, n)
    PROVE  /\ AllPanes(m) \subseteq PaneIds
           /\ \A tab : PaneIdsForTab(m, tab) \subseteq PaneIds
           /\ TabIds(m) \subseteq 1..MaxTabId
           /\ HasActive(m) <=> m.tabs # <<>>
           /\ HasActive(m) => ActiveTabId(m) \in TabIds(m)
           /\ ActiveRuntimeTab(m) \in TabIdsOrNone
           /\ ActiveRuntimeTab(m) # None => ActiveRuntimeTab(m) \in TabIds(m)
           /\ m.tabs # <<>> => ActiveRuntimeTab(m) \in TabIds(m)
  <1>1. m \in ManagerType(PaneIds) /\ m.nextId \in 1..(MaxTabId + 1) /\ MaxTabId \in Nat
    BY Numbers DEF Good
  <1>2. /\ DOMAIN m.tabs = 1..Len(m.tabs) /\ Len(m.tabs) \in Nat /\ m.active \in Nat
        /\ \A i \in 1..Len(m.tabs) :
              m.tabs[i].id \in Nat /\ m.tabs[i].tree \in TreeType(PaneIds)
    BY <1>1, ManagerFields DEF TabType
  <1>3. ASSUME NEW t \in TreeType(PaneIds)
        PROVE  PanesOf(t) \subseteq PaneIds
    BY <1>3, TreeFields DEF PanesOf
  <1>4. AllPanes(m) \subseteq PaneIds /\ \A tab : PaneIdsForTab(m, tab) \subseteq PaneIds
    BY <1>2, <1>3 DEF AllPanes, PaneIdsForTab
  <1>5. TabIds(m) \subseteq 1..MaxTabId
    <2>1. ASSUME NEW i \in 1..Len(m.tabs)
          PROVE  m.tabs[i].id \in 1..MaxTabId
      <3>1. m.tabs[i].id < m.nextId /\ m.tabs[i].id \in Nat
        BY <1>2, <2>1 DEF Good, ListOK, IdsOK
      <3>2. m.tabs[i].id # 0
        BY <1>2, <2>1 DEF Good, TabIds, None
      <3> QED
        BY <1>1, <3>1, <3>2
    <2> QED
      BY <1>2, <2>1 DEF TabIds
  <1>6. HasActive(m) <=> m.tabs # <<>>
    <2>1. (m.tabs = <<>>) <=> (Len(m.tabs) = 0)
      BY <1>1, EmptyByLength
    <2> QED
      BY <1>2, <2>1 DEF HasActive, Good, ListOK, ActiveOK
  <1>7. HasActive(m) => ActiveTabId(m) \in TabIds(m)
    BY <1>2 DEF HasActive, ActiveTabId, TabIds
  <1> QED
    BY <1>1, <1>4, <1>5, <1>6, <1>7 DEF ActiveRuntimeTab, TabIdsOrNone, None

\* The focus of a view is None or one of the panes it shows.
FocusIn(focus, panes) == focus = None \/ focus \in panes

\* A view whose idle timer runs is detached and not streamed to.
Silent(v) == v.detachedAt => v.on /\ ~v.sub /\ ~v.attached

ViewOK(v) == FocusIn(v.focus, v.visible) /\ Silent(v)

LEMMA FocusesSeen ==
    ASSUME NEW m, NEW n, Good(m, n), NEW tab
    PROVE  /\ FocusIn(DefaultFocusedPane(m, tab), PaneIdsForTab(m, tab))
           /\ \A focus : FocusIn(FocusOrDefault(m, tab, focus, PaneIdsForTab(m, tab)),
                                 PaneIdsForTab(m, tab))
  <1>1. CASE tab \in TabIds(m)
    <2> DEFINE i == IndexOfTab(m, tab) + 1
    <2>1. m \in ManagerType(PaneIds)
      BY DEF Good
    <2>2. i \in DOMAIN m.tabs /\ m.tabs[i].id = tab
      <3>1. IndexOfTab(m, tab) + 1 = CHOOSE k \in DOMAIN m.tabs : m.tabs[k].id = tab
        <4>1. (CHOOSE k \in DOMAIN m.tabs : m.tabs[k].id = tab) \in DOMAIN m.tabs
          BY <1>1 DEF TabIds
        <4>2. DOMAIN m.tabs = 1..Len(m.tabs) /\ Len(m.tabs) \in Nat
          BY <2>1, ManagerFields
        <4> QED
          BY <4>1, <4>2 DEF IndexOfTab
      <3> QED
        BY <1>1, <3>1 DEF TabIds
    <2> HIDE DEF i
    <2>3. Resolves(m.tabs[i].tree)
      BY <2>2 DEF Good, Sound
    <2>4. FocusedPane(m.tabs[i].tree) \in PanesOf(m.tabs[i].tree)
      BY <2>3, LeafIndexIn DEF Resolves, FocusedPane, PanesOf
    <2>5. DefaultFocusedPane(m, tab) \in PaneIdsForTab(m, tab)
      BY <1>1, <2>2, <2>4 DEF DefaultFocusedPane, PaneIdsForTab, i
    <2> QED
      BY <2>5 DEF FocusIn, FocusOrDefault
  <1>2. CASE tab \notin TabIds(m)
    BY <1>2 DEF FocusIn, FocusOrDefault, DefaultFocusedPane
  <1> QED
    BY <1>1, <1>2

LEMMA ShowingView ==
    ASSUME NEW m, NEW n, Good(m, n), NEW v \in ViewType, Silent(v), NEW tab \in TabIdsOrNone,
           NEW focus, FocusIn(focus, PaneIdsForTab(m, tab))
    PROVE  LET w == Showing(v, m, tab, focus)
           IN  /\ w \in ViewType /\ ViewOK(w) /\ w.tab = tab
               /\ w.on = v.on /\ w.fresh = v.fresh
  <1> DEFINE panes == PaneIdsForTab(m, tab)
  <1>1. panes \subseteq PaneIds
    BY Seen
  <1>2. focus \in 0..MaxPanes
    BY <1>1, Numbers DEF FocusIn, None, PaneIds
  <1> HIDE DEF panes
  <1>3. Showing(v, m, tab, focus) = [v EXCEPT !.tab = tab, !.focus = focus, !.visible = panes]
    BY DEF Showing, panes
  <1>4. FocusIn(focus, panes)
    BY DEF panes
  <1> QED
    BY <1>1, <1>2, <1>3, <1>4 DEF ViewType, ViewOK, Silent

-----------------------------------------------------------------------------
(* The record the handlers work on.                                        *)

StateType ==
    [tm : ManagerType(PaneIds), next : 1..(MaxPanes + 1),
     view : [Clients -> ViewType], sent : [Clients -> SentType]]

Valid(s) ==
    /\ s \in StateType
    /\ Good(s.tm, s.next)
    /\ \A c \in Clients : ViewOK(s.view[c])

\* From s to x nothing but what is sent, nothing but that and the view of c,
\* nothing but these and the tab list.
Sends(s, x) == Valid(x) /\ x.tm = s.tm /\ x.next = s.next /\ x.view = s.view

Looks(s, x, c) ==
    /\ Valid(x) /\ x.tm = s.tm /\ x.next = s.next
    /\ \A d \in Clients : d # c => x.view[d] = s.view[d]

Moves(s, x, c) ==
    /\ Valid(x)
    /\ \A d \in Clients : d # c => x.view[d] = s.view[d]

LEMMA OneAfterAnother ==
    ASSUME NEW s, NEW x, NEW y, NEW c
    PROVE  /\ Sends(s, x) => Looks(s, x, c)
           /\ Looks(s, x, c) => Moves(s, x, c)
           /\ Sends(s, x) /\ Sends(x, y) => Sends(s, y)
           /\ Looks(s, x, c) /\ Looks(x, y, c) => Looks(s, y, c)
           /\ Looks(s, x, c) /\ Sends(x, y) => Looks(s, y, c)
           /\ Moves(s, x, c) /\ Looks(x, y, c) => Moves(s, y, c)
           /\ Moves(s, x, c) /\ Sends(x, y) => Moves(s, y, c)
  BY DEF Sends, Looks, Moves

\* What a handler sends is of the right kind and moves nothing.
LEMMA SentOnly ==
    ASSUME NEW s, Valid(s), NEW f \in [Clients -> SentType]
    PROVE  Sends(s, [s EXCEPT !.sent = f])
  <1> DEFINE x == [s EXCEPT !.sent = f]
  <1>1. s \in StateType /\ Good(s.tm, s.next) /\ \A c \in Clients : ViewOK(s.view[c])
    BY DEF Valid
  <1>2. x \in StateType /\ x.tm = s.tm /\ x.next = s.next /\ x.view = s.view
    BY <1>1 DEF StateType
  <1> QED
    BY <1>1, <1>2 DEF Sends, Valid

LEMMA StateForType ==
    ASSUME NEW s, Valid(s), NEW c \in Clients
    PROVE  StateFor(s, c) \in SentType
  <1>1. s.view[c].tab \in TabIdsOrNone
    BY DEF Valid, StateType, ViewType
  <1>2. ActiveRuntimeTab(s.tm) \in TabIdsOrNone
        /\ \A tab : PaneIdsForTab(s.tm, tab) \subseteq PaneIds
    BY Seen DEF Valid
  <1> QED
    BY <1>1, <1>2 DEF StateFor, SentType

LEMMA Telling ==
    ASSUME NEW s, Valid(s)
    PROVE  Sends(s, TellAll(s)) /\ \A c \in Clients : Sends(s, Tell(s, c))
  <1>1. s.sent \in [Clients -> SentType] /\ Sends(s, s)
    BY DEF Valid, StateType, Sends
  <1>2. Sends(s, TellAll(s))
    <2> DEFINE f == [c \in Clients |-> IF s.view[c].on THEN StateFor(s, c) ELSE s.sent[c]]
    <2>1. f \in [Clients -> SentType]
      BY <1>1, StateForType
    <2>2. TellAll(s) = [s EXCEPT !.sent = f]
      BY DEF TellAll
    <2> HIDE DEF f
    <2> QED
      BY <2>1, <2>2, SentOnly
  <1>3. ASSUME NEW c \in Clients
        PROVE  Sends(s, Tell(s, c))
    <2> DEFINE f == [s.sent EXCEPT ![c] = StateFor(s, c)]
    <2>1. f \in [Clients -> SentType]
      BY <1>1, StateForType
    <2>2. [s EXCEPT !.sent[c] = StateFor(s, c)] = [s EXCEPT !.sent = f]
      OBVIOUS
    <2> HIDE DEF f
    <2> QED
      BY <1>1, <2>1, <2>2, SentOnly DEF Tell
  <1> QED
    BY <1>2, <1>3

LEMMA Publishing ==
    ASSUME NEW s, Valid(s)
    PROVE  (\A tab : Sends(s, Publish(s, tab))) /\ Sends(s, PublishActive(s))
  <1>1. /\ s.sent \in [Clients -> SentType] /\ Sends(s, s)
        /\ \A c \in Clients : s.view[c].visible \subseteq PaneIds
    BY DEF Valid, StateType, Sends, ViewType
  <1>2. AllPanes(s.tm) \subseteq PaneIds
    BY Seen DEF Valid
  <1>3. ASSUME NEW tab
        PROVE  Sends(s, Publish(s, tab))
    <2> DEFINE Screens(v) == ({FocusOrDefault(s.tm, tab, v.focus, v.visible)}
                                  \cup v.visible) \cap AllPanes(s.tm)
               f == [c \in Clients |->
                        LET v == s.view[c]
                        IN  IF v.on /\ v.sub /\ v.tab = tab
                            THEN [s.sent[c] EXCEPT !.screens = @ \cup Screens(v)]
                            ELSE s.sent[c]]
    <2>1. \A v : Screens(v) \subseteq PaneIds
      BY <1>2
    <2>2. Publish(s, tab) = [s EXCEPT !.sent = f]
      BY DEF Publish
    <2> HIDE DEF Screens
    <2>3. f \in [Clients -> SentType]
      BY <1>1, <2>1 DEF SentType
    <2> HIDE DEF f
    <2> QED
      BY <2>2, <2>3, SentOnly
  <1> QED
    BY <1>1, <1>3 DEF PublishActive

LEMMA Broadcasting ==
    ASSUME NEW s, Valid(s)
    PROVE  /\ Sends(s, Broadcast(s)) /\ Sends(s, TellLocalViewers(s))
           /\ \A before : Sends(s, PublishLocalGui(before, s))
  <1>1. Sends(s, Broadcast(s))
    <2>1. Sends(s, TellAll(s)) /\ Valid(TellAll(s))
      BY Telling DEF Sends
    <2>2. Sends(TellAll(s), Broadcast(s))
      BY <2>1, Publishing DEF Broadcast
    <2> QED
      BY <2>1, <2>2, OneAfterAnother
  <1>2. Sends(s, TellLocalViewers(s))
    <2> DEFINE f == [c \in Clients |->
                        IF HasActive(s.tm) /\ c \in Locals /\ s.view[c].on /\ s.view[c].sub
                        THEN [tab |-> ActiveTabId(s.tm), panes |-> PanesOf(ActiveTree(s.tm)),
                              screens |-> {}]
                        ELSE s.sent[c]]
    <2>1. s.sent \in [Clients -> SentType] /\ Good(s.tm, s.next)
      BY DEF Valid, StateType
    <2>2. HasActive(s.tm) => ActiveTabId(s.tm) \in TabIdsOrNone
      BY <2>1, Seen DEF ActiveRuntimeTab
    <2>3. HasActive(s.tm) => PanesOf(ActiveTree(s.tm)) \subseteq PaneIds
      BY <2>1, Seen, ActiveTreeGood DEF AllPanes, ActiveTree
    <2>4. TellLocalViewers(s) = [s EXCEPT !.sent = f]
      BY DEF TellLocalViewers
    <2>5. f \in [Clients -> SentType]
      BY <2>1, <2>2, <2>3 DEF SentType
    <2> HIDE DEF f
    <2> QED
      BY <2>4, <2>5, SentOnly
  <1>3. ASSUME NEW before
        PROVE  Sends(s, PublishLocalGui(before, s))
    <2> DEFINE y == TellLocalViewers(s)
    <2>1. Sends(s, y) /\ Valid(y)
      BY <1>2 DEF Sends
    <2>2. Sends(y, y) /\ \A tab : Sends(y, Publish(y, tab))
      BY <2>1, Publishing DEF Sends
    <2> HIDE DEF y
    <2>3. Sends(y, PublishLocalGui(before, s))
      BY <2>2 DEF PublishLocalGui, y
    <2> QED
      BY <2>1, <2>3, OneAfterAnother
  <1> QED
    BY <1>1, <1>2, <1>3

-----------------------------------------------------------------------------
(* Steps on one view.                                                      *)

LEMMA WithViewLooks ==
    ASSUME NEW s, Valid(s), NEW c \in Clients, NEW v \in ViewType, ViewOK(v)
    PROVE  /\ Looks(s, WithView(s, c, v), c)
           /\ s.view[c].on => WithView(s, c, v).view[c] = v
           /\ ~s.view[c].on => WithView(s, c, v) = s
  <1>1. s \in StateType /\ Good(s.tm, s.next) /\ \A d \in Clients : ViewOK(s.view[d])
    BY DEF Valid
  <1>2. CASE s.view[c].on
    <2> DEFINE x == WithView(s, c, v)
    <2>1. x \in StateType /\ x.tm = s.tm /\ x.next = s.next /\ x.view[c] = v
          /\ \A d \in Clients : d # c => x.view[d] = s.view[d]
      BY <1>1, <1>2 DEF WithView, StateType
    <2> HIDE DEF x
    <2>2. Looks(s, x, c)
      BY <1>1, <2>1 DEF Looks, Valid
    <2> QED
      BY <1>2, <2>1, <2>2 DEF x
  <1>3. CASE ~s.view[c].on
    BY <1>3 DEF WithView, Looks
  <1> QED
    BY <1>2, <1>3

\* A view that keeps its tab and focus, whatever else is set.
LEMMA ViewsOf ==
    ASSUME NEW s, Valid(s), NEW c \in Clients
    PROVE  /\ s.view[c] \in ViewType /\ ViewOK(s.view[c])
           /\ s.view[c].tab \in TabIdsOrNone /\ Good(s.tm, s.next)
           /\ Silent(s.view[c])
           /\ Looks(s, s, c) /\ Sends(s, s)
  BY DEF Valid, StateType, ViewType, Looks, Sends, ViewOK

LEMMA ViewShown ==
    ASSUME NEW s, Valid(s), NEW c \in Clients, NEW tab \in TabIdsOrNone, NEW focus,
           FocusIn(focus, PaneIdsForTab(s.tm, tab))
    PROVE  LET x == WithView(s, c, Showing(s.view[c], s.tm, tab, focus))
           IN  /\ Looks(s, x, c)
               /\ s.view[c].on => x.view[c].tab = tab
               /\ ~s.view[c].on => x = s
  <1> DEFINE w == Showing(s.view[c], s.tm, tab, focus)
  <1>1. s.view[c] \in ViewType /\ Silent(s.view[c]) /\ Good(s.tm, s.next)
    BY ViewsOf
  <1>2. w \in ViewType /\ ViewOK(w) /\ w.tab = tab
    BY <1>1, ShowingView
  <1> HIDE DEF w
  <1>3. /\ Looks(s, WithView(s, c, w), c)
        /\ s.view[c].on => WithView(s, c, w).view[c] = w
        /\ ~s.view[c].on => WithView(s, c, w) = s
    BY <1>2, WithViewLooks
  <1> QED
    BY <1>2, <1>3 DEF w

LEMMA InitializeLooks ==
    ASSUME NEW s, Valid(s), NEW c \in Clients
    PROVE  /\ Looks(s, InitializeView(s, c), c)
           /\ s.view[c].on => InitializeView(s, c).view[c].tab = ActiveRuntimeTab(s.tm)
           /\ ~InitializeView(s, c).view[c].detachedAt
  <1> DEFINE tab == ActiveRuntimeTab(s.tm)
             w == Showing(s.view[c], s.tm, tab, DefaultFocusedPane(s.tm, tab))
             u == [w EXCEPT !.fresh = FALSE, !.attached = TRUE, !.detachedAt = FALSE]
  <1>1. s.view[c] \in ViewType /\ Silent(s.view[c]) /\ Good(s.tm, s.next)
    BY ViewsOf
  <1>2. tab \in TabIdsOrNone /\ FocusIn(DefaultFocusedPane(s.tm, tab), PaneIdsForTab(s.tm, tab))
    BY <1>1, Seen, FocusesSeen
  <1>3. InitializeView(s, c) = WithView(s, c, u)
    BY DEF InitializeView
  <1> HIDE DEF tab
  <1>4. w \in ViewType /\ ViewOK(w) /\ w.tab = tab
    BY <1>1, <1>2, ShowingView
  <1> HIDE DEF w
  <1>5. u \in ViewType /\ ViewOK(u) /\ u.tab = tab /\ ~u.detachedAt
    BY <1>4 DEF ViewType, ViewOK, Silent
  <1> HIDE DEF u
  <1>6. /\ Looks(s, WithView(s, c, u), c)
        /\ s.view[c].on => WithView(s, c, u).view[c] = u
        /\ ~s.view[c].on => WithView(s, c, u) = s
    BY <1>5, WithViewLooks
  <1>7. ~s.view[c].on => ~s.view[c].detachedAt
    BY <1>1 DEF Silent
  <1> QED
    BY <1>3, <1>5, <1>6, <1>7 DEF tab

LEMMA EnsureLooks ==
    ASSUME NEW s, Valid(s), NEW c \in Clients
    PROVE  /\ Looks(s, EnsureView(s, c), c)
           /\ ~s.view[c].fresh => EnsureView(s, c).view[c].tab = s.view[c].tab
           /\ EnsureView(s, c).view[c].on = s.view[c].on
  <1> DEFINE s1 == IF s.view[c].fresh THEN InitializeView(s, c) ELSE s
             v == s1.view[c]
             panes == PaneIdsForTab(s1.tm, v.tab)
             focus == FocusOrDefault(s1.tm, v.tab, v.focus, panes)
             x == WithView(s1, c, Showing(v, s1.tm, v.tab, focus))
  <1>0. InitializeView(s, c).view[c].on = s.view[c].on
    BY ViewsOf DEF InitializeView, WithView, Showing, Valid, StateType, ViewType
  <1>1. Looks(s, s1, c) /\ Valid(s1) /\ s1.view[c].on = s.view[c].on
        /\ (~s.view[c].fresh => s1 = s)
    BY <1>0, InitializeLooks, ViewsOf DEF Looks
  <1>2. EnsureView(s, c) = IF v.on /\ v.tab # None /\ (v.focus \notin panes \/ v.visible # panes)
                           THEN x ELSE s1
    BY DEF EnsureView
  <1> HIDE DEF s1
  <1>3. v \in ViewType /\ v.tab \in TabIdsOrNone /\ Good(s1.tm, s1.next)
    BY <1>1, ViewsOf
  <1>4. FocusIn(focus, panes)
    BY <1>3, FocusesSeen
  <1>5. /\ Looks(s1, x, c)
        /\ s1.view[c].on => x.view[c].tab = v.tab
        /\ ~s1.view[c].on => x = s1
    <2> HIDE DEF focus
    <2> QED
      BY <1>1, <1>3, <1>4, ViewShown
  <1>6. s1.view[c].on => x.view[c].on
    <2>1. CASE s1.view[c].on
      <3> HIDE DEF focus
      <3>1. x.view[c] = Showing(v, s1.tm, v.tab, focus)
        BY <1>1, <2>1 DEF WithView, Valid, StateType
      <3>2. Showing(v, s1.tm, v.tab, focus).on = v.on
        <4>1. v \in ViewType
          BY <1>3
        <4> QED
          BY <4>1 DEF Showing, ViewType
      <3> QED
        BY <2>1, <3>1, <3>2
    <2> QED
      BY <2>1
  <1>7. v.on \in BOOLEAN /\ x.view[c].on \in BOOLEAN
    <2>1. x.view[c] \in ViewType
      BY <1>5, ViewsOf DEF Looks
    <2>2. \A w \in ViewType : w.on \in BOOLEAN
      BY DEF ViewType
    <2> QED
      BY <1>3, <2>1, <2>2, Zenon
  <1> HIDE DEF x, panes
  <1>8. Looks(s, EnsureView(s, c), c)
    BY <1>1, <1>2, <1>5, OneAfterAnother
  <1>9. ~s.view[c].fresh => EnsureView(s, c).view[c].tab = s.view[c].tab
    BY <1>1, <1>2, <1>5
  <1>10. EnsureView(s, c).view[c].on = s.view[c].on
    BY <1>1, <1>2, <1>6, <1>7
  <1> QED
    BY <1>8, <1>9, <1>10

LEMMA SyncLooks ==
    ASSUME NEW s, Valid(s), NEW c \in Clients
    PROVE  /\ Looks(s, SyncToActive(s, c), c)
           /\ (s.view[c].on /\ ActiveRuntimeTab(s.tm) # None)
                 => SyncToActive(s, c).view[c].tab = ActiveRuntimeTab(s.tm)
  <1> DEFINE tab == ActiveRuntimeTab(s.tm)
             focus == FocusOrDefault(s.tm, tab, FocusedPaneOf(s.tm), PaneIdsForTab(s.tm, tab))
             x == WithView(s, c, Showing(s.view[c], s.tm, tab, focus))
  <1>1. Good(s.tm, s.next) /\ Looks(s, s, c)
    BY ViewsOf
  <1>2. tab \in TabIdsOrNone /\ FocusIn(focus, PaneIdsForTab(s.tm, tab))
    BY <1>1, Seen, FocusesSeen
  <1>3. SyncToActive(s, c) = IF tab = None THEN s ELSE x
    BY DEF SyncToActive
  <1> HIDE DEF tab, focus
  <1>4. Looks(s, x, c) /\ (s.view[c].on => x.view[c].tab = tab)
    BY <1>2, ViewShown
  <1> HIDE DEF x
  <1> QED
    BY <1>1, <1>3, <1>4 DEF tab

LEMMA SubLooks ==
    ASSUME NEW s, Valid(s), NEW c \in Clients, NEW b \in BOOLEAN,
           ~s.view[c].detachedAt
    PROVE  LET x == WithView(s, c, [s.view[c] EXCEPT !.sub = b])
           IN  Looks(s, x, c) /\ x.view[c].tab = s.view[c].tab
  <1> DEFINE w == [s.view[c] EXCEPT !.sub = b]
  <1>1. w \in ViewType /\ ViewOK(w) /\ w.tab = s.view[c].tab
    BY ViewsOf DEF ViewType, ViewOK, Silent
  <1> HIDE DEF w
  <1>2. /\ Looks(s, WithView(s, c, w), c)
        /\ s.view[c].on => WithView(s, c, w).view[c] = w
        /\ ~s.view[c].on => WithView(s, c, w) = s
    BY <1>1, WithViewLooks
  <1>3. Looks(s, WithView(s, c, w), c) /\ WithView(s, c, w).view[c].tab = s.view[c].tab
    BY <1>1, <1>2
  <1> QED
    BY <1>3 DEF w

\* sync_remote_client_runtime_view puts the client on the active tab.
LEMMA ResyncLooks ==
    ASSUME NEW s, Valid(s), NEW c \in Clients
    PROVE  /\ Looks(s, Resync(s, c), c)
           /\ s.view[c].on => Resync(s, c).view[c].tab = ActiveRuntimeTab(s.tm)
  <1> DEFINE i == InitializeView(s, c)
             s1 == Tell(i, c)
             y == WithView(s1, c, [s1.view[c] EXCEPT !.sub = TRUE])
             z == WithView(s1, c, [s1.view[c] EXCEPT !.sub = FALSE])
  <1>1. Resync(s, c) = IF HasActive(s.tm) THEN PublishActive(y) ELSE z
    BY DEF Resync
  <1>2. /\ Looks(s, i, c) /\ Valid(i) /\ ~i.view[c].detachedAt
        /\ s.view[c].on => i.view[c].tab = ActiveRuntimeTab(s.tm)
    BY InitializeLooks DEF Looks
  <1> HIDE DEF i
  <1>3. /\ Sends(i, s1) /\ Valid(s1)
        /\ s1.view[c].tab = i.view[c].tab /\ ~s1.view[c].detachedAt
    BY <1>2, Telling DEF Sends
  <1> HIDE DEF s1
  <1>4. Looks(s1, y, c) /\ y.view[c].tab = s1.view[c].tab /\ Valid(y)
    BY <1>3, SubLooks DEF Looks
  <1>5. Looks(s1, z, c) /\ z.view[c].tab = s1.view[c].tab
    BY <1>3, SubLooks
  <1> HIDE DEF y, z
  <1>6. Sends(y, PublishActive(y)) /\ PublishActive(y).view[c].tab = y.view[c].tab
    BY <1>4, Publishing DEF Sends
  <1>7. Looks(s, s1, c)
    BY <1>2, <1>3, OneAfterAnother
  <1>8. Looks(s, PublishActive(y), c) /\ Looks(s, z, c)
    BY <1>4, <1>5, <1>6, <1>7, OneAfterAnother
  <1> QED
    BY <1>1, <1>2, <1>3, <1>4, <1>5, <1>6, <1>8

-----------------------------------------------------------------------------
(* Steps on the tab list.                                                  *)

LEMMA ChangedTabList ==
    ASSUME NEW s, Valid(s), NEW m, Good(m, s.next)
    PROVE  /\ Valid([s EXCEPT !.tm = m])
           /\ [s EXCEPT !.tm = m].tm = m /\ [s EXCEPT !.tm = m].view = s.view
  <1> DEFINE x == [s EXCEPT !.tm = m]
  <1>1. s \in StateType /\ \A c \in Clients : ViewOK(s.view[c])
    BY DEF Valid
  <1>2. m \in ManagerType(PaneIds)
    BY DEF Good
  <1>3. x \in StateType /\ x.tm = m /\ x.next = s.next /\ x.view = s.view
    BY <1>1, <1>2 DEF StateType
  <1> HIDE DEF x
  <1>4. Valid(x)
    BY <1>1, <1>3 DEF Valid
  <1> QED
    BY <1>3, <1>4 DEF x

LEMMA OtherTabList ==
    ASSUME NEW s, Valid(s), NEW m
    PROVE  /\ Good(m, s.next) =>
                 /\ Valid([s EXCEPT !.tm = m])
                 /\ [s EXCEPT !.tm = m].tm = m /\ [s EXCEPT !.tm = m].view = s.view
           /\ Good(m, s.next + 1) =>
                 /\ Valid([s EXCEPT !.tm = m, !.next = @ + 1])
                 /\ [s EXCEPT !.tm = m, !.next = @ + 1].tm = m
                 /\ [s EXCEPT !.tm = m, !.next = @ + 1].view = s.view
  <1>1. s \in StateType /\ \A c \in Clients : ViewOK(s.view[c])
    BY DEF Valid
  <1>2. ASSUME Good(m, s.next)
        PROVE  /\ Valid([s EXCEPT !.tm = m])
               /\ [s EXCEPT !.tm = m].tm = m /\ [s EXCEPT !.tm = m].view = s.view
    BY <1>2, ChangedTabList
  <1>3. ASSUME Good(m, s.next + 1)
        PROVE  /\ Valid([s EXCEPT !.tm = m, !.next = @ + 1])
               /\ [s EXCEPT !.tm = m, !.next = @ + 1].tm = m
               /\ [s EXCEPT !.tm = m, !.next = @ + 1].view = s.view
    <2> DEFINE x == [s EXCEPT !.tm = m, !.next = @ + 1]
    <2>1. m \in ManagerType(PaneIds) /\ s.next + 1 \in 1..(MaxPanes + 1)
      BY <1>3 DEF Good
    <2>2. x \in StateType /\ x.tm = m /\ x.next = s.next + 1 /\ x.view = s.view
      BY <1>1, <2>1 DEF StateType
    <2> HIDE DEF x
    <2>3. Valid(x)
      BY <1>1, <1>3, <2>2 DEF Valid
    <2> QED
      BY <2>2, <2>3 DEF x
  <1> QED
    BY <1>2, <1>3

\* focus_runtime_tab and focus_tab on a tab that exists.
LEMMA FocusRuntimeGood ==
    ASSUME NEW m, NEW n, Good(m, n), NEW tab \in TabIds(m), NEW pane
    PROVE  LET x == FocusPaneById(FocusRuntimeTab(m, tab), pane)
           IN  Good(x, n) /\ TabIds(x) = TabIds(m)
  <1> DEFINE g == FocusRuntimeTab(m, tab)
  <1>1. m \in ManagerType(PaneIds)
    BY DEF Good
  <1>2. IndexOfTab(m, tab) \in Nat
    BY <1>1, IndexOfTabIn
  <1>3. Good(g, n) /\ TabIds(g) = TabIds(m)
    BY <1>1, <1>2, GoodGoto, IdsLeft DEF FocusRuntimeTab
  <1> HIDE DEF g
  <1>4. Good(FocusPaneById(g, pane), n)
    BY <1>3, GoodFocusPane
  <1>5. TabIds(FocusPaneById(g, pane)) = TabIds(g)
    <2>1. CASE HasActive(g)
      <3>1. g \in ManagerType(PaneIds) /\ ActiveTree(g) \in TreeType(PaneIds)
        BY <1>3, <2>1, ActiveTreeGood DEF Good
      <3>2. SetFocusToPane(ActiveTree(g), pane) \in TreeType(PaneIds)
        BY <3>1, SetFocusToPaneType
      <3> QED
        BY <2>1, <3>1, <3>2, IdsLeft DEF FocusPaneById
    <2>2. CASE ~HasActive(g)
      BY <2>2 DEF FocusPaneById
    <2> QED
      BY <2>1, <2>2
  <1> QED
    BY <1>3, <1>4, <1>5 DEF g

\* What a key, a command or an action does to the tabs.
LEMMA OperationsMove ==
    ASSUME NEW s, Valid(s), NEW x \in Operations(s)
    PROVE  Valid(x) /\ x.view = s.view
  <1> DEFINE m == s.tm
             t == ActiveTree(m)
             Known(y) == Valid(y) /\ y.view = s.view
  <1>1. Good(m, s.next) /\ s.next \in 1..(MaxPanes + 1)
    BY DEF Valid, Good
  <1>2. \A n : Good(n, s.next) => Known([s EXCEPT !.tm = n])
    BY OtherTabList
  <1>3. \A n : Good(n, s.next + 1) => Known([s EXCEPT !.tm = n, !.next = @ + 1])
    BY OtherTabList
  <1> HIDE DEF Known
  <1>4. CASE x = s
    BY <1>4 DEF Known
  <1>5. CASE /\ s.next <= MaxPanes /\ m.nextId <= MaxTabId
             /\ x = [s EXCEPT !.tm = NewTabWith(m, s.next), !.next = @ + 1]
    <2>1. Known(x)
      BY <1>1, <1>3, <1>5, GoodNewTab
    <2> QED
      BY <2>1 DEF Known
  <1>6. CASE HasActive(m) /\ \E i \in 0..(Len(m.tabs) - 1) : x = [s EXCEPT !.tm = GotoIndex(m, i)]
    <2>1. PICK i \in 0..(Len(m.tabs) - 1) : x = [s EXCEPT !.tm = GotoIndex(m, i)]
      BY <1>6
    <2>2. i \in Nat
      OBVIOUS
    <2>3. Known(x)
      BY <1>1, <1>2, <2>1, <2>2, GoodGoto
    <2> QED
      BY <2>3 DEF Known
  <1>7. CASE HasActive(m) /\ \E p \in PanesOf(t) : x = [s EXCEPT !.tm = FocusPaneById(m, p)]
    <2>1. PICK p \in PanesOf(t) : x = [s EXCEPT !.tm = FocusPaneById(m, p)]
      BY <1>7
    <2>2. Good(FocusPaneById(m, p), s.next)
      BY <1>1, GoodFocusPane
    <2>3. Known(x)
      BY <1>2, <2>1, <2>2
    <2> QED
      BY <2>3 DEF Known
  <1>8. CASE /\ HasActive(m)
             /\ x = [s EXCEPT !.tm = DropIfEmpty(WithActiveTree(m, RemoveFocused(t)), m.active)]
    <2>1. Known(x)
      BY <1>1, <1>2, <1>8, GoodRemoveFocused
    <2> QED
      BY <2>1 DEF Known
  <1>9. CASE /\ HasActive(m) /\ s.next <= MaxPanes
             /\ x = [s EXCEPT !.tm = WithActiveTree(m, SplitFocused(t, s.next)), !.next = @ + 1]
    <2>1. Good(WithActiveTree(m, SplitFocused(t, s.next)), s.next + 1)
      BY <1>1, <1>9, GoodSplit
    <2>2. Known(x)
      BY <1>3, <1>9, <2>1
    <2> QED
      BY <2>2 DEF Known
  <1> QED
    BY <1>4, <1>5, <1>6, <1>7, <1>8, <1>9 DEF Operations

\* focus_client_runtime_target.
LEMMA FocusedMoves ==
    ASSUME NEW s, Valid(s), NEW c \in Clients
    PROVE  Moves(s, Focused(s, c), c)
  <1> DEFINE s1 == EnsureView(s, c)
             v == s1.view[c]
             pane == FocusOrDefault(s1.tm, v.tab, v.focus, PaneIdsForTab(s1.tm, v.tab))
             y == [s1 EXCEPT !.tm = FocusPaneById(FocusRuntimeTab(@, v.tab), pane)]
  <1>1. Focused(s, c) = IF ~v.on \/ v.tab = None THEN s1
                        ELSE IF v.tab \notin TabIds(s1.tm) THEN Resync(s1, c)
                        ELSE y
    BY DEF Focused
  <1>2. Looks(s, s1, c) /\ Valid(s1) /\ Moves(s, s1, c)
    BY EnsureLooks, OneAfterAnother DEF Looks
  <1> HIDE DEF s1
  <1>3. Moves(s, Resync(s1, c), c)
    BY <1>2, ResyncLooks, OneAfterAnother
  <1>4. v.tab \in TabIds(s1.tm) => Moves(s, y, c)
    <2>1. SUFFICES ASSUME v.tab \in TabIds(s1.tm) PROVE Moves(s, y, c)
      OBVIOUS
    <2> HIDE DEF pane
    <2>2. Good(FocusPaneById(FocusRuntimeTab(s1.tm, v.tab), pane), s1.next)
      BY <1>2, <2>1, FocusRuntimeGood DEF Valid
    <2>3. Valid(y) /\ y.view = s1.view
      BY <1>2, <2>2, OtherTabList
    <2> HIDE DEF y
    <2> QED
      BY <1>2, <2>3 DEF Moves
  <1> HIDE DEF y
  <1> QED
    BY <1>1, <1>2, <1>3, <1>4

-----------------------------------------------------------------------------
(* The invariant, and the handlers of one client's messages.               *)

Inv ==
    /\ Good(tm, next)
    /\ view \in [Clients -> ViewType]
    /\ \A c \in Clients : ViewOK(view[c])
    /\ sent \in [Clients -> SentType]

OthersKeep(c) == \A d \in Clients : d # c => view'[d] = view[d]

LEMMA NowValid ==
    ASSUME Inv
    PROVE  /\ Valid(Now) /\ Now.tm = tm /\ Now.next = next /\ Now.view = view
           /\ \A c \in Clients : Looks(Now, Now, c)
  <1>1. SentNothing \in SentType
    BY Numbers DEF SentNothing, SentType, TabIdsOrNone, None
  <1>2. Now.tm = tm /\ Now.next = next /\ Now.view = view
    BY DEF Now
  <1>3. Now \in StateType
    BY <1>1 DEF Now, StateType, Inv, Good
  <1>4. Valid(Now)
    BY <1>2, <1>3 DEF Valid, Inv
  <1> QED
    BY <1>2, <1>4, ViewsOf

LEMMA Arrives ==
    ASSUME NEW x, Valid(x), Becomes(x)
    PROVE  Inv' /\ tm' = x.tm /\ next' = x.next /\ view' = x.view
  <1>1. tm' = x.tm /\ next' = x.next /\ view' = x.view /\ sent' = [c \in Clients |-> x.sent[c]]
    BY DEF Becomes
  <1>2. Good(tm', next') /\ \A c \in Clients : ViewOK(view'[c])
    BY <1>1 DEF Valid
  <1>3. view' \in [Clients -> ViewType] /\ sent' \in [Clients -> SentType]
    <2>1. x.view \in [Clients -> ViewType] /\ x.sent \in [Clients -> SentType]
      BY DEF Valid, StateType
    <2>2. [c \in Clients |-> x.sent[c]] \in [Clients -> SentType]
      BY <2>1
    <2>3. sent' = [c \in Clients |-> x.sent[c]] /\ view' = x.view
      BY <1>1, Zenon
    <2> QED
      BY <2>1, <2>2, <2>3
  <1>4. Inv'
    BY <1>2, <1>3 DEF Inv, Good, ListOK, ActiveOK, IdsOK, PanesOK, TreeOK, Sound, Covers,
       Resolves, HasLeaf, TabIds, PanesOf, ViewOK, FocusIn, Silent
  <1> QED
    BY <1>1, <1>4

LEMMA OwnArrives ==
    ASSUME Inv, NEW c \in Clients, NEW x, Moves(Now, x, c), Becomes(x)
    PROVE  Inv' /\ OthersKeep(c)
  <1>1. Valid(x) /\ \A d \in Clients : d # c => x.view[d] = view[d]
    BY NowValid DEF Moves
  <1>2. Inv' /\ view' = x.view
    BY <1>1, Arrives
  <1> QED
    BY <1>1, <1>2 DEF OthersKeep

\* Connections come and go.
LEMMA ConnectionSteps ==
    ASSUME Inv, NEW c \in Clients, Connect(c) \/ Disconnect(c) \/ RemoteConnected(c)
    PROVE  Inv' /\ OthersKeep(c)
  <1> DEFINE Off == [IdleView EXCEPT !.on = FALSE]
  <1>1. Valid(Now) /\ Now.view = view
    BY NowValid
  <1>2. IdleView \in ViewType /\ ViewOK(IdleView) /\ Off \in ViewType /\ ViewOK(Off)
    <2>1. None \in TabIdsOrNone /\ None \in 0..MaxPanes
      BY Numbers DEF None, TabIdsOrNone
    <2>2. IdleView \in ViewType /\ IdleView.focus = None /\ ~IdleView.detachedAt
      BY <2>1 DEF IdleView, ViewType
    <2>3. Off \in ViewType /\ Off.focus = None /\ ~Off.detachedAt
      BY <2>2 DEF ViewType
    <2> HIDE DEF Off
    <2> QED
      BY <2>2, <2>3 DEF ViewOK, FocusIn, Silent
  <1>3. ASSUME NEW v \in ViewType, ViewOK(v)
        PROVE  Moves(Now, [Now EXCEPT !.view[c] = v], c)
    <2> DEFINE x == [Now EXCEPT !.view[c] = v]
    <2>1. Now \in StateType /\ Good(Now.tm, Now.next) /\ \A d \in Clients : ViewOK(Now.view[d])
      BY <1>1 DEF Valid
    <2> DEFINE s == Now
    <2> HIDE DEF s
    <2>2. s \in StateType
      BY <2>1 DEF s
    <2>3. LET y == [s EXCEPT !.view[c] = v]
          IN  /\ y \in StateType /\ y.tm = s.tm /\ y.next = s.next /\ y.view[c] = v
              /\ \A d \in Clients : d # c => y.view[d] = s.view[d]
      BY <1>3, <2>2 DEF StateType
    <2>4. x \in StateType /\ x.tm = Now.tm /\ x.next = Now.next /\ x.view[c] = v
          /\ \A d \in Clients : d # c => x.view[d] = Now.view[d]
      BY <2>3 DEF s
    <2> HIDE DEF x
    <2>5. Moves(Now, x, c)
      BY <1>3, <2>1, <2>4 DEF Moves, Valid
    <2> QED
      BY <2>5 DEF x
  <1>4. CASE Connect(c)
    <2>1. Becomes([Now EXCEPT !.view[c] = IdleView])
      BY <1>4 DEF Connect
    <2> QED
      BY <1>2, <1>3, <2>1, OwnArrives
  <1>5. CASE Disconnect(c)
    <2>1. Becomes([Now EXCEPT !.view[c] = Off])
      BY <1>5 DEF Disconnect
    <2> HIDE DEF Off
    <2> QED
      BY <1>2, <1>3, <2>1, OwnArrives
  <1>6. CASE RemoteConnected(c)
    <2>1. Becomes(Resync(Now, c))
      BY <1>6 DEF RemoteConnected
    <2>2. Moves(Now, Resync(Now, c), c)
      BY <1>1, ResyncLooks, OneAfterAnother
    <2> QED
      BY <2>1, <2>2, OwnArrives
  <1> QED
    BY <1>4, <1>5, <1>6

\* A client follows its own action, and perhaps all are told.
LEMMA ActionMoves ==
    ASSUME NEW s, Valid(s), NEW c \in Clients, NEW x \in Operations(Focused(s, c))
    PROVE  /\ Moves(s, SyncToActive(x, c), c)
           /\ Moves(s, Broadcast(SyncToActive(x, c)), c)
  <1>1. Moves(s, Focused(s, c), c) /\ Valid(Focused(s, c))
    BY FocusedMoves DEF Moves
  <1>2. Valid(x) /\ x.view = Focused(s, c).view
    BY <1>1, OperationsMove
  <1>3. Moves(s, x, c)
    BY <1>1, <1>2 DEF Moves
  <1>4. Looks(x, SyncToActive(x, c), c)
    BY <1>2, SyncLooks
  <1>5. Moves(s, SyncToActive(x, c), c) /\ Valid(SyncToActive(x, c))
    BY <1>3, <1>4, OneAfterAnother DEF Looks
  <1>6. Sends(SyncToActive(x, c), Broadcast(SyncToActive(x, c)))
    BY <1>5, Broadcasting
  <1> QED
    BY <1>5, <1>6, OneAfterAnother

\* The handlers that work on the shared tabs, but for input and closing.
LEMMA SharedSteps ==
    ASSUME Inv, NEW c \in Clients,
           CreateTab(c) \/ RemoteKey(c) \/ RemoteAppEvent(c) \/ RemoteAction(c) \/ NewSplit(c)
    PROVE  Inv' /\ OthersKeep(c)
  <1>1. /\ Valid(Now) /\ Now.tm = tm /\ Now.next = next /\ Now.view = view
        /\ Good(tm, next) /\ next \in 1..(MaxPanes + 1)
    BY NowValid DEF Inv, Good
  <1>2. CASE CreateTab(c)
    <2> DEFINE s1 == [Now EXCEPT !.tm = NewTabWith(tm, next), !.next = @ + 1]
               tab == tm.nextId
               x == WithView(s1, c, Showing(view[c], s1.tm, tab, DefaultFocusedPane(s1.tm, tab)))
    <2>1. next <= MaxPanes /\ tm.nextId <= MaxTabId /\ Becomes(Broadcast(x))
      BY <1>2 DEF CreateTab
    <2>2. Good(NewTabWith(tm, next), next + 1)
      BY <1>1, <2>1, GoodNewTab
    <2>3. Valid(s1) /\ s1.view = view
      BY <1>1, <2>2, OtherTabList
    <2>4. tab \in TabIdsOrNone
      BY <1>1, <2>1, Numbers DEF Good, TabIdsOrNone
    <2> HIDE DEF s1, tab
    <2>5. FocusIn(DefaultFocusedPane(s1.tm, tab), PaneIdsForTab(s1.tm, tab))
      BY <2>3, FocusesSeen DEF Valid
    <2>6. Looks(s1, x, c) /\ Valid(x)
      BY <2>3, <2>4, <2>5, ViewShown DEF Looks
    <2> HIDE DEF x
    <2>7. Sends(x, Broadcast(x))
      BY <2>6, Broadcasting
    <2>8. Moves(Now, x, c)
      BY <1>1, <2>3, <2>6 DEF Moves, Looks
    <2>9. Moves(Now, Broadcast(x), c)
      BY <2>7, <2>8, OneAfterAnother
    <2> QED
      BY <2>1, <2>9, OwnArrives
  <1>3. CASE RemoteKey(c)
    <2>1. CASE Becomes(Focused(Now, c))
      BY <1>1, <2>1, FocusedMoves, OwnArrives
    <2>2. CASE \E s \in Operations(Focused(Now, c)) : Becomes(SyncToActive(s, c))
      <3>1. PICK s \in Operations(Focused(Now, c)) : Becomes(SyncToActive(s, c))
        BY <2>2
      <3>2. Moves(Now, SyncToActive(s, c), c)
        BY <1>1, ActionMoves
      <3> QED
        BY <3>1, <3>2, OwnArrives
    <2> QED
      BY <1>3, <2>1, <2>2 DEF RemoteKey
  <1>4. CASE RemoteAppEvent(c) \/ RemoteAction(c)
    <2>1. PICK s \in Operations(Focused(Now, c)) : Becomes(Broadcast(SyncToActive(s, c)))
      BY <1>4 DEF RemoteAppEvent, RemoteAction
    <2>2. Moves(Now, Broadcast(SyncToActive(s, c)), c)
      BY <1>1, ActionMoves
    <2> QED
      BY <2>1, <2>2, OwnArrives
  <1>5. CASE NewSplit(c)
    <2> DEFINE s1 == Focused(Now, c)
               m == WithActiveTree(s1.tm, SplitFocused(ActiveTree(s1.tm), next))
               s2 == IF HasActive(s1.tm) THEN [s1 EXCEPT !.tm = m, !.next = @ + 1] ELSE s1
               x == PublishLocalGui(tm, SyncToActive(s2, c))
    <2>1. next <= MaxPanes /\ Becomes(Broadcast(x))
      BY <1>5 DEF NewSplit
    <2>2. Moves(Now, s1, c) /\ s1.next = next
      <3>1. Focused(Now, c).next = Now.next
        <4> DEFINE s3 == EnsureView(Now, c)
        <4>1. s3.next = Now.next /\ Valid(s3) /\ s3 \in StateType
          BY <1>1, EnsureLooks DEF Looks, Valid
        <4> HIDE DEF s3
        <4>2. Resync(s3, c).next = s3.next
          BY <4>1, ResyncLooks DEF Looks
        <4>3. \A y : [s3 EXCEPT !.tm = y].next = s3.next
          BY <4>1 DEF StateType
        <4> QED
          BY <4>1, <4>2, <4>3 DEF Focused, s3
      <3> QED
        BY <1>1, <3>1, FocusedMoves
    <2>3. Valid(s1) /\ Good(s1.tm, s1.next)
      BY <2>2 DEF Moves, Valid
    <2> HIDE DEF s1
    <2>4. HasActive(s1.tm) => Good(m, s1.next + 1)
      BY <2>1, <2>2, <2>3, GoodSplit
    <2> HIDE DEF m
    <2>5. Valid(s2) /\ s2.view = s1.view
      BY <2>3, <2>4, OtherTabList
    <2> HIDE DEF s2
    <2>6. Moves(Now, s2, c)
      BY <2>2, <2>5 DEF Moves
    <2>7. Moves(Now, SyncToActive(s2, c), c) /\ Valid(SyncToActive(s2, c))
      BY <2>5, <2>6, SyncLooks, OneAfterAnother DEF Looks
    <2>8. Sends(SyncToActive(s2, c), x) /\ Valid(x)
      BY <2>7, Broadcasting DEF Sends
    <2> HIDE DEF x
    <2>9. Sends(x, Broadcast(x))
      BY <2>8, Broadcasting
    <2>10. Moves(Now, Broadcast(x), c)
      <3>1. Moves(Now, x, c)
        BY <2>7, <2>8, OneAfterAnother
      <3> QED
        BY <2>9, <3>1, OneAfterAnother
    <2> QED
      BY <2>1, <2>10, OwnArrives
  <1> QED
    BY <1>2, <1>3, <1>4, <1>5

\* The handlers that only send.
LEMMA TellingSteps ==
    ASSUME Inv, NEW c \in Clients,
           \/ RemoteListTabs(c) \/ Noop(c) \/ UpdateLocalState(c) \/ RemoteResize(c)
    PROVE  Inv' /\ OthersKeep(c)
  <1>1. Valid(Now) /\ Looks(Now, Now, c)
    BY NowValid
  <1>2. Moves(Now, Now, c) /\ Moves(Now, Tell(Now, c), c)
    BY <1>1, Telling, OneAfterAnother
  <1>3. Becomes(Now) \/ Becomes(Tell(Now, c))
    BY DEF RemoteListTabs, Noop, UpdateLocalState, RemoteResize
  <1> QED
    BY <1>2, <1>3, OwnArrives

\* RemoteFocusPane.
LEMMA FocusPaneLooks ==
    ASSUME NEW s, Valid(s), NEW c \in Clients, NEW pane
    PROVE  Looks(s, FocusPaneStep(s, c, pane), c)
  <1> DEFINE s1 == EnsureView(s, c)
             v == s1.view[c]
             y == WithView(s1, c, Showing(v, s1.tm, v.tab, pane))
             z == Publish(Tell(y, c), v.tab)
  <1>1. FocusPaneStep(s, c, pane) =
            IF v.on /\ v.tab # None /\ pane \in PaneIdsForTab(s1.tm, v.tab) THEN z ELSE s1
    BY DEF FocusPaneStep
  <1>2. Looks(s, s1, c) /\ Valid(s1)
    BY EnsureLooks DEF Looks
  <1> HIDE DEF s1
  <1>3. ASSUME pane \in PaneIdsForTab(s1.tm, v.tab)
        PROVE  Looks(s, z, c)
    <2>1. v.tab \in TabIdsOrNone
      BY <1>2, ViewsOf
    <2>2. Looks(s1, y, c) /\ Valid(y)
      BY <1>2, <1>3, <2>1, ViewShown DEF FocusIn, Looks
    <2> HIDE DEF y
    <2>3. Sends(y, Tell(y, c)) /\ Valid(Tell(y, c))
      BY <2>2, Telling DEF Sends
    <2>4. Sends(Tell(y, c), z)
      BY <2>3, Publishing
    <2> HIDE DEF z
    <2>5. Looks(s, y, c) /\ Sends(y, z)
      BY <1>2, <2>2, <2>3, <2>4, OneAfterAnother
    <2> QED
      BY <2>5, OneAfterAnother
  <1> QED
    BY <1>1, <1>2, <1>3

\* set_client_viewed_tab.
LEMMA ViewTabLooks ==
    ASSUME NEW s, Valid(s), NEW c \in Clients, NEW tab \in TabIdsOrNone
    PROVE  Looks(s, ViewTab(s, c, tab), c)
  <1> DEFINE y == WithView(s, c, Showing(s.view[c], s.tm, tab, DefaultFocusedPane(s.tm, tab)))
  <1>1. FocusIn(DefaultFocusedPane(s.tm, tab), PaneIdsForTab(s.tm, tab))
    BY FocusesSeen DEF Valid
  <1>2. Looks(s, y, c) /\ Valid(y)
    BY <1>1, ViewShown DEF Looks
  <1>3. ViewTab(s, c, tab) = Publish(Tell(y, c), tab)
    BY DEF ViewTab
  <1> HIDE DEF y
  <1>4. Sends(y, Tell(y, c)) /\ Valid(Tell(y, c))
    BY <1>2, Telling DEF Sends
  <1>5. Sends(Tell(y, c), Publish(Tell(y, c), tab))
    BY <1>4, Publishing
  <1>6. Looks(s, Tell(y, c), c)
    BY <1>2, <1>4, OneAfterAnother
  <1> QED
    BY <1>3, <1>5, <1>6, OneAfterAnother

\* The handlers that move a view and leave the tab list alone.
LEMMA ViewSteps ==
    ASSUME Inv, NEW c \in Clients,
           \/ \E pane \in PaneIds : RemoteFocusPane(c, pane)
           \/ \E tab \in 1..MaxTabId, pane \in PaneIds : FocusPane(c, tab, pane)
           \/ \E tab \in 1..MaxTabId : SetViewedTab(c, tab)
           \/ \E forward \in BOOLEAN : StepTab(c, forward)
           \/ AttachView(c) \/ DetachView(c)
    PROVE  Inv' /\ OthersKeep(c)
  <1>1. /\ Valid(Now) /\ Now.tm = tm /\ Now.view = view /\ Looks(Now, Now, c)
        /\ Good(tm, next) /\ 1..MaxTabId \subseteq TabIdsOrNone
    BY NowValid, Numbers DEF Inv, TabIdsOrNone
  <1>2. CASE \E pane \in PaneIds : RemoteFocusPane(c, pane)
    <2>1. PICK pane \in PaneIds : Becomes(FocusPaneStep(Now, c, pane))
      BY <1>2 DEF RemoteFocusPane
    <2>2. Moves(Now, FocusPaneStep(Now, c, pane), c)
      BY <1>1, FocusPaneLooks, OneAfterAnother
    <2> QED
      BY <2>1, <2>2, OwnArrives
  <1>3. CASE \E tab \in 1..MaxTabId, pane \in PaneIds : FocusPane(c, tab, pane)
    <2>1. PICK tab \in 1..MaxTabId, pane \in PaneIds : FocusPane(c, tab, pane)
      BY <1>3
    <2> DEFINE s1 == FocusPaneStep(Now, c, pane)
               w == [s1.view[c] EXCEPT !.tab = tab]
    <2>2. Becomes(WithView(s1, c, w))
      BY <2>1 DEF FocusPane
    <2>3. Looks(Now, s1, c) /\ Valid(s1)
      BY <1>1, FocusPaneLooks DEF Looks
    <2> HIDE DEF s1
    <2>4. tab \in TabIdsOrNone
      BY <1>1
    <2>5. s1.view[c] \in ViewType /\ ViewOK(s1.view[c])
      BY <2>3, ViewsOf
    <2>6. w \in ViewType /\ ViewOK(w)
      BY <2>4, <2>5 DEF ViewType, ViewOK, Silent
    <2> HIDE DEF w
    <2>7. Looks(s1, WithView(s1, c, w), c)
      BY <2>3, <2>6, WithViewLooks
    <2>8. Moves(Now, WithView(s1, c, w), c)
      BY <2>3, <2>7, OneAfterAnother
    <2> QED
      BY <2>2, <2>8, OwnArrives
  <1>4. CASE \E tab \in 1..MaxTabId : SetViewedTab(c, tab)
    <2>1. PICK tab \in 1..MaxTabId : Becomes(ViewTab(Now, c, tab))
      BY <1>4 DEF SetViewedTab
    <2>2. tab \in TabIdsOrNone
      BY <1>1
    <2>3. Moves(Now, ViewTab(Now, c, tab), c)
      BY <1>1, <2>2, ViewTabLooks, OneAfterAnother
    <2> QED
      BY <2>1, <2>3, OwnArrives
  <1>5. ASSUME NEW forward \in BOOLEAN, StepTab(c, forward)
        PROVE  Inv' /\ OthersKeep(c)
    <2> DEFINE s1 == EnsureView(Now, c)
               v == s1.view[c]
               n == Len(tm.tabs)
               at == IF v.tab \in TabIds(tm) THEN IndexOfTab(tm, v.tab) ELSE tm.active
               to == IF forward THEN (at + 1) % n ELSE (at + n - 1) % n
               tab == tm.tabs[to + 1].id
    <2>1. n > 0 /\ Becomes(ViewTab(s1, c, tab))
      BY <1>5, Zenon DEF StepTab
    <2>2. Looks(Now, s1, c) /\ Valid(s1)
      BY <1>1, EnsureLooks DEF Looks
    <2> HIDE DEF s1
    <2>3. /\ tm \in ManagerType(PaneIds) /\ n \in Nat /\ tm.active \in Nat
          /\ DOMAIN tm.tabs = 1..n
      BY <1>1, ManagerFields DEF Good
    <2>4. at \in Nat
      BY <2>3, IndexOfTabIn
    <2> HIDE DEF at
    <2>5. to + 1 \in 1..n
      <3> HIDE DEF n
      <3>1. \A k \in Nat : k % n \in 0..(n - 1)
        BY <2>1, <2>3
      <3>2. at + 1 \in Nat /\ at + n - 1 \in Nat
        BY <2>1, <2>3, <2>4
      <3>3. to \in 0..(n - 1)
        BY <3>1, <3>2
      <3> HIDE DEF to
      <3> QED
        BY <2>3, <3>3
    <2> HIDE DEF to, n
    <2>6. tab \in TabIds(tm)
      BY <2>3, <2>5 DEF TabIds
    <2>7. tab \in TabIdsOrNone
      BY <1>1, <2>6, Seen
    <2> HIDE DEF tab
    <2>8. Looks(s1, ViewTab(s1, c, tab), c)
      BY <2>2, <2>7, ViewTabLooks
    <2>9. Moves(Now, ViewTab(s1, c, tab), c)
      BY <2>2, <2>8, OneAfterAnother
    <2> QED
      BY <2>1, <2>9, OwnArrives
  <1>6. CASE AttachView(c)
    <2> DEFINE w == [view[c] EXCEPT !.attached = TRUE, !.detachedAt = FALSE, !.sub = TRUE]
               y == WithView(Now, c, w)
               s1 == Tell(y, c)
    <2>1. Becomes(IF s1.sent[c].tab # None THEN Publish(s1, s1.sent[c].tab) ELSE s1)
      BY <1>6 DEF AttachView
    <2>2. w \in ViewType /\ ViewOK(w)
      BY DEF Inv, ViewType, ViewOK, Silent
    <2> HIDE DEF w
    <2>3. Looks(Now, y, c) /\ Valid(y)
      BY <1>1, <2>2, WithViewLooks DEF Looks
    <2> HIDE DEF y
    <2>4. Sends(y, s1) /\ Valid(s1)
      BY <2>3, Telling DEF Sends
    <2>5. Moves(Now, s1, c)
      BY <2>3, <2>4, OneAfterAnother
    <2> HIDE DEF s1
    <2>6. Moves(Now, Publish(s1, s1.sent[c].tab), c)
      BY <2>4, <2>5, Publishing, OneAfterAnother
    <2> QED
      BY <2>1, <2>5, <2>6, OwnArrives
  <1>7. CASE DetachView(c)
    <2> DEFINE w == [view[c] EXCEPT !.attached = FALSE, !.detachedAt = TRUE, !.sub = FALSE]
    <2>1. view[c].on /\ Becomes(WithView(Now, c, w))
      BY <1>7 DEF DetachView
    <2>2. w \in ViewType /\ ViewOK(w)
      BY <2>1 DEF Inv, ViewType, ViewOK, Silent
    <2> HIDE DEF w
    <2>3. Moves(Now, WithView(Now, c, w), c)
      BY <1>1, <2>2, WithViewLooks, OneAfterAnother
    <2> QED
      BY <2>1, <2>3, OwnArrives
  <1> QED
    BY <1>2, <1>3, <1>4, <1>5, <1>6, <1>7

\* An up-to-date view: the visible panes are those of the tab, and a focus on
\* one of them has not moved.
LEMMA EnsureUpToDate ==
    ASSUME NEW s, Valid(s), NEW c \in Clients, s.view[c].on, ~s.view[c].fresh,
           s.view[c].tab # None
    PROVE  LET v == EnsureView(s, c).view[c]
               panes == PaneIdsForTab(s.tm, s.view[c].tab)
           IN  v.visible = panes /\ (s.view[c].focus \in panes => v.focus = s.view[c].focus)
  <1> DEFINE v == s.view[c]
             panes == PaneIdsForTab(s.tm, v.tab)
             focus == FocusOrDefault(s.tm, v.tab, v.focus, panes)
             w == Showing(v, s.tm, v.tab, focus)
  <1>1. EnsureView(s, c) = IF v.focus \notin panes \/ v.visible # panes
                           THEN WithView(s, c, w) ELSE s
    BY DEF EnsureView
  <1>2. v \in ViewType /\ s.view \in [Clients -> ViewType] /\ s \in StateType
    BY DEF Valid, StateType
  <1>3. v.focus \in panes => focus = v.focus
    BY DEF FocusOrDefault
  <1> HIDE DEF focus
  <1>4. w.visible = panes /\ w.focus = focus
    <2> HIDE DEF panes
    <2>1. w = [v EXCEPT !.tab = v.tab, !.focus = focus, !.visible = panes]
      BY DEF Showing, panes
    <2> HIDE DEF w
    <2> QED
      BY <1>2, <2>1 DEF ViewType
  <1> HIDE DEF w, panes
  <1>5. WithView(s, c, w).view[c] = w
    BY <1>2 DEF WithView, StateType
  <1>6. CASE v.focus \notin panes \/ v.visible # panes
    <2>1. EnsureView(s, c).view[c] = w
      BY <1>1, <1>5, <1>6
    <2> QED
      BY <1>3, <1>4, <2>1 DEF panes
  <1>7. CASE ~(v.focus \notin panes \/ v.visible # panes)
    <2>1. EnsureView(s, c).view[c] = v
      BY <1>1, <1>7
    <2> QED
      BY <1>7, <2>1 DEF panes
  <1> QED
    BY <1>6, <1>7

\* Where focus_runtime_tab and focus_tab end.
LEMMA FocusRuntimeFocuses ==
    ASSUME NEW m, NEW n, Good(m, n), NEW tab \in TabIds(m), NEW pane
    PROVE  LET x == FocusPaneById(FocusRuntimeTab(m, tab), pane)
           IN  /\ ActiveTabId(x) = tab
               /\ pane \in PaneIdsForTab(m, tab) => FocusedPaneOf(x) = pane
  <1> DEFINE i == IndexOfTab(m, tab)
             g == FocusRuntimeTab(m, tab)
             t == SetFocusToPane(ActiveTree(g), pane)
             x == WithActiveTree(g, t)
  <1>1. m \in ManagerType(PaneIds) /\ ListOK(m)
    BY DEF Good
  <1>2. i \in Nat /\ i < Len(m.tabs) /\ DOMAIN m.tabs = 1..Len(m.tabs) /\ Len(m.tabs) \in Nat
    BY <1>1, IndexOfTabIn, ManagerFields
  <1>3. i + 1 \in DOMAIN m.tabs /\ m.tabs[i + 1].id = tab
    <2>1. i + 1 = CHOOSE k \in DOMAIN m.tabs : m.tabs[k].id = tab
      <3>1. (CHOOSE k \in DOMAIN m.tabs : m.tabs[k].id = tab) \in DOMAIN m.tabs
        BY DEF TabIds
      <3> QED
        BY <1>2, <3>1 DEF IndexOfTab
    <2> HIDE DEF i
    <2> QED
      BY <2>1 DEF TabIds
  <1>4. g.active = i /\ g.tabs = m.tabs
    <2> HIDE DEF i
    <2>1. GotoIndex(m, i).active = i /\ GotoIndex(m, i).tabs = m.tabs
      BY <1>1, <1>2 DEF GotoIndex, ManagerType
    <2> QED
      BY <2>1 DEF FocusRuntimeTab, i
  <1>5. Good(g, n)
    BY <1>2, GoodGoto DEF FocusRuntimeTab
  <1> HIDE DEF i, g
  <1>6. HasActive(g) /\ ActiveTabId(g) = tab /\ ActiveTree(g) = m.tabs[i + 1].tree
    BY <1>2, <1>3, <1>4 DEF HasActive, ActiveTabId, ActiveTree
  <1>7. g \in ManagerType(PaneIds) /\ ActiveTree(g) \in TreeType(PaneIds) /\ TreeOK(ActiveTree(g))
    BY <1>5, <1>6, ActiveTreeGood DEF Good
  <1>8. t \in TreeType(PaneIds)
    BY <1>7, SetFocusToPaneType
  <1>9. PaneIdsForTab(m, tab) = PanesOf(ActiveTree(g))
    <2>1. \A k \in DOMAIN m.tabs : m.tabs[k].id = tab => k = i + 1
      <3> SUFFICES ASSUME NEW k \in DOMAIN m.tabs, m.tabs[k].id = tab, k # i + 1 PROVE FALSE
        OBVIOUS
      <3>1. k \in 1..Len(m.tabs) /\ i + 1 \in 1..Len(m.tabs)
        BY <1>2, <1>3
      <3>2. k < i + 1 \/ i + 1 < k
        BY <1>2, <3>1
      <3>3. tab < tab /\ tab \in Nat
        BY <1>1, <1>3, <3>1, <3>2, ManagerFields DEF ListOK, IdsOK
      <3> QED
        BY <3>3
    <2>2. {k \in DOMAIN m.tabs : m.tabs[k].id = tab} = {i + 1}
      BY <1>3, <2>1
    <2> QED
      BY <1>6, <2>2 DEF PaneIdsForTab
  <1>10. pane \in PanesOf(ActiveTree(g)) => FocusedPane(t) = pane
    BY <1>7, SetFocusToPaneFocuses
  <1> HIDE DEF t
  <1>11. /\ HasActive(x) /\ x.active = g.active /\ ActiveTree(x) = t
         /\ \A k \in 1..Len(g.tabs) : x.tabs[k].id = g.tabs[k].id
    BY <1>6, <1>7, <1>8, WithActiveTreeKeeps
  <1>12. g.active + 1 \in 1..Len(g.tabs)
    BY <1>2, <1>3, <1>4
  <1> HIDE DEF x
  <1>13. ActiveTabId(x) = tab
    BY <1>6, <1>11, <1>12 DEF ActiveTabId
  <1>14. pane \in PaneIdsForTab(m, tab) => FocusedPaneOf(x) = pane
    BY <1>9, <1>10, <1>11 DEF FocusedPaneOf
  <1>15. FocusPaneById(g, pane) = x
    BY <1>6 DEF FocusPaneById, t, x
  <1> QED
    BY <1>13, <1>14, <1>15 DEF g

\* RemoteInput: the bytes go to the tab the client looks at and to its focus
\* there, and it stays on a tab that exists.
LEMMA InputStep ==
    ASSUME Inv, NEW c \in Clients, RemoteInput(c), ~(view[c].on /\ view[c].fresh)
    PROVE  /\ Inv' /\ OthersKeep(c)
           /\ (view[c].tab # None /\ tm.tabs # <<>>) => view'[c].tab \in TabIds(tm')
           /\ view[c].tab \in TabIds(tm) =>
                 /\ ActiveTabId(tm') = view[c].tab
                 /\ view[c].focus \in PaneIdsForTab(tm, view[c].tab)
                        => FocusedPaneOf(tm') = view[c].focus
  <1> DEFINE s1 == EnsureView(Now, c)
             v == s1.view[c]
             pane == FocusOrDefault(s1.tm, v.tab, v.focus, v.visible)
             m == FocusPaneById(FocusRuntimeTab(s1.tm, v.tab), pane)
             y == [s1 EXCEPT !.tm = m]
  <1>1. /\ Valid(Now) /\ Now.tm = tm /\ Now.view = view /\ Good(tm, next)
        /\ (tm.tabs # <<>> => ActiveRuntimeTab(tm) \in TabIds(tm))
    BY NowValid, Seen DEF Inv
  <1>2. v.on /\ (\/ v.tab = None /\ Becomes(s1)
                 \/ v.tab # None /\ v.tab \notin TabIds(tm) /\ Becomes(Resync(s1, c))
                 \/ v.tab \in TabIds(tm) /\ Becomes(SyncToActive(y, c)))
    BY DEF RemoteInput
  <1>3. Looks(Now, s1, c) /\ Valid(s1) /\ s1.tm = tm
    BY <1>1, EnsureLooks DEF Looks
  <1>4. v.tab = view[c].tab /\ view[c].on /\ ~view[c].fresh
    <2>1. s1.view[c].on = view[c].on
      BY <1>1, EnsureLooks
    <2>2. ~view[c].fresh => s1.view[c].tab = view[c].tab
      BY <1>1, EnsureLooks
    <2> HIDE DEF s1
    <2> QED
      BY <1>2, <2>1, <2>2
  <1>5. (view[c].tab # None /\ view[c].focus \in PaneIdsForTab(tm, view[c].tab))
            => pane = view[c].focus
    <2> SUFFICES ASSUME view[c].tab # None, view[c].focus \in PaneIdsForTab(tm, view[c].tab)
                 PROVE  pane = view[c].focus
      OBVIOUS
    <2>1. /\ s1.view[c].visible = PaneIdsForTab(tm, view[c].tab)
          /\ s1.view[c].focus = view[c].focus
      BY <1>1, <1>4, EnsureUpToDate
    <2> HIDE DEF s1
    <2> QED
      BY <2>1 DEF FocusOrDefault
  <1>6. None \notin TabIds(tm)
    BY <1>1 DEF Good
  <1> HIDE DEF s1
  <1>7. CASE v.tab = None /\ Becomes(s1)
    <2>1. Moves(Now, s1, c)
      BY <1>3, OneAfterAnother
    <2> QED
      BY <1>4, <1>7, <1>6, <2>1, OwnArrives
  <1>8. CASE v.tab # None /\ v.tab \notin TabIds(tm) /\ Becomes(Resync(s1, c))
    <2>1. /\ Looks(s1, Resync(s1, c), c) /\ Valid(Resync(s1, c))
          /\ Resync(s1, c).view[c].tab = ActiveRuntimeTab(tm) /\ Resync(s1, c).tm = tm
      BY <1>2, <1>3, ResyncLooks DEF Looks
    <2>2. Moves(Now, Resync(s1, c), c)
      BY <1>3, <2>1, OneAfterAnother
    <2>3. tm' = tm /\ view'[c].tab = ActiveRuntimeTab(tm)
      BY <1>8, <2>1, Arrives
    <2>4. tm.tabs # <<>> => view'[c].tab \in TabIds(tm')
      BY <1>1, <2>3
    <2> QED
      BY <1>4, <1>8, <2>2, <2>4, OwnArrives
  <1>9. CASE v.tab \in TabIds(tm) /\ Becomes(SyncToActive(y, c))
    <2> DEFINE x == SyncToActive(y, c)
    <2> HIDE DEF pane
    <2>1. Good(m, s1.next) /\ TabIds(m) = TabIds(tm)
      BY <1>3, <1>9, FocusRuntimeGood DEF Valid
    <2>2. /\ ActiveTabId(m) = v.tab
          /\ pane \in PaneIdsForTab(tm, v.tab) => FocusedPaneOf(m) = pane
      BY <1>3, <1>9, FocusRuntimeFocuses DEF Valid
    <2> HIDE DEF m
    <2>3. Valid(y) /\ y.view = s1.view /\ y.tm = m
      <3>1. Valid(s1) /\ Good(m, s1.next)
        BY <1>3, <2>1
      <3> QED
        BY <3>1, ChangedTabList
    <2> HIDE DEF y
    <2>4. ActiveRuntimeTab(m) \in TabIds(m) /\ ActiveRuntimeTab(m) # None
      <3>1. m.tabs # <<>>
        <4>1. TabIds(m) # {}
          BY <1>9, <2>1
        <4> QED
          BY <4>1 DEF TabIds
      <3>2. None \notin TabIds(m)
        BY <2>1 DEF Good
      <3>3. ActiveRuntimeTab(m) \in TabIds(m)
        BY <2>1, <3>1, Seen
      <3> QED
        BY <3>2, <3>3
    <2>5. Looks(y, x, c) /\ Valid(x) /\ x.tm = m
      BY <2>3, SyncLooks DEF Looks
    <2>6. x.view[c].tab = ActiveRuntimeTab(m)
      BY <1>2, <2>3, <2>4, SyncLooks
    <2> HIDE DEF x
    <2>7. Becomes(x)
      BY <1>9 DEF x
    <2>8. Moves(Now, x, c)
      BY <1>3, <2>3, <2>5 DEF Moves, Looks
    <2>9. tm' = m /\ view'[c].tab = ActiveRuntimeTab(m)
      BY <2>5, <2>6, <2>7, Arrives
    <2>10. view'[c].tab \in TabIds(tm')
      BY <2>4, <2>9
    <2>11. /\ ActiveTabId(tm') = view[c].tab
           /\ view[c].focus \in PaneIdsForTab(tm, view[c].tab)
                  => FocusedPaneOf(tm') = view[c].focus
      <3>1. ActiveTabId(tm') = view[c].tab
        BY <1>4, <2>2, <2>9
      <3>2. ASSUME view[c].focus \in PaneIdsForTab(tm, view[c].tab)
            PROVE  FocusedPaneOf(tm') = view[c].focus
        <4>1. view[c].tab # None
          BY <1>4, <1>9, <1>6
        <4>2. pane = view[c].focus /\ pane \in PaneIdsForTab(tm, v.tab)
          BY <1>4, <1>5, <3>2, <4>1
        <4> QED
          BY <2>2, <2>9, <4>2
      <3> QED
        BY <3>1, <3>2
    <2> QED
      BY <2>7, <2>8, <2>10, <2>11, OwnArrives
  <1> QED
    BY <1>2, <1>7, <1>8, <1>9

\* repair_all_remote_views: everyone connected is on a tab that is left, and
\* who was on one stays.
OnTab(v, m) == IF m.tabs = <<>> THEN v.tab = None ELSE v.tab \in TabIds(m)

LEMMA RepairAllRepairs ==
    ASSUME NEW s, Valid(s), NEW closed \in Nat
    PROVE  LET x == RepairAll(s, closed)
           IN  /\ Valid(x) /\ x.tm = s.tm
               /\ \A d \in Clients :
                     /\ x.view[d].on = s.view[d].on
                     /\ s.view[d].on => OnTab(x.view[d], s.tm)
                     /\ s.view[d].tab \in TabIds(s.tm) => x.view[d].tab = s.view[d].tab
  <1> DEFINE last == Len(s.tm.tabs) - 1
             at == (IF closed < last THEN closed ELSE last) + 1
             Fallback == IF s.tm.tabs = <<>> THEN None ELSE s.tm.tabs[at].id
             Tab(v) == IF v.tab \in TabIds(s.tm) THEN v.tab ELSE Fallback
             Focus(v) == FocusOrDefault(s.tm, Tab(v), v.focus, PaneIdsForTab(s.tm, Tab(v)))
             Repaired(v) == Showing(v, s.tm, Tab(v), Focus(v))
             f == [d \in Clients |-> IF s.view[d].on THEN Repaired(s.view[d]) ELSE s.view[d]]
             x == [s EXCEPT !.view = f]
  <1>1. RepairAll(s, closed) = x
    BY DEF RepairAll
  <1>2. /\ s \in StateType /\ Good(s.tm, s.next) /\ s.tm \in ManagerType(PaneIds)
        /\ s.view \in [Clients -> ViewType]
        /\ \A d \in Clients : ViewOK(s.view[d])
    BY DEF Valid, Good, StateType
  <1>3. TabIds(s.tm) \subseteq TabIdsOrNone /\ None \in TabIdsOrNone
    BY <1>2, Seen, Numbers DEF TabIdsOrNone, None
  <1>4. IF s.tm.tabs = <<>> THEN Fallback = None ELSE Fallback \in TabIds(s.tm)
    <2>1. /\ DOMAIN s.tm.tabs = 1..Len(s.tm.tabs) /\ Len(s.tm.tabs) \in Nat
          /\ (s.tm.tabs = <<>>) <=> (Len(s.tm.tabs) = 0)
      BY <1>2, ManagerFields, EmptyByLength
    <2>2. s.tm.tabs # <<>> => at \in 1..Len(s.tm.tabs)
      BY <2>1
    <2> HIDE DEF at
    <2> QED
      BY <2>1, <2>2 DEF TabIds
  <1> HIDE DEF Fallback
  <1>5. ASSUME NEW d \in Clients
        PROVE  /\ OnTab([tab |-> Tab(s.view[d])], s.tm)
               /\ Tab(s.view[d]) \in TabIdsOrNone
    <2>1. s.tm.tabs = <<>> => TabIds(s.tm) = {}
      BY DEF TabIds
    <2> QED
      BY <1>3, <1>4, <2>1 DEF OnTab
  <1>6. \A d \in Clients : s.view[d].tab \in TabIds(s.tm) => Tab(s.view[d]) = s.view[d].tab
    OBVIOUS
  <1> HIDE DEF Tab
  <1>7. ASSUME NEW d \in Clients
        PROVE  /\ Repaired(s.view[d]) \in ViewType /\ ViewOK(Repaired(s.view[d]))
               /\ Repaired(s.view[d]).tab = Tab(s.view[d])
               /\ Repaired(s.view[d]).on = s.view[d].on
    <2> DEFINE tab == Tab(s.view[d])
               focus == Focus(s.view[d])
    <2>1. tab \in TabIdsOrNone /\ s.view[d] \in ViewType /\ Silent(s.view[d])
      BY <1>2, <1>5 DEF ViewOK
    <2>2. FocusIn(focus, PaneIdsForTab(s.tm, tab))
      BY <1>2, FocusesSeen
    <2>3. Repaired(s.view[d]) = Showing(s.view[d], s.tm, tab, focus)
      OBVIOUS
    <2> HIDE DEF tab, focus, Repaired
    <2>4. LET w == Showing(s.view[d], s.tm, tab, focus)
          IN  w \in ViewType /\ ViewOK(w) /\ w.tab = tab /\ w.on = s.view[d].on
      BY <1>2, <2>1, <2>2, ShowingView
    <2> QED
      BY <2>3, <2>4 DEF tab
  <1> HIDE DEF Repaired
  <1>8. /\ f \in [Clients -> ViewType]
        /\ \A d \in Clients : f[d] = IF s.view[d].on THEN Repaired(s.view[d]) ELSE s.view[d]
    BY <1>2, <1>7
  <1> HIDE DEF f
  <1>9. x \in StateType /\ x.tm = s.tm /\ x.next = s.next /\ x.view = f
    BY <1>2, <1>8 DEF StateType
  <1> HIDE DEF x
  <1>10. Valid(x)
    BY <1>2, <1>7, <1>8, <1>9 DEF Valid
  <1>11. ASSUME NEW d \in Clients
         PROVE  /\ x.view[d].on = s.view[d].on
                /\ s.view[d].on => OnTab(x.view[d], s.tm)
                /\ s.view[d].tab \in TabIds(s.tm) => x.view[d].tab = s.view[d].tab
    <2>1. CASE s.view[d].on
      <3>1. x.view[d].tab = Tab(s.view[d]) /\ x.view[d].on = s.view[d].on
        BY <1>7, <1>8, <1>9, <2>1
      <3> QED
        BY <1>5, <1>6, <3>1 DEF OnTab
    <2>2. CASE ~s.view[d].on
      BY <1>8, <1>9, <2>2
    <2> QED
      BY <2>1, <2>2
  <1> QED
    BY <1>1, <1>9, <1>10, <1>11

\* Closing a tab.
LEMMA DestroySteps ==
    ASSUME Inv, NEW c \in Clients, NEW tab \in TabIdsOrNone, RemoteDestroy(c, tab)
    PROVE  /\ Inv'
           /\ \A d \in Clients :
                 (d # c /\ view[d].on /\ view[d].tab \in TabIds(tm')) => view'[d].tab = view[d].tab
           /\ RequestedTab(tab) \in TabIds(tm) =>
                 \A d \in Clients : view'[d].on => OnTab(view'[d], tm')
  <1> DEFINE id == RequestedTab(tab)
             index == IndexOfTab(tm, id)
             s == [Now EXCEPT !.tm = RemoveTab(tm, index)]
             r == RepairAll(s, index)
             x == Broadcast(r)
  <1>1. Valid(Now) /\ Now.next = next /\ Now.view = view /\ Good(tm, next)
    BY NowValid DEF Inv
  <1>2. \/ id \in TabIds(tm) /\ Becomes(x)
        \/ id \notin TabIds(tm) /\ Becomes(Resync(Now, c))
    BY DEF RemoteDestroy, DestroyTab
  <1> HIDE DEF id
  <1>3. CASE id \in TabIds(tm) /\ Becomes(x)
    <2>1. index \in Nat /\ index < Len(tm.tabs)
      BY <1>1, <1>3, IndexOfTabIn DEF Good
    <2> HIDE DEF index
    <2>2. Good(RemoveTab(tm, index), next)
      BY <1>1, <2>1, GoodRemoveTab
    <2>3. Valid(s) /\ s.view = view
      BY <1>1, <2>2, OtherTabList
    <2> HIDE DEF s
    <2>4. /\ Valid(r) /\ r.tm = s.tm
          /\ \A d \in Clients :
                /\ r.view[d].on = view[d].on
                /\ view[d].on => OnTab(r.view[d], s.tm)
                /\ view[d].tab \in TabIds(s.tm) => r.view[d].tab = view[d].tab
      BY <2>1, <2>3, RepairAllRepairs
    <2> HIDE DEF r
    <2>5. Valid(x) /\ x.tm = r.tm /\ x.view = r.view
      BY <2>4, Broadcasting DEF Sends
    <2> HIDE DEF x
    <2>6. Inv' /\ tm' = s.tm /\ view' = r.view
      BY <1>3, <2>4, <2>5, Arrives
    <2> QED
      BY <2>4, <2>6 DEF id
  <1>4. CASE id \notin TabIds(tm) /\ Becomes(Resync(Now, c))
    <2>1. Moves(Now, Resync(Now, c), c)
      BY <1>1, ResyncLooks, OneAfterAnother
    <2>2. Inv' /\ OthersKeep(c)
      BY <1>4, <2>1, OwnArrives
    <2> QED
      BY <1>4, <2>2 DEF OthersKeep, id
  <1> QED
    BY <1>2, <1>3, <1>4

-----------------------------------------------------------------------------
(* What the server does by itself, and the theorems.                       *)

LEMMA ServeSteps ==
    ASSUME Inv, Serves
    PROVE  Inv' /\ \A d \in Clients : view[d].attached => view'[d] = view[d]
  <1>1. Valid(Now) /\ Now.tm = tm /\ Now.next = next /\ Now.view = view /\ Good(tm, next)
    BY NowValid DEF Inv
  <1>2. CASE SweepIdleViews
    <2>1. PICK expired \in SUBSET {c \in Clients :
                                      view[c].on /\ view[c].detachedAt /\ ~view[c].attached} :
             Becomes(Broadcast([Now EXCEPT !.view = [c \in Clients |->
               IF c \in expired
               THEN [view[c] EXCEPT !.sub = FALSE, !.tab = None, !.focus = None,
                                    !.visible = {}, !.detachedAt = FALSE]
               ELSE view[c]]]))
      BY <1>2 DEF SweepIdleViews
    <2> DEFINE f == [c \in Clients |->
                       IF c \in expired
                       THEN [view[c] EXCEPT !.sub = FALSE, !.tab = None, !.focus = None,
                                            !.visible = {}, !.detachedAt = FALSE]
                       ELSE view[c]]
               x == [Now EXCEPT !.view = f]
    <2>2. None \in TabIdsOrNone /\ None \in 0..MaxPanes
      BY Numbers DEF None, TabIdsOrNone
    <2>3. ASSUME NEW c \in Clients
          PROVE  f[c] \in ViewType /\ ViewOK(f[c]) /\ (view[c].attached => f[c] = view[c])
      <3>1. view[c] \in ViewType /\ ViewOK(view[c])
        BY DEF Inv
      <3> QED
        BY <2>2, <3>1 DEF ViewType, ViewOK, FocusIn, Silent
    <2>4. f \in [Clients -> ViewType]
      BY <2>3
    <2> HIDE DEF f
    <2>5. x \in StateType /\ x.tm = tm /\ x.next = next /\ x.view = f
      <3> DEFINE s == Now
      <3>1. s \in StateType
        BY <1>1 DEF Valid
      <3> HIDE DEF s
      <3>2. LET y == [s EXCEPT !.view = f]
            IN  y \in StateType /\ y.tm = s.tm /\ y.next = s.next /\ y.view = f
        BY <2>4, <3>1 DEF StateType
      <3> QED
        BY <1>1, <3>2 DEF s
    <2>6. Becomes(Broadcast(x))
      BY <2>1 DEF f
    <2> HIDE DEF x
    <2>7. Valid(x)
      BY <1>1, <2>3, <2>5 DEF Valid
    <2>8. Valid(Broadcast(x)) /\ Broadcast(x).view = f
      BY <2>5, <2>7, Broadcasting DEF Sends
    <2> QED
      BY <2>3, <2>6, <2>8, Arrives
  <1>3. CASE \E pane \in PaneIds : PaneExited(pane)
    <2>1. PICK pane \in PaneIds : PaneExited(pane)
      BY <1>3
    <2> DEFINE m == DropIfEmpty(WithActiveTree(tm, RemovePane(ActiveTree(tm), pane)), tm.active)
               s1 == [Now EXCEPT !.tm = m]
    <2>2. /\ HasActive(tm) /\ pane \in PanesOf(ActiveTree(tm))
          /\ Becomes(s1) \/ Becomes(Broadcast(s1))
      BY <2>1 DEF PaneExited
    <2>3. Good(m, next)
      BY <1>1, <2>2, GoodRemovePane
    <2> HIDE DEF m
    <2>4. Valid(s1) /\ s1.view = view
      BY <1>1, <2>3, OtherTabList
    <2> HIDE DEF s1
    <2>5. Valid(Broadcast(s1)) /\ Broadcast(s1).view = view
      BY <2>4, Broadcasting DEF Sends
    <2> QED
      BY <2>2, <2>4, <2>5, Arrives
  <1>4. CASE ControlCommand
    <2>1. PICK s \in Operations(Now) : Becomes(PublishLocalGui(tm, s))
      BY <1>4 DEF ControlCommand
    <2>2. Valid(s) /\ s.view = view
      BY <1>1, OperationsMove
    <2>3. Valid(PublishLocalGui(tm, s)) /\ PublishLocalGui(tm, s).view = view
      BY <2>2, Broadcasting DEF Sends
    <2> QED
      BY <2>1, <2>3, Arrives
  <1> QED
    BY <1>2, <1>3, <1>4 DEF Serves

\* What a step of the server, of a connection, or of one client's message does.
Stays ==
    \A c \in Clients :
        (event'.by # c /\ view[c].on /\ view[c].attached /\ view[c].tab \in TabIds(tm'))
            => view'[c].tab = view[c].tab

Closes ==
    (event'.name = "Destroy" /\ event'.arg \in TabIds(tm)) =>
        \A c \in Clients : view'[c].on => OnTab(view'[c], tm')

Recovers ==
    \A c \in Clients :
        (event' = [name |-> "Input", by |-> c, arg |-> None]
             /\ view[c].tab # None /\ tm.tabs # <<>>)
            => view'[c].tab \in TabIds(tm')

Reaches ==
    \A c \in Clients :
        (event' = [name |-> "Input", by |-> c, arg |-> None] /\ view[c].tab \in TabIds(tm)) =>
            /\ ActiveTabId(tm') = view[c].tab
            /\ view[c].focus \in PaneIdsForTab(tm, view[c].tab)
                   => FocusedPaneOf(tm') = view[c].focus

\* A message other than input and closing.
OtherActs(c) ==
    \/ CreateTab(c) \/ RemoteKey(c) \/ RemoteAppEvent(c) \/ RemoteAction(c) \/ NewSplit(c)
    \/ RemoteListTabs(c) \/ Noop(c) \/ UpdateLocalState(c) \/ RemoteResize(c)
    \/ \E pane \in PaneIds : RemoteFocusPane(c, pane)
    \/ \E tab \in 1..MaxTabId, pane \in PaneIds : FocusPane(c, tab, pane)
    \/ \E tab \in 1..MaxTabId : SetViewedTab(c, tab)
    \/ \E forward \in BOOLEAN : StepTab(c, forward)
    \/ AttachView(c) \/ DetachView(c)

LEMMA NextCases ==
    ASSUME Next
    PROVE  \/ Serves /\ event' = Nothing
           \/ \E c \in Clients :
                 \/ /\ event'.by = c /\ event'.name \notin {"Destroy", "Input"}
                    /\ Connect(c) \/ Disconnect(c) \/ RemoteConnected(c) \/ OtherActs(c)
                 \/ /\ event'.by = c /\ event'.name = "Input"
                    /\ RemoteInput(c) /\ ~(view[c].on /\ view[c].fresh)
                 \/ \E tab \in TabIdsOrNone :
                       /\ RemoteDestroy(c, tab)
                       /\ event'.by = c /\ event'.name = "Destroy"
                       /\ event'.arg = RequestedTab(tab)
  <1>1. \A name, c, arg : Did(name, c, arg) =>
           event'.by = c /\ event'.name = name /\ event'.arg = arg
    BY DEF Did
  <1>2. ASSUME NEW c \in Clients, Acts(c)
        PROVE  \/ /\ event'.by = c /\ event'.name \notin {"Destroy", "Input"}
                  /\ OtherActs(c)
               \/ /\ event'.by = c /\ event'.name = "Input"
                  /\ RemoteInput(c) /\ ~(view[c].on /\ view[c].fresh)
               \/ \E tab \in TabIdsOrNone :
                     /\ RemoteDestroy(c, tab)
                     /\ event'.by = c /\ event'.name = "Destroy"
                     /\ event'.arg = RequestedTab(tab)
    BY <1>1, <1>2 DEF Acts, OtherActs
  <1>3. CASE Serves /\ event' = Nothing
    BY <1>3
  <1>4. CASE \E c \in Clients :
                \/ (Connect(c) \/ Disconnect(c) \/ RemoteConnected(c)) /\ Did("Connect", c, None)
                \/ Acts(c)
    <2>1. PICK c \in Clients :
             \/ (Connect(c) \/ Disconnect(c) \/ RemoteConnected(c)) /\ Did("Connect", c, None)
             \/ Acts(c)
      BY <1>4
    <2>2. CASE (Connect(c) \/ Disconnect(c) \/ RemoteConnected(c)) /\ Did("Connect", c, None)
      BY <1>1, <2>2
    <2>3. CASE Acts(c)
      BY <1>2, <2>3
    <2> QED
      BY <2>1, <2>2, <2>3
  <1> QED
    BY <1>3, <1>4 DEF Next

LEMMA StepFacts ==
    ASSUME Inv, Next
    PROVE  Inv' /\ Stays /\ Closes /\ Recovers /\ Reaches
  <1>1. CASE Serves /\ event' = Nothing
    <2>1. Inv' /\ \A d \in Clients : view[d].attached => view'[d] = view[d]
      BY <1>1, ServeSteps
    <2>2. event'.name = "none"
      BY <1>1 DEF Nothing
    <2>3. \A c : event' # [name |-> "Input", by |-> c, arg |-> None]
      BY <2>2
    <2> QED
      BY <2>1, <2>2, <2>3 DEF Stays, Closes, Recovers, Reaches
  <1>2. ASSUME NEW c \in Clients, event'.by = c, event'.name \notin {"Destroy", "Input"},
               Connect(c) \/ Disconnect(c) \/ RemoteConnected(c) \/ OtherActs(c)
        PROVE  Inv' /\ Stays /\ Closes /\ Recovers /\ Reaches
    <2>1. Inv' /\ OthersKeep(c)
      BY <1>2, ConnectionSteps, SharedSteps, TellingSteps, ViewSteps DEF OtherActs
    <2>2. \A d : event' # [name |-> "Input", by |-> d, arg |-> None]
      BY <1>2
    <2> QED
      BY <1>2, <2>1, <2>2 DEF OthersKeep, Stays, Closes, Recovers, Reaches
  <1>3. ASSUME NEW c \in Clients, event'.by = c, event'.name = "Input",
               RemoteInput(c), ~(view[c].on /\ view[c].fresh)
        PROVE  Inv' /\ Stays /\ Closes /\ Recovers /\ Reaches
    <2>1. /\ Inv' /\ OthersKeep(c)
          /\ (view[c].tab # None /\ tm.tabs # <<>>) => view'[c].tab \in TabIds(tm')
          /\ view[c].tab \in TabIds(tm) =>
                /\ ActiveTabId(tm') = view[c].tab
                /\ view[c].focus \in PaneIdsForTab(tm, view[c].tab)
                       => FocusedPaneOf(tm') = view[c].focus
      BY <1>3, InputStep
    <2>2. \A d : event' = [name |-> "Input", by |-> d, arg |-> None] => d = c
      BY <1>3
    <2> QED
      BY <1>3, <2>1, <2>2 DEF OthersKeep, Stays, Closes, Recovers, Reaches
  <1>4. ASSUME NEW c \in Clients, NEW tab \in TabIdsOrNone, RemoteDestroy(c, tab),
               event'.by = c, event'.name = "Destroy", event'.arg = RequestedTab(tab)
        PROVE  Inv' /\ Stays /\ Closes /\ Recovers /\ Reaches
    <2>1. /\ Inv'
          /\ \A d \in Clients :
                (d # c /\ view[d].on /\ view[d].tab \in TabIds(tm')) => view'[d].tab = view[d].tab
          /\ RequestedTab(tab) \in TabIds(tm) =>
                \A d \in Clients : view'[d].on => OnTab(view'[d], tm')
      BY <1>4, DestroySteps
    <2>2. \A d : event' # [name |-> "Input", by |-> d, arg |-> None]
      BY <1>4
    <2> QED
      BY <1>4, <2>1, <2>2 DEF Stays, Closes, Recovers, Reaches
  <1> QED
    BY <1>1, <1>2, <1>3, <1>4, NextCases

LEMMA InvHolds == Spec => []Inv
<1>1. Init => Inv
  <2> SUFFICES ASSUME Init PROVE Inv
    OBVIOUS
  <2> DEFINE m == AddInitialTab(EmptyManager, 1)
             Off == [IdleView EXCEPT !.on = FALSE]
  <2>1. /\ tm = m /\ next = 2 /\ view = [c \in Clients |-> Off]
        /\ sent = [c \in Clients |-> SentNothing]
    BY DEF Init
  <2>2. /\ EmptyManager \in ManagerType(PaneIds) /\ EmptyManager.tabs = <<>>
        /\ EmptyManager.nextId = 1 /\ 1 \in PaneIds
    BY Numbers, EmptySeq DEF EmptyManager, ManagerType, PaneIds
  <2>3. ListOK(EmptyManager) /\ PanesOK(EmptyManager, {}) /\ Sound(EmptyManager, {})
    BY <2>2, EmptySeq DEF EmptyManager, ListOK, ActiveOK, IdsOK, PanesOK, Sound, Covers
  <2>4. m \in ManagerType(PaneIds) /\ ListOK(m)
    BY <2>2, <2>3, NewTabType, AddInitialTabList
  <2>5. PanesOK(m, 1..(2 - 1))
    <3>1. PanesOK(m, {} \cup {1})
      BY <2>2, <2>3, NewTabPanes
    <3>2. {} \cup {1} = 1..(2 - 1)
      OBVIOUS
    <3> QED
      BY <3>1, <3>2
  <2>6. Sound(m, {})
    BY <2>2, <2>3, NewTabSound
  <2>7. m.nextId = 2 /\ m.tabs = <<[id |-> 1, tree |-> RootTree(1)]>>
    BY DEF AddInitialTab, Pushed, EmptyManager
  <2>8. None \notin TabIds(m)
    BY <2>7 DEF TabIds, None
  <2> HIDE DEF m
  <2>9. Good(m, 2)
    BY <2>4, <2>5, <2>6, <2>7, <2>8, Numbers DEF Good
  <2>10. Off \in ViewType /\ ViewOK(Off)
    <3>1. None \in TabIdsOrNone /\ None \in 0..MaxPanes
      BY Numbers DEF None, TabIdsOrNone
    <3>2. IdleView \in ViewType /\ IdleView.focus = None /\ ~IdleView.detachedAt
      BY <3>1 DEF IdleView, ViewType
    <3>3. Off \in ViewType /\ Off.focus = None /\ ~Off.detachedAt
      BY <3>2 DEF ViewType
    <3> HIDE DEF Off
    <3> QED
      BY <3>3 DEF ViewOK, FocusIn, Silent
  <2>11. SentNothing \in SentType
    BY Numbers DEF SentNothing, SentType, TabIdsOrNone, None
  <2> HIDE DEF Off
  <2> QED
    BY <2>1, <2>9, <2>10, <2>11 DEF Inv
<1>2. Inv /\ [Next]_vars => Inv'
  <2>1. CASE UNCHANGED vars
    BY <2>1 DEF vars, Inv, Good, ListOK, ActiveOK, IdsOK, PanesOK, TreeOK, Sound, Covers,
       Resolves, HasLeaf, TabIds, PanesOf, ViewOK, FocusIn, Silent
  <2> QED
    BY <2>1, StepFacts
<1> QED
  BY <1>1, <1>2, PTL DEF Spec

\* Types, and the tab list has an active tab unless it is empty: no handler,
\* whatever the order of messages, leaves a view with a pane or tab that was
\* never handed out (runtime_server.rs).
THEOREM TypeCorrect == Spec => []TypeOK
<1>1. Inv => TypeOK
  <2> SUFFICES ASSUME Inv PROVE TypeOK
    OBVIOUS
  <2>1. Good(tm, next)
    BY DEF Inv
  <2>2. tm \in ManagerType(PaneIds) /\ next \in 1..(MaxPanes + 1)
    BY <2>1 DEF Good
  <2>3. tm.tabs # <<>> => HasActive(tm)
    BY <2>1, Seen
  <2> QED
    BY <2>2, <2>3 DEF Inv, TypeOK
<1> QED
  BY <1>1, InvHolds, PTL

\* A view never keeps the focus on a pane it does not show: keys that go with
\* the focus of the view cannot reach another tab's pane.
THEOREM FocusStaysVisible == Spec => []FocusIsVisible
<1>1. Inv => FocusIsVisible
  BY DEF Inv, ViewOK, FocusIn, FocusIsVisible
<1> QED
  BY <1>1, InvHolds, PTL

\* A client that has gone idle is not streamed to, and one that comes back has
\* stopped its idle timer, whatever brings it back: the sweep takes the view from
\* no client that is looking (AttachView, DetachView and initialize_client_view in
\* runtime_server.rs).
THEOREM DetachedStaySilent == Spec => []DetachedIsSilent
<1>1. Inv => DetachedIsSilent
  BY DEF Inv, ViewOK, Silent, DetachedIsSilent
<1> QED
  BY <1>1, InvHolds, PTL

\* What others do, short of closing the tab it looks at, leaves an attached
\* client on its tab, however they move the one shared tab list.
THEOREM ViewsStayPut == Spec => ViewsAreTheirOwners
<1>1. Inv /\ [Next]_vars => [Stays]_vars
  BY StepFacts
<1>2. [][Stays]_vars => ViewsAreTheirOwners
  BY PTL DEF Stays, ViewsAreTheirOwners
<1> QED
  BY <1>1, <1>2, InvHolds, PTL DEF Spec

\* Closing a tab leaves every connected client on a tab that exists, or on
\* none when it was the last (destroy_remote_runtime_tab).
THEOREM ClosesRepair == Spec => CloseRepairsViews
<1>1. Inv /\ [Next]_vars => [Closes]_vars
  BY StepFacts
<1>2. [][Closes]_vars => CloseRepairsViews
  BY PTL DEF Closes, OnTab, CloseRepairsViews
<1> QED
  BY <1>1, <1>2, InvHolds, PTL DEF Spec

\* A client that types on a tab that is gone is put on one that exists
\* (RemoteInput recovers its view).
THEOREM TypersRecover == Spec => TypingRecovers
<1>1. Inv /\ [Next]_vars => [Recovers]_vars
  BY StepFacts
<1>2. [][Recovers]_vars => TypingRecovers
  BY PTL DEF Recovers, TypingRecovers
<1> QED
  BY <1>1, <1>2, InvHolds, PTL DEF Spec

\* Typed bytes go to the tab of the client that typed them, and to the pane it
\* has focused there, wherever others have taken the shared focus (RemoteInput).
THEOREM InputArrives == Spec => InputReachesOwnPane
<1>1. Inv /\ [Next]_vars => [Reaches]_vars
  BY StepFacts
<1>2. [][Reaches]_vars => InputReachesOwnPane
  BY PTL DEF Reaches, InputReachesOwnPane
<1> QED
  BY <1>1, <1>2, InvHolds, PTL DEF Spec
=============================================================================
