---------------------------- MODULE WorkspaceProofs ----------------------------
(***************************************************************************)
(* What holds of the workspace for every bound, every set of saved layouts *)
(* and whatever leaf ids control clients send.                             *)
(*                                                                         *)
(* Types and the tab list come first; then the panes and leaves: no pane   *)
(* is shown twice, no leaf shows a pane that was freed, leaf ids are not   *)
(* reused, and the action properties of closing, exiting and laying out.   *)
(* Last, with the history variable of WorkspaceHistory: as long as control *)
(* clients only name leaves that exist and every terminal process of a     *)
(* layout starts, every tab has a focused leaf and every terminal process  *)
(* is in a tab.                                                            *)
(***************************************************************************)
EXTENDS WorkspaceHistory, TabManagerProofs

-----------------------------------------------------------------------------
(* Type correctness.                                                       *)

\* An operation on the active tree that returns a tree keeps the types.
LEMMA ActiveTreeStepType ==
    ASSUME TypeOK, NEW t \in TreeType(PaneIds), HasActive(tm),
           tm' = WithActiveTree(tm, t), KeepsPanes
    PROVE  TypeOK'
<1>1. WithActiveTree(tm, t) \in ManagerType(PaneIds)
  BY WithActiveTreeType DEF TypeOK
<1> QED
  BY <1>1 DEF TypeOK, KeepsPanes

\* Closing the focused pane of any tab list keeps the types.
LEMMA SurfaceClosedType ==
    ASSUME TypeOK, NEW m \in ManagerType(PaneIds), HasActive(m), SurfaceClosed(m)
    PROVE  TypeOK'
<1>0. ActiveTree(m) \in TreeType(PaneIds) /\ m.active \in Nat /\ m.active < Len(m.tabs)
  BY ActiveTreeType, ManagerFields DEF HasActive
<1>1. CASE HasLeaf(ActiveTree(m), ActiveTree(m).focus)
  <2> DEFINE cut == WithActiveTree(m, RemoveFocused(ActiveTree(m)))
  <2>1. RemoveFocused(ActiveTree(m)) \in TreeType(PaneIds)
    BY <1>0, <1>1, RemoveFocusedType
  <2>2. cut \in ManagerType(PaneIds)
    BY <2>1, WithActiveTreeType
  <2>3. m.active < Len(cut.tabs)
    <3>1. m.active + 1 \in 1..Len(m.tabs)
      BY <1>0, ManagerFields
    <3>2. Len(cut.tabs) = Len(m.tabs)
      BY <2>1, <3>1, WithTreeType DEF WithActiveTree
    <3> QED BY <1>0, <3>2
  <2> HIDE DEF cut
  <2>4. DropIfEmpty(cut, m.active) \in ManagerType(PaneIds)
    BY <1>0, <2>2, <2>3, DropIfEmptyType
  <2>5. tm' = DropIfEmpty(cut, m.active) /\ Frees({FocusedPane(ActiveTree(m))})
    BY <1>1 DEF SurfaceClosed, cut
  <2> QED BY <2>4, <2>5 DEF TypeOK, Frees
<1>2. CASE ~HasLeaf(ActiveTree(m), ActiveTree(m).focus)
  <2>1. RemoveTab(m, m.active) \in ManagerType(PaneIds)
    BY <1>0, RemoveTabType
  <2>2. tm' = RemoveTab(m, m.active) /\ Frees(PanesOf(ActiveTree(m)))
    BY <1>2 DEF SurfaceClosed
  <2> QED BY <2>1, <2>2 DEF TypeOK, Frees
<1> QED BY <1>1, <1>2

\* Every operation of the workspace returns to a well-typed state.
THEOREM TypeCorrect == Spec => []TypeOK
<1>1. Init => TypeOK
  <2> SUFFICES ASSUME Init PROVE TypeOK
    OBVIOUS
  <2>1. EmptyManager \in ManagerType(PaneIds)
    BY EmptySeq DEF EmptyManager, ManagerType
  <2>2. tm \in ManagerType(PaneIds)
    BY <2>1 DEF Init
  <2>3. loading \in Seq({"tab", "split"})
    BY EmptySeq DEF Init
  <2>4. live \in SUBSET PaneIds
    BY DEF Init
  <2>5. marked \in Nat /\ nextPane \in PaneIds
    BY DEF Init, PaneIds, NullPane
  <2>6. inited \in BOOLEAN
    BY DEF Init
  <2> QED BY <2>2, <2>3, <2>4, <2>5, <2>6 DEF TypeOK
<1>2. TypeOK /\ [Next]_vars => TypeOK'
  <2> SUFFICES ASSUME TypeOK, [Next]_vars PROVE TypeOK'
    OBVIOUS
  <2>0. /\ tm \in ManagerType(PaneIds) /\ nextPane \in PaneIds
        /\ nextPane + 1 \in PaneIds /\ nextPane \in Nat
        /\ live \cup {nextPane} \in SUBSET PaneIds
        /\ HasActive(tm) => ActiveTree(tm) \in TreeType(PaneIds)
        /\ HasActive(tm) => tm.active \in Nat /\ tm.active < Len(tm.tabs)
        /\ Len(tm.tabs) \in Nat
    BY ActiveTreeType, ManagerFields DEF TypeOK, PaneIds, NullPane, HasActive
  <2>1. CASE InitSurface
    <3>1. AddInitialTab(tm, nextPane) \in ManagerType(PaneIds)
      BY <2>0, NewTabType
    <3>2. loading' \in Seq({"tab", "split"})
      BY <2>1, LayoutsAssumption, EmptySeq DEF InitSurface
    <3> QED BY <2>0, <2>1, <3>1, <3>2 DEF InitSurface, TypeOK, CreatePane
  <2>2. CASE NewTab
    <3>1. NewTabWith(tm, nextPane) \in ManagerType(PaneIds)
      BY <2>0, NewTabType
    <3> QED BY <2>0, <2>2, <3>1 DEF NewTab, TypeOK, CreatePane
  <2>3. CASE CreateSplit
    <3>1. WithActiveTree(tm, SplitFocused(ActiveTree(tm), nextPane)) \in ManagerType(PaneIds)
      BY <2>0, <2>3, SplitFocusedType, WithActiveTreeType DEF CreateSplit
    <3> QED BY <2>0, <2>3, <3>1 DEF CreateSplit, TypeOK, CreatePane
  <2>4. CASE LoadLayout
    BY <2>4, LayoutsAssumption DEF LoadLayout, TypeOK
  <2>5. CASE LoadStep
    <3>1. Head(loading) \in {"tab", "split"} /\ Tail(loading) \in Seq({"tab", "split"})
      BY <2>5, HeadTailProperties DEF LoadStep, TypeOK
    <3>2. NewTabWith(tm, nextPane) \in ManagerType(PaneIds)
      BY <2>0, NewTabType
    <3>3. HasActive(tm) =>
             WithActiveTree(tm, SplitFocused(ActiveTree(tm), nextPane)) \in ManagerType(PaneIds)
      BY <2>0, SplitFocusedType, WithActiveTreeType
    <3>4. tm' \in ManagerType(PaneIds)
      BY <2>0, <2>5, <3>1, <3>2, <3>3 DEF LoadStep
    <3> QED BY <2>0, <2>5, <3>1, <3>4 DEF LoadStep, TypeOK, CreatePane
  <2>6. CASE LoadStepFails
    <3>1. Tail(loading) \in Seq({"tab", "split"})
      BY <2>6, HeadTailProperties DEF LoadStepFails, TypeOK
    <3> QED BY <2>0, <2>6, <3>1 DEF LoadStepFails, TypeOK
  <2>7. ASSUME NEW index \in 0..MaxLeafId, FocusSurface(index)
        PROVE  TypeOK'
    <3>1. index \in Nat
      BY BoundsAssumption
    <3>2. SetFocus(ActiveTree(tm), index) \in TreeType(PaneIds)
      BY <2>0, <2>7, <3>1, SetFocusType DEF FocusSurface
    <3> QED BY <2>7, <3>2, ActiveTreeStepType DEF FocusSurface, OnActiveTree
  <2>8. ASSUME NEW pane \in AllPanes(tm), FocusPaneById(pane)
        PROVE  TypeOK'
    <3>1. HasActive(tm)
      BY <2>8 DEF FocusPaneById, OnActiveTree
    <3>2. SetFocusToPane(ActiveTree(tm), pane) \in TreeType(PaneIds)
      BY <2>0, <3>1, SetFocusToPaneType
    <3> QED BY <2>8, <3>1, <3>2, ActiveTreeStepType DEF FocusPaneById, OnActiveTree
  <2>9. ASSUME NEW id \in 0..MaxLeafId, SwitchFocus(id) \/ FocusAt(id)
        PROVE  TypeOK'
    <3>1. id \in Nat
      BY BoundsAssumption
    <3>2. HasActive(tm) /\ tm' = WithActiveTree(tm, SetFocus(ActiveTree(tm), id)) /\ KeepsPanes
      BY <2>9 DEF SwitchFocus, FocusAt, OnActiveTree
    <3>3. SetFocus(ActiveTree(tm), id) \in TreeType(PaneIds)
      BY <2>0, <3>1, <3>2, SetFocusType
    <3> QED BY <3>2, <3>3, ActiveTreeStepType
  <2>10. CASE NextPane
    <3>1. HasActive(tm)
      BY <2>10 DEF NextPane, OnActiveTree
    <3>2. FocusNext(ActiveTree(tm)) \in TreeType(PaneIds)
      BY <2>0, <3>1, FocusNextType
    <3> QED BY <2>10, <3>1, <3>2, ActiveTreeStepType DEF NextPane, OnActiveTree
  <2>11. CASE PreviousPane
    <3>1. HasActive(tm)
      BY <2>11 DEF PreviousPane, OnActiveTree
    <3>2. FocusPrev(ActiveTree(tm)) \in TreeType(PaneIds)
      BY <2>0, <3>1, FocusPrevType
    <3> QED BY <2>11, <3>1, <3>2, ActiveTreeStepType DEF PreviousPane, OnActiveTree
  <2>12. ASSUME NEW next \in BOOLEAN, SwapPane(next)
         PROVE  TypeOK'
    <3>1. HasActive(tm)
      BY <2>12 DEF SwapPane, OnActiveTree
    <3>2. SwapFocused(ActiveTree(tm), next) \in TreeType(PaneIds)
      BY <2>0, <3>1, SwapFocusedType
    <3> QED BY <2>12, <3>1, <3>2, ActiveTreeStepType DEF SwapPane, OnActiveTree
  <2>13. ASSUME NEW forward \in BOOLEAN, RotateActive(forward)
         PROVE  TypeOK'
    <3>1. HasActive(tm)
      BY <2>13 DEF RotateActive, OnActiveTree
    <3>2. RotatePanes(ActiveTree(tm), forward) \in TreeType(PaneIds)
      BY <2>0, <3>1, RotatePanesType
    <3> QED BY <2>13, <3>1, <3>2, ActiveTreeStepType DEF RotateActive, OnActiveTree
  <2>14. CASE ApplyLayout
    <3>1. HasActive(tm)
      BY <2>14 DEF ApplyLayout, OnActiveTree
    <3>2. Rebuild(ActiveTree(tm)) \in TreeType(PaneIds) /\ ActiveTree(tm) \in TreeType(PaneIds)
      BY <2>0, <3>1, RebuildType
    <3> QED BY <2>14, <3>1, <3>2, ActiveTreeStepType DEF ApplyLayout, OnActiveTree
  <2>15. ASSUME NEW index \in Nat, Navigate(index)
         PROVE  TypeOK'
    <3>1. GotoIndex(tm, index) \in ManagerType(PaneIds)
      BY <2>0, GotoIndexType
    <3> QED BY <2>15, <3>1 DEF Navigate, KeepsPanes, TypeOK
  <2>16. ASSUME NEW index \in 0..MaxTabs, GotoTab(index)
         PROVE  TypeOK'
    BY <2>15, <2>16, BoundsAssumption DEF GotoTab
  <2>17. CASE NextTab
    <3>1. NextIndex(tm) \in Nat
      BY <2>0, ManagerFields DEF NextIndex
    <3> QED BY <2>15, <2>17, <3>1 DEF NextTab
  <2>18. CASE PrevTab
    <3>1. PrevIndex(tm) \in Nat
      BY <2>0, <2>18, ManagerFields DEF PrevIndex, PrevTab
    <3> QED BY <2>15, <2>18, <3>1 DEF PrevTab
  <2>19. CASE PreviousTab
    <3>1. PreviousActive(tm) \in Nat
      BY <2>0, ManagerFields DEF PreviousActive
    <3> QED BY <2>15, <2>19, <3>1 DEF PreviousTab
  <2>20. ASSUME NEW pane \in AllPanes(tm), SelectTreeEntry(pane)
         PROVE  TypeOK'
    <3> DEFINE m == GotoIndex(tm, IndexOfPane(tm, pane))
    <3>1. IndexOfPane(tm, pane) \in Nat /\ IndexOfPane(tm, pane) < Len(tm.tabs)
      BY <2>0, IndexOfPaneIn
    <3>2. m \in ManagerType(PaneIds)
      BY <2>0, <3>1, GotoIndexType
    <3>3. m.active = IndexOfPane(tm, pane) /\ m.tabs = tm.tabs
      BY <2>0, <3>1, ManagerFields DEF GotoIndex
    <3>4. tm' = WithActiveTree(m, SetFocusToPane(ActiveTree(m), pane)) /\ KeepsPanes
      BY <2>20 DEF SelectTreeEntry
    <3> HIDE DEF m
    <3>5. HasActive(m)
      BY <3>1, <3>3 DEF HasActive
    <3>6. WithActiveTree(m, SetFocusToPane(ActiveTree(m), pane)) \in ManagerType(PaneIds)
      BY <3>2, <3>5, ActiveTreeType, SetFocusToPaneType, WithActiveTreeType
    <3> QED BY <3>4, <3>6 DEF KeepsPanes, TypeOK
  <2>21. CASE CloseSurface
    BY <2>0, <2>21, SurfaceClosedType DEF CloseSurface
  <2>22. ASSUME NEW pane \in AllPanes(tm), PaneExited(pane)
         PROVE  TypeOK'
    <3> DEFINE t == SetFocusToPane(ActiveTree(tm), pane)
               m == WithActiveTree(tm, t)
    <3>1. HasActive(tm) /\ SurfaceClosed(m)
      BY <2>22 DEF PaneExited
    <3>2. t \in TreeType(PaneIds) /\ tm.active + 1 \in 1..Len(tm.tabs)
      BY <2>0, <3>1, SetFocusToPaneType
    <3> HIDE DEF t
    <3>3. m \in ManagerType(PaneIds) /\ Len(m.tabs) = Len(tm.tabs) /\ m.active = tm.active
      BY <2>0, <3>2, WithTreeType, ManagerFields DEF WithActiveTree
    <3> HIDE DEF m
    <3>4. HasActive(m)
      BY <2>0, <3>1, <3>3 DEF HasActive
    <3> QED BY <3>1, <3>3, <3>4, SurfaceClosedType
  <2>23. ASSUME NEW index \in Nat, index < Len(tm.tabs), RemoveTabAt(index)
         PROVE  TypeOK'
    <3>1. RemoveTab(tm, index) \in ManagerType(PaneIds)
      BY <2>0, <2>23, RemoveTabType
    <3> QED BY <2>23, <3>1 DEF RemoveTabAt, Frees, TypeOK
  <2>24. CASE CloseTab
    BY <2>0, <2>23, <2>24 DEF CloseTab
  <2>25. ASSUME NEW id \in TabIds(tm), DestroyTab(id)
         PROVE  TypeOK'
    BY <2>0, <2>23, <2>25, IndexOfTabIn DEF DestroyTab
  <2>26. CASE BreakPane
    <3>1. BreakActivePane(tm) \in ManagerType(PaneIds)
      BY <2>0, <2>26, BreakActivePaneType DEF BreakPane
    <3> QED BY <2>26, <3>1 DEF BreakPane, KeepsPanes, TypeOK
  <2>27. CASE MarkPane
    <3>1. FocusedPaneOf(tm) \in Nat
      BY <2>0, FocusedPaneType DEF FocusedPaneOf, FocusedPane, PaneIds, NullPane
    <3> QED BY <2>27, <3>1 DEF MarkPane, TypeOK
  <2>28. CASE ClearMarkedPane
    BY <2>28 DEF ClearMarkedPane, TypeOK, NullPane
  <2>29. CASE JoinMarkedPane
    <3> DEFINE m == RemovePaneById(tm, marked)
    <3>1. tm' \in ManagerType(PaneIds)
      <4>1. CASE marked \in AllPanes(tm)
        <5>1. m \in ManagerType(PaneIds)
          BY <2>0, <4>1, RemovePaneByIdType
        <5>2. marked \in PaneIds
          BY <2>29 DEF JoinMarkedPane, TypeOK, PaneIds
        <5>3. tm' = IF HasActive(m)
                    THEN WithActiveTree(m, SplitFocused(ActiveTree(m), marked))
                    ELSE m
          BY <2>29, <4>1 DEF JoinMarkedPane
        <5> HIDE DEF m
        <5> QED BY <5>1, <5>2, <5>3, ActiveTreeType, SplitFocusedType, WithActiveTreeType
      <4>2. CASE marked \notin AllPanes(tm)
        BY <2>0, <2>29, <4>2 DEF JoinMarkedPane
      <4> QED BY <4>1, <4>2
    <3> QED BY <2>29, <3>1 DEF JoinMarkedPane, TypeOK, NullPane
  <2>30. CASE UNCHANGED vars
    BY <2>30 DEF vars, TypeOK
  <2> QED
    BY <2>1, <2>2, <2>3, <2>4, <2>5, <2>6, <2>7, <2>8, <2>9, <2>10, <2>11, <2>12, <2>13,
       <2>14, <2>16, <2>17, <2>18, <2>19, <2>20, <2>21, <2>22, <2>24, <2>25, <2>26,
       <2>27, <2>28, <2>29, <2>30 DEF Next
<1> QED
  BY <1>1, <1>2, PTL DEF Spec

-----------------------------------------------------------------------------
(* The tab list: the active index and the tab ids.                         *)

ListInv == TypeOK /\ ListOK(tm)

\* An operation on the active tree that returns a tree.
LEMMA ActiveTreeStepList ==
    ASSUME ListInv, NEW t \in TreeType(PaneIds), HasActive(tm), tm' = WithActiveTree(tm, t)
    PROVE  ListOK(tm')
BY WithActiveTreeList DEF ListInv, TypeOK

\* handle_surface_closed on any tab list with an active tab.
LEMMA SurfaceClosedList ==
    ASSUME NEW m \in ManagerType(PaneIds), HasActive(m), ListOK(m), SurfaceClosed(m)
    PROVE  ListOK(tm')
<1>0. ActiveTree(m) \in TreeType(PaneIds) /\ m.active \in Nat /\ m.active < Len(m.tabs)
  BY ActiveTreeType, ManagerFields DEF HasActive
<1>1. CASE HasLeaf(ActiveTree(m), ActiveTree(m).focus)
  <2> DEFINE cut == WithActiveTree(m, RemoveFocused(ActiveTree(m)))
  <2>1. RemoveFocused(ActiveTree(m)) \in TreeType(PaneIds)
    BY <1>0, <1>1, RemoveFocusedType
  <2>2. cut \in ManagerType(PaneIds) /\ ListOK(cut)
    BY <2>1, WithActiveTreeType, WithActiveTreeList
  <2>3. m.active < Len(cut.tabs)
    <3>1. m.active + 1 \in 1..Len(m.tabs)
      BY <1>0, ManagerFields
    <3>2. Len(cut.tabs) = Len(m.tabs)
      BY <2>1, <3>1, WithTreeType DEF WithActiveTree
    <3> QED BY <1>0, <3>2
  <2> HIDE DEF cut
  <2>4. tm' = DropIfEmpty(cut, m.active)
    BY <1>1 DEF SurfaceClosed, cut
  <2> QED BY <1>0, <2>2, <2>3, <2>4, DropIfEmptyList
<1>2. CASE ~HasLeaf(ActiveTree(m), ActiveTree(m).focus)
  BY <1>0, <1>2, RemoveTabList DEF SurfaceClosed
<1> QED BY <1>1, <1>2

\* Whatever the workspace does, the active index names a tab when there is
\* one, and tab ids grow along the list and are never handed out twice
\* (add_initial_tab, new_tab, goto_tab and remove_tab of tabs.rs).
THEOREM ListCorrect == Spec => [](ActiveInRange /\ TabIdsIncreasing)
<1>1. Init => ListOK(tm)
  BY EmptySeq DEF Init, EmptyManager, ListOK, ActiveOK, IdsOK
<1>2. TypeOK /\ ListOK(tm) /\ [Next]_vars => ListOK(tm)'
  <2> SUFFICES ASSUME TypeOK, ListOK(tm), [Next]_vars PROVE ListOK(tm')
    BY DEF ListOK, ActiveOK, IdsOK
  <2>0. /\ ListInv /\ tm \in ManagerType(PaneIds) /\ nextPane \in PaneIds
        /\ HasActive(tm) => ActiveTree(tm) \in TreeType(PaneIds)
        /\ HasActive(tm) => tm.active \in Nat /\ tm.active < Len(tm.tabs)
        /\ Len(tm.tabs) \in Nat
    BY ActiveTreeType, ManagerFields DEF TypeOK, ListInv, HasActive
  <2>1. CASE InitSurface
    BY <2>0, <2>1, AddInitialTabList DEF InitSurface
  <2>2. CASE NewTab
    BY <2>0, <2>2, NewTabList DEF NewTab
  <2>3. CASE CreateSplit
    BY <2>0, <2>3, SplitFocusedType, ActiveTreeStepList DEF CreateSplit
  <2>4. CASE LoadStep
    <3>1. Head(loading) \in {"tab", "split"}
      BY <2>4, HeadTailProperties DEF LoadStep, TypeOK
    <3>2. CASE Head(loading) = "tab"
      BY <2>0, <2>4, <3>2, NewTabList DEF LoadStep
    <3>3. CASE Head(loading) = "split" /\ HasActive(tm)
      BY <2>0, <2>4, <3>3, SplitFocusedType, ActiveTreeStepList DEF LoadStep
    <3>4. CASE Head(loading) = "split" /\ ~HasActive(tm)
      BY <2>4, <3>4 DEF LoadStep
    <3> QED BY <3>1, <3>2, <3>3, <3>4
  <2>5. ASSUME NEW index \in 0..MaxLeafId, FocusSurface(index)
        PROVE  ListOK(tm')
    <3>1. index \in Nat
      BY BoundsAssumption
    <3> QED BY <2>0, <2>5, <3>1, SetFocusType, ActiveTreeStepList DEF FocusSurface, OnActiveTree
  <2>6. ASSUME NEW pane \in AllPanes(tm), FocusPaneById(pane)
        PROVE  ListOK(tm')
    BY <2>0, <2>6, SetFocusToPaneType, ActiveTreeStepList DEF FocusPaneById, OnActiveTree
  <2>7. ASSUME NEW id \in 0..MaxLeafId, SwitchFocus(id) \/ FocusAt(id)
        PROVE  ListOK(tm')
    <3>1. id \in Nat
      BY BoundsAssumption
    <3> QED BY <2>0, <2>7, <3>1, SetFocusType, ActiveTreeStepList
            DEF SwitchFocus, FocusAt, OnActiveTree
  <2>8. CASE NextPane \/ PreviousPane
    BY <2>0, <2>8, FocusNextType, FocusPrevType, ActiveTreeStepList
    DEF NextPane, PreviousPane, OnActiveTree
  <2>9. ASSUME NEW next \in BOOLEAN, SwapPane(next)
        PROVE  ListOK(tm')
    BY <2>0, <2>9, SwapFocusedType, ActiveTreeStepList DEF SwapPane, OnActiveTree
  <2>10. ASSUME NEW forward \in BOOLEAN, RotateActive(forward)
         PROVE  ListOK(tm')
    BY <2>0, <2>10, RotatePanesType, ActiveTreeStepList DEF RotateActive, OnActiveTree
  <2>11. CASE ApplyLayout
    BY <2>0, <2>11, RebuildType, ActiveTreeStepList DEF ApplyLayout, OnActiveTree
  <2>12. ASSUME NEW index \in Nat, Navigate(index)
         PROVE  ListOK(tm')
    BY <2>0, <2>12, GotoIndexList DEF Navigate
  <2>13. ASSUME NEW index \in 0..MaxTabs, GotoTab(index)
         PROVE  ListOK(tm')
    BY <2>12, <2>13, BoundsAssumption DEF GotoTab
  <2>14. CASE NextTab
    <3>1. NextIndex(tm) \in Nat
      BY <2>0, ManagerFields DEF NextIndex
    <3> QED BY <2>12, <2>14, <3>1 DEF NextTab
  <2>15. CASE PrevTab
    <3>1. PrevIndex(tm) \in Nat
      BY <2>0, <2>15, ManagerFields DEF PrevIndex, PrevTab
    <3> QED BY <2>12, <2>15, <3>1 DEF PrevTab
  <2>16. CASE PreviousTab
    <3>1. PreviousActive(tm) \in Nat
      BY <2>0, ManagerFields DEF PreviousActive
    <3> QED BY <2>12, <2>16, <3>1 DEF PreviousTab
  <2>17. ASSUME NEW pane \in AllPanes(tm), SelectTreeEntry(pane)
         PROVE  ListOK(tm')
    <3> DEFINE m == GotoIndex(tm, IndexOfPane(tm, pane))
    <3>1. IndexOfPane(tm, pane) \in Nat /\ IndexOfPane(tm, pane) < Len(tm.tabs)
      BY <2>0, IndexOfPaneIn
    <3>2. m \in ManagerType(PaneIds) /\ ListOK(m)
      BY <2>0, <3>1, GotoIndexType, GotoIndexList
    <3>3. m.active = IndexOfPane(tm, pane) /\ m.tabs = tm.tabs
      BY <2>0, <3>1, ManagerFields DEF GotoIndex
    <3>4. tm' = WithActiveTree(m, SetFocusToPane(ActiveTree(m), pane))
      BY <2>17 DEF SelectTreeEntry
    <3> HIDE DEF m
    <3>5. HasActive(m)
      BY <3>1, <3>3 DEF HasActive
    <3> QED BY <3>2, <3>4, <3>5, ActiveTreeType, SetFocusToPaneType, WithActiveTreeList
  <2>18. CASE CloseSurface
    BY <2>0, <2>18, SurfaceClosedList DEF CloseSurface
  <2>19. ASSUME NEW pane \in AllPanes(tm), PaneExited(pane)
         PROVE  ListOK(tm')
    <3> DEFINE t == SetFocusToPane(ActiveTree(tm), pane)
               m == WithActiveTree(tm, t)
    <3>1. HasActive(tm) /\ SurfaceClosed(m)
      BY <2>19 DEF PaneExited
    <3>2. t \in TreeType(PaneIds) /\ tm.active + 1 \in 1..Len(tm.tabs)
      BY <2>0, <3>1, SetFocusToPaneType
    <3> HIDE DEF t
    <3>3. m \in ManagerType(PaneIds) /\ Len(m.tabs) = Len(tm.tabs) /\ m.active = tm.active
      BY <2>0, <3>2, WithTreeType, ManagerFields DEF WithActiveTree
    <3>4. ListOK(m)
      BY <2>0, <3>1, <3>2, WithActiveTreeList
    <3> HIDE DEF m
    <3>5. HasActive(m)
      BY <2>0, <3>1, <3>3 DEF HasActive
    <3> QED BY <3>1, <3>3, <3>4, <3>5, SurfaceClosedList
  <2>20. CASE CloseTab
    BY <2>0, <2>20, RemoveTabList DEF CloseTab, RemoveTabAt
  <2>21. ASSUME NEW id \in TabIds(tm), DestroyTab(id)
         PROVE  ListOK(tm')
    <3>1. IndexOfTab(tm, id) \in Nat /\ IndexOfTab(tm, id) < Len(tm.tabs)
      BY <2>0, IndexOfTabIn
    <3> QED BY <2>0, <2>21, <3>1, RemoveTabList DEF DestroyTab, RemoveTabAt
  <2>22. CASE BreakPane
    BY <2>0, <2>22, BreakActivePaneList DEF BreakPane
  <2>23. CASE JoinMarkedPane
    <3> DEFINE m == RemovePaneById(tm, marked)
    <3>1. CASE marked \in AllPanes(tm)
      <4>1. m \in ManagerType(PaneIds) /\ ListOK(m)
        BY <2>0, <3>1, RemovePaneByIdType, RemovePaneByIdList
      <4>2. marked \in PaneIds
        BY <2>23 DEF JoinMarkedPane, TypeOK, PaneIds
      <4>3. tm' = IF HasActive(m)
                  THEN WithActiveTree(m, SplitFocused(ActiveTree(m), marked))
                  ELSE m
        BY <2>23, <3>1 DEF JoinMarkedPane
      <4> HIDE DEF m
      <4> QED BY <4>1, <4>2, <4>3, ActiveTreeType, SplitFocusedType, WithActiveTreeList
    <3>2. CASE marked \notin AllPanes(tm)
      BY <2>23, <3>2 DEF JoinMarkedPane
    <3> QED BY <3>1, <3>2
  <2>24. CASE UNCHANGED tm
    BY <2>24
  <2>25. LoadLayout \/ LoadStepFails \/ MarkPane \/ ClearMarkedPane \/ UNCHANGED vars
            => UNCHANGED tm
    BY DEF LoadLayout, LoadStepFails, MarkPane, ClearMarkedPane, vars
  <2> QED
    BY <2>1, <2>2, <2>3, <2>4, <2>5, <2>6, <2>7, <2>8, <2>9, <2>10, <2>11, <2>13, <2>14,
       <2>15, <2>16, <2>17, <2>18, <2>19, <2>20, <2>21, <2>22, <2>23, <2>24, <2>25
    DEF Next
<1>3. ListOK(tm) => ActiveInRange /\ TabIdsIncreasing
  BY DEF ListOK, ActiveOK, IdsOK, ActiveInRange, TabIdsIncreasing
<1> QED
  BY <1>1, <1>2, <1>3, TypeCorrect, PTL DEF Spec

-----------------------------------------------------------------------------
(* Panes and leaves.                                                       *)

\* Every pane shown is owned by the backend, once, and no id is handed out
\* that is still owned.
PanesInv == PanesOK(tm, live) /\ \A p \in live : p < nextPane

\* An operation on the active tree that brings no pane in.
LEMMA ActiveTreeStepPanes ==
    ASSUME TypeOK, PanesInv, HasActive(tm), NEW t \in TreeType(PaneIds), TreeOK(t),
           PanesOf(t) \subseteq PanesOf(ActiveTree(tm)),
           tm' = WithActiveTree(tm, t), KeepsPanes
    PROVE  PanesInv'
<1>1. tm \in ManagerType(PaneIds) /\ tm.active + 1 \in 1..Len(tm.tabs)
  BY ManagerFields DEF TypeOK, HasActive
<1>2. PanesOK([tm EXCEPT !.tabs[tm.active + 1].tree = t], live \cup {})
  BY <1>1, WithTreePanes DEF PanesInv, ActiveTree
<1>3. PanesOK(tm', live) /\ live' = live /\ nextPane' = nextPane
  BY <1>2 DEF WithActiveTree, KeepsPanes
<1> QED BY <1>3 DEF PanesInv

\* The same for an operation that leaves the leaves alone.
LEMMA FocusingStepPanes ==
    ASSUME TypeOK, PanesInv, HasActive(tm), NEW t \in TreeType(PaneIds),
           t.leaves = ActiveTree(tm).leaves, t.next = ActiveTree(tm).next,
           tm' = WithActiveTree(tm, t), KeepsPanes
    PROVE  PanesInv'
<1>1. ActiveTree(tm) \in TreeType(PaneIds) /\ TreeOK(ActiveTree(tm))
  <2>1. tm \in ManagerType(PaneIds) /\ tm.active + 1 \in DOMAIN tm.tabs
    BY ManagerFields DEF TypeOK, HasActive
  <2> QED BY <2>1, ActiveTreeType DEF PanesInv, PanesOK, ActiveTree
<1>2. t.next \in Nat /\ ActiveTree(tm).next <= t.next
  BY <1>1, TreeFields
<1>3. TreeOK(t) /\ PanesOf(t) = PanesOf(ActiveTree(tm))
  BY <1>1, <1>2, SameLeavesPanes
<1> QED BY <1>3, ActiveTreeStepPanes

\* handle_surface_closed on any list with an active tab.
LEMMA SurfaceClosedPanes ==
    ASSUME NEW m \in ManagerType(PaneIds), HasActive(m), PanesOK(m, live), SurfaceClosed(m)
    PROVE  PanesOK(tm', live')
<1>0. /\ m.active + 1 \in 1..Len(m.tabs) /\ m.active \in Nat /\ m.active < Len(m.tabs)
      /\ ActiveTree(m) = m.tabs[m.active + 1].tree /\ DOMAIN m.tabs = 1..Len(m.tabs)
  BY ManagerFields DEF HasActive, ActiveTree
<1>1. ActiveTree(m) \in TreeType(PaneIds) /\ TreeOK(ActiveTree(m))
  BY <1>0, ActiveTreeType DEF PanesOK
<1>2. CASE HasLeaf(ActiveTree(m), ActiveTree(m).focus)
  <2> DEFINE t    == RemoveFocused(ActiveTree(m))
             pane == FocusedPane(ActiveTree(m))
             cut  == [m EXCEPT !.tabs[m.active + 1].tree = t]
  <2>1. live' = live \ {pane} /\ tm' = DropIfEmpty(cut, m.active)
    BY <1>2 DEF SurfaceClosed, Frees, WithActiveTree
  <2>2. /\ t \in TreeType(PaneIds) /\ TreeOK(t) /\ pane \in PanesOf(ActiveTree(m))
        /\ PanesOf(t) = PanesOf(ActiveTree(m)) \ {pane}
    BY <1>1, <1>2, RemoveFocusedType, RemoveFocusedPanes
  <2> HIDE DEF t, pane
  <2>3. cut \in ManagerType(PaneIds) /\ Len(cut.tabs) = Len(m.tabs)
    BY <1>0, <2>2, WithTreeType
  <2>4. /\ pane \in PanesOf(m.tabs[m.active + 1].tree)
        /\ PanesOf(t) = PanesOf(m.tabs[m.active + 1].tree) \ {pane}
    BY <1>0, <2>2
  <2>5. PanesOK(cut, live \ {pane})
    BY <1>0, <2>2, <2>4, WithLessPanes
  <2> HIDE DEF cut
  <2> QED BY <1>0, <2>1, <2>3, <2>5, DropIfEmptyPanes
<1>3. CASE ~HasLeaf(ActiveTree(m), ActiveTree(m).focus)
  BY <1>0, <1>3, RemoveTabPanes DEF SurfaceClosed, Frees
<1> QED BY <1>2, <1>3

\* A step of the workspace keeps all of that.
LEMMA StepPanes ==
    ASSUME TypeOK, PanesInv, [Next]_vars
    PROVE  PanesInv'
<1>0. /\ tm \in ManagerType(PaneIds) /\ nextPane \in PaneIds /\ nextPane \notin live
      /\ PanesOK(tm, live) /\ \A p \in live : p \in Nat /\ p < nextPane
      /\ HasActive(tm) => ActiveTree(tm) \in TreeType(PaneIds)
      /\ HasActive(tm) => tm.active \in Nat /\ tm.active < Len(tm.tabs)
      /\ HasActive(tm) => TreeOK(ActiveTree(tm)) /\ PanesOf(ActiveTree(tm)) \subseteq live
  <2>1. tm \in ManagerType(PaneIds) /\ nextPane \in PaneIds /\ live \subseteq Nat
    BY DEF TypeOK, PaneIds
  <2>2. /\ nextPane \notin live /\ PanesOK(tm, live)
        /\ \A p \in live : p \in Nat /\ p < nextPane
    BY <2>1 DEF PanesInv, PaneIds
  <2>3. HasActive(tm) => tm.active \in Nat /\ tm.active < Len(tm.tabs)
                         /\ tm.active + 1 \in DOMAIN tm.tabs
    BY <2>1, ManagerFields DEF HasActive
  <2> QED BY <2>1, <2>2, <2>3, ActiveTreeType DEF PanesOK, ActiveTree
<1>1. ASSUME CreatePane, PanesOK(tm', live \cup {nextPane})
      PROVE  PanesInv'
  <2>1. live' = live \cup {nextPane} /\ nextPane' = nextPane + 1
    BY <1>1 DEF CreatePane
  <2>2. \A p \in live' : p < nextPane'
    BY <1>0, <2>1 DEF PaneIds
  <2> QED BY <1>1, <2>1, <2>2 DEF PanesInv
<1>2. ASSUME PanesOK(tm', live'), live' \subseteq live, nextPane' = nextPane
      PROVE  PanesInv'
  BY <1>0, <1>2 DEF PanesInv
<1>3. CASE InitSurface
  BY <1>0, <1>1, <1>3, NewTabPanes DEF InitSurface
<1>4. CASE NewTab
  BY <1>0, <1>1, <1>4, NewTabPanes DEF NewTab
<1>5. CASE CreateSplit
  BY <1>0, <1>1, <1>5, SplitPanes DEF CreateSplit
<1>6. CASE LoadStep
  <2>1. Head(loading) \in {"tab", "split"}
    BY <1>6, HeadTailProperties DEF LoadStep, TypeOK
  <2>2. CASE Head(loading) = "tab"
    <3>1. tm' = NewTabWith(tm, nextPane) /\ CreatePane
      BY <1>6, <2>2 DEF LoadStep
    <3> QED BY <1>0, <1>1, <3>1, NewTabPanes
  <2>3. CASE Head(loading) = "split" /\ HasActive(tm)
    <3>1. tm' = WithActiveTree(tm, SplitFocused(ActiveTree(tm), nextPane)) /\ CreatePane
      BY <1>6, <2>3 DEF LoadStep
    <3> QED BY <1>0, <1>1, <2>3, <3>1, SplitPanes
  <2>4. CASE Head(loading) = "split" /\ ~HasActive(tm)
    <3>1. tm' = tm /\ CreatePane
      BY <1>6, <2>4 DEF LoadStep
    <3>2. PanesOK(tm, live \cup {nextPane})
      BY <1>0, MorePanesOK
    <3> QED BY <1>1, <3>1, <3>2
  <2> QED BY <2>1, <2>2, <2>3, <2>4
<1>7. CASE LoadStepFails
  <2>1. tm' = tm /\ live' = live /\ nextPane' = nextPane + 1
    BY <1>7 DEF LoadStepFails
  <2>2. \A p \in live' : p < nextPane'
    BY <1>0, <2>1 DEF PaneIds
  <2> QED BY <1>0, <2>1, <2>2 DEF PanesInv
<1>8. CASE LoadLayout \/ MarkPane \/ ClearMarkedPane \/ UNCHANGED vars
  <2>1. UNCHANGED <<tm, live, nextPane>>
    BY <1>8 DEF LoadLayout, MarkPane, ClearMarkedPane, vars
  <2> QED BY <1>0, <1>2, <2>1
<1>9. ASSUME NEW t \in TreeType(PaneIds), HasActive(tm), t.leaves = ActiveTree(tm).leaves,
             t.next = ActiveTree(tm).next, tm' = WithActiveTree(tm, t), KeepsPanes
      PROVE  PanesInv'
  BY <1>9, FocusingStepPanes
<1>10. ASSUME NEW index \in 0..MaxLeafId, FocusSurface(index)
       PROVE  PanesInv'
  <2>1. index \in Nat
    BY BoundsAssumption
  <2>2. /\ HasActive(tm) /\ KeepsPanes
        /\ tm' = WithActiveTree(tm, SetFocus(ActiveTree(tm), index))
    BY <1>10 DEF FocusSurface, OnActiveTree
  <2> QED BY <1>0, <1>9, <2>1, <2>2, SetFocusType, FocusingKeepsLeaves
<1>11. ASSUME NEW pane \in AllPanes(tm), FocusPaneById(pane)
       PROVE  PanesInv'
  <2>1. /\ HasActive(tm) /\ KeepsPanes
        /\ tm' = WithActiveTree(tm, SetFocusToPane(ActiveTree(tm), pane))
    BY <1>11 DEF FocusPaneById, OnActiveTree
  <2> QED BY <1>0, <1>9, <2>1, SetFocusToPaneType, FocusingKeepsLeaves
<1>12. ASSUME NEW id \in 0..MaxLeafId, SwitchFocus(id) \/ FocusAt(id)
       PROVE  PanesInv'
  <2>1. id \in Nat
    BY BoundsAssumption
  <2>2. /\ HasActive(tm) /\ KeepsPanes
        /\ tm' = WithActiveTree(tm, SetFocus(ActiveTree(tm), id))
    BY <1>12 DEF SwitchFocus, FocusAt, OnActiveTree
  <2> QED BY <1>0, <1>9, <2>1, <2>2, SetFocusType, FocusingKeepsLeaves
<1>13. CASE NextPane
  <2>1. HasActive(tm) /\ KeepsPanes /\ tm' = WithActiveTree(tm, FocusNext(ActiveTree(tm)))
    BY <1>13 DEF NextPane, OnActiveTree
  <2> QED BY <1>0, <1>9, <2>1, FocusNextType, FocusingKeepsLeaves
<1>14. CASE PreviousPane
  <2>1. HasActive(tm) /\ KeepsPanes /\ tm' = WithActiveTree(tm, FocusPrev(ActiveTree(tm)))
    BY <1>14 DEF PreviousPane, OnActiveTree
  <2> QED BY <1>0, <1>9, <2>1, FocusPrevType, FocusingKeepsLeaves
<1>15. ASSUME NEW t \in TreeType(PaneIds), HasActive(tm), TreeOK(t),
              PanesOf(t) = PanesOf(ActiveTree(tm)), tm' = WithActiveTree(tm, t), KeepsPanes
       PROVE  PanesInv'
  BY <1>15, ActiveTreeStepPanes
<1>16. ASSUME NEW next \in BOOLEAN, SwapPane(next)
       PROVE  PanesInv'
  <2>1. /\ HasActive(tm) /\ KeepsPanes
        /\ tm' = WithActiveTree(tm, SwapFocused(ActiveTree(tm), next))
    BY <1>16 DEF SwapPane, OnActiveTree
  <2> QED BY <1>0, <1>15, <2>1, SwapFocusedType, SwapFocusedPanes
<1>17. ASSUME NEW forward \in BOOLEAN, RotateActive(forward)
       PROVE  PanesInv'
  <2>1. /\ HasActive(tm) /\ KeepsPanes
        /\ tm' = WithActiveTree(tm, RotatePanes(ActiveTree(tm), forward))
    BY <1>17 DEF RotateActive, OnActiveTree
  <2> QED BY <1>0, <1>15, <2>1, RotatePanesType, RotatePanesPanes
<1>18. CASE ApplyLayout
  <2> DEFINE old == ActiveTree(tm)
             t   == IF Len(old.leaves) > 1 THEN Rebuild(old) ELSE old
  <2>1. HasActive(tm) /\ KeepsPanes /\ tm' = WithActiveTree(tm, t)
    BY <1>18 DEF ApplyLayout, OnActiveTree
  <2>2. t \in TreeType(PaneIds) /\ TreeOK(t) /\ PanesOf(t) = PanesOf(old)
    BY <1>0, <2>1, RebuildType, RebuildPanes
  <2> QED BY <1>15, <2>1, <2>2
<1>19. ASSUME NEW index, Navigate(index)
       PROVE  PanesInv'
  <2>1. tm'.tabs = tm.tabs /\ live' = live /\ nextPane' = nextPane
    BY <1>0, <1>19 DEF Navigate, GotoIndex, KeepsPanes, ManagerType
  <2>2. PanesOK(tm', live)
    BY <1>0, <2>1 DEF PanesOK
  <2> QED BY <1>2, <2>1, <2>2
<1>20. ASSUME NEW index \in 0..MaxTabs, GotoTab(index)
       PROVE  PanesInv'
  BY <1>19, <1>20 DEF GotoTab
<1>21. CASE NextTab \/ PrevTab \/ PreviousTab
  BY <1>19, <1>21 DEF NextTab, PrevTab, PreviousTab
<1>22. ASSUME NEW pane \in AllPanes(tm), SelectTreeEntry(pane)
       PROVE  PanesInv'
  <2> DEFINE i == IndexOfPane(tm, pane)
             m == GotoIndex(tm, i)
             t == SetFocusToPane(ActiveTree(m), pane)
  <2>1. i \in Nat /\ i < Len(tm.tabs)
    BY <1>0, IndexOfPaneIn
  <2>2. m \in ManagerType(PaneIds) /\ m.active = i /\ m.tabs = tm.tabs
    <3> HIDE DEF i
    <3>1. m \in ManagerType(PaneIds)
      BY <1>0, <2>1, GotoIndexType
    <3>2. m.active = i /\ m.tabs = tm.tabs
      BY <1>0, <2>1, ManagerFields DEF GotoIndex
    <3> QED BY <3>1, <3>2
  <2>3. tm' = WithActiveTree(m, t) /\ live' = live /\ nextPane' = nextPane
    BY <1>22 DEF SelectTreeEntry, KeepsPanes
  <2> HIDE DEF m, i
  <2>4. HasActive(m) /\ m.active + 1 \in 1..Len(m.tabs) /\ DOMAIN m.tabs = 1..Len(m.tabs)
    BY <2>1, <2>2, ManagerFields DEF HasActive
  <2>5. PanesOK(m, live)
    BY <1>0, <2>2 DEF PanesOK
  <2>6. /\ ActiveTree(m) \in TreeType(PaneIds) /\ TreeOK(ActiveTree(m))
        /\ ActiveTree(m) = m.tabs[m.active + 1].tree
    BY <2>2, <2>4, <2>5, ActiveTreeType DEF PanesOK, ActiveTree
  <2>7. t \in TreeType(PaneIds) /\ t.leaves = ActiveTree(m).leaves
        /\ t.next = ActiveTree(m).next
    BY <2>6, SetFocusToPaneType, FocusingKeepsLeaves
  <2> HIDE DEF t
  <2>8. t.next \in Nat /\ ActiveTree(m).next <= t.next
    BY <2>7, TreeFields
  <2>9. TreeOK(t) /\ PanesOf(t) = PanesOf(ActiveTree(m))
    BY <2>6, <2>7, <2>8, SameLeavesPanes
  <2>10. PanesOK([m EXCEPT !.tabs[m.active + 1].tree = t], live \cup {})
    BY <2>2, <2>4, <2>5, <2>6, <2>7, <2>9, WithTreePanes
  <2>11. PanesOK(tm', live)
    BY <2>3, <2>10 DEF WithActiveTree
  <2> QED BY <1>2, <2>3, <2>11
<1>23. ASSUME NEW m \in ManagerType(PaneIds), HasActive(m), PanesOK(m, live), SurfaceClosed(m)
       PROVE  PanesInv'
  <2>1. live' \subseteq live /\ nextPane' = nextPane
    BY <1>23 DEF SurfaceClosed, Frees
  <2> QED BY <1>2, <1>23, <2>1, SurfaceClosedPanes
<1>24. CASE CloseSurface
  BY <1>0, <1>23, <1>24 DEF CloseSurface
<1>25. ASSUME NEW pane \in AllPanes(tm), PaneExited(pane)
       PROVE  PanesInv'
  <2> DEFINE t == SetFocusToPane(ActiveTree(tm), pane)
             m == WithActiveTree(tm, t)
  <2>1. HasActive(tm) /\ SurfaceClosed(m)
    BY <1>25 DEF PaneExited
  <2>2. /\ t \in TreeType(PaneIds) /\ tm.active + 1 \in 1..Len(tm.tabs)
        /\ t.leaves = ActiveTree(tm).leaves /\ t.next = ActiveTree(tm).next
    BY <1>0, <2>1, SetFocusToPaneType, FocusingKeepsLeaves
  <2> HIDE DEF t
  <2>3. t.next \in Nat /\ ActiveTree(tm).next <= t.next
    BY <2>2, TreeFields
  <2>4. TreeOK(t) /\ PanesOf(t) = PanesOf(ActiveTree(tm))
    BY <1>0, <2>1, <2>2, <2>3, SameLeavesPanes
  <2>5. m \in ManagerType(PaneIds) /\ Len(m.tabs) = Len(tm.tabs) /\ m.active = tm.active
    BY <1>0, <2>2, WithTreeType, ManagerFields DEF WithActiveTree
  <2>6. PanesOK([tm EXCEPT !.tabs[tm.active + 1].tree = t], live \cup {})
    BY <1>0, <2>1, <2>2, <2>4, WithTreePanes DEF ActiveTree
  <2>7. PanesOK(m, live)
    BY <2>6 DEF WithActiveTree
  <2> HIDE DEF m
  <2>8. HasActive(m)
    BY <1>0, <2>1, <2>5 DEF HasActive
  <2> QED BY <1>23, <2>1, <2>5, <2>7, <2>8
<1>26. ASSUME NEW index \in Nat, index < Len(tm.tabs), RemoveTabAt(index)
       PROVE  PanesInv'
  <2>1. PanesOK(tm', live') /\ live' \subseteq live /\ nextPane' = nextPane
    BY <1>0, <1>26, RemoveTabPanes DEF RemoveTabAt, Frees
  <2> QED BY <1>2, <2>1
<1>27. CASE CloseTab
  BY <1>0, <1>26, <1>27 DEF CloseTab
<1>28. ASSUME NEW id \in TabIds(tm), DestroyTab(id)
       PROVE  PanesInv'
  BY <1>0, <1>26, <1>28, IndexOfTabIn DEF DestroyTab
<1>29. CASE BreakPane
  <2>1. PanesOK(tm', live) /\ live' = live /\ nextPane' = nextPane
    BY <1>0, <1>29, BreakActivePanePanes DEF BreakPane, KeepsPanes
  <2> QED BY <1>2, <2>1
<1>30. CASE JoinMarkedPane
  <2>1. CASE marked \in AllPanes(tm)
    <3> DEFINE m == RemovePaneById(tm, marked)
    <3>1. m \in ManagerType(PaneIds) /\ PanesOK(m, live \ {marked})
      BY <1>0, <2>1, RemovePaneByIdType, RemovePaneByIdPanes
    <3>2. marked \in PaneIds /\ marked \in live
      BY <1>0, <1>30, <2>1 DEF JoinMarkedPane, TypeOK, PaneIds, PanesOK, AllPanes
    <3>3. /\ tm' = IF HasActive(m)
                   THEN WithActiveTree(m, SplitFocused(ActiveTree(m), marked))
                   ELSE m
          /\ live' = live /\ nextPane' = nextPane
      BY <1>30, <2>1 DEF JoinMarkedPane
    <3> HIDE DEF m
    <3>4. (live \ {marked}) \cup {marked} = live
      BY <3>2
    <3>5. CASE HasActive(m)
      <4>1. PanesOK(tm', (live \ {marked}) \cup {marked})
        BY <3>1, <3>2, <3>3, <3>5, SplitPanes
      <4> QED BY <1>2, <3>3, <3>4, <4>1
    <3>6. CASE ~HasActive(m)
      <4>1. PanesOK(tm', live)
        BY <3>1, <3>3, <3>6, MorePanesOK
      <4> QED BY <1>2, <3>3, <4>1
    <3> QED BY <3>5, <3>6
  <2>2. CASE marked \notin AllPanes(tm)
    <3>1. tm' = tm /\ live' = live /\ nextPane' = nextPane
      BY <1>30, <2>2 DEF JoinMarkedPane
    <3> QED BY <1>0, <1>2, <3>1
  <2> QED BY <2>1, <2>2
<1> QED
  BY <1>3, <1>4, <1>5, <1>6, <1>7, <1>8, <1>10, <1>11, <1>12, <1>13, <1>14, <1>16, <1>17,
     <1>18, <1>20, <1>21, <1>22, <1>24, <1>25, <1>27, <1>28, <1>29, <1>30
  DEF Next

\* A leaf shows a pane of its tree.
LEMMA LeafPaneIn ==
    ASSUME NEW t, NEW k \in DOMAIN t.leaves
    PROVE  t.leaves[k].pane \in PanesOf(t)
BY DEF PanesOf

\* The panes of a list in order are in one place each.
LEMMA PanesOKUnique ==
    ASSUME PanesOK(tm, live)
    PROVE  PanesUnique /\ LeavesLive /\ LeafIdsFresh
<1>1. PanesUnique
  <2> SUFFICES ASSUME NEW i \in DOMAIN tm.tabs, NEW j \in DOMAIN tm.tabs,
                      NEW k \in DOMAIN tm.tabs[i].tree.leaves,
                      NEW l \in DOMAIN tm.tabs[j].tree.leaves,
                      tm.tabs[i].tree.leaves[k].pane = tm.tabs[j].tree.leaves[l].pane
               PROVE  i = j /\ k = l
    BY DEF PanesUnique
  <2>1. /\ tm.tabs[i].tree.leaves[k].pane \in PanesOf(tm.tabs[i].tree)
        /\ tm.tabs[j].tree.leaves[l].pane \in PanesOf(tm.tabs[j].tree)
    BY LeafPaneIn
  <2>2. i = j
    BY <2>1 DEF PanesOK
  <2>3. TreeOK(tm.tabs[i].tree)
    BY DEF PanesOK
  <2> QED BY <2>2, <2>3 DEF TreeOK
<1>2. LeavesLive
  BY DEF PanesOK, LeavesLive, AllPanes
<1>3. LeafIdsFresh
  <2>1. \A i \in DOMAIN tm.tabs : TreeOK(tm.tabs[i].tree)
    BY DEF PanesOK
  <2>2. ASSUME NEW t, TreeOK(t)
        PROVE  /\ \A k \in DOMAIN t.leaves : t.leaves[k].id < t.next
               /\ \A k, l \in DOMAIN t.leaves : t.leaves[k].id = t.leaves[l].id => k = l
    BY <2>2 DEF TreeOK
  <2> QED BY <2>1, <2>2, Zenon DEF LeafIdsFresh
<1> QED BY <1>1, <1>2, <1>3

LEMMA InitPanes ==
    ASSUME Init
    PROVE  PanesInv
<1>1. tm.tabs = <<>> /\ live = {}
  BY DEF Init, EmptyManager
<1>2. DOMAIN tm.tabs = {}
  BY <1>1
<1> QED BY <1>1, <1>2 DEF PanesInv, PanesOK

LEMMA PanesInvariant == Spec => []PanesInv
<1>1. Init => PanesInv
  BY InitPanes
<1>2. TypeOK /\ PanesInv /\ [Next]_vars => PanesInv'
  BY StepPanes
<1> QED BY <1>1, <1>2, TypeCorrect, PTL DEF Spec

\* Whatever is split, closed, broken out, joined, swapped, rotated or laid out,
\* a pane is shown by at most one leaf of one tab (the operations of splits.rs
\* and tabs.rs move panes, they never copy one).
THEOREM PanesStayUnique == Spec => []PanesUnique
<1>1. PanesInv => PanesUnique
  BY PanesOKUnique DEF PanesInv
<1> QED BY <1>1, PanesInvariant, PTL

\* No leaf shows a pane whose terminal process was freed (handle_surface_closed,
\* close_tab and destroy_remote_runtime_tab take out what they free).
THEOREM LeavesStayLive == Spec => []LeavesLive
<1>1. PanesInv => LeavesLive
  BY PanesOKUnique DEF PanesInv
<1> QED BY <1>1, PanesInvariant, PTL

\* Within a tree leaf ids are distinct and the next one is unused, also after
\* rebuild_from_panes has numbered the leaves anew.
THEOREM LeafIdsStayFresh == Spec => []LeafIdsFresh
<1>1. PanesInv => LeafIdsFresh
  BY PanesOKUnique DEF PanesInv
<1> QED BY <1>1, PanesInvariant, PTL

-----------------------------------------------------------------------------
(* What a step may never do.                                               *)

\* A list m that became x with the active tab still in it.
StaysOn(m, x) == ActiveTabId(m) \in TabIds(x) => HasActive(x) /\ ActiveTabId(x) = ActiveTabId(m)

\* remove_tab: the index arithmetic.
LEMMA RemoveTabStays ==
    ASSUME NEW P, NEW m \in ManagerType(P), ListOK(m), HasActive(m),
           NEW index \in Nat, index < Len(m.tabs)
    PROVE  StaysOn(m, RemoveTab(m, index))
<1> DEFINE x == RemoveTab(m, index)
           r == RemoveAt(m.tabs, index + 1)
           n == Len(m.tabs)
           a == m.active
<1>0. /\ index + 1 \in 1..n /\ n \in Nat /\ DOMAIN m.tabs = 1..n /\ a \in Nat /\ a < n
      /\ \A k \in 1..n : m.tabs[k].id \in Nat
  BY ManagerFields DEF HasActive
<1>1. /\ x.tabs = r
      /\ x.active = IF r = <<>> THEN 0
                    ELSE IF a >= Len(r) THEN Len(r) - 1
                    ELSE IF a > index THEN a - 1
                    ELSE a
  BY ManagerFields DEF RemoveTab
<1>2. /\ r \in Seq(TabType(P)) /\ Len(r) = n - 1
      /\ \A k \in 1..(n - 1) : r[k] = IF k < index + 1 THEN m.tabs[k] ELSE m.tabs[k + 1]
  BY RemainingTabs
<1>3. \A k, l \in 1..n : k # l => m.tabs[k].id # m.tabs[l].id
  <2>1. \A k, l \in 1..n : k < l => m.tabs[k].id < m.tabs[l].id
    BY <1>0 DEF ListOK, IdsOK
  <2> SUFFICES ASSUME NEW k \in 1..n, NEW l \in 1..n, k # l
               PROVE  m.tabs[k].id # m.tabs[l].id
    OBVIOUS
  <2>2. m.tabs[k].id \in Nat /\ m.tabs[l].id \in Nat
    BY <1>0
  <2>3. m.tabs[k].id < m.tabs[l].id \/ m.tabs[l].id < m.tabs[k].id
    <3>1. k < l \/ l < k
      BY <1>0
    <3> QED BY <2>1, <3>1
  <2> QED BY <2>2, <2>3
<1>4. ActiveTabId(m) = m.tabs[a + 1].id /\ ActiveTabId(x) = x.tabs[x.active + 1].id
  BY DEF ActiveTabId
<1>5. HasActive(x) <=> x.active < Len(x.tabs)
  BY DEF HasActive
<1> HIDE DEF x, r, n, a
<1>6. DOMAIN x.tabs = 1..(n - 1)
  BY <1>1, <1>2, LenProperties
<1>7. CASE index = a
  <2>1. ASSUME NEW k \in 1..(n - 1)
        PROVE  x.tabs[k].id # m.tabs[a + 1].id
    <3> DEFINE j == IF k < index + 1 THEN k ELSE k + 1
    <3>1. j \in 1..n /\ j # a + 1 /\ a + 1 \in 1..n
      BY <1>0, <1>7
    <3>2. x.tabs[k] = m.tabs[j]
      BY <1>1, <1>2
    <3> HIDE DEF j
    <3> QED BY <1>3, <3>1, <3>2
  <2> QED BY <1>4, <1>6, <2>1 DEF StaysOn, TabIds, x
<1>8. CASE index # a
  <2>1. r # <<>> /\ Len(r) = n - 1 /\ n - 1 \in Nat \ {0}
    BY <1>0, <1>2, <1>8, EmptySeq
  <2>2. CASE index < a
    <3>1. x.active = a - 1
      BY <1>0, <1>1, <2>1, <2>2
    <3>2. a \in 1..(n - 1) /\ ~(a < index + 1) /\ (a - 1) + 1 = a /\ a - 1 < n - 1
      BY <1>0, <2>2
    <3>3. x.tabs[a] = m.tabs[a + 1]
      BY <1>1, <1>2, <3>2
    <3>4. x.active < Len(x.tabs) /\ x.tabs[x.active + 1] = m.tabs[a + 1]
      BY <1>1, <2>1, <3>1, <3>2, <3>3
    <3> QED BY <1>4, <1>5, <3>4 DEF StaysOn, x
  <2>3. CASE index > a
    <3>1. x.active = a
      BY <1>0, <1>1, <2>1, <2>3
    <3>2. a + 1 \in 1..(n - 1) /\ a + 1 < index + 1 /\ a < n - 1
      BY <1>0, <2>3
    <3>3. x.tabs[a + 1] = m.tabs[a + 1]
      BY <1>1, <1>2, <3>2
    <3>4. x.active < Len(x.tabs) /\ x.tabs[x.active + 1] = m.tabs[a + 1]
      BY <1>1, <2>1, <3>1, <3>2, <3>3
    <3> QED BY <1>4, <1>5, <3>4 DEF StaysOn, x
  <2> QED BY <1>0, <1>8, <2>2, <2>3
<1> QED BY <1>7, <1>8

\* An emptied tab of a list with the same tabs is taken out, or nothing is.
LEMMA DropIfEmptyStays ==
    ASSUME NEW P, NEW m \in ManagerType(P), NEW c \in ManagerType(P), ListOK(c), HasActive(m),
           c.active = m.active, Len(c.tabs) = Len(m.tabs),
           \A k \in 1..Len(m.tabs) : c.tabs[k].id = m.tabs[k].id,
           NEW index \in Nat, index < Len(m.tabs)
    PROVE  StaysOn(m, DropIfEmpty(c, index))
<1>1. m.active + 1 \in 1..Len(m.tabs)
  BY ManagerFields DEF HasActive
<1>2. HasActive(c) /\ ActiveTabId(c) = ActiveTabId(m)
  BY <1>1 DEF HasActive, ActiveTabId
<1>3. StaysOn(c, RemoveTab(c, index))
  BY <1>2, RemoveTabStays
<1> QED BY <1>2, <1>3 DEF DropIfEmpty, StaysOn

\* handle_surface_closed on a list m with the same tabs as tm.
LEMMA SurfaceClosedStays ==
    ASSUME NEW m \in ManagerType(PaneIds), HasActive(m), ListOK(m), SurfaceClosed(m)
    PROVE  StaysOn(m, tm')
<1>0. m.active \in Nat /\ m.active < Len(m.tabs) /\ ActiveTree(m) \in TreeType(PaneIds)
  BY ManagerFields, ActiveTreeType DEF HasActive
<1>1. CASE HasLeaf(ActiveTree(m), ActiveTree(m).focus)
  <2> DEFINE t   == RemoveFocused(ActiveTree(m))
             cut == WithActiveTree(m, t)
  <2>1. tm' = DropIfEmpty(cut, m.active)
    BY <1>1 DEF SurfaceClosed
  <2>2. t \in TreeType(PaneIds)
    BY <1>0, <1>1, RemoveFocusedType
  <2> HIDE DEF t
  <2>3. /\ cut \in ManagerType(PaneIds) /\ ListOK(cut) /\ cut.active = m.active
        /\ Len(cut.tabs) = Len(m.tabs)
        /\ \A k \in 1..Len(m.tabs) : cut.tabs[k].id = m.tabs[k].id
    BY <2>2, WithActiveTreeKeeps, WithActiveTreeList
  <2> HIDE DEF cut
  <2> QED BY <1>0, <2>1, <2>3, DropIfEmptyStays
<1>2. CASE ~HasLeaf(ActiveTree(m), ActiveTree(m).focus)
  BY <1>0, <1>2, RemoveTabStays DEF SurfaceClosed
<1> QED BY <1>1, <1>2

\* A list with the same tabs stands for the other.
LEMMA StaysOnSame ==
    ASSUME NEW P, NEW m \in ManagerType(P), HasActive(m), NEW c, c.active = m.active,
           \A k \in 1..Len(m.tabs) : c.tabs[k].id = m.tabs[k].id, NEW x, StaysOn(c, x)
    PROVE  StaysOn(m, x)
<1>1. m.active + 1 \in 1..Len(m.tabs)
  BY ManagerFields DEF HasActive
<1> QED BY <1>1 DEF StaysOn, ActiveTabId

\* break_active_pane_to_tab leaves at least as many tabs.
LEMMA BreakActivePaneLength ==
    ASSUME NEW P, NEW m \in ManagerType(P), HasActive(m),
           HasLeaf(ActiveTree(m), ActiveTree(m).focus)
    PROVE  Len(BreakActivePane(m).tabs) >= Len(m.tabs)
<1> DEFINE t    == RemoveFocused(ActiveTree(m))
           cut  == WithActiveTree(m, t)
           d    == DropIfEmpty(cut, m.active)
           pane == FocusedPaneOf(m)
<1>1. pane \in P /\ t \in TreeType(P)
  BY ActiveTreeType, FocusedPaneType, RemoveFocusedType DEF FocusedPaneOf
<1>2. BreakActivePane(m) = NewTabWith(d, pane)
  BY DEF BreakActivePane
<1>3. m.active \in Nat /\ m.active < Len(m.tabs) /\ Len(m.tabs) \in Nat
  BY ManagerFields DEF HasActive
<1> HIDE DEF t, pane
<1>4. cut \in ManagerType(P) /\ Len(cut.tabs) = Len(m.tabs)
  BY <1>1, WithActiveTreeKeeps
<1> HIDE DEF cut
<1>5. d \in ManagerType(P)
  BY <1>3, <1>4, DropIfEmptyType
<1>6. Len(d.tabs) >= Len(m.tabs) - 1
  <2>1. CASE d = cut
    BY <1>3, <1>4, <2>1
  <2>2. CASE d = RemoveTab(cut, m.active)
    <3>1. d.tabs = RemoveAt(cut.tabs, m.active + 1)
      BY <1>4, <2>2 DEF RemoveTab, ManagerType
    <3>2. m.active + 1 \in 1..Len(cut.tabs) /\ cut.tabs \in Seq(TabType(P))
      BY <1>3, <1>4, ManagerFields
    <3>3. Len(d.tabs) = Len(cut.tabs) - 1
      BY <3>1, <3>2, RemoveAtProperties
    <3> QED BY <1>3, <1>4, <3>3
  <2> QED BY <2>1, <2>2 DEF DropIfEmpty
<1> HIDE DEF d
<1>7. Len(NewTabWith(d, pane).tabs) = Len(d.tabs) + 1
  <2>1. NewTabWith(d, pane).tabs = Pushed(d, pane)
    BY <1>5 DEF NewTabWith, ManagerType
  <2> QED BY <1>1, <1>5, <2>1, PushedType
<1> QED BY <1>3, <1>2, <1>5, <1>6, <1>7, ManagerFields

LEMMA NewTabLength ==
    ASSUME NEW P, NEW m \in ManagerType(P), NEW pane \in P
    PROVE  /\ Len(AddInitialTab(m, pane).tabs) >= Len(m.tabs)
           /\ Len(NewTabWith(m, pane).tabs) >= Len(m.tabs)
<1>1. /\ AddInitialTab(m, pane).tabs = Pushed(m, pane)
      /\ NewTabWith(m, pane).tabs = Pushed(m, pane)
  BY DEF AddInitialTab, NewTabWith, ManagerType
<1>2. Len(Pushed(m, pane)) = Len(m.tabs) + 1 /\ Len(m.tabs) \in Nat
  BY PushedType, ManagerFields
<1> QED BY <1>1, <1>2

\* Closing, destroying or emptying another tab leaves the user on the active
\* one, whichever index remove_tab took out.
THEOREM ActiveTabStays == Spec => ActiveTabStable
<1> DEFINE Stays == (/\ HasActive(tm)
                     /\ Len(tm'.tabs) < Len(tm.tabs)
                     /\ ActiveTabId(tm) \in TabIds(tm')) => ActiveTabId(tm') = ActiveTabId(tm)
<1>1. TypeOK /\ ListOK(tm) /\ [Next]_vars => [Stays]_vars
  <2> SUFFICES ASSUME TypeOK, ListOK(tm), Next, HasActive(tm),
                      Len(tm'.tabs) < Len(tm.tabs), ActiveTabId(tm) \in TabIds(tm')
               PROVE  ActiveTabId(tm') = ActiveTabId(tm)
    OBVIOUS
  <2>0. /\ tm \in ManagerType(PaneIds) /\ nextPane \in PaneIds
        /\ ActiveTree(tm) \in TreeType(PaneIds) /\ Len(tm.tabs) \in Nat
        /\ tm.active \in Nat /\ tm.active < Len(tm.tabs)
    BY ActiveTreeType, ManagerFields DEF TypeOK, HasActive
  <2>1. ASSUME StaysOn(tm, tm')
        PROVE  ActiveTabId(tm') = ActiveTabId(tm)
    BY <2>1 DEF StaysOn
  <2>2. ASSUME Len(tm'.tabs) >= Len(tm.tabs), Len(tm'.tabs) \in Nat
        PROVE  FALSE
    BY <2>0, <2>2
  <2>3. ASSUME NEW t \in TreeType(PaneIds), tm' = WithActiveTree(tm, t)
        PROVE  FALSE
    <3>1. Len(tm'.tabs) = Len(tm.tabs)
      BY <2>0, <2>3, WithActiveTreeKeeps
    <3> QED BY <2>0, <3>1
  <2>4. ASSUME NEW x, tm' = x, x \in ManagerType(PaneIds), Len(x.tabs) >= Len(tm.tabs)
        PROVE  FALSE
    BY <2>0, <2>4, ManagerFields
  <2>5. CASE InitSurface \/ NewTab
    BY <2>0, <2>4, <2>5, NewTabType, NewTabLength DEF InitSurface, NewTab
  <2>6. CASE CreateSplit
    BY <2>0, <2>3, <2>6, SplitFocusedType DEF CreateSplit
  <2>7. CASE LoadStep
    <3>1. Head(loading) \in {"tab", "split"}
      BY <2>7, HeadTailProperties DEF LoadStep, TypeOK
    <3>2. CASE Head(loading) = "tab"
      <4>1. tm' = NewTabWith(tm, nextPane)
        BY <2>7, <3>2 DEF LoadStep
      <4> QED BY <2>0, <2>4, <4>1, NewTabType, NewTabLength
    <3>3. CASE Head(loading) = "split"
      <4>1. tm' = WithActiveTree(tm, SplitFocused(ActiveTree(tm), nextPane))
        BY <2>7, <3>3 DEF LoadStep
      <4> QED BY <2>0, <2>3, <4>1, SplitFocusedType
    <3> QED BY <3>1, <3>2, <3>3
  <2>8. CASE UNCHANGED tm
    BY <2>8
  <2>9. LoadLayout \/ LoadStepFails \/ MarkPane \/ ClearMarkedPane => UNCHANGED tm
    BY DEF LoadLayout, LoadStepFails, MarkPane, ClearMarkedPane
  <2>10. ASSUME NEW index \in 0..MaxLeafId, FocusSurface(index)
         PROVE  FALSE
    BY <2>0, <2>3, <2>10, BoundsAssumption, SetFocusType DEF FocusSurface, OnActiveTree
  <2>11. ASSUME NEW pane \in AllPanes(tm), FocusPaneById(pane)
         PROVE  FALSE
    BY <2>0, <2>3, <2>11, SetFocusToPaneType DEF FocusPaneById, OnActiveTree
  <2>12. ASSUME NEW id \in 0..MaxLeafId, SwitchFocus(id) \/ FocusAt(id)
         PROVE  FALSE
    BY <2>0, <2>3, <2>12, BoundsAssumption, SetFocusType DEF SwitchFocus, FocusAt, OnActiveTree
  <2>13. CASE NextPane \/ PreviousPane
    BY <2>0, <2>3, <2>13, FocusNextType, FocusPrevType DEF NextPane, PreviousPane, OnActiveTree
  <2>14. ASSUME NEW next \in BOOLEAN, SwapPane(next)
         PROVE  FALSE
    BY <2>0, <2>3, <2>14, SwapFocusedType DEF SwapPane, OnActiveTree
  <2>15. ASSUME NEW forward \in BOOLEAN, RotateActive(forward)
         PROVE  FALSE
    BY <2>0, <2>3, <2>15, RotatePanesType DEF RotateActive, OnActiveTree
  <2>16. CASE ApplyLayout
    BY <2>0, <2>3, <2>16, RebuildType DEF ApplyLayout, OnActiveTree
  <2>17. ASSUME NEW index, Navigate(index)
         PROVE  FALSE
    <3>1. tm'.tabs = tm.tabs
      BY <2>0, <2>17 DEF Navigate, GotoIndex, ManagerType
    <3> QED BY <2>0, <3>1
  <2>18. (\E index \in 0..MaxTabs : GotoTab(index)) \/ NextTab \/ PrevTab \/ PreviousTab => FALSE
    BY <2>17 DEF GotoTab, NextTab, PrevTab, PreviousTab
  <2>19. ASSUME NEW pane \in AllPanes(tm), SelectTreeEntry(pane)
         PROVE  FALSE
    <3> DEFINE i == IndexOfPane(tm, pane)
               m == GotoIndex(tm, i)
               t == SetFocusToPane(ActiveTree(m), pane)
    <3>1. i \in Nat /\ i < Len(tm.tabs)
      BY <2>0, IndexOfPaneIn
    <3>2. m \in ManagerType(PaneIds)
      BY <2>0, <3>1, GotoIndexType
    <3>3. m.active = i /\ m.tabs = tm.tabs
      <4> HIDE DEF i
      <4> QED BY <2>0, <3>1, ManagerFields DEF GotoIndex
    <3>4. tm' = WithActiveTree(m, t)
      BY <2>19 DEF SelectTreeEntry
    <3> HIDE DEF m, i
    <3>5. HasActive(m)
      BY <3>1, <3>3 DEF HasActive
    <3>6. t \in TreeType(PaneIds)
      BY <3>2, <3>5, ActiveTreeType, SetFocusToPaneType
    <3> HIDE DEF t
    <3>7. Len(tm'.tabs) = Len(tm.tabs)
      BY <3>2, <3>3, <3>4, <3>5, <3>6, WithActiveTreeKeeps
    <3> QED BY <2>0, <3>7
  <2>20. CASE CloseSurface
    BY <2>0, <2>1, <2>20, SurfaceClosedStays DEF CloseSurface
  <2>21. ASSUME NEW pane \in AllPanes(tm), PaneExited(pane)
         PROVE  ActiveTabId(tm') = ActiveTabId(tm)
    <3> DEFINE t == SetFocusToPane(ActiveTree(tm), pane)
               c == WithActiveTree(tm, t)
    <3>1. SurfaceClosed(c)
      BY <2>21 DEF PaneExited
    <3>2. t \in TreeType(PaneIds)
      BY <2>0, SetFocusToPaneType
    <3> HIDE DEF t
    <3>3. /\ c \in ManagerType(PaneIds) /\ HasActive(c) /\ ListOK(c) /\ c.active = tm.active
          /\ \A k \in 1..Len(tm.tabs) : c.tabs[k].id = tm.tabs[k].id
      BY <2>0, <3>2, WithActiveTreeKeeps, WithActiveTreeList
    <3> HIDE DEF c
    <3>4. StaysOn(tm, tm')
      BY <2>0, <3>1, <3>3, SurfaceClosedStays, StaysOnSame
    <3> QED BY <2>1, <3>4
  <2>22. ASSUME NEW index \in Nat, index < Len(tm.tabs), RemoveTabAt(index)
         PROVE  ActiveTabId(tm') = ActiveTabId(tm)
    BY <2>0, <2>1, <2>22, RemoveTabStays DEF RemoveTabAt
  <2>23. CASE CloseTab
    BY <2>0, <2>22, <2>23 DEF CloseTab
  <2>24. ASSUME NEW id \in TabIds(tm), DestroyTab(id)
         PROVE  ActiveTabId(tm') = ActiveTabId(tm)
    BY <2>0, <2>22, <2>24, IndexOfTabIn DEF DestroyTab
  <2>25. CASE BreakPane
    <3>1. tm' = BreakActivePane(tm) /\ HasLeaf(ActiveTree(tm), ActiveTree(tm).focus)
      BY <2>25 DEF BreakPane
    <3> QED BY <2>0, <2>4, <3>1, BreakActivePaneType, BreakActivePaneLength
  <2>26. CASE JoinMarkedPane
    <3>1. CASE marked \in AllPanes(tm)
      <4> DEFINE index == IndexOfPane(tm, marked)
                 t     == RemovePane(tm.tabs[index + 1].tree, marked)
                 cut   == [tm EXCEPT !.tabs[index + 1].tree = t]
                 m     == RemovePaneById(tm, marked)
      <4>1. /\ index \in Nat /\ index < Len(tm.tabs) /\ index + 1 \in 1..Len(tm.tabs)
            /\ marked \in PanesOf(tm.tabs[index + 1].tree)
        BY <2>0, <3>1, IndexOfPaneIn, ManagerFields
      <4>2. m = DropIfEmpty(cut, index) /\ m \in ManagerType(PaneIds)
        BY <2>0, <3>1, RemovePaneByIdType DEF RemovePaneById
      <4>3. /\ marked \in PaneIds
            /\ tm' = IF HasActive(m)
                     THEN WithActiveTree(m, SplitFocused(ActiveTree(m), marked))
                     ELSE m
        BY <2>26, <3>1 DEF JoinMarkedPane, TypeOK, PaneIds
      <4> HIDE DEF m, index
      <4>4. t \in TreeType(PaneIds)
        BY <2>0, <4>1, ManagerFields, RemovePaneType
      <4> HIDE DEF t
      <4>5. /\ cut \in ManagerType(PaneIds) /\ ListOK(cut) /\ cut.active = tm.active
            /\ Len(cut.tabs) = Len(tm.tabs)
            /\ \A k \in 1..Len(tm.tabs) : cut.tabs[k].id = tm.tabs[k].id
        BY <2>0, <4>1, <4>4, WithTreeKeeps, WithTreeList
      <4> HIDE DEF cut
      <4>6. StaysOn(tm, m)
        BY <2>0, <4>1, <4>2, <4>5, DropIfEmptyStays
      <4>7. CASE ~HasActive(m)
        BY <2>1, <4>3, <4>6, <4>7
      <4>8. CASE HasActive(m)
        <5> DEFINE u == SplitFocused(ActiveTree(m), marked)
        <5>1. u \in TreeType(PaneIds)
          BY <4>2, <4>3, <4>8, ActiveTreeType, SplitFocusedType
        <5>2. tm' = WithActiveTree(m, u)
          BY <4>3, <4>8
        <5> HIDE DEF u
        <5>3. /\ tm' \in ManagerType(PaneIds) /\ tm'.active = m.active
              /\ Len(tm'.tabs) = Len(m.tabs)
              /\ \A k \in 1..Len(m.tabs) : tm'.tabs[k].id = m.tabs[k].id
          BY <4>2, <4>8, <5>1, <5>2, WithActiveTreeKeeps
        <5>4. /\ DOMAIN m.tabs = 1..Len(m.tabs) /\ DOMAIN tm'.tabs = 1..Len(m.tabs)
              /\ m.active + 1 \in 1..Len(m.tabs)
          BY <4>2, <4>8, <5>3, ManagerFields DEF HasActive
        <5>5. TabIds(tm') = TabIds(m)
          BY <5>3, <5>4 DEF TabIds
        <5>6. ActiveTabId(tm') = ActiveTabId(m)
          BY <5>3, <5>4 DEF ActiveTabId
        <5> QED BY <4>6, <5>5, <5>6 DEF StaysOn
      <4> QED BY <4>7, <4>8
    <3>2. CASE marked \notin AllPanes(tm)
      BY <2>8, <2>26, <3>2 DEF JoinMarkedPane
    <3> QED BY <3>1, <3>2
  <2> QED
    BY <2>5, <2>6, <2>7, <2>8, <2>9, <2>10, <2>11, <2>12, <2>13, <2>14, <2>15, <2>16, <2>18,
       <2>19, <2>20, <2>21, <2>23, <2>24, <2>25, <2>26
    DEF Next
<1>2. ActiveInRange /\ TabIdsIncreasing <=> ListOK(tm)
  BY DEF ListOK, ActiveOK, IdsOK, ActiveInRange, TabIdsIncreasing
<1> HIDE DEF Stays
<1>3. Spec => [][Stays]_vars
  BY <1>1, <1>2, TypeCorrect, ListCorrect, PTL DEF Spec
<1> QED BY <1>3 DEF Stays, ActiveTabStable

\* The exit of a terminal process frees its own pane and no other, whichever
\* pane had the focus (close_pane_by_id focuses it before it closes).
THEOREM ExitFreesItsPane == Spec => ExitFreesOnlyThatPane
<1> DEFINE Frees1 == \A pane \in AllPanes(tm) : PaneExited(pane) => live' = live \ {pane}
<1>1. TypeOK /\ PanesInv => Frees1
  <2> SUFFICES ASSUME TypeOK, PanesInv, NEW pane \in AllPanes(tm), PaneExited(pane)
               PROVE  live' = live \ {pane}
    OBVIOUS
  <2> DEFINE old == ActiveTree(tm)
             t   == SetFocusToPane(old, pane)
             m   == WithActiveTree(tm, t)
  <2>1. HasActive(tm) /\ pane \in PanesOf(old) /\ SurfaceClosed(m)
    BY DEF PaneExited
  <2>2. tm \in ManagerType(PaneIds) /\ tm.active + 1 \in DOMAIN tm.tabs
    BY <2>1, ManagerFields DEF TypeOK, HasActive
  <2>3. old \in TreeType(PaneIds) /\ TreeOK(old)
    BY <2>1, <2>2, ActiveTreeType DEF PanesInv, PanesOK, ActiveTree
  <2>4. t \in TreeType(PaneIds) /\ HasLeaf(t, t.focus) /\ FocusedPane(t) = pane
    BY <2>1, <2>3, SetFocusToPaneType, SetFocusToPaneFocuses
  <2> HIDE DEF t
  <2>5. ActiveTree(m) = t
    BY <2>1, <2>2, <2>4, WithActiveTreeKeeps
  <2> QED BY <2>1, <2>4, <2>5 DEF SurfaceClosed, Frees
<1> HIDE DEF Frees1
<1>2. Spec => [][Frees1]_vars
  BY <1>1, TypeCorrect, PanesInvariant, PTL
<1> QED BY <1>2 DEF Frees1, ExitFreesOnlyThatPane

\* rebuild_from_panes keeps the focused pane focused.
LEMMA RebuildKeepsFocus ==
    ASSUME NEW P, NEW t \in TreeType(P), HasLeaf(t, t.focus)
    PROVE  LET u == Rebuild(t)
           IN  HasLeaf(u, u.focus) /\ FocusedPane(u) = FocusedPane(t)
<1> DEFINE n == Len(t.leaves)
           i == LeafIndex(t, t.focus)
           u == Rebuild(t)
<1>1. i \in 1..n /\ n \in Nat
  BY LeafIndexIn, TreeFields
<1>2. /\ u.leaves = [k \in 1..n |-> [id |-> k - 1, pane |-> t.leaves[k].pane]]
      /\ u.focus = i - 1
  BY DEF Rebuild
<1>3. FocusedPane(t) = t.leaves[i].pane
  BY DEF FocusedPane
<1> HIDE DEF u, i, n
<1>4. /\ DOMAIN u.leaves = 1..n
      /\ \A k \in 1..n : u.leaves[k].id = k - 1 /\ u.leaves[k].pane = t.leaves[k].pane
  BY <1>2
<1>5. HasLeaf(u, u.focus)
  <2>1. i \in DOMAIN u.leaves /\ u.leaves[i].id = u.focus
    BY <1>1, <1>2, <1>4
  <2> QED BY <2>1 DEF HasLeaf
<1>6. LeafIndex(u, u.focus) \in 1..n /\ LeafIndex(u, u.focus) - 1 = i - 1
  <2>1. LeafIndex(u, u.focus) \in 1..n /\ u.leaves[LeafIndex(u, u.focus)].id = u.focus
    BY <1>4, <1>5, LeafIndexIn
  <2> QED BY <1>2, <1>4, <2>1
<1>7. LeafIndex(u, u.focus) = i
  BY <1>1, <1>6
<1> QED BY <1>1, <1>3, <1>4, <1>5, <1>7 DEF FocusedPane, u

\* A layout numbers the leaves anew and keeps the focused pane focused
\* (apply_layout_to_active carries the focus over rebuild_from_panes).
THEOREM LayoutKeepsTheFocus == Spec => LayoutKeepsFocus
<1> DEFINE Keeps == (ApplyLayout /\ FocusedPaneOf(tm) # NullPane)
                        => FocusedPaneOf(tm') = FocusedPaneOf(tm)
<1>1. TypeOK => Keeps
  <2> SUFFICES ASSUME TypeOK, ApplyLayout, FocusedPaneOf(tm) # NullPane
               PROVE  FocusedPaneOf(tm') = FocusedPaneOf(tm)
    OBVIOUS
  <2> DEFINE old == ActiveTree(tm)
             t   == IF Len(old.leaves) > 1 THEN Rebuild(old) ELSE old
  <2>1. HasActive(tm) /\ tm' = WithActiveTree(tm, t) /\ tm \in ManagerType(PaneIds)
    BY DEF ApplyLayout, OnActiveTree, TypeOK
  <2>2. FocusedPaneOf(tm) = FocusedPane(old)
    BY <2>1 DEF FocusedPaneOf
  <2>3. old \in TreeType(PaneIds) /\ HasLeaf(old, old.focus)
    BY <2>1, <2>2, ActiveTreeType DEF FocusedPane
  <2>4. t \in TreeType(PaneIds) /\ FocusedPane(t) = FocusedPane(old)
    BY <2>3, RebuildType, RebuildKeepsFocus
  <2> HIDE DEF t
  <2>5. HasActive(tm') /\ ActiveTree(tm') = t
    BY <2>1, <2>4, WithActiveTreeKeeps
  <2> QED BY <2>2, <2>4, <2>5 DEF FocusedPaneOf
<1> HIDE DEF Keeps
<1>2. Spec => [][Keeps]_vars
  BY <1>1, TypeCorrect, PTL
<1> QED BY <1>2 DEF Keeps, LayoutKeepsFocus

-----------------------------------------------------------------------------
(* Nothing is lost.                                                        *)

\* load_layout has a tab to split when it comes to a split.
LoadingHasTab == (loading # <<>> /\ Head(loading) = "split") => HasActive(tm)

SoundInv == Sound(tm, live) /\ LoadingHasTab

\* The invariants proved before.
BaseInv == TypeOK /\ ListOK(tm) /\ PanesInv

LEMMA SurfaceClosedSound ==
    ASSUME NEW m \in ManagerType(PaneIds), HasActive(m), PanesOK(m, live), Sound(m, live),
           SurfaceClosed(m)
    PROVE  Sound(tm', live')
<1> DEFINE old  == ActiveTree(m)
           t    == RemoveFocused(old)
           pane == FocusedPane(old)
<1>0. /\ m.active \in Nat /\ m.active < Len(m.tabs) /\ old = m.tabs[m.active + 1].tree
      /\ m.active + 1 \in DOMAIN m.tabs
  BY ManagerFields DEF HasActive, ActiveTree
<1>1. old \in TreeType(PaneIds) /\ TreeOK(old) /\ HasLeaf(old, old.focus)
  BY <1>0, ActiveTreeType DEF PanesOK, Sound, Resolves
<1>2. t \in TreeType(PaneIds) /\ PanesOf(t) = PanesOf(old) \ {pane}
  BY <1>1, RemoveFocusedType, RemoveFocusedPanes
<1>3. t.leaves = <<>> \/ Resolves(t)
  BY <1>1, LeafIndexIn, RemoveLeafResolves DEF RemoveFocused
<1>4. /\ live' = live \ {pane}
      /\ tm' = DropIfEmpty([m EXCEPT !.tabs[m.active + 1].tree = t], m.active)
  BY <1>1 DEF SurfaceClosed, Frees, WithActiveTree
<1> HIDE DEF t, pane, old
<1>5. PanesOf(t) = PanesOf(m.tabs[m.active + 1].tree) \ {pane}
  BY <1>0, <1>2
<1>6. Sound(DropIfEmpty([m EXCEPT !.tabs[m.active + 1].tree = t], m.active), live \ {pane})
  BY <1>0, <1>2, <1>3, <1>5, CutSound
<1> QED BY <1>4, <1>6

\* The active tree after an operation that keeps its panes.
LEMMA ActiveTreeStepSound ==
    ASSUME TypeOK, Sound(tm, live), HasActive(tm), NEW t \in TreeType(PaneIds), Resolves(t),
           PanesOf(ActiveTree(tm)) \subseteq PanesOf(t),
           tm' = WithActiveTree(tm, t), KeepsPanes
    PROVE  Sound(tm', live')
<1>1. tm \in ManagerType(PaneIds) /\ live' = live
  BY DEF TypeOK, KeepsPanes
<1>2. \A p \in live : p \in PanesOf(t) \/ (p \in live /\ p \notin PanesOf(ActiveTree(tm)))
  OBVIOUS
<1>3. Sound(WithActiveTree(tm, t), live)
  BY <1>1, <1>2, WithActiveTreeSound
<1> QED BY <1>1, <1>3

\* A step that does not stray.
LEMMA StepSound ==
    ASSUME BaseInv, SoundInv, Next, ~Strays
    PROVE  SoundInv'
<1>0. /\ tm \in ManagerType(PaneIds) /\ nextPane \in PaneIds /\ nextPane \notin live
      /\ TypeOK /\ ListOK(tm) /\ PanesOK(tm, live) /\ Sound(tm, live)
      /\ HasActive(tm) => /\ tm.active \in Nat /\ tm.active < Len(tm.tabs)
                          /\ ActiveTree(tm) \in TreeType(PaneIds)
                          /\ TreeOK(ActiveTree(tm)) /\ Resolves(ActiveTree(tm))
                          /\ PanesOf(ActiveTree(tm)) \subseteq live
  <2>1. tm \in ManagerType(PaneIds) /\ nextPane \in PaneIds /\ live \subseteq Nat
    BY DEF BaseInv, TypeOK, PaneIds
  <2>2. /\ nextPane \notin live /\ PanesOK(tm, live) /\ TypeOK /\ ListOK(tm)
        /\ Sound(tm, live)
    BY <2>1 DEF BaseInv, PanesInv, PaneIds, SoundInv
  <2>3. HasActive(tm) => tm.active \in Nat /\ tm.active < Len(tm.tabs)
                         /\ tm.active + 1 \in DOMAIN tm.tabs
    BY <2>1, ManagerFields DEF HasActive
  <2> QED BY <2>1, <2>2, <2>3, ActiveTreeType DEF PanesOK, ActiveTree, Sound
<1>1. ASSUME Sound(tm', live'), Idle, loading' = loading
      PROVE  SoundInv'
  BY <1>1 DEF SoundInv, LoadingHasTab, Idle
<1>2. ASSUME NEW t \in TreeType(PaneIds), HasActive(tm), Resolves(t), Idle, KeepsPanes,
             PanesOf(ActiveTree(tm)) \subseteq PanesOf(t), tm' = WithActiveTree(tm, t)
      PROVE  SoundInv'
  BY <1>0, <1>1, <1>2, ActiveTreeStepSound DEF KeepsPanes
<1>3. CASE InitSurface
  <2>1. tm' = AddInitialTab(tm, nextPane) /\ live' = live \cup {nextPane}
    BY <1>3 DEF InitSurface, CreatePane
  <2>2. Sound(tm', live')
    BY <1>0, <2>1, NewTabSound
  <2>3. HasActive(tm')
    <3>1. ListOK(tm') /\ tm' \in ManagerType(PaneIds)
      BY <1>0, <1>3, <2>1, AddInitialTabList, NewTabType DEF InitSurface
    <3>2. tm'.tabs = Pushed(tm, nextPane)
      BY <1>0, <2>1 DEF AddInitialTab, ManagerType
    <3>3. Len(tm'.tabs) = Len(tm.tabs) + 1 /\ Len(tm.tabs) \in Nat
      BY <1>0, <3>2, PushedType, ManagerFields
    <3>4. tm'.tabs # <<>>
      BY <3>1, <3>3, EmptyByLength
    <3> QED BY <3>1, <3>4 DEF ListOK, ActiveOK, HasActive
  <2> QED BY <2>2, <2>3 DEF SoundInv, LoadingHasTab
<1>4. ASSUME tm' = NewTabWith(tm, nextPane), CreatePane
      PROVE  Sound(tm', live') /\ HasActive(tm')
  <2>1. live' = live \cup {nextPane}
    BY <1>4 DEF CreatePane
  <2>2. Sound(tm', live')
    BY <1>0, <1>4, <2>1, NewTabSound
  <2>3. tm'.tabs = Pushed(tm, nextPane) /\ tm'.active = Len(tm.tabs)
    BY <1>0, <1>4 DEF NewTabWith, ManagerType
  <2>4. Len(tm'.tabs) = Len(tm.tabs) + 1 /\ Len(tm.tabs) \in Nat
    BY <1>0, <2>3, PushedType, ManagerFields
  <2> QED BY <2>2, <2>3, <2>4 DEF HasActive
<1>5. ASSUME HasActive(tm), CreatePane,
             tm' = WithActiveTree(tm, SplitFocused(ActiveTree(tm), nextPane))
      PROVE  Sound(tm', live') /\ HasActive(tm')
  <2> DEFINE t == SplitFocused(ActiveTree(tm), nextPane)
  <2>1. live' = live \cup {nextPane}
    BY <1>5 DEF CreatePane
  <2>2. nextPane \notin PanesOf(ActiveTree(tm))
    BY <1>0, <1>5
  <2>3. /\ t \in TreeType(PaneIds) /\ Resolves(t) /\ nextPane \in PanesOf(t)
        /\ PanesOf(ActiveTree(tm)) \subseteq PanesOf(t)
    BY <1>0, <1>5, <2>2, SplitFocusedType, SplitFocusedResolves, SplitFocusedPanes
  <2>4. tm' = WithActiveTree(tm, t)
    BY <1>5
  <2> HIDE DEF t
  <2>5. \A p \in live' : p \in PanesOf(t) \/ (p \in live /\ p \notin PanesOf(ActiveTree(tm)))
    BY <2>1, <2>3
  <2>6. Sound(WithActiveTree(tm, t), live')
    BY <1>0, <1>5, <2>3, <2>5, WithActiveTreeSound
  <2>7. HasActive(tm')
    BY <1>0, <1>5, <2>3, <2>4, WithActiveTreeKeeps
  <2> QED BY <2>4, <2>6, <2>7
<1>6. CASE NewTab
  <2>1. Idle /\ loading' = loading /\ tm' = NewTabWith(tm, nextPane) /\ CreatePane
    BY <1>6 DEF NewTab
  <2> QED BY <1>1, <1>4, <2>1
<1>7. CASE CreateSplit
  <2>1. /\ Idle /\ loading' = loading /\ HasActive(tm) /\ CreatePane
        /\ tm' = WithActiveTree(tm, SplitFocused(ActiveTree(tm), nextPane))
    BY <1>7 DEF CreateSplit
  <2> QED BY <1>1, <1>5, <2>1
<1>8. CASE LoadLayout
  <2>1. /\ tm' = tm /\ live' = live
        /\ loading' \in Layouts /\ loading' # <<>>
    BY <1>8 DEF LoadLayout
  <2>2. Head(loading') = "tab"
    BY <2>1, LayoutsAssumption
  <2>3. Sound(tm', live')
    BY <1>0, <2>1
  <2> QED BY <2>2, <2>3 DEF SoundInv, LoadingHasTab
<1>9. CASE LoadStep
  <2>1. Head(loading) \in {"tab", "split"} /\ loading # <<>>
    BY <1>9, HeadTailProperties DEF LoadStep, BaseInv, TypeOK
  <2>2. Sound(tm', live') /\ HasActive(tm')
    <3>1. CASE Head(loading) = "tab"
      <4>1. tm' = NewTabWith(tm, nextPane) /\ CreatePane
        BY <1>9, <3>1 DEF LoadStep
      <4> QED BY <1>4, <4>1
    <3>2. CASE Head(loading) = "split"
      <4>1. HasActive(tm)
        BY <2>1, <3>2 DEF SoundInv, LoadingHasTab
      <4>2. CreatePane /\ tm' = WithActiveTree(tm, SplitFocused(ActiveTree(tm), nextPane))
        BY <1>9, <3>2, <4>1 DEF LoadStep
      <4> QED BY <1>5, <4>1, <4>2
    <3> QED BY <2>1, <3>1, <3>2
  <2> QED BY <2>2 DEF SoundInv, LoadingHasTab
<1>10. CASE LoadStepFails
  BY <1>10 DEF Strays
<1>11. ASSUME NEW index \in 0..MaxLeafId, FocusSurface(index)
       PROVE  SoundInv'
  <2>1. /\ HasActive(tm) /\ KeepsPanes /\ Idle
        /\ tm' = WithActiveTree(tm, SetFocus(ActiveTree(tm), index))
    BY <1>11 DEF FocusSurface, OnActiveTree
  <2>2. HasLeaf(ActiveTree(tm), index) /\ index \in Nat
    BY <1>11, BoundsAssumption DEF Strays
  <2>3. /\ SetFocus(ActiveTree(tm), index) \in TreeType(PaneIds)
        /\ Resolves(SetFocus(ActiveTree(tm), index))
        /\ SetFocus(ActiveTree(tm), index).leaves = ActiveTree(tm).leaves
    BY <1>0, <2>1, <2>2, SetFocusType, SetFocusResolves, FocusingKeepsLeaves
  <2> QED BY <1>2, <2>1, <2>3 DEF PanesOf
<1>12. ASSUME NEW pane \in AllPanes(tm), FocusPaneById(pane)
       PROVE  SoundInv'
  <2> DEFINE t == SetFocusToPane(ActiveTree(tm), pane)
  <2>1. HasActive(tm) /\ KeepsPanes /\ Idle /\ tm' = WithActiveTree(tm, t)
    BY <1>12 DEF FocusPaneById, OnActiveTree
  <2>2. t \in TreeType(PaneIds) /\ Resolves(t) /\ t.leaves = ActiveTree(tm).leaves
    BY <1>0, <2>1, SetFocusToPaneType, SetFocusToPaneResolves, FocusingKeepsLeaves
  <2> HIDE DEF t
  <2> QED BY <1>2, <2>1, <2>2 DEF PanesOf
<1>13. ASSUME NEW id \in 0..MaxLeafId, SwitchFocus(id) \/ FocusAt(id)
       PROVE  SoundInv'
  <2> DEFINE t == SetFocus(ActiveTree(tm), id)
  <2>1. /\ HasActive(tm) /\ KeepsPanes /\ Idle /\ tm' = WithActiveTree(tm, t)
        /\ HasLeaf(ActiveTree(tm), id) /\ id \in Nat
    BY <1>13, BoundsAssumption DEF SwitchFocus, FocusAt, OnActiveTree
  <2>2. t \in TreeType(PaneIds) /\ Resolves(t) /\ t.leaves = ActiveTree(tm).leaves
    BY <1>0, <2>1, SetFocusType, SetFocusResolves, FocusingKeepsLeaves
  <2> HIDE DEF t
  <2> QED BY <1>2, <2>1, <2>2 DEF PanesOf
<1>14. CASE NextPane
  <2> DEFINE t == FocusNext(ActiveTree(tm))
  <2>1. HasActive(tm) /\ KeepsPanes /\ Idle /\ tm' = WithActiveTree(tm, t)
    BY <1>14 DEF NextPane, OnActiveTree
  <2>2. t \in TreeType(PaneIds) /\ Resolves(t) /\ t.leaves = ActiveTree(tm).leaves
    BY <1>0, <2>1, FocusNextType, FocusNextResolves, FocusingKeepsLeaves
  <2> HIDE DEF t
  <2> QED BY <1>2, <2>1, <2>2 DEF PanesOf
<1>15. CASE PreviousPane
  <2> DEFINE t == FocusPrev(ActiveTree(tm))
  <2>1. HasActive(tm) /\ KeepsPanes /\ Idle /\ tm' = WithActiveTree(tm, t)
    BY <1>15 DEF PreviousPane, OnActiveTree
  <2>2. t \in TreeType(PaneIds) /\ Resolves(t) /\ t.leaves = ActiveTree(tm).leaves
    BY <1>0, <2>1, FocusPrevType, FocusNextResolves, FocusingKeepsLeaves
  <2> HIDE DEF t
  <2> QED BY <1>2, <2>1, <2>2 DEF PanesOf
<1>16. ASSUME NEW next \in BOOLEAN, SwapPane(next)
       PROVE  SoundInv'
  <2> DEFINE t == SwapFocused(ActiveTree(tm), next)
  <2>1. HasActive(tm) /\ KeepsPanes /\ Idle /\ tm' = WithActiveTree(tm, t)
    BY <1>16 DEF SwapPane, OnActiveTree
  <2>2. t \in TreeType(PaneIds) /\ Resolves(t) /\ PanesOf(t) = PanesOf(ActiveTree(tm))
    BY <1>0, <2>1, SwapFocusedType, WithPanesResolves, SwapFocusedPanes
  <2> HIDE DEF t
  <2> QED BY <1>2, <2>1, <2>2
<1>17. ASSUME NEW forward \in BOOLEAN, RotateActive(forward)
       PROVE  SoundInv'
  <2> DEFINE t == RotatePanes(ActiveTree(tm), forward)
  <2>1. HasActive(tm) /\ KeepsPanes /\ Idle /\ tm' = WithActiveTree(tm, t)
    BY <1>17 DEF RotateActive, OnActiveTree
  <2>2. t \in TreeType(PaneIds) /\ Resolves(t) /\ PanesOf(t) = PanesOf(ActiveTree(tm))
    BY <1>0, <2>1, RotatePanesType, WithPanesResolves, RotatePanesPanes
  <2> HIDE DEF t
  <2> QED BY <1>2, <2>1, <2>2
<1>18. CASE ApplyLayout
  <2> DEFINE old == ActiveTree(tm)
             t   == IF Len(old.leaves) > 1 THEN Rebuild(old) ELSE old
  <2>1. HasActive(tm) /\ KeepsPanes /\ Idle /\ tm' = WithActiveTree(tm, t)
    BY <1>18 DEF ApplyLayout, OnActiveTree
  <2>2. t \in TreeType(PaneIds) /\ Resolves(t) /\ PanesOf(t) = PanesOf(old)
    BY <1>0, <2>1, RebuildType, RebuildKeepsFocus, RebuildPanes DEF Resolves
  <2> HIDE DEF t
  <2> QED BY <1>2, <2>1, <2>2
<1>19. ASSUME NEW index, Navigate(index)
       PROVE  SoundInv'
  <2>1. tm'.tabs = tm.tabs /\ live' = live /\ Idle /\ loading' = loading
    BY <1>0, <1>19 DEF Navigate, GotoIndex, KeepsPanes, ManagerType
  <2>2. Sound(tm', live')
    BY <1>0, <2>1 DEF Sound, Covers
  <2> QED BY <1>1, <2>1, <2>2
<1>20. (\E index \in 0..MaxTabs : GotoTab(index)) \/ NextTab \/ PrevTab \/ PreviousTab
          => SoundInv'
  BY <1>19 DEF GotoTab, NextTab, PrevTab, PreviousTab
<1>21. ASSUME NEW pane \in AllPanes(tm), SelectTreeEntry(pane)
       PROVE  SoundInv'
  <2> DEFINE i == IndexOfPane(tm, pane)
             m == GotoIndex(tm, i)
             t == SetFocusToPane(ActiveTree(m), pane)
  <2>1. i \in Nat /\ i < Len(tm.tabs)
    BY <1>0, IndexOfPaneIn
  <2>2. m \in ManagerType(PaneIds)
    BY <1>0, <2>1, GotoIndexType
  <2>3. m.active = i /\ m.tabs = tm.tabs
    <3> HIDE DEF i
    <3> QED BY <1>0, <2>1, ManagerFields DEF GotoIndex
  <2>4. tm' = WithActiveTree(m, t) /\ live' = live /\ Idle /\ loading' = loading
    BY <1>21 DEF SelectTreeEntry, KeepsPanes
  <2> HIDE DEF m, i
  <2>5. HasActive(m) /\ m.active + 1 \in DOMAIN m.tabs
    BY <2>1, <2>2, <2>3, ManagerFields DEF HasActive
  <2>6. Sound(m, live)
    BY <1>0, <2>3 DEF Sound, Covers
  <2>7. ActiveTree(m) \in TreeType(PaneIds) /\ Resolves(ActiveTree(m))
    BY <2>2, <2>5, <2>6, ActiveTreeType DEF Sound, ActiveTree
  <2>8. t \in TreeType(PaneIds) /\ Resolves(t) /\ t.leaves = ActiveTree(m).leaves
    BY <2>7, SetFocusToPaneType, SetFocusToPaneResolves, FocusingKeepsLeaves
  <2> HIDE DEF t
  <2>9. \A p \in live : p \in PanesOf(t) \/ (p \in live /\ p \notin PanesOf(ActiveTree(m)))
    BY <2>8 DEF PanesOf
  <2>10. Sound(WithActiveTree(m, t), live)
    BY <2>2, <2>5, <2>6, <2>8, <2>9, WithActiveTreeSound
  <2> QED BY <1>1, <2>4, <2>10
<1>22. CASE CloseSurface
  <2>1. Idle /\ HasActive(tm) /\ SurfaceClosed(tm) /\ loading' = loading
    BY <1>22 DEF CloseSurface, SurfaceClosed, Frees
  <2> QED BY <1>0, <1>1, <2>1, SurfaceClosedSound
<1>23. ASSUME NEW pane \in AllPanes(tm), PaneExited(pane)
       PROVE  SoundInv'
  <2> DEFINE t == SetFocusToPane(ActiveTree(tm), pane)
             m == WithActiveTree(tm, t)
  <2>1. HasActive(tm) /\ Idle /\ SurfaceClosed(m) /\ loading' = loading
    BY <1>23 DEF PaneExited, SurfaceClosed, Frees
  <2>2. /\ t \in TreeType(PaneIds) /\ Resolves(t) /\ t.leaves = ActiveTree(tm).leaves
        /\ t.next = ActiveTree(tm).next
    BY <1>0, <2>1, SetFocusToPaneType, SetFocusToPaneResolves, FocusingKeepsLeaves
  <2> HIDE DEF t
  <2>3. t.next \in Nat /\ ActiveTree(tm).next <= t.next
    BY <2>2, TreeFields
  <2>4. TreeOK(t) /\ PanesOf(t) = PanesOf(ActiveTree(tm))
    BY <1>0, <2>1, <2>2, <2>3, SameLeavesPanes
  <2>5. m \in ManagerType(PaneIds) /\ HasActive(m)
    BY <1>0, <2>1, <2>2, WithActiveTreeKeeps
  <2>6. PanesOK(m, live)
    <3>1. tm.active + 1 \in 1..Len(tm.tabs) /\ {} \cap live = {}
      BY <1>0, <2>1, ManagerFields
    <3>2. PanesOK([tm EXCEPT !.tabs[tm.active + 1].tree = t], live \cup {})
      BY <1>0, <2>1, <2>2, <2>4, <3>1, WithTreePanes DEF ActiveTree
    <3> QED BY <3>2 DEF WithActiveTree
  <2>7. Sound(m, live)
    BY <1>0, <2>1, <2>2, <2>4, WithActiveTreeSound
  <2> HIDE DEF m
  <2> QED BY <1>1, <2>1, <2>5, <2>6, <2>7, SurfaceClosedSound
<1>24. ASSUME NEW index \in Nat, index < Len(tm.tabs), RemoveTabAt(index), Idle
       PROVE  SoundInv'
  <2>1. /\ tm' = RemoveTab(tm, index) /\ loading' = loading
        /\ live' = live \ PanesOf(tm.tabs[index + 1].tree)
    BY <1>24 DEF RemoveTabAt, Frees
  <2>2. Covers(tm, live) /\ \A k \in DOMAIN tm.tabs : Resolves(tm.tabs[k].tree)
    BY <1>0 DEF Sound
  <2>3. Sound(tm', live')
    BY <1>0, <1>24, <2>1, <2>2, RemoveTabSound
  <2> QED BY <1>1, <1>24, <2>1, <2>3
<1>25. CASE CloseTab
  BY <1>0, <1>24, <1>25 DEF CloseTab
<1>26. ASSUME NEW id \in TabIds(tm), DestroyTab(id)
       PROVE  SoundInv'
  BY <1>0, <1>24, <1>26, IndexOfTabIn DEF DestroyTab
<1>27. CASE BreakPane
  <2>1. /\ HasActive(tm) /\ tm' = BreakActivePane(tm) /\ live' = live /\ Idle
        /\ loading' = loading
    BY <1>27 DEF BreakPane, KeepsPanes
  <2>2. Sound(tm', live')
    BY <1>0, <2>1, BreakActivePaneSound
  <2> QED BY <1>1, <2>1, <2>2
<1>28. CASE MarkPane \/ ClearMarkedPane
  <2>1. tm' = tm /\ live' = live /\ Idle /\ loading' = loading
    BY <1>28 DEF MarkPane, ClearMarkedPane
  <2> QED BY <1>0, <1>1, <2>1
<1>29. CASE JoinMarkedPane
  <2>0. live' = live /\ Idle /\ loading' = loading /\ marked # FocusedPaneOf(tm)
    BY <1>29 DEF JoinMarkedPane
  <2>1. CASE marked \in AllPanes(tm)
    <3> DEFINE m == RemovePaneById(tm, marked)
    <3>1. /\ m \in ManagerType(PaneIds) /\ ListOK(m) /\ PanesOK(m, live \ {marked})
          /\ Sound(m, live \ {marked})
      BY <1>0, <2>1, RemovePaneByIdType, RemovePaneByIdList, RemovePaneByIdPanes,
         RemovePaneByIdSound
    <3>2. /\ marked \in PaneIds
          /\ tm' = IF HasActive(m)
                   THEN WithActiveTree(m, SplitFocused(ActiveTree(m), marked))
                   ELSE m
      BY <1>0, <1>29, <2>1 DEF JoinMarkedPane, TypeOK, PaneIds
    <3> HIDE DEF m
    <3>3. HasActive(m)
      <4> SUFFICES ASSUME ~HasActive(m) PROVE FALSE
        OBVIOUS
      <4>1. m.tabs = <<>>
        BY <3>1 DEF ListOK, ActiveOK, HasActive
      <4>2. live \subseteq {marked}
        <5>1. DOMAIN m.tabs = {}
          BY <4>1
        <5> QED BY <3>1, <5>1 DEF Sound, Covers
      <4>3. HasActive(tm)
        <5>1. tm.tabs # <<>>
          BY <2>1 DEF AllPanes
        <5> QED BY <1>0, <5>1 DEF ListOK, ActiveOK, HasActive
      <4>4. FocusedPaneOf(tm) \in live
        BY <1>0, <4>3, RemoveFocusedPanes DEF FocusedPaneOf, Resolves
      <4> QED BY <2>0, <4>2, <4>4
    <3> DEFINE t == SplitFocused(ActiveTree(m), marked)
    <3>4. m.active + 1 \in DOMAIN m.tabs
      BY <3>1, <3>3, ManagerFields DEF HasActive
    <3>5. /\ ActiveTree(m) \in TreeType(PaneIds) /\ TreeOK(ActiveTree(m))
          /\ Resolves(ActiveTree(m)) /\ marked \notin PanesOf(ActiveTree(m))
      BY <3>1, <3>3, <3>4, ActiveTreeType DEF PanesOK, Sound, ActiveTree
    <3>6. /\ t \in TreeType(PaneIds) /\ Resolves(t) /\ marked \in PanesOf(t)
          /\ PanesOf(ActiveTree(m)) \subseteq PanesOf(t)
      BY <3>2, <3>5, SplitFocusedType, SplitFocusedResolves, SplitFocusedPanes
    <3>7. tm' = WithActiveTree(m, t)
      BY <3>2, <3>3
    <3> HIDE DEF t
    <3>8. \A p \in live : p \in PanesOf(t)
                          \/ (p \in live \ {marked} /\ p \notin PanesOf(ActiveTree(m)))
      BY <3>6
    <3>9. Sound(WithActiveTree(m, t), live)
      BY <3>1, <3>3, <3>6, <3>8, WithActiveTreeSound
    <3> QED BY <1>1, <2>0, <3>7, <3>9
  <2>2. CASE marked \notin AllPanes(tm)
    <3>1. tm' = tm
      BY <1>29, <2>2 DEF JoinMarkedPane
    <3> QED BY <1>0, <1>1, <2>0, <3>1
  <2> QED BY <2>1, <2>2
<1> QED
  BY <1>3, <1>6, <1>7, <1>8, <1>9, <1>10, <1>11, <1>12, <1>13, <1>14, <1>15, <1>16, <1>17,
     <1>18, <1>20, <1>21, <1>22, <1>23, <1>25, <1>26, <1>27, <1>28, <1>29
  DEF Next

\* Until a control client names a leaf that is none or a terminal process of a
\* layout fails to start, every tab has a focused leaf, and every terminal process
\* the server runs is in a tab.  (join_marked_pane is the delicate operation: it
\* takes a pane out before it knows where to put it.)
THEOREM NothingIsLost == HistorySpec => []NothingLost
<1> DEFINE Inv == stray \/ SoundInv
<1>1. HistorySpec => Spec
  <2>1. HistoryInit => Init
    BY DEF HistoryInit
  <2>2. [HistoryNext]_<<vars, stray>> => [Next]_vars
    BY DEF HistoryNext
  <2> QED BY <2>1, <2>2, PTL DEF HistorySpec, Spec
<1>2. HistoryInit => Inv
  <2> SUFFICES ASSUME Init PROVE SoundInv
    BY DEF HistoryInit
  <2>1. tm.tabs = <<>> /\ live = {} /\ loading = <<>>
    BY DEF Init, EmptyManager
  <2>2. DOMAIN tm.tabs = {}
    BY <2>1
  <2> QED BY <2>1, <2>2 DEF SoundInv, Sound, Covers, LoadingHasTab
<1>3. BaseInv /\ Inv /\ [HistoryNext]_<<vars, stray>> => Inv'
  <2> SUFFICES ASSUME BaseInv, Inv, [HistoryNext]_<<vars, stray>> PROVE Inv'
    OBVIOUS
  <2>1. CASE HistoryNext /\ (stray \/ Strays)
    BY <2>1 DEF HistoryNext
  <2>2. CASE HistoryNext /\ ~stray /\ ~Strays
    BY <2>2, StepSound DEF HistoryNext
  <2>3. CASE UNCHANGED <<vars, stray>>
    BY <2>3 DEF vars, SoundInv, Sound, Covers, LoadingHasTab, HasActive
  <2> QED BY <2>1, <2>2, <2>3
<1>4. TypeOK /\ ActiveInRange /\ TabIdsIncreasing /\ PanesInv => BaseInv
  BY DEF BaseInv, ListOK, ActiveOK, IdsOK, ActiveInRange, TabIdsIncreasing
<1>5. Inv => NothingLost
  <2>1. ASSUME SoundInv
        PROVE  FocusResolves
    BY <2>1 DEF SoundInv, Sound, Resolves, FocusResolves
  <2>2. ASSUME SoundInv
        PROVE  NoOrphanPane
    BY <2>2 DEF SoundInv, Sound, Covers, NoOrphanPane, AllPanes
  <2> QED BY <2>1, <2>2 DEF NothingLost
<1> HIDE DEF Inv
<1> QED
  BY <1>1, <1>2, <1>3, <1>4, <1>5, TypeCorrect, ListCorrect, PanesInvariant, PTL
  DEF HistorySpec
=============================================================================
