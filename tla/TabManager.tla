----------------------------- MODULE TabManager -----------------------------
(***************************************************************************)
(* The tab list of the server (src/tabs.rs) as operations on a record      *)
(*                                                                         *)
(*    tabs    the sequence of tabs, each an id and a split tree            *)
(*    active  the index of the active tab, from 0 as in the code           *)
(*    prev    prev_active, the index goto_tab left                         *)
(*    nextId  the next tab id to hand out                                  *)
(*                                                                         *)
(* Tab i of the code is tabs[i + 1] here.  Titles, the name of the layout  *)
(* and the running command of a tab do not decide any operation and are    *)
(* left out.                                                               *)
(***************************************************************************)
EXTENDS SplitTree, FiniteSets

TabType(PaneIds) == [id : Nat, tree : TreeType(PaneIds)]

ManagerType(PaneIds) ==
    [tabs : Seq(TabType(PaneIds)), active : Nat, prev : Nat, nextId : Nat]

EmptyManager == [tabs |-> <<>>, active |-> 0, prev |-> 0, nextId |-> 1]

TabIds(m) == {m.tabs[i].id : i \in DOMAIN m.tabs}

AllPanes(m) == UNION {PanesOf(m.tabs[i].tree) : i \in DOMAIN m.tabs}

\* find_index_by_tab_id, when some tab has the id.
IndexOfTab(m, id) == (CHOOSE i \in DOMAIN m.tabs : m.tabs[i].id = id) - 1

\* The tab index find_pane_location finds, when some tab holds the pane.
IndexOfPane(m, pane) ==
    (CHOOSE i \in DOMAIN m.tabs : pane \in PanesOf(m.tabs[i].tree)) - 1

HasActive(m) == m.active < Len(m.tabs)

ActiveTree(m) == m.tabs[m.active + 1].tree

ActiveTabId(m) == m.tabs[m.active + 1].id

\* focused_pane of the active tab, the null pane without one.
FocusedPaneOf(m) == IF HasActive(m) THEN FocusedPane(ActiveTree(m)) ELSE NullPane

WithActiveTree(m, t) == [m EXCEPT !.tabs[m.active + 1].tree = t]

\* Mutant: ids from the length of the list.
PushedReusingId(m, pane) ==
    Append(m.tabs, [id |-> Len(m.tabs) + 1, tree |-> RootTree(pane)])

Pushed(m, pane) == Append(m.tabs, [id |-> m.nextId, tree |-> RootTree(pane)])

\* add_initial_tab leaves `active' alone; new_tab moves to the new tab.
AddInitialTab(m, pane) == [m EXCEPT !.tabs = Pushed(m, pane), !.nextId = @ + 1]

NewTabWith(m, pane) ==
    [m EXCEPT !.tabs = Pushed(m, pane), !.nextId = @ + 1, !.active = Len(m.tabs)]

\* goto_tab: nothing for the active index or one past the end.
GotoIndex(m, index) ==
    IF index < Len(m.tabs) /\ index # m.active
    THEN [m EXCEPT !.prev = m.active, !.active = index]
    ELSE m

NextIndex(m) == IF m.active + 1 < Len(m.tabs) THEN m.active + 1 ELSE 0

\* Mutant: no wrap at the first tab.
PrevIndexNoWrap(m) == m.active - 1

PrevIndex(m) == IF m.active = 0 THEN Len(m.tabs) - 1 ELSE m.active - 1

\* previous_active: the remembered index, clamped to the last tab.
PreviousActive(m) ==
    IF Len(m.tabs) = 0 THEN 0
    ELSE IF m.prev < Len(m.tabs) THEN m.prev ELSE Len(m.tabs) - 1

\* Mutants: `active' left past the end; `active' not shifted with its tab.
RemoveTabNoClamp(m, index) ==
    LET rest == RemoveAt(m.tabs, index + 1)
    IN  [m EXCEPT !.tabs   = rest,
                  !.active = IF m.active > index THEN m.active - 1 ELSE m.active]

RemoveTabNoShift(m, index) ==
    LET rest == RemoveAt(m.tabs, index + 1)
    IN  [m EXCEPT !.tabs   = rest,
                  !.active = IF rest = <<>> THEN 0
                             ELSE IF m.active >= Len(rest) THEN Len(rest) - 1
                             ELSE m.active]

\* remove_tab at an existing index: `active' follows the active tab, or moves
\* to the tab that takes its place.
RemoveTab(m, index) ==
    LET rest == RemoveAt(m.tabs, index + 1)
    IN  [m EXCEPT !.tabs   = rest,
                  !.active = IF rest = <<>> THEN 0
                             ELSE IF m.active >= Len(rest) THEN Len(rest) - 1
                             ELSE IF m.active > index THEN m.active - 1
                             ELSE m.active]

\* Mutant: the empty tab stays.
KeepEmpty(m, index) == m

\* A tab that lost its last pane goes with it.
DropIfEmpty(m, index) ==
    IF m.tabs[index + 1].tree.leaves = <<>> THEN RemoveTab(m, index) ELSE m

\* break_active_pane_to_tab, when the focused leaf exists.
BreakActivePane(m) ==
    LET pane == FocusedPaneOf(m)
        cut  == WithActiveTree(m, RemoveFocused(ActiveTree(m)))
    IN  NewTabWith(DropIfEmpty(cut, m.active), pane)

\* remove_pane_by_id, when some tab holds the pane.  (Refocusing the focused
\* pane of the active tab, its last step, changes nothing.)
RemovePaneById(m, pane) ==
    LET index == IndexOfPane(m, pane)
        cut   == [m EXCEPT !.tabs[index + 1].tree = RemovePane(@, pane)]
    IN  DropIfEmpty(cut, index)
=============================================================================
