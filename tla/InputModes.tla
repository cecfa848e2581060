----------------------------- MODULE InputModes -----------------------------
(***************************************************************************)
(* What a key, a command or the pointer does in the server: the prefix key *)
(* and copy mode (bindings.rs, runtime_copy.rs), the overlays that read    *)
(* keys before them (runtime_input.rs), the prompt, the paste buffers and  *)
(* the selection of the pointer.  All of it is one state of BooApp that    *)
(* every client drives: a client's key first moves the focus to the pane   *)
(* the client looks at, then goes through the same overlays.               *)
(*                                                                         *)
(* A handler is an operator from the state, a record, to the set of states *)
(* it may leave; `reader' in the record says who has read the key.  What a *)
(* screen shows, where copy mode's cursor is, which entry of a list of     *)
(* panes is selected and which pane a tab has focused are left open.       *)
(***************************************************************************)
EXTENDS Naturals, Sequences, SequencesExt, FiniteSets

CONSTANTS
    Clients,
    Control,     \* the control socket, which acts on the focused pane
    Panes,
    TabOf,       \* the tab a pane is in
    NoPane,
    Texts,       \* that may be selected on a screen
    NoText,
    Lines,       \* actions somebody types into the prompt
    Table,       \* the keys bound after the prefix key, with their actions
    MaxBuffers,  \* paste buffers kept, 32 in the code
    MaxBusy,     \* bound: overlays, modes, selections and drags at once
    MaxPast      \* bound: lines in the history of the prompt

ASSUME PanesAssumption == NoPane \notin Panes /\ DOMAIN TabOf = Panes

ASSUME BoundsAssumption == MaxBuffers \in Nat \ {0} /\ MaxBusy \in Nat /\ MaxPast \in Nat

VARIABLES
    input,      \* everything below that BooApp keeps
    view,       \* the pane each client looks at
    owner,      \* history: who opened an overlay or entered a mode
    event       \* history: the last step, and the state it found

vars == <<input, view, owner, event>>

Choosers == {"find", "tree", "buffer", "panes"}
Overlays == Choosers \cup {"prompt", "search"}
Modes == {"Normal", "Prefix", "CopyMode"}

\* Keys with the names of what they produce; "s" is the prefix key.
Letters == {"j", "d", "p", "y", "D", "A", "q", "v", "V", "space", "f", "slash", "colon", "1"}
AppKeys == Letters \cup {"s", "super+c", "esc", "enter", "backspace", "tab", "up"}
CommandKeys == {"s", "j", "esc", "enter", "backspace", "up"}

Actions == {"copy-mode", "copy", "search", "choose-buffer", "choose-tree", "find-window",
            "display-panes", "command-prompt", "paste", "reload-config", "next-tab",
            "next-pane", "close-pane"}

Blank == "blank"
Junk == "junk"      \* a line no command resembles
Typed == Lines \cup {Blank, Junk}

InputType ==
    [mode : Modes,
     copy : [on : BOOLEAN, select : {"none", "char", "line", "rect"}, jump : BOOLEAN],
     open : SUBSET Overlays,
     pick : 0..MaxBuffers,
     line : Typed, hints : BOOLEAN, at : 0..MaxPast, past : Seq(Typed),
     buffers : BoundedSeq(Texts, MaxBuffers), clip : Texts \cup {NoText},
     select : {"none", "point", "range"}, selected : Panes \cup {NoPane},
     drag : BOOLEAN, divider : BOOLEAN, bar : BOOLEAN,
     live : SUBSET Panes, focus : Panes \cup {NoPane},
     reader : Overlays \cup Modes \cup {"mouse", "program", "nobody"}]

TypeOK ==
    /\ input \in InputType
    /\ view \in [Clients -> Panes]

NotCopying == [on |-> FALSE, select |-> "none", jump |-> FALSE]

Nothing == [by |-> Control, path |-> "none", key |-> "none", depth |-> 0, closed |-> TRUE]

Init ==
    \E pane \in Panes :
        /\ input = [mode |-> "Normal", copy |-> NotCopying, open |-> {}, pick |-> 0,
                    line |-> Blank, hints |-> FALSE, at |-> 0, past |-> <<>>,
                    buffers |-> <<>>, clip |-> NoText,
                    select |-> "none", selected |-> NoPane, drag |-> FALSE,
                    divider |-> FALSE, bar |-> FALSE,
                    live |-> Panes, focus |-> pane, reader |-> "nobody"]
        /\ view = [c \in Clients |-> pane]
        /\ owner = [o \in Overlays \cup Modes |-> Control]
        /\ event = Nothing

Read(s, reader) == [s EXCEPT !.reader = reader]

Opened(s, overlay) == [s EXCEPT !.open = @ \cup {overlay}]

Closed(s, overlay) == [s EXCEPT !.open = @ \ {overlay}]

-----------------------------------------------------------------------------
(* Panes and tabs, as far as the overlays see them (module Workspace has   *)
(* the rest).                                                              *)

ActiveTab(s) == {p \in s.live : TabOf[p] = TabOf[s.focus]}

\* Mutant: the drag goes on in the tab that takes over.
SyncAfterTabChangeDragging(s) ==
    [s EXCEPT !.open = @ \ Choosers, !.select = "none", !.selected = NoPane]

\* sync_after_tab_change: what belongs to the old tab is closed.
SyncAfterTabChange(s) ==
    [s EXCEPT !.open = @ \ Choosers, !.select = "none", !.selected = NoPane, !.drag = FALSE]

GotoTab(s) ==
    {SyncAfterTabChange([s EXCEPT !.focus = p]) :
        p \in {q \in s.live : TabOf[q] # TabOf[s.focus]} \cup {s.focus}}

GotoPane(s) == {[s EXCEPT !.focus = p] : p \in ActiveTab(s)}

\* handle_surface_closed: another pane of the tab, or of some tab, takes over.
\* No overlay, selection or mode hears of it.
Without(s, pane) ==
    LET live  == s.live \ {pane}
        same  == ActiveTab(s) \ {pane}
        next  == IF same # {} THEN same ELSE IF live # {} THEN live ELSE {NoPane}
    IN  {[s EXCEPT !.live = live, !.focus = p] : p \in next}

-----------------------------------------------------------------------------
(* Paste buffers and the clipboard.                                        *)

\* Mutant: nothing is ever dropped.
PushBufferKeeping(s, text) ==
    [s EXCEPT !.buffers = <<text>> \o SelectSeq(@, LAMBDA t : t # text)]

\* push_paste_buffer: newest first, each text once, MaxBuffers of them.
PushBuffer(s, text) ==
    LET all == <<text>> \o SelectSeq(s.buffers, LAMBDA t : t # text)
    IN  [s EXCEPT !.buffers = SubSeq(all, 1, IF Len(all) < MaxBuffers THEN Len(all) ELSE MaxBuffers)]

Copied(s, text) == PushBuffer([s EXCEPT !.clip = text], text)

\* clear_mouse_selection
Unselected(s) == [s EXCEPT !.select = "none", !.selected = NoPane, !.drag = FALSE]

\* copy_mouse_selection finds the pane in the active tab only.
CanCopyMouse(s) == s.select = "range" /\ s.focus # NoPane /\ s.selected \in ActiveTab(s)

-----------------------------------------------------------------------------
(* Copy mode.                                                              *)

EnterCopy(s) ==
    IF s.focus = NoPane THEN s
    ELSE [s EXCEPT !.copy = [NotCopying EXCEPT !.on = TRUE], !.mode = "CopyMode"]

\* Mutant: the bindings are not told.
ExitCopyKeepsMode(s) == [s EXCEPT !.copy = NotCopying, !.open = @ \ {"search"}]

ExitCopy(s) == [s EXCEPT !.copy = NotCopying, !.mode = "Normal", !.open = @ \ {"search"}]

\* copy_mode_copy: nothing without an anchor.
CopySelected(s) ==
    IF s.copy.on /\ s.copy.select # "none" THEN {Copied(s, t) : t \in Texts} ELSE {s}

\* copy_mode_append_copy: the clipboard with the selection at its end.
AppendSelected(s) == CopySelected(s)

Toggled(s, select) ==
    IF ~s.copy.on THEN s
    ELSE [s EXCEPT !.copy.select = IF @ = select THEN "none" ELSE select]

ClearSelection(s) ==
    IF ~s.copy.on THEN s
    ELSE IF s.copy.select # "none" THEN [s EXCEPT !.copy.select = "none"]
    ELSE ExitCopy(s)

OpenPrompt(s) == [Opened(s, "prompt") EXCEPT !.line = Blank, !.hints = TRUE, !.at = 0]

\* handle_copy_mode_key and dispatch_copy_mode_action.  A key that asks for a
\* character to jump to leaves the jump pending; the next key only drops it.
CopyKey(s, key) ==
    LET t == IF key = "f" THEN s ELSE [s EXCEPT !.copy.jump = FALSE]
        left == [t EXCEPT !.mode = "Normal"]
    IN  CASE key = "esc"   -> {ClearSelection(t)}
          [] key = "space" -> {Toggled(t, "char")}
          [] key = "V"     -> {Toggled(t, "line")}
          [] key = "v"     -> {Toggled(t, "rect")}
          [] key = "f"     -> {IF s.copy.on THEN [s EXCEPT !.copy.jump = TRUE] ELSE s}
          [] key = "slash" -> {Opened(t, "search")}
          [] key = "colon" -> {OpenPrompt(t)}
          [] key \in {"y", "enter"} -> {ExitCopy(u) : u \in CopySelected(left)}
          [] key = "D" -> {ExitCopy(u) :
                              u \in CopySelected([left EXCEPT !.copy.select =
                                        IF s.copy.on THEN "char" ELSE @])}
          [] key = "A" -> {ExitCopy(u) : u \in AppendSelected(left)}
          [] key = "q" -> {ExitCopy(left)}
          [] OTHER -> {IF key \in {"j", "up", "backspace"} THEN t ELSE s}

-----------------------------------------------------------------------------
(* dispatch_binding_action and execute_command.                            *)

Act(s, action) ==
    CASE action = "copy-mode"      -> {EnterCopy(s)}
      [] action = "copy"           -> CopySelected(s)
      [] action = "search"         -> {Opened(s, "search")}
      [] action = "find-window"    -> {Opened(s, "find")}
      [] action = "command-prompt" -> {OpenPrompt(s)}
      [] action = "choose-buffer"  ->
            {[IF s.buffers = <<>> THEN Closed(s, "buffer") ELSE Opened(s, "buffer")
                EXCEPT !.pick = 0]}
      [] action = "choose-tree"    ->
            {IF s.live = {} THEN Closed(s, "tree") ELSE Opened(s, "tree")}
      [] action = "display-panes"  ->
            {IF s.focus # NoPane /\ Cardinality(ActiveTab(s)) > 1
             THEN Opened(s, "panes") ELSE Closed(s, "panes")}
      [] action = "reload-config"  -> {[s EXCEPT !.mode = "Normal"]}
      [] action = "next-tab"       -> IF s.focus = NoPane THEN {SyncAfterTabChange(s)} ELSE GotoTab(s)
      [] action = "next-pane"      -> IF s.focus = NoPane THEN {s} ELSE GotoPane(s)
      [] action = "close-pane"     -> IF s.focus = NoPane THEN {s} ELSE Without(s, s.focus)
      [] OTHER -> {s}

ExecuteCommand(s, line) == IF line \in Actions THEN Act(s, line) ELSE {s}

-----------------------------------------------------------------------------
(* The overlays.  A key event of a client has names for the arrows and     *)
(* escape only: enter, backspace and tab come as the characters they type, *)
(* and the handlers see those.                                             *)

FindKey(s, key) == IF key \in {"up"} \cup Letters \cup {"s", "super+c"} THEN {s} ELSE {Closed(s, "find")}

TreeKey(s, key) ==
    CASE key \in {"up", "j"} -> {s}
      [] key = "enter" -> {SyncAfterTabChange([s EXCEPT !.focus = p]) : p \in s.live}
      [] OTHER -> {Closed(s, "tree")}

\* Mutant: the selection stays where the last buffer was.
DeleteBufferNoClamp(s) ==
    LET rest == RemoveAt(s.buffers, s.pick + 1)
    IN  IF rest = <<>> THEN [Closed(s, "buffer") EXCEPT !.buffers = rest, !.pick = 0]
        ELSE [s EXCEPT !.buffers = rest]

DeleteBuffer(s) ==
    LET rest == RemoveAt(s.buffers, s.pick + 1)
    IN  IF rest = <<>> THEN [Closed(s, "buffer") EXCEPT !.buffers = rest, !.pick = 0]
        ELSE [s EXCEPT !.buffers = rest, !.pick = IF @ >= Len(rest) THEN Len(rest) - 1 ELSE @]

\* paste_selected_buffer
PasteBuffer(s) == [Closed(s, "buffer") EXCEPT !.clip = s.buffers[s.pick + 1]]

BufferKey(s, key) ==
    CASE key = "up" -> {[s EXCEPT !.pick = (@ + Len(s.buffers) - 1) % Len(s.buffers)]}
      [] key = "j"  -> {[s EXCEPT !.pick = (@ + 1) % Len(s.buffers)]}
      [] key = "d"  -> {DeleteBuffer(s)}
      [] key \in {"p", "enter"} -> {PasteBuffer(s)}
      [] OTHER -> {Closed(s, "buffer")}

PanesKey(s, key) ==
    LET t == Closed(s, "panes")
    IN  IF key = "1" /\ s.focus # NoPane THEN GotoPane(t) ELSE {t}

\* handle_command_key; `named' has the keys that come with their name.
PromptKey(s, key, named) ==
    CASE key = "esc" -> {Closed(s, "prompt")}
      [] key = "enter" /\ key \in named ->
            ExecuteCommand([Closed(s, "prompt") EXCEPT
                               !.past = IF s.line = Blank \/ Len(@) = MaxPast THEN @
                                        ELSE Append(@, s.line)],
                           s.line)
      [] key = "backspace" /\ key \in named ->
            {[s EXCEPT !.line = t, !.hints = t # Junk] : t \in {Blank, Junk}}
      [] key = "up" ->
            {IF s.hints \/ s.past = <<>> THEN s
             ELSE LET i == IF s.at = 0 THEN Len(s.past) ELSE IF s.at = 1 THEN 1 ELSE s.at - 1
                  IN  [s EXCEPT !.at = i, !.line = s.past[i]]}
      [] key \in Letters -> {[s EXCEPT !.line = t, !.hints = t # Junk] : t \in Typed \ {Blank}}
      [] OTHER -> {[s EXCEPT !.hints = s.line # Junk]}

\* Mutant: a search in copy mode is left with copy mode.
SearchKeyStaying(s, key) ==
    IF key = "esc" /\ s.mode # "CopyMode" THEN {Closed(s, "search")} ELSE {s}

SearchKey(s, key) == IF key = "esc" THEN {Closed(s, "search")} ELSE {s}

\* Bindings::handle_key and dispatch_binding_result.
BoundKey(s, key) ==
    CASE s.mode = "Normal" ->
            {IF key = "s" THEN [Read(s, "Normal") EXCEPT !.mode = "Prefix"] ELSE Read(s, "program")}
      [] s.mode = "Prefix" ->
            LET t == [s EXCEPT !.mode = "Normal"]
            IN  IF key \in DOMAIN Table
                THEN {Read(u, "Prefix") : u \in Act(t, Table[key])}
                ELSE {Read(t, "program")}
      [] s.mode = "CopyMode" -> {Read(t, "CopyMode") : t \in CopyKey(s, key)}

\* Mutant: the digits of display-panes also reach the program.
AppKeyNoPanes(s, key) ==
    LET By(overlay, states) == {Read(t, overlay) : t \in states}
    IN  CASE key = "super+c" /\ CanCopyMouse(s) -> {Read(Copied(s, t), "mouse") : t \in Texts}
          [] "find" \in s.open   -> By("find", FindKey(s, key))
          [] "tree" \in s.open   -> By("tree", TreeKey(s, key))
          [] "buffer" \in s.open -> By("buffer", BufferKey(s, key))
          [] "prompt" \in s.open -> By("prompt", PromptKey(s, key, {}))
          [] "search" \in s.open -> By("search", SearchKey(s, key))
          [] OTHER -> {IF t.reader = "program" THEN Unselected(t) ELSE t : t \in BoundKey(s, key)}

\* handle_app_key_event: the first that is open reads the key.
AppKey(s, key) ==
    LET By(overlay, states) == {Read(t, overlay) : t \in states}
    IN  IF key = "super+c" /\ CanCopyMouse(s)
        THEN {Read(Copied(s, t), "mouse") : t \in Texts}
        ELSE IF "find" \in s.open THEN By("find", FindKey(s, key))
        ELSE IF "tree" \in s.open THEN By("tree", TreeKey(s, key))
        ELSE IF "buffer" \in s.open THEN By("buffer", BufferKey(s, key))
        ELSE IF "panes" \in s.open THEN By("panes", PanesKey(s, key))
        ELSE IF "prompt" \in s.open THEN By("prompt", PromptKey(s, key, {}))
        ELSE IF "search" \in s.open THEN By("search", SearchKey(s, key))
        ELSE {IF t.reader = "program" THEN Unselected(t) ELSE t : t \in BoundKey(s, key)}

\* inject_key: a key by its name, which the choosers do not get to see, and
\* which copy mode sees as the character it types.
InjectKey(s, key) ==
    IF "prompt" \in s.open
    THEN {Read(t, "prompt") : t \in PromptKey(s, key, {"enter", "backspace", "tab"})}
    ELSE IF "search" \in s.open THEN {Read(t, "search") : t \in SearchKey(s, key)}
    ELSE IF s.mode = "CopyMode" /\ key \in {"esc", "up"} THEN {Read(s, "CopyMode")}
    ELSE BoundKey(s, key)

-----------------------------------------------------------------------------
(* The pointer.                                                            *)

\* begin_mouse_selection in a pane, which the press has focused.
PressPane(s, pane) ==
    [s EXCEPT !.focus = pane, !.select = "point", !.selected = pane, !.drag = TRUE]

\* Outside of all panes an old selection is dropped.
PressOutside(s) ==
    IF s.select # "none" THEN Unselected(s) ELSE Read(Unselected(s), "program")

\* A click on a component of the status bar runs its action.
PressStatus(s) == UNION {ExecuteCommand(Unselected(s), a) : a \in Lines}

Press(s) ==
    {PressPane(s, p) : p \in ActiveTab(s)} \cup PressStatus(s)
        \cup {PressOutside(s), [s EXCEPT !.divider = TRUE], [s EXCEPT !.bar = TRUE]}

\* update_mouse_selection while a drag goes on in the selected pane.
Dragged(s) ==
    IF s.drag /\ s.selected \in ActiveTab(s)
    THEN {[s EXCEPT !.select = to] : to \in {"point", "range"}} ELSE {s}

Release(s) ==
    IF s.divider THEN {[s EXCEPT !.divider = FALSE]}
    ELSE IF s.bar THEN {[s EXCEPT !.bar = FALSE]}
    ELSE IF s.select = "none" THEN {Read([s EXCEPT !.drag = FALSE], "program")}
    ELSE {IF t.select = "range" THEN [t EXCEPT !.drag = FALSE] ELSE Unselected(t) :
             t \in Dragged(s)}

Move(s) ==
    IF s.divider \/ s.bar THEN {s}
    ELSE IF s.drag /\ s.select # "none" THEN Dragged(s) \cup {Read(s, "program")}
    ELSE {Read(s, "program")}

Pointer(s, gesture) ==
    CASE gesture = "press" -> Press(s)
      [] gesture = "release" -> Release(s)
      [] gesture = "move" -> Move(s)

-----------------------------------------------------------------------------
(* Steps.                                                                  *)

Depth(s) ==
    Cardinality(s.open) + (IF s.mode = "Normal" THEN 0 ELSE 1)
        + (IF s.mode = "CopyMode" /\ s.copy.select # "none" THEN 1 ELSE 0)

Busy(s) ==
    Depth(s) + (IF s.select = "none" THEN 0 ELSE 1) + (IF s.divider \/ s.bar THEN 1 ELSE 0)

\* focus_client_runtime_target: the pane the client looks at, or, when it is
\* gone, one the server finds for it; nothing without any pane.
Focused(c) ==
    IF c = Control THEN IF input.focus = NoPane THEN {} ELSE {Read(input, "nobody")}
    ELSE {[Read(input, "nobody") EXCEPT !.focus = p] :
             p \in IF view[c] \in input.live THEN {view[c]} ELSE input.live}

\* A command is carried out without a pane, too.
Reached(c) == IF Focused(c) = {} THEN {Read(input, "nobody")} ELSE Focused(c)

\* The step of `by', whose view follows the focus, from one of `states'.
Step(by, path, key, states, Handler(_)) ==
    /\ \E s \in states :
        \E t \in Handler(s) :
            /\ Busy(t) <= MaxBusy
            /\ input' = t
            /\ view' = [c \in Clients |-> IF c = by /\ t.focus # NoPane THEN t.focus ELSE view[c]]
            /\ owner' = [o \in DOMAIN owner |->
                            IF (o \in t.open \ s.open) \/ (o = t.mode /\ t.mode # s.mode)
                            THEN by ELSE owner[o]]
            /\ event' = [by |-> by, path |-> path, key |-> key, depth |-> Depth(s),
                         closed |-> s.open = {} /\ s.mode # "CopyMode"]

Everybody == Clients \cup {Control}

AppKeyStep ==
    \E by \in Everybody, key \in AppKeys :
        Step(by, "app", key, Focused(by), LAMBDA s : AppKey(s, key))

KeyStep ==
    \E by \in Everybody, key \in CommandKeys :
        Step(by, "key", key, Focused(by), LAMBDA s : InjectKey(s, key))

MouseStep ==
    \E by \in Everybody, gesture \in {"press", "release", "move"} :
        Step(by, "mouse", gesture, Focused(by), LAMBDA s : Pointer(s, gesture))

ActionStep ==
    \E by \in Everybody, action \in Actions :
        Step(by, "action", action, Reached(by), LAMBDA s : Act(s, action))

\* RemoteInput, SendText: bytes for the program, past every overlay.
BytesStep ==
    \E by \in Everybody : Step(by, "bytes", "bytes", Focused(by), LAMBDA s : {Read(s, "program")})

\* close_pane_by_id; only panes of the active tab are polled.
PaneExits ==
    \E pane \in ActiveTab(input) :
        \E t \in Without(input, pane) :
            /\ input.focus # NoPane
            /\ input' = [t EXCEPT !.reader = "nobody"]
            /\ event' = Nothing
            /\ UNCHANGED <<view, owner>>

Next == AppKeyStep \/ KeyStep \/ MouseStep \/ ActionStep \/ BytesStep \/ PaneExits

Spec == Init /\ [][Next]_vars

-----------------------------------------------------------------------------
\* Escape always leads out: whatever is open or entered, it closes something,
\* so a user who goes on pressing it gets back to the program.
EscapeCloses ==
    (event.path = "app" /\ event.key = "esc" /\ event.depth > 0)
        => Depth(input) < event.depth

\* A client's key reaches the program only when nothing else reads keys.
ProgramReadsLast ==
    (event.path = "app" /\ input.reader = "program") => event.closed

\* Keys are read as copy mode's only while there is a cursor and a selection
\* for them to move: otherwise they would vanish.
CopyModeHasCursor == input.mode = "CopyMode" => input.copy.on

\* Whoever copies, deletes or pastes meanwhile, the list of paste buffers has
\* each text once and the buffer the chooser points at exists.
ChooserPointsAtBuffer ==
    /\ \A i, j \in DOMAIN input.buffers : input.buffers[i] = input.buffers[j] => i = j
    /\ "buffer" \in input.open => input.pick < Len(input.buffers)

\* A drag has something to extend, also after tabs have changed under it.
DragHasSelection == input.drag => input.select # "none"

\* "those modes belong to each `view_id` ... it must not regress to a
\* process-global search/copy/scroll owner": a mode or a search only reads the
\* keys of the client that entered it.  It reads everybody's.
ModesBelongToViews ==
    input.reader \in {"CopyMode", "search"} => owner[input.reader] = event.by
=============================================================================
