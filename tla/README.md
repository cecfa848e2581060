# boo: a TLA+ model of the terminal server and its clients

boo is a terminal multiplexer. One long-lived server process owns the
pseudo-terminals, the tabs and the panes; desktop windows, iOS clients and
command-line tools are views of that state. This directory holds TLA+ models of
the parts of that program where mistakes are hard to find by testing, the TLC
runs that check them on small instances, and TLAPS proofs, for every instance,
of what matters most. `PROJECT.json` maps every definition to the lines it models
and lists the hazards of the code with the properties that would catch them.

Paths below are relative to the repository: `src/` is the Rust crate, `ios/` the
iOS client, `docs/` the documentation. "Run" is a TLC run below.

## Inventory

| Component | State | Operations | Talks to | What is hard | Modelled in |
|---|---|---|---|---|---|
| split tree (`splits.rs`, `pane.rs`) | tree of leaves, ratios, focused leaf id, id counter | split, remove, focus, swap, rotate, drag a divider, rebuild by layout | called by the tab list | the focus is an id that may dangle; a rebuild renumbers every leaf | `SplitTree`, `SplitGeometry` |
| tab list (`tabs.rs`) | tabs, active and previous index, id counter | add, remove, switch, move panes between tabs | called by the server | indices shift over long sequences | `TabManager` |
| workspace operations (`runtime_panes.rs`, `runtime_input.rs`, `runtime.rs`) | running terminals, marked pane, layout being loaded | create, split, close, exit, join, break, load a layout | tab list, backend | spawns fail, programs exit between commands, control clients send stale ids | `Workspace`, `WorkspaceHistory` |
| runtime server and client views (`runtime_server.rs`, `remote_state.rs`, `remote.rs`) | a view per client, revisions, dirty tabs | some 30 commands of streams, control socket and iOS actions | everything | views that outlive what they show; one shared focus, many clients | `RuntimeViews`, `GuiStream` |
| screen and control stream (`remote_server_stream.rs`, `remote_server_control.rs`, `remote_batcher.rs`) | per client the screens and payloads sent last; a queue of frames | encode full state or delta, write one frame or a coalesced batch | sockets | deltas are relative to what the client is believed to have | `OutboundStream` |
| wire codec (`remote_wire.rs`) | none | frame, encode, decode, handshake | streams | lengths at the limit, streams that end anywhere | `WireCodec` |
| desktop window (`client_gui.rs`) | mode, focused pane, revisions, a snapshot per pane | apply states and deltas, send keys and sizes, reconnect | stream and control sockets | drops and clears by revision; two paths for keys | `GuiStream`, `WindowInput` |
| main loop (`runtime.rs`, `main.rs`, `server.rs`) | wake flag, three channels, budgets | poll, serve, publish, sleep | all threads | lost wakeups, starvation | `CommandLoop`, `PanePolling` |
| control socket (`control.rs`) | waiting requests | request and reply with a timeout | main loop | answers that come late or never | `CommandLoop`, `WindowInput`, `ServerLaunch` |
| connection readers (`remote_auth.rs`, `remote_quic.rs`, `remote_listener.rs`) | handshake and heartbeat times | read, authenticate, forward commands | main loop | a connection may end at any point | `CommandLoop`, `DirectClient`, `WindowInput` |
| pane workers (`vt_backend_core.rs`, `unix_pty.rs`, `backend.rs`) | emulator, snapshot, version, notes | read the PTY, scan, refresh, resize, shut down | main loop | three threads per pane; exit, wakeups, backlog | `PaneWorker`, `PanePolling`, `EscapeScanner` |
| row cache (`remote_full_state.rs`, `runtime_server.rs`) | epochs and rows per pane | number rows, answer ranges | iOS client | rows of different epochs | `RowReplicas` |
| direct remote client (`remote_client.rs`, `remote_direct_transport.rs`) | one call under way | probe, list, create | QUIC | takes the first message of the right type | `DirectClient`, `TabService` |
| iOS client (`ios/Sources`) | screens, scrollback, connection state | apply messages, ask for rows, reconnect | QUIC | ordering, reconnection | `RowReplicas`, `OutboundStream` (reconnection is not) |
| launch and SSH (`launch.rs`, `cli.rs`) | processes, socket files, tunnels | find, start, check, restart, stop a server | SSH, files | two launches at once | `ServerLaunch` |
| bindings, prompt and copy mode (`bindings.rs`, `command_prompt.rs`, `copy_mode.rs`, `runtime_copy.rs`) | modes, overlays, buffers, selection | keys, gestures, commands | workspace | one global state driven by every client | `InputModes`, `CopyMode` |
| layouts, tmux, status bar (`layout.rs`, `tmux.rs`, `status_components.rs`) | saved layouts, status components | parse, lay out, click | workspace | none with a protocol but the store | `SplitGeometry`, `PanePolling` |
| rendering (`vt_terminal_canvas.rs`, `vt_snapshot.rs`, `app_helpers.rs`) | caches by row, chunk and band | draw what has changed | window | caches keyed by numbers the client makes up | `RowCache`, `CopyMode` |
| configuration (`config.rs`); platform, tracing and profiling (`platform/`); remote diagnostics (`remote_server_diag.rs`); iOS screens | | parsers, system calls, reports, user interface | | none with a protocol | not modelled |

What makes them correct, in words. The active index names a tab whenever there is
one, ids are not reused, every leaf shows a running terminal and every terminal is
shown once, and the frames of a tab tile it. A view stays where its client put it
and its focus is a pane it shows; input goes to the pane the client looks at. A
client ends up with what the server believes it shows, and with the terminals as
they are; replies are neither lost nor swapped, keys arrive once and in order.
Every command and every output is served, and the exit of a program is the last
that is heard of it. Bytes may be cut anywhere, caches may keep only what is
current, and launches agree on the servers: those that follow each other find what
is there, and those that overlap leave a server that can be reached.

## Modules

`SplitTree` and `TabManager` are the data structures as pure operators. A tree is
the sequence of its leaves in order (id and pane) with the focused id and the id
counter: what the operations do to the order, the ids and the focus is exact; shape
and ratios are in `SplitGeometry`, where a tree is a prefix-closed set of paths,
ratios are thousandths and lengths tenths of a point, rounded down. Two quirks are
kept: `create_split` to the left or up puts the new pane second all the same, and a
drag of a divider survives changes of the tree under it.

`Workspace` is the state machine over them, one action per operation a user, a
client or a dying process can trigger; its variables are the tab list `tm`, the live
terminals, the marked pane and what is left of a layout being loaded. Spawning may
fail (`CreateMayFail`); a control client may name any leaf (`TrustedIndices = FALSE`).
`WorkspaceHistory` adds a history variable: the workspace was led astray by a leaf
that is none or by a layout whose pane failed.

`RuntimeViews` puts the clients' views over the same tab list. A handler is a
composition of operators on one record (the tab list, the next pane, the views, what
the handler has sent), in the order of the calls in `runtime_server.rs`, and each
handler is one action. Connections come and go, time passes for detached views, and
programs exit, between any two handlers.

`OutboundStream` is the path from a screen of the server to the screen of one
client, with the two threads in between: `Publish`, `TouchView`, `SendControl`,
`ReplyTabList` and `Reply` run in the server thread, `WriteOne` and `WriteBatch` in
the writer thread, `Receive` in the client; `Reconnect` loses what is under way.
Screens are functions from rows to contents, deltas carry the changed rows as the
encoder computes them, and the client applies them blindly as the code does.
`GuiStream` is one level up: a window, what its peers and the control socket do, and
which messages the window drops or clears by their revisions. There a delta is its
base and its screen, and messages stay in order, as `OutboundStream` shows for the
local socket. `WindowInput` is the other direction: keys and sizes from the user to
the panes, over a stream that is cut and reopened or over the control socket.

`CommandLoop` is the main thread, the threads that feed it and the wake flag;
`PanePolling` what one turn makes of the panes' news; `PaneWorker` the three threads
of a pane, split at every place where another thread can come in between;
`EscapeScanner` what the worker hears in the bytes, and `WireCodec` the bytes of the
protocol. `InputModes` is everything that reads keys and gestures before a program
does, `CopyMode` its cursor and selection as text. `RowReplicas` is the rows of a
pane on server, desktop and phone (the phone's tests for another view, a stale revision
or a missing base never fire for one pane on an ordered stream and are left out, as is
the window's test of `has_paintable_terminal` in `WindowInput`), `RowCache` what the
desktop draws of them.
`DirectClient` is the command line's calls with the daemon's threads; it implements
`TabService`, what the commands promise. `ServerLaunch` is launchers, servers and
the socket files between them: a server clears a name and then binds it, so one of two
that start together may be refused; a launch keeps what it is for through the scripts it
runs on the host, so that a `quit-server` that has to open a tunnel or to restart an old
server still sends its request in the end.

`MC*` modules give constants of larger type their values, symmetry sets and views.
Some put two or three independent components into one run: a behaviour picks a
`subject` at the start and takes the steps of that component only, so the reachable
states are the union of those of the components. `*Proofs` modules hold theorems.

## Runs

| Run | Properties | What it shows |
|---|---|---|
| `workspace` | `TypeOK`, `TabIdsIncreasing`, `PanesUnique`, `LeavesLive`, `NothingLost`, `PanesTile`, `ActiveTabStable`, `ExitFreesOnlyThatPane`, `LayoutKeepsFocus` | tabs, trees and terminals stay consistent with failed spawns and dangling focus ids, and nothing is lost without them; the frames of a tab tile it, every pane can be reached by moves of the focus, and a dragged divider is where the pointer is |
| `stream` | `TypeOK`, `LocalConverged`, `ControlConverged`, `RepliesInOrder`, `KeysArrive`, `WindowIsLive` | a desktop client converges, coalescing keeps the newest payloads and the order of replies; keys reach the panes once and in order but for what named faults excuse; a window that lost its server shows a terminal again |
| `gui` | `TypeOK`, `SettledUpToDate`, `PolledIsShown` | a window left alone shows the terminals as they are; a main thread with nothing to do has polled and published the active tab |
| `loop` | `NoLostWakeup`, `WorkIsServed` | no wakeup of a stream is lost; every stream command and every output is served |
| `views` | `FocusIsVisible`, `ViewsAreTheirOwners`, `CloseRepairsViews`, `TypingRecovers`, `InputReachesOwnPane` | only their owners move views, closing a tab repairs them, typing reaches the pane the client is on and brings back a client whose tab is gone |
| `pane` | `UnseenMeansWoken`, `ExitComesLast`, `SettledSnapshot`, `MainReturns` | nothing published is left unseen, the exit comes last, the snapshot is of all output, the server waits for no pane for ever |
| `bytes` | `OutputIsHeard`, `FramesArrive` | where reads cut a stream does not matter; messages are read whole and in order or refused by both readers |
| `input` | `EscapeCloses`, `ProgramReadsLast`, `FoundIsThere` | escape always leads out, the program reads last, and what a key or a gesture finds is there |
| `rows` | `RowsAreDrawn`, `ReplicasFollow`, `CopiesWhatIsShown` | the caches of the canvas, the replicas of desktop and phone, and copy mode show and copy the rows there are |
| `direct` | `CallsAreAnswered`, `ServesTabs` | the direct client's calls are answered and implement `TabService` |
| `launch` | `LaunchesAgree` | launches that follow each other, local and over SSH, with stops, crashes and lost tunnels between them, agree on the servers; launches that overlap leave a server with the name, though the code may leave another without one |
| `gui_bootstrap` | `BootstrapShowsATab` (violated) | a window that opens on a server without tabs is never subscribed to the tab it creates |

The violation is recorded under `findings` with the line of the code and the text of
the repository that says otherwise.

### Bounds

- `workspace`: three panes, three tabs, leaf ids to one beyond what exists, and a
  saved layout of two tabs of which the first has a split. A tab before, at and after
  the active one can go, a tab can have several leaves, and a pane can move between
  two tabs. Geometry: four panes and four changes, 1200 by 800 tenths of a point and
  five places of the pointer, so that rounding and the limits of the ratios show;
  `MaxShape` bounds panes and changes together.
- `stream`: one focused and one passive stream, screens of one and two rows of two
  contents, two frames under way. A batch of two is the smallest that can reorder or
  drop. For the window: two keys, two sizes, two acts, two faults.
- `gui`: two panes in both roles, two contents, revisions to four and three messages
  under way, which is one state with its screens; four was checked as well. Polling:
  a tab of two panes and one of one, one client and four events.
- `loop`: one connection of the control socket and of the local stream, two of the
  remote one, budgets of one; since a reader may send again while the server drains,
  one reader exceeds its budget.
- `views`: two clients, three panes, two tabs, two running panes at a time. One
  client acts and one is acted upon; two tabs give an index before and after the
  one that goes. The clients are alike (symmetry), and states are compared up to what
  no handler reads: leaf ids, the previous index and the last step.
- `pane`: two sizes, room for one chunk in the PTY, two chunks of output and two
  commands.
- `bytes`: three words of up to three payload bytes; two messages with texts around
  the longest that fits.
- `input`: one client and the control socket, three panes in two tabs, three texts,
  two buffers, at most two modes or overlays at once, one line of history.
- `rows`: two kinds of lines, heights one and three with chunks of two, revisions to
  five; panes of two rows with three retained; four screens of two rows for copy mode.
- `direct`: two calls, one tab, one act of others. `launch`: two processes, three
  servers, three launches and one mishap, so that a stop over a fresh tunnel can be
  followed by another launch. Two launches may overlap and the third is alone. The
  hosts: this one; plain paths; one without the home directory its paths need, without
  boo, or with another version. A constraint cuts what follows both a surprise (an
  overlap, a late answer, a server that does not answer) and a stop or a break: there
  only the types are claimed.

Every bound is a named constant in a guard or of the instance.

### Fairness

Liveness is stated where the code's scheduling justifies it. In `CommandLoop` the
main thread is weakly fair (it runs whenever it is not asleep), and so is the
notification of a thread that has queued its work; both are straight-line code of a
scheduled thread, and nobody is assumed to send. `WorkIsServed` excepts a turn in
which `update` only hands a font to iced (`src/runtime.rs:667`): on Linux such a turn
consumes the flag and serves nothing, so the command waits for the next wakeup. In
`PaneWorker` the worker, the reader, a main thread that is served and a program's
reading of its input are weakly fair; the program need not write or exit.

## Proofs

Twenty-eight theorems, for every value of the constants that the named assumptions
allow. All assumptions are those of the models (names of different kinds differ,
bounds and budgets are numbers, a layout starts with a tab because `load_layout` does,
`src/runtime_panes.rs:455`); TLC evaluates them in the runs.

| Theorem | Statement |
|---|---|
| `WorkspaceProofs!TypeCorrect` | `Spec => []TypeOK` |
| `WorkspaceProofs!ListCorrect` | `Spec => [](ActiveInRange /\ TabIdsIncreasing)` |
| `WorkspaceProofs!PanesStayUnique` | `Spec => []PanesUnique` |
| `WorkspaceProofs!LeavesStayLive` | `Spec => []LeavesLive` |
| `WorkspaceProofs!LeafIdsStayFresh` | leaf ids of a tree are distinct, the next is unused |
| `WorkspaceProofs!ActiveTabStays` | `Spec => ActiveTabStable` |
| `WorkspaceProofs!ExitFreesItsPane` | `Spec => ExitFreesOnlyThatPane` |
| `WorkspaceProofs!LayoutKeepsTheFocus` | `Spec => LayoutKeepsFocus` |
| `WorkspaceProofs!NothingIsLost` | `HistorySpec => []NothingLost` |
| `OutboundStreamProofs!LocalClientConverges` | `Spec => []LocalConverged` |
| `OutboundStreamProofs!StreamTypeCorrect` | `Spec => []TypeOK` |
| `OutboundStreamProofs!RepliesStayInOrder` | `Spec => []RepliesInOrder` |
| `OutboundStreamProofs!ControlConverges` | `Spec => []ControlConverged` |
| `DirectClientProofs!OnlyTheCallUnderWay` | all that is under way to a waiting command speaks of lists the server had during the call; a tab is asked for once |
| `DirectClientProofs!CommandsServeTabs` | `Spec => ServesTabs`: the direct client and the daemon implement `TabService` |
| `CommandLoopProofs!TypeCorrect` | `Spec => []TypeOK` |
| `CommandLoopProofs!WakeupsKept` | `Spec => []NoLostWakeup` |
| `PaneWorkerProofs!TypeCorrect` | `Spec => []TypeOK` |
| `PaneWorkerProofs!WokenForAll` | `Spec => []UnseenMeansWoken` |
| `PaneWorkerProofs!ExitIsLast` | `Spec => []ExitComesLast` |
| `PaneWorkerProofs!SettledIsCurrent` | `Spec => []SettledSnapshot` |
| `RuntimeViewsProofs!TypeCorrect` | `Spec => []TypeOK` |
| `RuntimeViewsProofs!FocusStaysVisible` | `Spec => []FocusIsVisible` |
| `RuntimeViewsProofs!DetachedStaySilent` | `Spec => []DetachedIsSilent`: a client whose idle timer runs is not streamed to |
| `RuntimeViewsProofs!ViewsStayPut` | `Spec => ViewsAreTheirOwners` |
| `RuntimeViewsProofs!ClosesRepair` | `Spec => CloseRepairsViews` |
| `RuntimeViewsProofs!TypersRecover` | `Spec => TypingRecovers` |
| `RuntimeViewsProofs!InputArrives` | `Spec => InputReachesOwnPane` |

Lists of tabs and trees. `TabManagerProofs` proves, operator by operator, what each
operation of the trees and the tab list returns: types, the panes and ids it keeps,
where the active index points afterwards. The other modules put one step per action
on top. `ListCorrect` needs the id counter above every id in use. `PanesInv` says
that the trees of a tab list share no pane, that their panes are owned by the
backend, and that no owned id will be handed out again; from it follow
`PanesStayUnique` and `LeavesStayLive`. `ActiveTabStays` is the arithmetic of the
shifts in `remove_tab`. `NothingIsLost` needs that every tab's focus resolves to a
leaf (`Sound`), and for `join_marked_pane` that the marked pane is not the focused
one: without that guard the tab the code goes back to might be gone.

Views. The invariant of `RuntimeViewsProofs` is that the tab list is good (types,
order, every pane once and handed out, every tab with a focused leaf), that every
view is well typed, and that its focus is among the panes it shows. TLC found the
strengthening that was missing: `None`, which is 0 in the model, must not be the id
of a tab, as a view without a tab would otherwise look at it. For `DetachedStaySilent`
a view with a running idle timer must be connected as well: commands of a client that
has gone are handled all the same, and leave its view alone only because it is off. A handler is a
composition, so its proof is one, too: three relations say that a part of a handler
touches only what is sent (`Sends`), also the view of one client (`Looks`), or also
the tab list (`Moves`), and lemmas compose them. The action properties follow from
the relation of each handler: a handler that only `Looks` for its own client cannot
move another view; a handler that removes a tab ends with a repair of every view;
and input first selects the client's tab and then its pane.

Screens. `LocalConverged` is about idle moments and is not inductive. While frames
are under way there is a history of screens, one per frame of `wire \o queue`, that
starts with the screen the client holds and ends with the one the server believes it
has, and each frame leads from one screen to the next. Publishing extends it at the
end, writing leaves it alone, receiving drops its first element, and `touch_view`
merely stops it from counting. It is only true of the writer that does not coalesce.

Payloads and replies. `ControlConverged` and `RepliesInOrder` hold with and without
coalescing. What a client will know when it has read everything is a fold along
`wire \o queue`: one reader per slot keeps the last payload, one collects the
replies. The invariant `StreamInv` says that the fold of a slot from what the client
shows is what the server has cached, and that the fold of the replies is what the
server owes. It survives a batch because of what the two readers have in common
(`CoalescedBy`): they pass screens over, and of the control frames that share a place
in a batch the last counts. `BatchFold` shows, by induction along the frames, that
such a reader makes of a batch what it would have made of the frames one by one,
whatever is merged in place, dropped or overtaken by a priority frame. The invariant
leaves out the slot of the tab list, which the server also sends on request without
noting it, and a slot the server has not cached since a reconnection.

Sequences. `SequenceLemmas` has what those proofs share. The induction theorems of
the library take an operator, which the provers here cannot instantiate; the module
has its own, for a set of numbers or of sequences, from the well-foundedness of `<`
on the naturals. A fold is the end of a *run*, the function from positions to
intermediate results, whose step is a function and not an operator. From the two
follow `FoldAppend`, `FoldConcat`, `FoldHead` and, by `RecursionRuns`, that the
recursive functions in the models (`Collected` in `OutboundStream`) are folds.

The direct client. `ServesTabs` is a refinement: `TabService` promises that a list
that is printed was true at some time during the call, a tab that is printed was
there, and a call makes one tab at most. The variable `call` is mapped to the answer,
or to a failure where the answer may come from a list left in the daemon's cache (the
code's own lapse; `ServesCurrentTabs` without that exception is violated). The
invariant `DirectInv` has three parts. `TalkInv`: the server's cached list is the
current one unless `stale`, and each message queued or written speaks of a list in
`seen`, the lists of this call. That a new call starts with an empty queue and wire is
part of it. `CallInv` ties the request under way to the state of the call and bounds the
connections that commands in the channel come from: a command of an earlier
connection is never taken for this one. `OneTabInv`: the request for a tab is in one
place at most, on its way up, in the channel, or made. The main thread's handlers are
compositions, and so is the proof: `Good` and `Fresh` are kept by each part, and the
parts that do not touch tabs (`Serves`) compose. The batch adds no message: what it
returns was queued (`BatchType`). With the invariant, each action is a step of
`TabService` or a stutter.

Wakeups. `NoLostWakeup` is about the server asleep. `WakeInv` extends it back to the
point where the main thread leaves a channel: from then on what is in the channel
comes with the flag, with `more_server_cmds_pending`, or with a thread that has not
raised the flag yet.

Panes. `PaneInv` counts. While the worker lives, every chunk and every note the program has
written is in one of the places it passes through (its reader's channel, the worker,
the shared list, the main thread), so their numbers add up (`Balance`); the exit is the last
event of the reader and of the notes (`LastWord`); a worker that is not about to
refresh has a fresh snapshot (`Fresh`), and the last resize that was sent is on its
way or applied (`Sized`). The numbers of a sequence are cardinalities of sets of
positions, so that no induction over sequences is needed.

### What is only model-checked

- Liveness (`WorkIsServed`, `MainReturns`): out of the prover's reach.
- What the scanner and the decoders compute for every input (`OutputIsHeard`,
  `FramesArrive`) and the frames of a tree (`PanesTile`). These are folds over bytes and
  recursions along the paths of a tree; `SequenceLemmas` is where such proofs
  would start, but the arithmetic of lengths, rounding and ratios in each step has been
  left to TLC.
- `CallsAreAnswered`: that a waiting command has an answer under way and that eight
  messages are enough for a quiet server counts messages along every path between
  the threads, and the count depends on what is on screen.
- `SettledUpToDate`, `PolledIsShown`, the runs `input`, `rows` and `launch`, and
  `KeysArrive` and `WindowIsLive`: no theorem yet.

## Further divergences

Met while modelling, besides the finding. Each cfg named here violates the one
property it checks; the properties are stated in the modules.

- `CommandLoopControl.cfg`, `ControlAttended`: a server with nothing to do may sleep
  on a request of the control socket, whose requests are drained one per turn
  (`src/runtime.rs:690`), where `src/control.rs:36-37` expects a quick answer.
- `DirectClientCreate.cfg`, `CreatedTabIsNew`: the direct client takes the first state
  that comes in for the tab it created (`src/remote_direct_transport.rs:135-150`).
- `PaneWorkerFiles.cfg`, `ClosesOnlyItsOwn`: reader thread and `PtyProcess` both close
  the same descriptor.
- `RowReplicasIdentity.cfg`, `RowsKeepIdentity`: after a delta the phone keeps rows
  under ids they were not published with (`ios/Sources/ProtocolClient.swift:1983`;
  `docs/remote/runtime-view-todo-finish-plan.md:24-25`).
- `MCServerLaunchQuit.cfg`, `QuitStopsServer`: a server that cannot be used loses its
  name and is left running (`src/cli.rs:506`, `src/launch.rs:433`; help at
  `src/cli.rs:149-150`).
- `MCCopyModeWords.cfg`, `MotionsReturn`: a word motion back from a column right of the
  text of the row indexes past its end, and the server's main thread panics
  (`src/runtime_copy.rs:451-455`; `src/bindings.rs:81-82`).
- Without a cfg: a peer's selection or a control command makes a window skip a delta
  or clear its snapshots until its next action (`src/client_gui.rs:1105`,
  `src/runtime_server.rs:1184`, `src/runtime_ui.rs:427`), which is why
  `SettledUpToDate` speaks of a window left alone; over QUIC the coalescing writer
  drops the base of a delta (`src/remote_batcher.rs:249` against `:6-8`), which is why
  `LocalConverged` speaks of the local socket; modes of input are global, not a
  view's (`src/runtime_server.rs:938`; `docs/remote/runtime-view-migration.md:122-127`);
  output of panes in tabs that are not active is not polled (`src/backend.rs:387`;
  `docs/remote/implementation-checklist.md:210`).

## Not modelled

Configuration parsing, platform calls, tracing, profiling, diagnostics, and the
screens of the iOS client have no protocol. The iOS client's reconnection and
heartbeat timers, TLS and QUIC, the emulator and the kernel's PTYs are outside: a
connection may end at any point, and a program writes what it likes. Titles, fonts,
wording of errors, the tables of key names and `tmux.rs`, which nothing calls, are
left out, and so is `force_full_snapshot_refresh` in `PaneWorker` (it is in
`EscapeScanner`, without the threads), and freeing the row caches of panes, which the code never does.

## Plan

1. Theorems about `InputModes` (`EscapeCloses`, `ProgramReadsLast`), `GuiStream`
   (`SettledUpToDate`) and `PanePolling` (`QuietIsCurrent`), in that order; each needs
   an invariant that TLC has checked on its run first.
2. The iOS client's reconnection with its timers, as a module beside `WindowInput`.
