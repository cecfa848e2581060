---------------------------- MODULE OutboundStream ----------------------------
(***************************************************************************)
(* The stream of frames from the server to one client that shows a tab:    *)
(* the screens of its panes as full states and deltas, the cached control  *)
(* payloads, and replies.  The server thread encodes each screen against   *)
(* what it sent last (remote_server_stream.rs) and queues the frame; a     *)
(* writer thread drains the queue into the socket (remote_batcher.rs), one *)
(* frame at a time for a desktop client on the local socket, in coalesced  *)
(* batches for a client over QUIC; the client applies what it reads.       *)
(*                                                                         *)
(*    local   whether the client is on the local socket                    *)
(*    last    last_state and pane_states: per stream, the screen sent last *)
(*    cached  last_*_payload: per slot, the payload sent last, 0 for None  *)
(*    queue   the mpsc channel to the writer thread                        *)
(*    wire    the frames written and not yet read by the client            *)
(*    held    per stream, the screen the client holds                      *)
(*    shown   per slot, the payload the client holds                       *)
(*    owed    the replies queued on this connection and not yet read       *)
(*                                                                         *)
(* A stream is the focused pane (full_state and delta messages) or one of  *)
(* the other visible panes (ui_pane_full_state and ui_pane_delta).  A      *)
(* screen is a function from its rows to their contents; screens are one   *)
(* cell wide, so the changed segment of a row is the row.  The screen of   *)
(* no rows stands for None: it differs in size from every screen, so the   *)
(* encoder answers it with a full state, and a delta applied to it changes *)
(* nothing.  Payloads are numbers.                                         *)
(***************************************************************************)
EXTENDS Naturals, Sequences

CONSTANTS
    Focused,     \* the stream of the focused pane
    Passive,     \* the streams of the other visible panes
    Slots,       \* the cached control payloads: tab list, runtime state, appearance
    TabList,     \* the one of them that also leaves as a reply, uncached
    Payloads,    \* per slot, its payloads
    Sizes,       \* the numbers of rows a screen may have
    Glyphs,      \* the contents a row may have
    Screens,     \* the screens the panes show
    MaxUnderWay  \* bound: frames queued or written and not yet read

Streams == {Focused} \cup Passive

ASSUME StreamsAssumption == Focused \notin Passive

ASSUME SlotsAssumption == TabList \in Slots

ASSUME SizesAssumption == Sizes \subseteq Nat \ {0}

AllScreens == UNION {[1..n -> Glyphs] : n \in Sizes}

ASSUME ScreensAssumption == Screens \subseteq AllScreens

ASSUME PayloadsAssumption == Payloads \in [Slots -> SUBSET (Nat \ {0})]

ASSUME BoundsAssumption == MaxUnderWay \in Nat

VARIABLES local, last, cached, queue, wire, held, shown, owed

vars == <<local, last, cached, queue, wire, held, shown, owed>>

NoScreen == <<>>

\* The rows of a frame: all of them, or those that changed.
RowSets == UNION {[R -> Glyphs] : R \in UNION {SUBSET (1..n) : n \in Sizes}}

Update(stream, full, rows) ==
    [kind |-> "update", stream |-> stream, full |-> full, rows |-> rows]

ReplyKinds == {"priority", "plain"}

Message ==
    [kind : {"update"}, stream : Streams, full : {TRUE}, rows : AllScreens]
        \cup [kind : {"update"}, stream : Streams, full : {FALSE}, rows : RowSets]
        \cup [kind : {"control"}, slot : Slots, value : Nat]
        \cup [kind : ReplyKinds]

TypeOK ==
    /\ local \in BOOLEAN
    /\ last \in [Streams -> AllScreens \cup {NoScreen}]
    /\ cached \in [Slots -> Nat]
    /\ queue \in Seq(Message)
    /\ wire \in Seq(Message)
    /\ held \in [Streams -> AllScreens \cup {NoScreen}]
    /\ shown \in [Slots -> Nat]
    /\ owed \in Seq(ReplyKinds)

Init ==
    /\ local \in BOOLEAN
    /\ last = [s \in Streams |-> NoScreen]
    /\ cached = [k \in Slots |-> 0]
    /\ queue = <<>>
    /\ wire = <<>>
    /\ held = [s \in Streams |-> NoScreen]
    /\ shown = [k \in Slots |-> 0]
    /\ owed = <<>>

-----------------------------------------------------------------------------
(* The server thread.                                                      *)

Changed(old, new) == {r \in DOMAIN new : old[r] # new[r]}

\* encode_delta gives up on another size and when every row has changed.
DeltaPossible(old, new) ==
    /\ DOMAIN old = DOMAIN new
    /\ Changed(old, new) # {} => Changed(old, new) # DOMAIN new

\* Mutant: a delta of the rows that differ, whatever the sizes.
EncodeIgnoringSize(stream, old, new) ==
    IF old # NoScreen
    THEN Update(stream, FALSE,
                [r \in {k \in DOMAIN new : k \notin DOMAIN old \/ old[k] # new[k]} |-> new[r]])
    ELSE Update(stream, TRUE, new)

Encode(stream, old, new) ==
    IF DeltaPossible(old, new)
    THEN Update(stream, FALSE, [r \in Changed(old, new) |-> new[r]])
    ELSE Update(stream, TRUE, new)

Enqueue(m) ==
    /\ Len(queue) + Len(wire) < MaxUnderWay
    /\ queue' = Append(queue, m)

\* send_state_to_client and send_pane_state_to_client.  publish_remote_tab
\* calls them pane by pane; the writer may run in between.
Publish(stream, screen) ==
    /\ Enqueue(Encode(stream, last[stream], screen))
    /\ last' = [last EXCEPT ![stream] = screen]
    /\ UNCHANGED <<local, cached, wire, held, shown, owed>>

\* touch_view, with any change of the view: nothing counts as sent any more.
TouchView ==
    /\ last' = [s \in Streams |-> NoScreen]
    /\ UNCHANGED <<local, cached, queue, wire, held, shown, owed>>

\* send_cached_control_payload_bytes.
SendControl(slot, value) ==
    /\ value # cached[slot]
    /\ Enqueue([kind |-> "control", slot |-> slot, value |-> value])
    /\ cached' = [cached EXCEPT ![slot] = value]
    /\ UNCHANGED <<local, last, wire, held, shown, owed>>

\* reply_tab_list: the answer to ListTabs is a tab list that no cache holds back
\* and no cache records.
ReplyTabList(value) ==
    /\ Enqueue([kind |-> "control", slot |-> TabList, value |-> value])
    /\ UNCHANGED <<local, last, cached, wire, held, shown, owed>>

\* A heartbeat ack, an error or a created tab ("priority"), or any other frame
\* that is neither cached nor a screen, such as a row range ("plain").
Reply(kind) ==
    /\ Enqueue([kind |-> kind])
    /\ owed' = Append(owed, kind)
    /\ UNCHANGED <<local, last, cached, wire, held, shown>>

-----------------------------------------------------------------------------
(* The writer thread.                                                      *)

SameKey(m, n) ==
    IF m.kind = "control" THEN m.slot = n.slot ELSE m.stream = n.stream

\* Pending frames keep the place of the first of their kind (or pane) and the
\* contents of the last.
SetPending(pending, m) ==
    IF \E i \in DOMAIN pending : SameKey(pending[i], m)
    THEN [i \in DOMAIN pending |-> IF SameKey(pending[i], m) THEN m ELSE pending[i]]
    ELSE Append(pending, m)

EmptyBatch == [frames |-> <<>>, control |-> <<>>, screen |-> <<>>, passive |-> <<>>]

WithControl(b) == [b EXCEPT !.frames = @ \o b.control, !.control = <<>>]

WithPanes(b) ==
    [b EXCEPT !.frames = @ \o b.screen \o b.passive, !.screen = <<>>, !.passive = <<>>]

\* Mutants: a pending screen is pushed after the reply it precedes; the first
\* of several pending payloads wins.
PushKeepingFirst(b, m) ==
    CASE m.kind = "control" ->
            IF \E i \in DOMAIN b.control : SameKey(b.control[i], m)
            THEN b ELSE [b EXCEPT !.control = Append(@, m)]
      [] m.kind = "update" /\ m.stream = Focused -> [b EXCEPT !.screen = <<m>>]
      [] m.kind = "update" /\ m.stream # Focused -> [b EXCEPT !.passive = SetPending(@, m)]
      [] m.kind = "priority" -> [WithControl(b) EXCEPT !.frames = Append(@, m)]
      [] m.kind = "plain" -> [WithPanes(WithControl(b)) EXCEPT !.frames = Append(@, m)]

PushPriorityFirst(b, m) ==
    CASE m.kind = "control" -> [b EXCEPT !.control = SetPending(@, m)]
      [] m.kind = "update" /\ m.stream = Focused -> [b EXCEPT !.screen = <<m>>]
      [] m.kind = "update" /\ m.stream # Focused -> [b EXCEPT !.passive = SetPending(@, m)]
      [] m.kind = "priority" -> [WithControl(b) EXCEPT !.frames = <<m>> \o @]
      [] m.kind = "plain" -> [WithPanes(WithControl(b)) EXCEPT !.frames = Append(@, m)]

\* The closure `push' of collect_outbound_batch, coalescing screen updates.
Push(b, m) ==
    CASE m.kind = "control" -> [b EXCEPT !.control = SetPending(@, m)]
      [] m.kind = "update" /\ m.stream = Focused -> [b EXCEPT !.screen = <<m>>]
      [] m.kind = "update" /\ m.stream # Focused -> [b EXCEPT !.passive = SetPending(@, m)]
      [] m.kind = "priority" -> [WithControl(b) EXCEPT !.frames = Append(@, m)]
      [] m.kind = "plain" -> [WithPanes(WithControl(b)) EXCEPT !.frames = Append(@, m)]

\* collect_outbound_batch on the messages it finds in the channel.
Batch(messages) ==
    LET batch[n \in 0..Len(messages)] ==
            IF n = 0 THEN EmptyBatch ELSE Push(batch[n - 1], messages[n])
    IN  WithPanes(WithControl(batch[Len(messages)])).frames

\* One turn of writer_loop on the local socket.
WriteOne ==
    /\ local
    /\ queue # <<>>
    /\ wire' = Append(wire, Head(queue))
    /\ queue' = Tail(queue)
    /\ UNCHANGED <<local, last, cached, held, shown, owed>>

\* One turn over QUIC: the batch is what the server has queued by the time
\* try_recv first finds the channel empty.
WriteBatch(n) ==
    /\ ~local
    /\ n \in 1..Len(queue)
    /\ wire' = wire \o Batch(SubSeq(queue, 1, n))
    /\ queue' = SubSeq(queue, n + 1, Len(queue))
    /\ UNCHANGED <<local, last, cached, held, shown, owed>>

-----------------------------------------------------------------------------
(* The client.                                                             *)

\* Mutant: a delta adds the rows the screen does not have.
AppliedGrowing(m, stream, screen) ==
    IF m.kind # "update" \/ m.stream # stream THEN screen
    ELSE IF m.full THEN m.rows
    ELSE [r \in DOMAIN screen \cup DOMAIN m.rows |->
            IF r \in DOMAIN m.rows THEN m.rows[r] ELSE screen[r]]

\* What a frame leaves of the screen held for a stream.  A delta sets the rows
\* it carries, skips those the screen does not have, and is checked against no
\* base (apply_remote_delta_snapshot, WireCodec.applyDelta).
Applied(m, stream, screen) ==
    IF m.kind # "update" \/ m.stream # stream THEN screen
    ELSE IF m.full THEN m.rows
    ELSE [r \in DOMAIN screen |-> IF r \in DOMAIN m.rows THEN m.rows[r] ELSE screen[r]]

\* handle_stream_event of the desktop client, handleDecodedMessage of iOS.
Receive ==
    /\ wire # <<>>
    /\ LET m == Head(wire)
       IN  /\ held' = [s \in Streams |-> Applied(m, s, held[s])]
           /\ shown' = IF m.kind = "control" THEN [shown EXCEPT ![m.slot] = m.value] ELSE shown
           /\ owed' = IF m.kind \in ReplyKinds THEN Tail(owed) ELSE owed
    /\ wire' = Tail(wire)
    /\ UNCHANGED <<local, last, cached, queue>>

\* The connection breaks and the client makes another: what was under way is
\* lost and the server starts from a ClientRuntimeView::idle.
Reconnect ==
    /\ last' = [s \in Streams |-> NoScreen]
    /\ cached' = [k \in Slots |-> 0]
    /\ queue' = <<>>
    /\ wire' = <<>>
    /\ owed' = <<>>
    /\ UNCHANGED <<local, held, shown>>

Next ==
    \/ \E stream \in Streams, screen \in Screens : Publish(stream, screen)
    \/ TouchView
    \/ \E slot \in Slots : \E value \in Payloads[slot] : SendControl(slot, value)
    \/ \E value \in Payloads[TabList] : ReplyTabList(value)
    \/ \E kind \in ReplyKinds : Reply(kind)
    \/ WriteOne
    \/ \E n \in 1..MaxUnderWay : WriteBatch(n)
    \/ Receive
    \/ Reconnect

Spec == Init /\ [][Next]_vars

-----------------------------------------------------------------------------
Idle == queue = <<>> /\ wire = <<>>

\* With nothing under way the client shows what the server believes it shows:
\* the next delta, which is cut against that belief, fits.
Converged ==
    Idle => \A s \in Streams : last[s] # NoScreen => held[s] = last[s]

\* The same for a desktop client, whose writer sends frame by frame.
LocalConverged == local => Converged

\* Coalescing keeps the newest payload of every slot: once all is read, the
\* runtime state and the appearance are the ones sent last, and the server,
\* which sends no payload twice, need not repeat them.
ControlConverged ==
    Idle => \A k \in Slots \ {TabList} : cached[k] # 0 => shown[k] = cached[k]

\* The replies among the frames of q, in the order they are in.
Replies(q) ==
    LET replies[n \in 0..Len(q)] ==
            IF n = 0 THEN <<>>
            ELSE IF q[n].kind \in ReplyKinds THEN Append(replies[n - 1], q[n].kind)
            ELSE replies[n - 1]
    IN  replies[Len(q)]

\* No reply is lost, repeated or overtaken by another one, batched or not, with
\* priority frames passing the screens before them.
RepliesInOrder == Replies(wire \o queue) = owed
=============================================================================
