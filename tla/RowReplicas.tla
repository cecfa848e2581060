----------------------------- MODULE RowReplicas -----------------------------
(***************************************************************************)
(* The rows of one pane on their way from the server to its clients.  Each *)
(* published state gets an epoch and row ids from the pane's row cache     *)
(* (apply_row_cache_metadata) and is encoded whole or as the segments that *)
(* have changed (encode_full_state, encode_delta); the desktop window and  *)
(* the phone apply it to what they have.  The phone also keeps rows by     *)
(* their ids, and asks the server for those it misses when it is scrolled  *)
(* (requestMissingRowsIfNeeded, remote_row_range_response).                *)
(*                                                                         *)
(* A cell is its text and whether its colour is set, a message its fields. *)
(* Cursors are left out, and one stream stands for those of both clients.  *)
(***************************************************************************)
EXTENDS Naturals, Sequences, SequencesExt, FiniteSetsExt, Functions, TLC

CONSTANTS
    Texts,          \* of a cell the program writes
    Rows,           \* of the pane
    Widths,         \* columns it can have
    MaxLines,       \* what the emulator keeps, with its scrollback
    MaxRetained,    \* 10,000: rows a cache keeps
    Prefetch,       \* 24: rows the phone asks for beyond its screen
    MaxMail,        \* bound: messages on their way
    MaxSteps        \* bound: what the program and the users do

VARIABLES
    term,       \* the emulator: its lines and the first one in view
    cache,      \* PaneRowCache
    sent,       \* the state the clients were sent last, if any
    mail,       \* messages on their way to the clients
    desk,       \* rows_data of the desktop's snapshot
    phone,      \* screen, PaneReplica and requests in flight
    asks,       \* requests on their way to the server
    published,  \* every row published, with its epoch and id
    misfiled,   \* rows the phone has kept out of a delta
    lost,       \* requests that were lost with a connection
    steps

vars == <<term, cache, sent, mail, desk, phone, asks, published, misfiled, lost, steps>>

Blank == [text |-> "", red |-> FALSE]

Cells == [text : Texts, red : BOOLEAN] \cup {Blank}

BlankLine(cols) == [i \in 1..cols |-> Blank]

Cols == Len(term.lines[1])

NoRows == <<>>

Nowhere == [epoch |-> 0, cols |-> 0, top |-> 0, offset |-> 0, rows |-> NoRows]

Init ==
    /\ term = [lines |-> [i \in 1..Rows |-> BlankLine(Min(Widths))], top |-> 0]
    /\ cache = [epoch |-> 0, cols |-> 0, rows |-> NoRows]
    /\ sent = <<>>
    /\ mail = <<>>
    /\ desk = <<>>
    /\ phone = [screen |-> <<>>, replica |-> Nowhere, asked |-> {}]
    /\ asks = <<>>
    /\ published = {}
    /\ misfiled = {}
    /\ lost = {}
    /\ steps = 0

Minus(a, b) == IF a > b THEN a - b ELSE 0

-----------------------------------------------------------------------------
(* The emulator and its program.                                           *)

Does == steps < MaxSteps /\ steps' = steps + 1

Changes(t) ==
    /\ Does
    /\ t # term
    /\ term' = t
    /\ UNCHANGED <<cache, sent, mail, desk, phone, asks, published, misfiled, lost>>

Bottom(lines) == Len(lines) - Rows

Writes ==
    \E i \in 1..Rows, c \in 1..Cols, cell \in Cells :
        Changes([term EXCEPT !.lines[Bottom(term.lines) + i][c] = cell])

\* A view at the bottom stays there; the oldest lines go when it is full.
Breaks ==
    \E n \in {1, 2 * Rows} :
        LET more  == term.lines \o [i \in 1..n |-> BlankLine(Cols)]
            lines == SubSeq(more, 1 + Minus(Len(more), MaxLines), Len(more))
        IN  Changes([lines |-> lines,
                     top |-> IF term.top = Bottom(term.lines) THEN Bottom(lines) ELSE term.top])

Scrolls == \E top \in 0..Bottom(term.lines) : Changes([term EXCEPT !.top = top])

\* Lines are cut or filled; that long ones are wrapped makes no difference here.
Resizes ==
    \E cols \in Widths :
        Changes([term EXCEPT !.lines = [i \in DOMAIN @ |->
                    [c \in 1..cols |-> IF c <= Cols THEN @[i][c] ELSE Blank]]])

ClearsScrollback ==
    Changes([lines |-> SubSeq(term.lines, Bottom(term.lines) + 1, Len(term.lines)), top |-> 0])

-----------------------------------------------------------------------------
(* The server.                                                             *)

\* full_state_from_terminal: cells row after row.
TerminalState ==
    [top |-> term.top, cols |-> Cols,
     cells |-> FlattenSeq(SubSeq(term.lines, term.top + 1, term.top + Rows))]

RowAt(cells, cols, i) == SubSeq(cells, (i - 1) * cols + 1, i * cols)

NewestRows(rows) ==
    LET n == Cardinality(DOMAIN rows) - MaxRetained
    IN  Restrict(rows, {id \in DOMAIN rows :
                        Cardinality({other \in DOMAIN rows : other < id}) >= n})

\* Mutant: rows of another width stay in the cache.
OutdatedBelow(c, state) ==
    DOMAIN c.rows # {} /\ state.top + Rows < Min(DOMAIN c.rows)

\* The rows of another width go, and those above the view when it has gone back.
Outdated(c, state) ==
    \/ c.cols # 0 /\ c.cols # state.cols
    \/ DOMAIN c.rows # {} /\ state.top + Rows < Min(DOMAIN c.rows)

ApplyRowCacheMetadata(c, state) ==
    LET kept == IF Outdated(c, state) THEN NoRows ELSE c.rows
        seen == [id \in state.top..(state.top + Rows - 1) |->
                    RowAt(state.cells, state.cols, id - state.top + 1)]
    IN  [epoch |-> IF Outdated(c, state) \/ c.epoch = 0 THEN c.epoch + 1 ELSE c.epoch,
         cols |-> state.cols,
         rows |-> NewestRows(seen @@ kept)]

\* Mutant: the last cell of a segment is left out.
SegmentTooShort(before, after) ==
    LET differ == {c \in 1..Len(after) : before[c] # after[c]}
    IN  [start |-> Min(differ),
         cells |-> SubSeq(after, Min(differ),
                          IF Min(differ) = Max(differ) THEN Max(differ)
                          ELSE Max(differ) - 1)]

ChangedSegment(before, after) ==
    LET differ == {c \in 1..Len(after) : before[c] # after[c]}
    IN  [start |-> Min(differ), cells |-> SubSeq(after, Min(differ), Max(differ))]

ChangedRows(before, after) ==
    LET Row(state, i) == RowAt(state.cells, state.cols, i)
        changed == SelectSeq([i \in 1..Rows |-> i],
                             LAMBDA i : Row(before, i) # Row(after, i))
    IN  [k \in 1..Len(changed) |->
            [row |-> changed[k]] @@ ChangedSegment(Row(before, changed[k]), Row(after, changed[k]))]

\* encode_delta gives none when the size or the whole of every row has changed.
NoDelta(before, after) ==
    \/ before.cols # after.cols
    \/ LET changed == ChangedRows(before, after)
       IN  Len(changed) = Rows /\ \A k \in 1..Rows : Len(changed[k].cells) = after.cols

\* append_row_replica_trailer: the ids of the rows in the message, in order.
Encoded(before, after) ==
    IF before = <<>> \/ NoDelta(before, after)
    THEN [kind |-> "full", epoch |-> after.epoch, top |-> after.top, cols |-> after.cols,
          cells |-> after.cells, ids |-> [i \in 1..Rows |-> after.top + i - 1]]
    ELSE LET changed == ChangedRows(before, after)
         IN  [kind |-> "delta", epoch |-> after.epoch, top |-> after.top, cols |-> after.cols,
              changed |-> changed,
              ids |-> [k \in 1..Len(changed) |-> after.top + changed[k].row - 1]]

\* send_pane_state_to_client.
Publishes ==
    LET c     == ApplyRowCacheMetadata(cache, TerminalState)
        state == [epoch |-> c.epoch] @@ TerminalState
    IN  /\ state # sent
        /\ Len(mail) < MaxMail
        /\ cache' = c
        /\ sent' = state
        /\ mail' = Append(mail, Encoded(sent, state))
        /\ published' = published \cup
                {[epoch |-> c.epoch, id |-> state.top + i - 1, cells |-> RowAt(state.cells, state.cols, i)] :
                    i \in 1..Rows}
        /\ UNCHANGED <<term, desk, phone, asks, misfiled, lost, steps>>

\* remote_row_range_response: nothing of another epoch than the one asked for.
RowRangeResponse(ask) ==
    LET ids == {id \in DOMAIN cache.rows : id >= ask.start /\ id < ask.end}
    IN  [kind |-> "rows", epoch |-> cache.epoch, cols |-> cache.cols, top |-> ask.start,
         rows |-> IF ask.epoch = cache.epoch THEN Restrict(cache.rows, ids) ELSE NoRows]

\* RemoteRowRangeRequest, of a client that sees the pane.
Answers ==
    /\ asks # <<>>
    /\ cache.epoch # 0
    /\ Len(mail) < MaxMail
    /\ mail' = Append(mail, RowRangeResponse(Head(asks)))
    /\ asks' = Tail(asks)
    /\ UNCHANGED <<term, cache, sent, desk, phone, published, misfiled, lost, steps>>

-----------------------------------------------------------------------------
(* The desktop window.                                                     *)

\* A cell of a full state has the theme's colour unless it has its own, one of
\* a delta the built-in colour.
Shown(cell, colour) == [text |-> cell.text, colour |-> IF cell.red THEN "red" ELSE colour]

DeskFull(message) ==
    [i \in 1..Rows |-> LET row == RowAt(message.cells, message.cols, i)
                       IN  [c \in 1..message.cols |-> Shown(row[c], "theme")]]

DeskDelta(rows, message) ==
    FoldLeft(LAMBDA all, part :
                [all EXCEPT ![part.row] = [c \in DOMAIN @ |->
                    IF c >= part.start /\ c < part.start + Len(part.cells)
                    THEN Shown(part.cells[c - part.start + 1], "built-in") ELSE @[c]]],
             rows, message.changed)

-----------------------------------------------------------------------------
(* The phone.                                                              *)

PhoneScreen(screen, message) ==
    IF message.kind = "full" THEN [cols |-> message.cols, cells |-> message.cells]
    ELSE [screen EXCEPT !.cells = FoldLeft(LAMBDA cells, part :
            [n \in DOMAIN cells |->
                LET first == (part.row - 1) * screen.cols + part.start
                IN  IF n >= first /\ n < first + Len(part.cells)
                    THEN part.cells[n - first + 1] ELSE cells[n]], @, message.changed)]

\* Mutant: rows are kept across epochs.
ReplicaKept(replica, message) ==
    [replica EXCEPT !.epoch = message.epoch, !.cols = message.cols]

\* A replica of another epoch or width is begun anew.
ReplicaFor(replica, message) ==
    IF replica.epoch = message.epoch /\ replica.cols = message.cols THEN replica
    ELSE [epoch |-> message.epoch, cols |-> message.cols, top |-> message.top,
          offset |-> 0, rows |-> NoRows]

\* updatePaneReplica: the k-th id is given the k-th row of the screen.
UpdatePaneReplica(replica, message, screen) ==
    LET fresh == ReplicaFor(replica, message)
        ids   == message.ids
        Kept(id) == RowAt(screen.cells, screen.cols, CHOOSE k \in DOMAIN ids : ids[k] = id)
    IN  [fresh EXCEPT !.top = message.top,
                      !.rows = NewestRows([id \in Range(ids) |-> Kept(id)] @@ @)]

Misfiled(message) ==
    IF message.kind # "delta" THEN {}
    ELSE {[epoch |-> message.epoch, id |-> message.ids[k]] :
            k \in {k \in DOMAIN message.ids : message.changed[k].row # k}}

\* Mutant: an answer clears nothing.
NothingAnswered(asked, message) == asked

Unanswered(asked, message) == {ask \in asked : ask.epoch # message.epoch}

\* applyPaneRows.
ApplyPaneRows(message) ==
    LET fresh == IF phone.replica.epoch = 0 THEN ReplicaFor(phone.replica, message)
                 ELSE [ReplicaFor(phone.replica, message) EXCEPT !.top = phone.replica.top]
    IN  [phone EXCEPT !.replica = [fresh EXCEPT !.rows = NewestRows(message.rows @@ @)],
                      !.asked = Unanswered(@, message)]

\* The phone's guards are left out: an update of the pane that is shown targets the
\* current view, and what one ordered connection brings is never older than what
\* came before it nor a delta without its base, so that no refresh is asked for.
Receives ==
    /\ mail # <<>>
    /\ LET message == Head(mail)
       IN  IF message.kind = "rows"
           THEN phone' = ApplyPaneRows(message) /\ UNCHANGED <<desk, misfiled>>
           ELSE LET screen == PhoneScreen(phone.screen, message)
                IN  /\ desk' = IF message.kind = "full" THEN DeskFull(message)
                               ELSE DeskDelta(desk, message)
                    /\ phone' = [phone EXCEPT !.screen = screen,
                                    !.replica = UpdatePaneReplica(@, message, screen)]
                    /\ misfiled' = misfiled \cup Misfiled(message)
    /\ mail' = Tail(mail)
    /\ UNCHANGED <<term, cache, sent, asks, published, lost, steps>>

\* The first run of rows in the range that the phone has not got.
Missing(rows, from, to) ==
    LET gaps  == {id \in from..(to - 1) : id \notin DOMAIN rows}
        start == Min(gaps)
        after == {id \in start..(to - 1) : id \in DOMAIN rows}
    IN  IF gaps = {} THEN {} ELSE {[start |-> start, end |-> IF after = {} THEN to ELSE Min(after)]}

\* scrollTouchHistory.
ScrollsTouch ==
    \E offset \in 0..phone.replica.top :
        LET replica == phone.replica
            start   == Minus(replica.top, offset)
            gap     == IF offset = 0 THEN {}
                       ELSE Missing(replica.rows, Minus(start, Prefetch), start + Rows + Prefetch + 1)
            new     == {[epoch |-> replica.epoch] @@ g : g \in gap} \ phone.asked
        IN  /\ Does
            /\ phone.screen # <<>> /\ replica.epoch # 0
            /\ offset # replica.offset
            /\ phone' = [phone EXCEPT !.replica.offset = offset, !.asked = @ \cup new]
            /\ asks' = asks \o SetToSeq(new)
            /\ UNCHANGED <<term, cache, sent, mail, desk, published, misfiled, lost>>

\* The connection breaks and is made anew (protocolError): the phone keeps its
\* rows and the requests in flight, the server sends the state whole.
Reconnects ==
    /\ Does
    /\ sent # <<>>
    /\ sent' = <<>>
    /\ mail' = <<>>
    /\ asks' = <<>>
    /\ phone' = [phone EXCEPT !.screen = <<>>]
    /\ lost' = lost \cup phone.asked
    /\ UNCHANGED <<term, cache, desk, published, misfiled>>

Next ==
    \/ Writes \/ Breaks \/ Scrolls \/ Resizes \/ ClearsScrollback
    \/ Publishes \/ Answers \/ Receives
    \/ ScrollsTouch \/ Reconnects

Spec == Init /\ [][Next]_vars

-----------------------------------------------------------------------------
Asks == [epoch : Nat, start : Nat, end : Nat]

TypeOK ==
    /\ \A line \in Range(term.lines) : line \in [1..Cols -> Cells]
    /\ Len(term.lines) \in Rows..MaxLines /\ term.top \in 0..Bottom(term.lines)
    /\ cache.epoch \in Nat
    /\ \A kept \in {cache, phone.replica} :
        /\ Cardinality(DOMAIN kept.rows) <= MaxRetained
        /\ \A id \in DOMAIN kept.rows : Len(kept.rows[id]) = kept.cols
    /\ phone.asked \subseteq Asks
    /\ Range(asks) \subseteq Asks
    /\ Len(mail) <= MaxMail

\* Once all that was sent has arrived, the desktop and the phone show the text
\* the server published last, whether it came whole or in segments.
ScreensFollow ==
    (sent # <<>> /\ \A m \in Range(mail) : m.kind = "rows") =>
        /\ phone.screen = [cols |-> sent.cols, cells |-> sent.cells]
        /\ \A i \in 1..Rows : [c \in DOMAIN desk[i] |-> desk[i][c].text]
                = [c \in 1..sent.cols |-> RowAt(sent.cells, sent.cols, i)[c].text]

IsPublished(id) ==
    [epoch |-> phone.replica.epoch, id |-> id, cells |-> phone.replica.rows[id]] \in published

\* A row the phone shows in its scrollback is one the server has published
\* under that id and in that epoch, whether it was kept from a screen or asked
\* for.  The exception: the rows of a delta are filed by their place in the
\* message, not by their place on the screen.
RowsWerePublished ==
    \A id \in DOMAIN phone.replica.rows :
        IsPublished(id) \/ [epoch |-> phone.replica.epoch, id |-> id] \in misfiled

\* "full/delta messages carry server row-identity metadata and iOS keeps a
\* touch-only row replica for smooth local scrollback": the same of all rows.
RowsKeepIdentity == \A id \in DOMAIN phone.replica.rows : IsPublished(id)

\* A request in flight stops further ones for the same rows, so an answer that
\* clears it must be under way, or the epoch it is about is over.  The
\* exception: requests that were lost with a connection are not forgotten.
RequestUnderWay ==
    \A ask \in phone.asked :
        \/ ask \in Range(asks)
        \/ \E m \in Range(mail) : m.kind = "rows" /\ m.epoch = ask.epoch
        \/ ask.epoch # cache.epoch
        \/ ask \in lost

\* What the desktop draws has the theme's colours wherever the program has not
\* chosen others.
ThemeIsKept ==
    \A i \in DOMAIN desk : \A c \in DOMAIN desk[i] : desk[i][c].colour \in {"theme", "red"}
=============================================================================
