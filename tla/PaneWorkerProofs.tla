-------------------------- MODULE PaneWorkerProofs --------------------------
(***************************************************************************)
(* The three threads of a pane lose nothing of what its program says: for  *)
(* any amount of output, any number of commands and any room in the pseudo *)
(* terminal, every chunk and every note is in exactly one of the places it *)
(* passes through, and the last resize sent is on its way or applied.      *)
(***************************************************************************)
EXTENDS PaneWorker, FiniteSets, FiniteSetTheorems, TLAPS

\* The places of a sequence that hold one of some kinds, and how many.
Places(s, kinds) == {i \in 1..Len(s) : s[i] \in kinds}

Counted(s, kinds) == Cardinality(Places(s, kinds))

Events == {"text", "note", "exited"}
Chunk == {"text", "note"}
Note == {"note"}

One(event, kinds) == IF event \in kinds THEN 1 ELSE 0

LEMMA PlacesFinite ==
    ASSUME NEW S, NEW s \in Seq(S), NEW kinds
    PROVE  IsFiniteSet(Places(s, kinds)) /\ Counted(s, kinds) \in Nat
  <1>1. Len(s) \in Nat
    OBVIOUS
  <1>2. IsFiniteSet(1..Len(s))
    BY <1>1, FS_Interval
  <1>3. Places(s, kinds) \in SUBSET (1..Len(s))
    BY DEF Places
  <1>4. IsFiniteSet(Places(s, kinds))
    BY <1>2, <1>3, FS_Subset
  <1> QED
    BY <1>4, FS_CardinalityType DEF Counted

LEMMA CountedEmpty == \A kinds : Counted(<<>>, kinds) = 0
  <1>1. \A kinds : Places(<<>>, kinds) = {}
    BY DEF Places
  <1> QED
    BY <1>1, FS_EmptySet DEF Counted

LEMMA CountedAppend ==
    ASSUME NEW S, NEW s \in Seq(S), NEW e \in S, NEW kinds
    PROVE  Counted(Append(s, e), kinds) = Counted(s, kinds) + One(e, kinds)
  <1> DEFINE n == Len(s) + 1
             new == Append(s, e)
  <1>1. /\ Len(s) \in Nat /\ Len(new) = n
        /\ new[n] = e
        /\ \A i \in 1..Len(s) : new[i] = s[i]
    OBVIOUS
  <1>2. IsFiniteSet(Places(s, kinds)) /\ Counted(s, kinds) \in Nat
    BY PlacesFinite
  <1> HIDE DEF new
  <1>3. n \notin Places(s, kinds)
    BY <1>1 DEF Places
  <1>4. CASE e \in kinds
    <2>1. Places(new, kinds) = Places(s, kinds) \cup {n}
      BY <1>1, <1>4 DEF Places
    <2>2. Cardinality(Places(s, kinds) \cup {n}) = Cardinality(Places(s, kinds)) + 1
      BY <1>2, <1>3, FS_AddElement
    <2>3. Counted(new, kinds) = Counted(s, kinds) + One(e, kinds)
      BY <1>4, <2>1, <2>2 DEF Counted, One
    <2> QED
      BY <2>3 DEF new
  <1>5. CASE e \notin kinds
    <2>1. Places(new, kinds) = Places(s, kinds)
      BY <1>1, <1>5 DEF Places
    <2>2. Counted(new, kinds) = Counted(s, kinds) + One(e, kinds)
      BY <1>2, <1>5, <2>1 DEF Counted, One
    <2> QED
      BY <2>2 DEF new
  <1> QED
    BY <1>4, <1>5

LEMMA CountedTail ==
    ASSUME NEW S, NEW s \in Seq(S), s # <<>>, NEW kinds
    PROVE  Counted(s, kinds) = Counted(Tail(s), kinds) + One(Head(s), kinds)
  <1> DEFINE rest == Tail(s)
             old == Places(s, kinds)
             new == Places(rest, kinds)
             f == [i \in old \ {1} |-> i - 1]
  <1>1. /\ Len(s) \in Nat /\ Len(s) >= 1
        /\ rest \in Seq(S) /\ Len(rest) = Len(s) - 1
        /\ \A i \in 1..Len(rest) : rest[i] = s[i + 1]
        /\ Head(s) = s[1]
    OBVIOUS
  <1> HIDE DEF rest
  <1>2. IsFiniteSet(old) /\ Counted(s, kinds) \in Nat /\ Counted(rest, kinds) \in Nat
    BY <1>1, PlacesFinite
  <1>3. \A i \in old \ {1} : f[i] = i - 1 /\ i \in Nat
    BY DEF Places
  <1>4. f \in [old \ {1} -> new]
    <2>1. \A i \in old \ {1} : i - 1 \in new
      BY <1>1 DEF Places
    <2> QED
      BY <2>1
  <1>5. \A j \in new : j + 1 \in old \ {1} /\ j \in Nat
    BY <1>1 DEF Places
  <1>6. f \in Bijection(old \ {1}, new)
    <2>1. \A i, j \in old \ {1} : f[i] = f[j] => i = j
      BY <1>3
    <2>2. \A j \in new : \E i \in old \ {1} : f[i] = j
      <3> SUFFICES ASSUME NEW j \in new PROVE \E i \in old \ {1} : f[i] = j
        OBVIOUS
      <3>1. f[j + 1] = j
        BY <1>3, <1>5
      <3> QED
        BY <1>5, <3>1
    <2> HIDE DEF f, old, new
    <2>3. f \in Injection(old \ {1}, new)
      BY <1>4, <2>1 DEF Injection, IsInjective
    <2>4. f \in Surjection(old \ {1}, new)
      BY <1>4, <2>2 DEF Surjection
    <2> QED
      BY <2>3, <2>4 DEF Bijection
  <1> HIDE DEF f
  <1>7. /\ IsFiniteSet(old \ {1})
        /\ Cardinality(old \ {1}) = IF 1 \in old THEN Cardinality(old) - 1 ELSE Cardinality(old)
    BY <1>2, FS_RemoveElement
  <1>8. Cardinality(new) = Cardinality(old \ {1})
    BY <1>6, <1>7, FS_Bijection DEF ExistsBijection
  <1>9. 1 \in old <=> Head(s) \in kinds
    BY <1>1 DEF Places
  <1>10. Counted(s, kinds) = Counted(rest, kinds) + One(Head(s), kinds)
    BY <1>2, <1>7, <1>8, <1>9 DEF Counted, One
  <1> QED
    BY <1>10 DEF rest

-----------------------------------------------------------------------------
(* The inductive invariant.                                                *)

\* Where the notes and the chunks are that the program has written.
NotesUnderWay == Counted(events, Note) + pane.notes + shared.notes + main.notes

ChunksUnderWay == Counted(events, Chunk) + pane.pending + pane.term.chunks

\* Nothing is counted twice, and nothing is lost before the worker is gone; a
\* worker that has seen the program exit leaves nothing behind.
Balance ==
    /\ child.notes <= child.chunks
    /\ NotesUnderWay <= child.notes
    /\ ChunksUnderWay <= child.chunks
    /\ worker # "gone" => ChunksUnderWay = child.chunks
    /\ worker # "gone" \/ pane.exited => NotesUnderWay = child.notes

\* The exit is the reader's last event, and each later place knows of it only
\* when the earlier ones are empty.
LastWord ==
    /\ \A i \in 1..Len(events) : events[i] = "exited" => i = Len(events) /\ reader = "done"
    /\ pane.exited => reader = "done" /\ events = <<>>
    /\ shared.exited => pane.exited /\ pane.notes = 0
    /\ main.exited => shared.exited /\ shared.notes = 0

\* The snapshots follow the emulator, except while the worker's flags say so.
Fresh ==
    /\ ~pane.dirty => pane.snap = pane.term
    /\ pane.changed => worker = "publish"
    /\ ~pane.changed => shared.snap = pane.snap
    /\ worker \in {"publish", "wake", "decide", "select"} /\ pane.pending = 0 => ~pane.dirty

IsResize(s, i) == s[i].op = "Resize"

LastSize(s, screen, size) ==
    \/ \E i \in 1..Len(s) :
        /\ IsResize(s, i) /\ s[i].size = size
        /\ \A j \in 1..Len(s) : IsResize(s, j) => j <= i
    \/ screen = size /\ \A i \in 1..Len(s) : ~IsResize(s, i)

\* The size of the pane is that of the last resize on its way.
Sized == worker # "gone" => LastSize(inbox, pane.term.size, main.size)

PaneInv == TypeOK /\ Balance /\ LastWord /\ Fresh /\ Sized /\ UnseenMeansWoken

-----------------------------------------------------------------------------
(* The steps, with the worker's sorted by what they do.                    *)

Handles ==
    /\ worker \in {"select", "commands"}
    /\ inbox # <<>>
    /\ \E to \in {"commands", "events"} : Handle(Head(inbox), to)

Receives ==
    /\ worker \in {"select", "events"}
    /\ events # <<>>
    /\ \E to \in {"commands", "events", "process"} : Receive(Head(events), to)

Moves ==
    \/ \E from \in {"select", "commands", "events"}, to \in {"commands", "events", "process"} :
        Goes(from, to)
    \/ Goes("decide", "select")

Leaves ==
    /\ worker = "decide"
    /\ worker' = "gone"
    /\ inbox' = <<>>
    /\ events' = <<>>
    /\ CloseReaderFd
    /\ UNCHANGED <<child, reader, pane, shared, main, wake>>

Orders == \E command \in Commands : Commanded(command)

LEMMA StepCases ==
    ASSUME [Next]_vars
    PROVE  \/ \E chunk \in Chunk : Writes(chunk)
           \/ Reads \/ Exits \/ StrangerOpens \/ StrangerCloses
           \/ ReaderEnds \/ ReaderReaps
           \/ Handles \/ Receives \/ Moves \/ Process \/ Publish \/ Wake \/ Leaves
           \/ Orders \/ AsksLink \/ GetsLink \/ Polls \/ Closes \/ Joined
           \/ UNCHANGED vars
  <1>1. Worker => Handles \/ Receives \/ Moves \/ Process \/ Publish \/ Wake \/ Leaves
    <2>1. Select => Handles \/ Receives \/ Moves
      BY DEF Select, Handles, Receives, Moves
    <2>2. DrainCommands => Handles \/ Moves
      BY DEF DrainCommands, Handles, Moves
    <2>3. DrainEvents => Receives \/ Moves
      BY DEF DrainEvents, Receives, Moves
    <2>4. Decide => Moves \/ Leaves
      BY DEF Decide, Moves, Leaves
    <2> QED
      BY <2>1, <2>2, <2>3, <2>4 DEF Worker
  <1>2. Main => \/ Orders \/ AsksLink \/ GetsLink \/ Polls \/ Closes \/ Joined
    <2>1. /\ [op |-> "Input"] \in Commands
          /\ \A size \in Sizes : [op |-> "Resize", size |-> size] \in Commands
      BY DEF Commands
    <2> QED
      BY <2>1 DEF Main, Resumes, Orders
  <1> QED
    BY <1>1, <1>2 DEF Next, Program, Reader, Chunk

\* What a step does to the events is to append one, to take the first or to
\* drop them all.
LEMMA EventFacts ==
    ASSUME events \in Seq(Events)
    PROVE  /\ Counted(events, Note) \in Nat /\ Counted(events, Chunk) \in Nat
           /\ \A e \in Events :
                /\ Append(events, e) \in Seq(Events)
                /\ Counted(Append(events, e), Note) = Counted(events, Note) + One(e, Note)
                /\ Counted(Append(events, e), Chunk) = Counted(events, Chunk) + One(e, Chunk)
           /\ events # <<>> =>
                /\ Head(events) \in Events
                /\ Tail(events) \in Seq(Events)
                /\ Counted(Tail(events), Note) \in Nat
                /\ Counted(Tail(events), Chunk) \in Nat
                /\ Counted(events, Note) = Counted(Tail(events), Note) + One(Head(events), Note)
                /\ Counted(events, Chunk) = Counted(Tail(events), Chunk) + One(Head(events), Chunk)
  <1>1. Counted(events, Note) \in Nat /\ Counted(events, Chunk) \in Nat
    BY PlacesFinite
  <1>2. ASSUME NEW e \in Events
        PROVE  /\ Append(events, e) \in Seq(Events)
               /\ Counted(Append(events, e), Note) = Counted(events, Note) + One(e, Note)
               /\ Counted(Append(events, e), Chunk) = Counted(events, Chunk) + One(e, Chunk)
    BY CountedAppend
  <1>3. ASSUME events # <<>>
        PROVE  /\ Head(events) \in Events
               /\ Tail(events) \in Seq(Events)
               /\ Counted(Tail(events), Note) \in Nat
               /\ Counted(Tail(events), Chunk) \in Nat
               /\ Counted(events, Note) = Counted(Tail(events), Note) + One(Head(events), Note)
               /\ Counted(events, Chunk)
                    = Counted(Tail(events), Chunk) + One(Head(events), Chunk)
    <2>1. Head(events) \in Events /\ Tail(events) \in Seq(Events)
      BY <1>3
    <2> QED
      BY <1>3, <2>1, PlacesFinite, CountedTail
  <1> QED
    BY <1>1, <1>2, <1>3

\* The types of the numbers the balance is about.
LEMMA Numbers ==
    ASSUME TypeOK
    PROVE  /\ events \in Seq(Events)
           /\ child.notes \in Nat /\ child.chunks \in Nat
           /\ pane.notes \in Nat /\ pane.pending \in Nat /\ pane.term.chunks \in Nat
           /\ shared.notes \in Nat /\ main.notes \in Nat
  BY BoundsAssumption DEF TypeOK, Events, ScreenType

LEMMA BalanceStep == PaneInv /\ [Next]_vars => Balance'
  <1> SUFFICES ASSUME PaneInv, [Next]_vars PROVE Balance'
    OBVIOUS
  <1>1. TypeOK /\ Balance /\ LastWord
    BY DEF PaneInv
  <1>0. events \in Seq(Events)
    BY <1>1, Numbers
  <1>2. /\ child.notes \in Nat /\ child.chunks \in Nat
        /\ pane.notes \in Nat /\ pane.pending \in Nat /\ pane.term.chunks \in Nat
        /\ shared.notes \in Nat /\ main.notes \in Nat
    BY <1>1, Numbers
  <1>3. Counted(events, Note) \in Nat /\ Counted(events, Chunk) \in Nat
    BY <1>0, EventFacts
  <1>n. NotesUnderWay \in Nat
    BY <1>2, <1>3 DEF NotesUnderWay
  <1>c. ChunksUnderWay \in Nat
    BY <1>2, <1>3 DEF ChunksUnderWay
  <1>4a. /\ pane.notes \in Nat /\ pane.pending \in Nat /\ pane.term.chunks \in Nat
         /\ shared.notes \in Nat /\ main.notes \in Nat
    BY <1>2
  <1>4. ASSUME UNCHANGED <<events, pane, shared>>, main'.notes = main.notes,
               child'.notes = child.notes, child'.chunks = child.chunks,
               worker' = "gone" <=> worker = "gone"
        PROVE  Balance'
    BY <1>1, <1>4 DEF Balance, NotesUnderWay, ChunksUnderWay
  <1>5. ASSUME NEW chunk \in Chunk, Writes(chunk) PROVE Balance'
    <2>1. chunk \in Events /\ One(chunk, Chunk) = 1
      BY DEF Events, Chunk, One
    <2>2. /\ Counted(Append(events, chunk), Note) = Counted(events, Note) + One(chunk, Note)
          /\ Counted(Append(events, chunk), Chunk) = Counted(events, Chunk) + 1
      BY <1>0, <2>1, EventFacts
    <2>3. /\ child'.chunks = child.chunks + 1
          /\ child'.notes = child.notes + One(chunk, Note)
          /\ reader = "reading"
          /\ UNCHANGED <<pane, shared, main, worker>>
          /\ events' = IF worker = "gone" THEN events ELSE Append(events, chunk)
      BY <1>1, <1>5 DEF Writes, One, Note, TypeOK
    <2>4. One(chunk, Note) \in {0, 1}
      BY DEF One
    <2>5. ~pane.exited
      BY <1>1, <2>3 DEF LastWord
    <2>6. /\ child'.chunks \in Nat /\ child'.notes \in Nat
          /\ child'.notes <= child'.chunks
          /\ child.notes <= child'.notes /\ child.chunks <= child'.chunks
      BY <1>1, <1>2, <2>3, <2>4 DEF Balance
    <2>7. CASE worker = "gone"
      <3>1. NotesUnderWay' = NotesUnderWay /\ ChunksUnderWay' = ChunksUnderWay
        BY <2>3, <2>7 DEF NotesUnderWay, ChunksUnderWay
      <3>2. NotesUnderWay <= child'.notes /\ ChunksUnderWay <= child'.chunks
        BY <1>1, <1>2, <1>n, <1>c, <2>6 DEF Balance
      <3> QED
        BY <2>3, <2>5, <2>6, <2>7, <3>1, <3>2 DEF Balance
    <2>8. CASE worker # "gone"
      <3>1. /\ Counted(events', Note) = Counted(events, Note) + One(chunk, Note)
            /\ Counted(events', Chunk) = Counted(events, Chunk) + 1
        BY <2>2, <2>3, <2>8
      <3>0. pane' = pane /\ shared' = shared /\ main' = main
        BY <2>3
      <3>n. NotesUnderWay' = NotesUnderWay + One(chunk, Note)
        BY <1>4a, <1>3, <3>0, <2>4, <3>1 DEF NotesUnderWay
      <3>c. ChunksUnderWay' = ChunksUnderWay + 1
        BY <1>4a, <1>3, <3>0, <3>1 DEF ChunksUnderWay
      <3>3. NotesUnderWay' = child'.notes /\ ChunksUnderWay' = child'.chunks
        BY <1>1, <2>3, <2>8, <3>n, <3>c DEF Balance
      <3> QED
        BY <2>6, <3>3 DEF Balance
    <2> QED
      BY <2>7, <2>8
  <1>6. CASE ReaderReaps
    <2>1. "exited" \in Events /\ One("exited", Note) = 0 /\ One("exited", Chunk) = 0
      BY DEF Events, Chunk, Note, One
    <2>2. /\ Counted(Append(events, "exited"), Note) = Counted(events, Note)
          /\ Counted(Append(events, "exited"), Chunk) = Counted(events, Chunk)
      BY <1>0, <1>3, <2>1, EventFacts
    <2>3. /\ UNCHANGED <<child, pane, shared, main, worker>>
          /\ events' = events \/ events' = Append(events, "exited")
      BY <1>6 DEF ReaderReaps
    <2>4. Counted(events', Note) = Counted(events, Note)
          /\ Counted(events', Chunk) = Counted(events, Chunk)
      BY <2>2, <2>3
    <2> QED
      BY <1>1, <2>3, <2>4 DEF Balance, NotesUnderWay, ChunksUnderWay
  <1>7. CASE Handles
    <2>1. PICK to \in {"commands", "events"} : Handle(Head(inbox), to)
      BY <1>7 DEF Handles
    <2>2. /\ UNCHANGED <<events, shared>> /\ worker' # "gone" /\ worker # "gone"
          /\ child'.notes = child.notes /\ child'.chunks = child.chunks
          /\ main'.notes = main.notes
          /\ pane'.notes = pane.notes /\ pane'.pending = pane.pending
          /\ pane'.term.chunks = pane.term.chunks
      BY <1>1, <1>7, <2>1 DEF Handles, Handle, TypeOK, ScreenType
    <2> QED
      BY <1>1, <2>2 DEF Balance, NotesUnderWay, ChunksUnderWay
  <1>8. CASE Receives
    <2>1. PICK to \in {"commands", "events", "process"} : Receive(Head(events), to)
      BY <1>8 DEF Receives
    <2> DEFINE e == Head(events)
    <2>2. /\ Head(events) \in Events
          /\ Counted(Tail(events), Note) \in Nat
          /\ Counted(Tail(events), Chunk) \in Nat
          /\ Counted(events, Note) = Counted(Tail(events), Note) + One(e, Note)
          /\ Counted(events, Chunk) = Counted(Tail(events), Chunk) + One(e, Chunk)
      BY <1>0, <1>8, EventFacts DEF Receives
    <2>3. /\ UNCHANGED <<child, shared, main>> /\ worker' # "gone" /\ worker # "gone"
          /\ events' = Tail(events)
      BY <1>8, <2>1 DEF Receives, Receive
    <2>4. /\ pane'.notes = pane.notes + One(e, Note)
          /\ pane'.pending = pane.pending + One(e, Chunk)
          /\ pane'.term = pane.term
      <3>0. pane = [pending |-> pane.pending, term |-> pane.term, snap |-> pane.snap,
                    notes |-> pane.notes, dirty |-> pane.dirty, exited |-> pane.exited,
                    disconnected |-> pane.disconnected, changed |-> pane.changed]
        BY <1>1 DEF TypeOK
      <3>1. e = "exited" => One(e, Note) = 0 /\ One(e, Chunk) = 0
        BY DEF One, Note, Chunk
      <3>2. e = "note" => One(e, Note) = 1 /\ One(e, Chunk) = 1
        BY DEF One, Note, Chunk
      <3>3. e = "text" => One(e, Note) = 0 /\ One(e, Chunk) = 1
        BY DEF One, Note, Chunk
      <3>4. /\ e = "exited" => pane' = [pane EXCEPT !.exited = TRUE]
            /\ e = "note" => pane' = [pane EXCEPT !.pending = @ + 1, !.notes = @ + 1]
            /\ e = "text" => pane' = [pane EXCEPT !.pending = @ + 1]
        BY <2>1 DEF Receive
      <3>5. e \in {"text", "note", "exited"}
        BY <2>2 DEF Events
      <3> HIDE DEF e
      <3>6. CASE e = "exited"
        BY <3>0, <1>4a, <3>1, <3>4, <3>6
      <3>7. CASE e = "note"
        <4>1. pane' = [pane EXCEPT !.pending = @ + 1, !.notes = @ + 1]
          BY <3>4, <3>7
        <4>2. /\ pane'.pending = pane.pending + 1 /\ pane'.notes = pane.notes + 1
              /\ pane'.term = pane.term
          BY <3>0, <4>1
        <4> QED
          BY <3>2, <3>7, <4>2
      <3>8. CASE e = "text"
        BY <3>0, <1>4a, <3>3, <3>4, <3>8
      <3> QED
        BY <3>5, <3>6, <3>7, <3>8
    <2>5. One(e, Note) \in {0, 1} /\ One(e, Chunk) \in {0, 1}
      BY DEF One
    <2> HIDE DEF e
    <2> DEFINE n == Counted(Tail(events), Note)
               c == Counted(Tail(events), Chunk)
    <2>6. /\ n \in Nat /\ Counted(events, Note) = n + One(e, Note) /\ Counted(events', Note) = n
          /\ c \in Nat /\ Counted(events, Chunk) = c + One(e, Chunk)
          /\ Counted(events', Chunk) = c
      BY <2>2, <2>3
    <2>6a. shared' = shared /\ main' = main
      BY <2>3
    <2> HIDE DEF n, c
    <2>7. NotesUnderWay' = NotesUnderWay
      BY <1>4a, <2>4, <2>5, <2>6, <2>6a DEF NotesUnderWay
    <2>8. ChunksUnderWay' = ChunksUnderWay
      BY <1>4a, <2>4, <2>5, <2>6 DEF ChunksUnderWay
    <2> QED
      BY <1>1, <2>3, <2>7, <2>8 DEF Balance
  <1>9. CASE Process
    <2>1. PICK taken \in 0..pane.pending :
            /\ pane'.pending = pane.pending - taken
            /\ pane'.term.chunks = pane.term.chunks + taken
            /\ pane'.notes = pane.notes
            /\ pane'.exited = pane.exited
      BY <1>1, <1>9 DEF Process, TypeOK, ScreenType
    <2>2. UNCHANGED <<child, events, shared, main>> /\ worker' # "gone" /\ worker # "gone"
      BY <1>9 DEF Process
    <2>3. taken \in Nat /\ pane'.pending + pane'.term.chunks = pane.pending + pane.term.chunks
      BY <1>2, <2>1
    <2>4. ChunksUnderWay' = ChunksUnderWay /\ NotesUnderWay' = NotesUnderWay
      <3>1. pane'.pending \in Nat /\ pane'.term.chunks \in Nat
        BY <1>2, <2>1
      <3> QED
        BY <1>2, <1>3, <2>1, <2>2, <2>3, <3>1 DEF ChunksUnderWay, NotesUnderWay
    <2> QED
      BY <1>1, <2>2, <2>4 DEF Balance
  <1>10. CASE Publish
    <2>1. /\ UNCHANGED <<child, events, main>> /\ worker' # "gone" /\ worker # "gone"
          /\ pane'.notes = 0
          /\ shared'.notes = shared.notes + pane.notes
          /\ pane'.pending = pane.pending /\ pane'.term = pane.term
      BY <1>1, <1>10 DEF Publish, Published, TypeOK
    <2>2. NotesUnderWay' = NotesUnderWay /\ ChunksUnderWay' = ChunksUnderWay
      BY <1>2, <1>3, <2>1 DEF ChunksUnderWay, NotesUnderWay
    <2> QED
      BY <1>1, <2>1, <2>2 DEF Balance
  <1>11. CASE Polls
    <2>1. /\ UNCHANGED <<child, events, pane, worker>>
          /\ main'.notes = main.notes + shared.notes
          /\ shared'.notes = 0
      BY <1>1, <1>11 DEF Polls, TypeOK
    <2>2. NotesUnderWay' = NotesUnderWay /\ ChunksUnderWay' = ChunksUnderWay
      BY <1>2, <1>3, <2>1 DEF ChunksUnderWay, NotesUnderWay
    <2> QED
      BY <1>1, <2>1, <2>2 DEF Balance
  <1>12. CASE Leaves
    <2>1. UNCHANGED <<child, pane, shared, main>> /\ worker' = "gone" /\ events' = <<>>
          /\ worker # "gone"
      BY <1>12 DEF Leaves
    <2>2. Counted(events', Note) = 0 /\ Counted(events', Chunk) = 0
      BY <2>1, CountedEmpty
    <2>3. pane.exited => Counted(events, Note) = 0
      BY <1>1, CountedEmpty DEF LastWord
    <2>4. /\ NotesUnderWay' = 0 + pane.notes + shared.notes + main.notes
          /\ ChunksUnderWay' = 0 + pane.pending + pane.term.chunks
      BY <2>1, <2>2 DEF NotesUnderWay, ChunksUnderWay
    <2> DEFINE n == Counted(events, Note)
               c == Counted(events, Chunk)
    <2>5. /\ NotesUnderWay = n + pane.notes + shared.notes + main.notes
          /\ ChunksUnderWay = c + pane.pending + pane.term.chunks
          /\ n \in Nat /\ c \in Nat
      BY <1>3 DEF NotesUnderWay, ChunksUnderWay
    <2>6. pane.exited => n = 0
      BY <2>3
    <2> HIDE DEF n, c
    <2>7. /\ NotesUnderWay' <= NotesUnderWay /\ ChunksUnderWay' <= ChunksUnderWay
          /\ pane.exited => NotesUnderWay' = NotesUnderWay
          /\ NotesUnderWay' \in Nat /\ ChunksUnderWay' \in Nat
      BY <1>2, <2>4, <2>5, <2>6
    <2>8. /\ child' = child /\ worker' = "gone" /\ worker # "gone" /\ pane'.exited = pane.exited
      BY <2>1
    <2>9. /\ child.notes <= child.chunks
          /\ NotesUnderWay <= child.notes /\ ChunksUnderWay <= child.chunks
          /\ NotesUnderWay = child.notes
      BY <1>1, <2>8 DEF Balance
    <2>10. NotesUnderWay' <= child.notes /\ ChunksUnderWay' <= child.chunks
      BY <1>2, <1>n, <1>c, <2>7, <2>9
    <2> QED
      BY <2>7, <2>8, <2>9, <2>10 DEF Balance
  <1>13. CASE Reads \/ Exits
    BY <1>1, <1>4, <1>13 DEF Reads, Exits, TypeOK
  <1>14. CASE StrangerOpens \/ StrangerCloses \/ ReaderEnds \/ Wake \/ UNCHANGED vars
    BY <1>4, <1>14 DEF StrangerOpens, StrangerCloses, ReaderEnds, Wake, vars
  <1>15. CASE Moves
    BY <1>4, <1>15 DEF Moves, Goes
  <1>16. CASE Orders \/ AsksLink \/ GetsLink \/ Closes \/ Joined
    BY <1>1, <1>4, <1>16 DEF Orders, Commanded, AsksLink, GetsLink, Closes, Joined, TypeOK
  <1> QED
    BY <1>5, <1>6, <1>7, <1>8, <1>9, <1>10, <1>11, <1>12, <1>13, <1>14, <1>15, <1>16, StepCases

\* The parts of the state, each with its type.
ChildType == [alive : BOOLEAN, unread : 0..PtyRoom, chunks : 0..MaxOutput, notes : 0..MaxOutput]

PaneType == [pending : 0..MaxOutput, term : ScreenType, snap : ScreenType,
             notes : 0..MaxOutput, dirty : BOOLEAN, exited : BOOLEAN,
             disconnected : BOOLEAN, changed : BOOLEAN]

SharedType == [snap : ScreenType, notes : 0..MaxOutput, version : Nat, exited : BOOLEAN]

MainType == [at : {"idle", "asking", "joining", "closed"}, replied : BOOLEAN,
             snap : ScreenType, notes : 0..MaxOutput, version : Nat,
             exited : BOOLEAN, sent : 0..MaxCommands, size : Sizes]

ReaderPlaces == {"reading", "reaping", "done"}

WorkerPlaces == {"select", "commands", "events", "process", "publish", "wake", "decide", "gone"}

SlotOwners == {"reader", "free", "stranger", "robbed"}

LEMMA Typed ==
    ASSUME TypeOK
    PROVE  /\ child \in ChildType /\ reader \in ReaderPlaces /\ events \in Seq(Events)
           /\ inbox \in Seq(Commands) /\ worker \in WorkerPlaces /\ pane \in PaneType
           /\ shared \in SharedType /\ main \in MainType /\ wake \in BOOLEAN
           /\ slot \in SlotOwners
  BY DEF TypeOK, ChildType, ReaderPlaces, Events, WorkerPlaces, PaneType, SharedType,
         MainType, SlotOwners

LEMMA TypedNext ==
    ASSUME child' \in ChildType, reader' \in ReaderPlaces, events' \in Seq(Events),
           inbox' \in Seq(Commands), worker' \in WorkerPlaces, pane' \in PaneType,
           shared' \in SharedType, main' \in MainType, wake' \in BOOLEAN,
           slot' \in SlotOwners
    PROVE  TypeOK'
  BY DEF TypeOK, ChildType, ReaderPlaces, Events, WorkerPlaces, PaneType, SharedType,
         MainType, SlotOwners

LEMMA TypeStep == PaneInv /\ [Next]_vars => TypeOK'
  <1> SUFFICES ASSUME PaneInv, [Next]_vars PROVE TypeOK'
    OBVIOUS
  <1>1. TypeOK /\ Balance
    BY DEF PaneInv
  <1>p. /\ child \in ChildType /\ reader \in ReaderPlaces /\ events \in Seq(Events)
        /\ inbox \in Seq(Commands) /\ worker \in WorkerPlaces /\ pane \in PaneType
        /\ shared \in SharedType /\ main \in MainType /\ wake \in BOOLEAN
        /\ slot \in SlotOwners
    BY <1>1, Typed
  <1>2. /\ child.notes \in Nat /\ child.chunks \in Nat
        /\ pane.notes \in Nat /\ pane.pending \in Nat /\ pane.term.chunks \in Nat
        /\ shared.notes \in Nat /\ main.notes \in Nat
    BY <1>1, Numbers
  <1>3. Counted(events, Note) \in Nat /\ Counted(events, Chunk) \in Nat
    BY <1>p, EventFacts
  <1>4. MaxOutput \in Nat /\ child.chunks <= MaxOutput /\ child.notes <= MaxOutput
    BY <1>p, BoundsAssumption DEF ChildType
  \* What is under way fits in the ranges it is under way to.
  <1>5. /\ shared.notes + pane.notes \in 0..MaxOutput
        /\ main.notes + shared.notes \in 0..MaxOutput
    <2> DEFINE n == Counted(events, Note)
    <2>1. n \in Nat /\ n + pane.notes + shared.notes + main.notes <= child.notes
      BY <1>1, <1>3 DEF Balance, NotesUnderWay
    <2> HIDE DEF n
    <2> QED
      BY <1>2, <1>4, <2>1
  <1>6. pane.term.chunks + pane.pending <= MaxOutput
    <2> DEFINE c == Counted(events, Chunk)
    <2>1. c \in Nat /\ c + pane.pending + pane.term.chunks <= child.chunks
      BY <1>1, <1>3 DEF Balance, ChunksUnderWay
    <2> HIDE DEF c
    <2> QED
      BY <1>2, <1>4, <2>1
  <1>7. ASSUME events # <<>>
        PROVE  /\ Head(events) \in Events /\ Tail(events) \in Seq(Events)
               /\ Head(events) = "note" => pane.notes + 1 \in 0..MaxOutput
               /\ Head(events) # "exited" => pane.pending + 1 \in 0..MaxOutput
    <2> DEFINE n == Counted(Tail(events), Note)
               c == Counted(Tail(events), Chunk)
               e == Head(events)
    <2>1. /\ e \in Events /\ Tail(events) \in Seq(Events)
          /\ n \in Nat /\ Counted(events, Note) = n + One(e, Note)
          /\ c \in Nat /\ Counted(events, Chunk) = c + One(e, Chunk)
      BY <1>p, <1>7, EventFacts
    <2>2. /\ Counted(events, Note) + pane.notes + shared.notes + main.notes <= child.notes
          /\ Counted(events, Chunk) + pane.pending + pane.term.chunks <= child.chunks
      BY <1>1 DEF Balance, NotesUnderWay, ChunksUnderWay
    <2>3. /\ e = "note" => One(e, Note) = 1
          /\ e # "exited" => One(e, Chunk) = 1
      BY <2>1 DEF One, Note, Chunk, Events
    <2> HIDE DEF n, c, e
    <2>4. ASSUME e = "note" PROVE pane.notes + 1 \in 0..MaxOutput
      <3>1. n \in Nat /\ (n + 1) + pane.notes + shared.notes + main.notes <= child.notes
        BY <2>1, <2>2, <2>3, <2>4
      <3> QED
        BY <1>2, <1>4, <3>1
    <2>5. ASSUME e # "exited" PROVE pane.pending + 1 \in 0..MaxOutput
      <3>1. c \in Nat /\ (c + 1) + pane.pending + pane.term.chunks <= child.chunks
        BY <2>1, <2>2, <2>3, <2>5
      <3> QED
        BY <1>2, <1>4, <3>1
    <2> QED
      BY <2>1, <2>4, <2>5 DEF e
  <1>9. ASSUME NEW command \in Commands, Send(command) PROVE inbox' \in Seq(Commands)
    BY <1>p, <1>9 DEF Send
  <1>10. inbox # <<>> => Head(inbox) \in Commands /\ Tail(inbox) \in Seq(Commands)
    BY <1>p
  <1>11. [op |-> "Link"] \in Commands /\ [op |-> "Shutdown"] \in Commands
    BY DEF Commands
  <1>s. slot' = slot \/ CloseReaderFd => slot' \in SlotOwners
    BY <1>p DEF CloseReaderFd, SlotOwners
  <1>12. ASSUME NEW chunk \in Chunk, Writes(chunk) PROVE TypeOK'
    <2>1. chunk \in Events
      BY DEF Chunk, Events
    <2>2. events' \in Seq(Events)
      BY <1>p, <1>12, <2>1 DEF Writes
    <2>3. child' \in ChildType
      <3>1. child.chunks < MaxOutput /\ child.notes <= child.chunks
        BY <1>1, <1>12 DEF Balance, Writes
      <3>2. child.chunks + 1 \in 0..MaxOutput /\ child.notes + 1 \in 0..MaxOutput
            /\ child.notes + 0 \in 0..MaxOutput
        BY <1>2, <1>4, <3>1
      <3> QED
        BY <1>p, <1>12, <3>2 DEF Writes, ChildType
    <2>4. UNCHANGED <<reader, inbox, worker, pane, shared, main, wake, slot>>
      BY <1>12 DEF Writes
    <2> QED
      BY <1>p, <2>2, <2>3, <2>4, TypedNext
  <1>13. CASE Reads
    <2>1. child.unread > 0 /\ child.unread \in 0..PtyRoom
      BY <1>p, <1>13 DEF Reads, ChildType
    <2>2. child.unread - 1 \in 0..PtyRoom
      BY <2>1, BoundsAssumption
    <2>3. child' \in ChildType
      BY <1>p, <1>13, <2>2 DEF Reads, ChildType
    <2>4. UNCHANGED <<reader, events, inbox, worker, pane, shared, main, wake, slot>>
      BY <1>13 DEF Reads
    <2> QED
      BY <1>p, <2>3, <2>4, TypedNext
  <1>14. CASE Exits
    <2>1. 0 \in 0..PtyRoom
      BY BoundsAssumption
    <2>2. child' \in ChildType
      BY <1>p, <1>14, <2>1 DEF Exits, ChildType
    <2>3. UNCHANGED <<reader, events, inbox, worker, pane, shared, main, wake, slot>>
      BY <1>14 DEF Exits
    <2> QED
      BY <1>p, <2>2, <2>3, TypedNext
  <1>15. CASE StrangerOpens \/ StrangerCloses
    <2>1. /\ slot' \in SlotOwners
          /\ UNCHANGED <<child, reader, events, inbox, worker, pane, shared, main, wake>>
      BY <1>15 DEF StrangerOpens, StrangerCloses, SlotOwners
    <2> QED
      BY <1>p, <2>1, TypedNext
  <1>w. CASE Wake
    <2>1. /\ wake' \in BOOLEAN /\ worker' \in WorkerPlaces
          /\ UNCHANGED <<child, reader, events, inbox, pane, shared, main, slot>>
      BY <1>w DEF Wake, WorkerPlaces
    <2> QED
      BY <1>p, <2>1, TypedNext
  <1>v. CASE UNCHANGED vars
    <2>1. UNCHANGED <<child, reader, events, inbox, worker, pane, shared, main, wake, slot>>
      BY <1>v DEF vars
    <2> QED
      BY <1>p, <2>1, TypedNext
  <1>16. CASE ReaderEnds
    <2>1. /\ reader' \in ReaderPlaces /\ CloseReaderFd
          /\ UNCHANGED <<child, events, inbox, worker, pane, shared, main, wake>>
      BY <1>16 DEF ReaderEnds, ReaderPlaces
    <2> QED
      BY <1>p, <1>s, <2>1, TypedNext
  <1>17. CASE ReaderReaps
    <2>1. "exited" \in Events
      BY DEF Events
    <2>2. events' \in Seq(Events)
      BY <1>p, <1>17, <2>1 DEF ReaderReaps
    <2>3. /\ reader' \in ReaderPlaces
          /\ UNCHANGED <<child, inbox, worker, pane, shared, main, wake, slot>>
      BY <1>17 DEF ReaderReaps, ReaderPlaces
    <2> QED
      BY <1>p, <2>2, <2>3, TypedNext
  <1>18. CASE Handles
    <2>1. PICK to \in {"commands", "events"} : Handle(Head(inbox), to)
      BY <1>18 DEF Handles
    <2> DEFINE command == Head(inbox)
    <2>2. command \in Commands /\ inbox' \in Seq(Commands)
      BY <1>10, <1>18, <2>1 DEF Handles, Handle
    <2>3. command.op = "Resize" => command.size \in Sizes
      BY <2>2 DEF Commands
    <2>4. child' \in ChildType
      <3>1. child.unread < PtyRoom => child.unread + 1 \in 0..PtyRoom
        BY <1>p, BoundsAssumption DEF ChildType
      <3>2. child' = child \/ (child.unread < PtyRoom /\ child' = [child EXCEPT !.unread = @ + 1])
        BY <2>1 DEF Handle
      <3>3. child.unread < PtyRoom => [child EXCEPT !.unread = @ + 1] \in ChildType
        BY <1>p, <3>1 DEF ChildType
      <3> QED
        BY <1>p, <3>2, <3>3
    <2>5. pane' \in PaneType
      <3>1. \/ command.op = "Resize"
               /\ pane' = [pane EXCEPT !.term.size = command.size, !.dirty = TRUE]
            \/ pane' = [pane EXCEPT !.disconnected = TRUE]
            \/ pane' = pane
        BY <2>1 DEF Handle
      <3> HIDE DEF command
      <3>2. ASSUME command.size \in Sizes
            PROVE  [pane EXCEPT !.term.size = command.size, !.dirty = TRUE] \in PaneType
        <4> DEFINE term == [pane.term EXCEPT !.size = command.size]
        <4>1. term \in ScreenType
          BY <1>p, <3>2 DEF PaneType, ScreenType
        <4>2. [pane EXCEPT !.term.size = command.size, !.dirty = TRUE]
                = [pane EXCEPT !.term = term, !.dirty = TRUE]
          BY <1>p DEF PaneType
        <4> HIDE DEF term
        <4>3. [pane EXCEPT !.term = term, !.dirty = TRUE] \in PaneType
          BY <1>p, <4>1 DEF PaneType
        <4> QED
          BY <4>2, <4>3
      <3>3. [pane EXCEPT !.disconnected = TRUE] \in PaneType
        BY <1>p DEF PaneType
      <3> QED
        BY <1>p, <2>3, <3>1, <3>2, <3>3
    <2>6. main' \in MainType
      <3>1. main' = main \/ main' = [main EXCEPT !.replied = TRUE]
        BY <2>1 DEF Handle
      <3> QED
        BY <1>p, <3>1 DEF MainType
    <2>7. worker' \in WorkerPlaces /\ UNCHANGED <<reader, events, shared, wake, slot>>
      BY <2>1 DEF Handle, WorkerPlaces
    <2> QED
      BY <1>p, <2>2, <2>4, <2>5, <2>6, <2>7, TypedNext
  <1>19. CASE Receives
    <2>1. PICK to \in {"commands", "events", "process"} : Receive(Head(events), to)
      BY <1>19 DEF Receives
    <2>2. /\ Head(events) \in Events /\ Tail(events) \in Seq(Events)
          /\ Head(events) = "note" => pane.notes + 1 \in 0..MaxOutput
          /\ Head(events) # "exited" => pane.pending + 1 \in 0..MaxOutput
      BY <1>7, <1>19 DEF Receives
    <2>3. pane' \in PaneType
      BY <1>p, <2>1, <2>2 DEF Receive, PaneType
    <2>4. /\ worker' \in WorkerPlaces /\ events' = Tail(events)
          /\ UNCHANGED <<child, reader, inbox, shared, main, wake, slot>>
      BY <2>1 DEF Receive, WorkerPlaces
    <2> QED
      BY <1>p, <2>2, <2>3, <2>4, TypedNext
  <1>20. CASE Moves
    <2>1. /\ worker' \in WorkerPlaces
          /\ UNCHANGED <<child, reader, events, inbox, pane, shared, main, wake, slot>>
      BY <1>20 DEF Moves, Goes, WorkerPlaces
    <2> QED
      BY <1>p, <2>1, TypedNext
  <1>21. CASE Process
    <2>1. PICK taken \in 0..pane.pending, late \in BOOLEAN :
            LET term  == [pane.term EXCEPT !.chunks = @ + taken]
                dirty == pane.dirty \/ taken > 0
                rest  == pane.pending - taken
                refresh == dirty /\ (rest = 0 \/ late)
            IN  pane' = [pane EXCEPT !.term = term, !.pending = rest,
                                     !.dirty = dirty /\ ~refresh, !.changed = refresh,
                                     !.snap = IF refresh THEN term ELSE @]
      BY <1>21 DEF Process
    <2> DEFINE term == [pane.term EXCEPT !.chunks = @ + taken]
               rest == pane.pending - taken
    <2>2. pane.term.chunks + taken \in 0..MaxOutput /\ rest \in 0..MaxOutput
      <3>1. taken \in Nat /\ taken <= pane.pending
        BY <1>2
      <3> QED
        BY <1>2, <1>4, <1>6, <3>1
    <2>3. term \in ScreenType
      BY <1>p, <2>2 DEF PaneType, ScreenType
    <2>4. pane.dirty \in BOOLEAN
      BY <1>p DEF PaneType
    <2> HIDE DEF term, rest
    <2>5. \E refresh \in BOOLEAN, dirty \in BOOLEAN :
            pane' = [pane EXCEPT !.term = term, !.pending = rest,
                                 !.dirty = dirty, !.changed = refresh,
                                 !.snap = IF refresh THEN term ELSE @]
      BY <2>1, <2>4 DEF term, rest
    <2>6. pane' \in PaneType
      BY <1>p, <2>2, <2>3, <2>5 DEF PaneType
    <2>7. /\ worker' \in WorkerPlaces
          /\ UNCHANGED <<child, reader, events, inbox, shared, main, wake, slot>>
      BY <1>21 DEF Process, WorkerPlaces
    <2> QED
      BY <1>p, <2>6, <2>7, TypedNext
  <1>22. CASE Publish
    <2>1. shared' \in SharedType
      BY <1>p, <1>5, <1>22 DEF Publish, Published, SharedType, PaneType
    <2>2. 0 \in 0..MaxOutput
      BY BoundsAssumption
    <2>3. pane' \in PaneType
      BY <1>p, <1>22, <2>2 DEF Publish, PaneType
    <2>4. /\ worker' \in WorkerPlaces
          /\ UNCHANGED <<child, reader, events, inbox, main, wake, slot>>
      BY <1>22 DEF Publish, WorkerPlaces
    <2> QED
      BY <1>p, <2>1, <2>3, <2>4, TypedNext
  <1>23. CASE Leaves
    <2>1. /\ worker' \in WorkerPlaces /\ inbox' = <<>> /\ events' = <<>> /\ CloseReaderFd
          /\ UNCHANGED <<child, reader, pane, shared, main, wake>>
      BY <1>23 DEF Leaves, WorkerPlaces
    <2>2. inbox' \in Seq(Commands) /\ events' \in Seq(Events)
      BY <2>1
    <2> QED
      BY <1>p, <1>s, <2>1, <2>2, TypedNext
  <1>24. CASE Orders
    <2>1. PICK command \in Commands : Commanded(command)
      BY <1>24 DEF Orders
    <2>2. inbox' \in Seq(Commands)
      BY <1>9, <2>1 DEF Commanded
    <2>3. main.sent + 1 \in 0..MaxCommands
      <3>1. main.sent < MaxCommands /\ main.sent \in 0..MaxCommands
        BY <1>p, <2>1 DEF Commanded, MainType
      <3> QED
        BY <3>1, BoundsAssumption
    <2>4. command.op = "Resize" => command.size \in Sizes
      BY DEF Commands
    <2>5. main' \in MainType
      <3>1. main' = [main EXCEPT !.sent = @ + 1,
                                 !.size = IF command.op = "Resize" THEN command.size ELSE @]
        BY <2>1 DEF Commanded
      <3> QED
        BY <1>p, <2>3, <2>4, <3>1 DEF MainType
    <2>6. UNCHANGED <<child, reader, events, worker, pane, shared, wake, slot>>
      BY <2>1 DEF Commanded
    <2> QED
      BY <1>p, <2>2, <2>5, <2>6, TypedNext
  <1>25. CASE AsksLink
    <2>1. inbox' \in Seq(Commands)
      BY <1>9, <1>11, <1>25 DEF AsksLink
    <2>2. main.sent + 1 \in 0..MaxCommands
      <3>1. main.sent < MaxCommands /\ main.sent \in 0..MaxCommands
        BY <1>p, <1>25 DEF AsksLink, MainType
      <3> QED
        BY <3>1, BoundsAssumption
    <2>3. main' \in MainType
      BY <1>p, <1>25, <2>2 DEF AsksLink, MainType
    <2>4. UNCHANGED <<child, reader, events, worker, pane, shared, wake, slot>>
      BY <1>25 DEF AsksLink
    <2> QED
      BY <1>p, <2>1, <2>3, <2>4, TypedNext
  <1>26. CASE GetsLink \/ Joined
    <2>1. main' \in MainType
      <3>1. \/ main' = [main EXCEPT !.at = "idle", !.replied = FALSE]
            \/ main' = [main EXCEPT !.at = "closed"]
        BY <1>26 DEF GetsLink, Joined
      <3> QED
        BY <1>p, <3>1 DEF MainType
    <2>2. UNCHANGED <<child, reader, events, inbox, worker, pane, shared, wake, slot>>
      BY <1>26 DEF GetsLink, Joined
    <2> QED
      BY <1>p, <2>1, <2>2, TypedNext
  <1>27. CASE Polls
    <2>1. inbox' \in Seq(Commands)
      BY <1>p, <1>9, <1>11, <1>27 DEF Polls
    <2>2. 0 \in 0..MaxOutput
      BY BoundsAssumption
    <2>3. main' \in MainType
      BY <1>p, <1>5, <1>27 DEF Polls, MainType, SharedType
    <2>4. shared' \in SharedType
      BY <1>p, <1>27, <2>2 DEF Polls, SharedType
    <2>5. wake' \in BOOLEAN /\ UNCHANGED <<child, reader, events, worker, pane, slot>>
      BY <1>27 DEF Polls
    <2> QED
      BY <1>p, <2>1, <2>3, <2>4, <2>5, TypedNext
  <1>28. CASE Closes
    <2>1. inbox' \in Seq(Commands)
      BY <1>9, <1>11, <1>28 DEF Closes
    <2>2. main' \in MainType
      BY <1>p, <1>28 DEF Closes, MainType
    <2>3. UNCHANGED <<child, reader, events, worker, pane, shared, wake, slot>>
      BY <1>28 DEF Closes
    <2> QED
      BY <1>p, <2>1, <2>2, <2>3, TypedNext
  <1> QED
    BY <1>12, <1>13, <1>14, <1>15, <1>w, <1>v, <1>16, <1>17, <1>18, <1>19, <1>20, <1>21,
       <1>22, <1>23, <1>24, <1>25, <1>26, <1>27, <1>28, StepCases

LEMMA LastWordStep == PaneInv /\ [Next]_vars => LastWord'
  <1> SUFFICES ASSUME PaneInv, [Next]_vars PROVE LastWord'
    OBVIOUS
  <1>1. TypeOK /\ LastWord
    BY DEF PaneInv
  <1>2. events \in Seq(Events)
    BY <1>1, Numbers
  <1>3. ASSUME UNCHANGED <<events, reader>>, pane'.exited = pane.exited,
               pane'.notes = pane.notes,
               shared'.exited = shared.exited, shared'.notes = shared.notes,
               main'.exited = main.exited
        PROVE  LastWord'
    BY <1>1, <1>3 DEF LastWord
  <1>4. ASSUME NEW chunk \in Chunk, Writes(chunk) PROVE LastWord'
    <2>1. reader = "reading" /\ UNCHANGED <<reader, pane, shared, main>>
      BY <1>4 DEF Writes
    <2>2. /\ ~pane.exited /\ ~shared.exited /\ ~main.exited
          /\ \A i \in 1..Len(events) : events[i] # "exited"
      BY <1>1, <2>1 DEF LastWord
    <2>3. \A i \in 1..Len(events') : events'[i] # "exited"
      BY <1>2, <1>4, <2>2 DEF Writes, Chunk
    <2> QED
      BY <2>1, <2>2, <2>3 DEF LastWord
  <1>5. CASE ReaderEnds
    <2>1. reader = "reading" /\ UNCHANGED <<events, pane, shared, main>>
      BY <1>5 DEF ReaderEnds
    <2> QED
      BY <1>1, <2>1 DEF LastWord
  <1>6. CASE ReaderReaps
    <2>1. reader = "reaping" /\ reader' = "done" /\ UNCHANGED <<pane, shared, main>>
      BY <1>6 DEF ReaderReaps
    <2>2. /\ ~pane.exited /\ ~shared.exited /\ ~main.exited
          /\ \A i \in 1..Len(events) : events[i] # "exited"
      BY <1>1, <2>1 DEF LastWord
    <2>3. events' = events \/ events' = Append(events, "exited")
      BY <1>6 DEF ReaderReaps
    <2>4. \A i \in 1..Len(events') : events'[i] = "exited" => i = Len(events')
      BY <1>2, <2>2, <2>3
    <2> QED
      BY <2>1, <2>2, <2>4 DEF LastWord
  <1>7. CASE Handles
    BY <1>1, <1>3, <1>7 DEF Handles, Handle, TypeOK
  <1>8. CASE Receives
    <2>1. PICK to \in {"commands", "events", "process"} : Receive(Head(events), to)
      BY <1>8 DEF Receives
    <2>2. /\ events # <<>> /\ events' = Tail(events)
          /\ UNCHANGED <<reader, shared, main>>
      BY <1>8, <2>1 DEF Receives, Receive
    <2>3. ~pane.exited /\ ~shared.exited /\ ~main.exited
      BY <1>1, <2>2 DEF LastWord
    <2>4. /\ Len(events) \in Nat /\ Len(events) >= 1
          /\ Len(events') = Len(events) - 1 /\ events' \in Seq(Events)
          /\ \A i \in 1..Len(events') : events'[i] = events[i + 1]
          /\ Head(events) = events[1]
      BY <1>2, <2>2
    <2>5. \A i \in 1..Len(events') :
            events'[i] = "exited" => i = Len(events') /\ reader' = "done"
      <3> SUFFICES ASSUME NEW i \in 1..Len(events'), events'[i] = "exited"
                   PROVE  i = Len(events') /\ reader' = "done"
        OBVIOUS
      <3>1. i + 1 \in 1..Len(events) /\ events[i + 1] = "exited"
        BY <2>4
      <3>2. i + 1 = Len(events) /\ reader = "done"
        BY <1>1, <3>1 DEF LastWord
      <3>3. i = Len(events')
        BY <2>4, <3>2
      <3>4. reader' = reader
        BY <2>2
      <3> QED
        BY <3>2, <3>3, <3>4
    <2>6. CASE Head(events) = "exited"
      <3>1. Len(events) = 1 /\ reader = "done"
        BY <1>1, <2>4, <2>6 DEF LastWord
      <3>2. events' = <<>>
        BY <2>4, <3>1
      <3> QED
        BY <2>2, <2>3, <2>5, <3>1, <3>2 DEF LastWord
    <2>7. CASE Head(events) # "exited"
      <3>1. pane'.exited = pane.exited
        BY <1>1, <2>1, <2>7 DEF Receive, TypeOK
      <3> QED
        BY <2>2, <2>3, <2>5, <3>1 DEF LastWord
    <2> QED
      BY <2>6, <2>7
  <1>9. CASE Process
    BY <1>1, <1>3, <1>9 DEF Process, TypeOK
  <1>10. CASE Publish
    <2>1. /\ UNCHANGED <<events, reader, main>>
          /\ pane'.exited = pane.exited /\ pane'.notes = 0
          /\ shared'.notes = shared.notes + pane.notes
          /\ shared'.exited = (shared.exited \/ pane.exited)
      BY <1>1, <1>10 DEF Publish, Published, TypeOK
    <2>2. main.exited => shared'.notes = 0
      BY <1>1, <2>1 DEF LastWord
    <2> QED
      BY <1>1, <2>1, <2>2 DEF LastWord
  <1>11. CASE Polls
    <2>1. /\ UNCHANGED <<events, reader, pane>>
          /\ shared'.exited = shared.exited /\ shared'.notes = 0
          /\ main'.exited = shared.exited
      BY <1>1, <1>11 DEF Polls, TypeOK
    <2> QED
      BY <1>1, <2>1 DEF LastWord
  <1>12. CASE Leaves
    <2>1. events' = <<>> /\ UNCHANGED <<reader, pane, shared, main>>
      BY <1>12 DEF Leaves
    <2> QED
      BY <1>1, <2>1 DEF LastWord
  <1>13. CASE Orders \/ AsksLink \/ GetsLink \/ Closes \/ Joined
    BY <1>1, <1>3, <1>13 DEF Orders, Commanded, AsksLink, GetsLink, Closes, Joined, TypeOK
  <1>14. CASE Reads \/ Exits \/ StrangerOpens \/ StrangerCloses \/ Wake \/ UNCHANGED vars
    BY <1>3, <1>14 DEF Reads, Exits, StrangerOpens, StrangerCloses, Wake, vars
  <1>15. CASE Moves
    BY <1>3, <1>15 DEF Moves, Goes
  <1> QED
    BY <1>4, <1>5, <1>6, <1>7, <1>8, <1>9, <1>10, <1>11, <1>12, <1>13, <1>14, <1>15, StepCases

LEMMA FreshStep == PaneInv /\ [Next]_vars => Fresh'
  <1> SUFFICES ASSUME PaneInv, [Next]_vars PROVE Fresh'
    OBVIOUS
  <1>1. TypeOK /\ Fresh
    BY DEF PaneInv
  <1>2. ASSUME UNCHANGED <<pane, shared, worker>> PROVE Fresh'
    BY <1>1, <1>2 DEF Fresh
  <1>3. CASE Handles
    <2>1. PICK to \in {"commands", "events"} : Handle(Head(inbox), to)
      BY <1>3 DEF Handles
    <2>2. worker # "publish" /\ worker' \in {"commands", "events"} /\ shared' = shared
      BY <1>3, <2>1 DEF Handles, Handle
    <2>3. /\ pane'.snap = pane.snap /\ pane'.changed = pane.changed
          /\ pane'.dirty \/ (pane'.dirty = pane.dirty /\ pane'.term = pane.term)
      BY <1>1, <2>1 DEF Handle, TypeOK
    <2> QED
      BY <1>1, <2>2, <2>3 DEF Fresh
  <1>4. CASE Receives
    <2>1. PICK to \in {"commands", "events", "process"} : Receive(Head(events), to)
      BY <1>4 DEF Receives
    <2>2. worker # "publish" /\ worker' \in {"commands", "events", "process"} /\ shared' = shared
      BY <1>4, <2>1 DEF Receives, Receive
    <2>3. /\ pane'.snap = pane.snap /\ pane'.changed = pane.changed
          /\ pane'.dirty = pane.dirty /\ pane'.term = pane.term
      BY <1>1, <2>1 DEF Receive, TypeOK
    <2> QED
      BY <1>1, <2>2, <2>3 DEF Fresh
  <1>5. CASE Moves
    BY <1>1, <1>5 DEF Moves, Goes, Fresh
  <1>6. CASE Process
    <2>1. PICK taken \in 0..pane.pending, late \in BOOLEAN :
            LET term  == [pane.term EXCEPT !.chunks = @ + taken]
                dirty == pane.dirty \/ taken > 0
                rest  == pane.pending - taken
                refresh == dirty /\ (rest = 0 \/ late)
            IN  pane' = [pane EXCEPT !.term = term, !.pending = rest,
                                     !.dirty = dirty /\ ~refresh, !.changed = refresh,
                                     !.snap = IF refresh THEN term ELSE @]
      BY <1>6 DEF Process
    <2> DEFINE term == [pane.term EXCEPT !.chunks = @ + taken]
               dirty == pane.dirty \/ taken > 0
               rest == pane.pending - taken
               refresh == dirty /\ (rest = 0 \/ late)
    <2>2. /\ pane'.term = term /\ pane'.pending = rest
          /\ pane'.dirty = (dirty /\ ~refresh) /\ pane'.changed = refresh
          /\ pane'.snap = IF refresh THEN term ELSE pane.snap
      BY <1>1, <2>1 DEF TypeOK
    <2>3. ~dirty => term = pane.term /\ ~pane.dirty
      <3>1. pane.term.chunks \in Nat /\ pane.term \in ScreenType /\ taken \in Nat
        BY <1>1, Numbers DEF TypeOK
      <3>2. taken = 0 => term = pane.term
        BY <3>1 DEF ScreenType
      <3> HIDE DEF term
      <3> QED
        BY <3>1, <3>2
    <2>4. rest = 0 => ~(dirty /\ ~refresh)
      OBVIOUS
    <2> HIDE DEF term, dirty, rest, refresh
    <2>5. worker = "process" /\ worker' = "publish" /\ shared' = shared
      BY <1>6 DEF Process
    <2>6. refresh => dirty
      BY DEF refresh
    <2>7. ~pane.changed /\ shared.snap = pane.snap
      BY <1>1, <2>5 DEF Fresh
    <2>8. ~dirty => pane.snap = term
      BY <1>1, <2>3 DEF Fresh
    <2> QED
      BY <2>2, <2>4, <2>5, <2>6, <2>7, <2>8 DEF Fresh
  <1>7. CASE Publish
    <2>1. /\ pane'.snap = pane.snap /\ pane'.changed = FALSE /\ pane'.dirty = pane.dirty
          /\ pane'.term = pane.term /\ pane'.pending = pane.pending
          /\ shared'.snap = IF pane.changed THEN pane.snap ELSE shared.snap
          /\ worker = "publish"
      BY <1>1, <1>7 DEF Publish, Published, TypeOK
    <2> QED
      BY <1>1, <2>1 DEF Fresh
  <1>8. CASE Wake
    BY <1>1, <1>8 DEF Wake, Fresh
  <1>9. CASE Leaves
    BY <1>1, <1>9 DEF Leaves, Fresh
  <1>10. CASE Polls
    BY <1>1, <1>10 DEF Polls, Fresh, TypeOK
  <1>11. CASE Orders \/ AsksLink \/ GetsLink \/ Closes \/ Joined
    BY <1>2, <1>11 DEF Orders, Commanded, AsksLink, GetsLink, Closes, Joined
  <1>12. CASE Reads \/ Exits \/ StrangerOpens \/ StrangerCloses \/ UNCHANGED vars
    BY <1>2, <1>12 DEF Reads, Exits, StrangerOpens, StrangerCloses, vars
  <1>13. CASE ReaderEnds \/ ReaderReaps \/ \E chunk \in Chunk : Writes(chunk)
    BY <1>2, <1>13 DEF ReaderEnds, ReaderReaps, Writes
  <1> QED
    BY <1>3, <1>4, <1>5, <1>6, <1>7, <1>8, <1>9, <1>10, <1>11, <1>12, <1>13, StepCases

\* What appending and taking do to the last size.
LEMMA LastSizeAppend ==
    ASSUME NEW s \in Seq(Commands), NEW command \in Commands, NEW screen, NEW size,
           LastSize(s, screen, size)
    PROVE  LastSize(Append(s, command), screen,
                    IF command.op = "Resize" THEN command.size ELSE size)
  <1> DEFINE new == Append(s, command)
             n == Len(s) + 1
  <1>1. /\ Len(s) \in Nat /\ Len(new) = n /\ new[n] = command
        /\ \A i \in 1..Len(s) : new[i] = s[i]
    OBVIOUS
  <1> HIDE DEF new
  <1>2. CASE command.op = "Resize"
    <2>1. n \in 1..Len(new) /\ IsResize(new, n) /\ new[n].size = command.size
      BY <1>1, <1>2 DEF IsResize
    <2>2. \A j \in 1..Len(new) : j <= n
      BY <1>1
    <2>3. LastSize(new, screen, command.size)
      BY <2>1, <2>2 DEF LastSize
    <2> QED
      BY <1>2, <2>3 DEF new
  <1>3. CASE command.op # "Resize"
    <2>1. \A i \in 1..Len(new) : IsResize(new, i) => i \in 1..Len(s) /\ IsResize(s, i)
      BY <1>1, <1>3 DEF IsResize
    <2>2. \A i \in 1..Len(s) : i \in 1..Len(new) /\ (IsResize(s, i) <=> IsResize(new, i))
      BY <1>1 DEF IsResize
    <2>3. CASE screen = size /\ \A i \in 1..Len(s) : ~IsResize(s, i)
      BY <1>3, <2>1, <2>3 DEF LastSize, new
    <2>4. ASSUME NEW i \in 1..Len(s), IsResize(s, i), s[i].size = size,
                 \A j \in 1..Len(s) : IsResize(s, j) => j <= i
          PROVE  LastSize(new, screen, size)
      <3>1. i \in 1..Len(new) /\ IsResize(new, i) /\ new[i].size = size
        BY <1>1, <2>2, <2>4
      <3>2. \A j \in 1..Len(new) : IsResize(new, j) => j <= i
        BY <2>1, <2>4
      <3> QED
        BY <3>1, <3>2 DEF LastSize
    <2>5. LastSize(new, screen, size)
      BY <2>3, <2>4, <1>3, <2>1 DEF LastSize
    <2> QED
      BY <1>3, <2>5 DEF new
  <1> QED
    BY <1>2, <1>3

LEMMA LastSizeTail ==
    ASSUME NEW s \in Seq(Commands), s # <<>>, NEW screen, NEW size,
           LastSize(s, screen, size)
    PROVE  LastSize(Tail(s), IF Head(s).op = "Resize" THEN Head(s).size ELSE screen, size)
  <1> DEFINE rest == Tail(s)
             now == IF Head(s).op = "Resize" THEN Head(s).size ELSE screen
  <1>1. /\ Len(s) \in Nat /\ Len(s) >= 1 /\ Len(rest) = Len(s) - 1
        /\ \A i \in 1..Len(rest) : rest[i] = s[i + 1]
        /\ Head(s) = s[1]
    OBVIOUS
  <1> HIDE DEF rest
  <1>2. \A i \in 1..Len(rest) : i + 1 \in 1..Len(s) /\ (IsResize(rest, i) <=> IsResize(s, i + 1))
    BY <1>1 DEF IsResize
  <1>3. CASE screen = size /\ \A i \in 1..Len(s) : ~IsResize(s, i)
    <2>1. now = size
      BY <1>1, <1>3 DEF IsResize
    <2>2. \A i \in 1..Len(rest) : ~IsResize(rest, i)
      BY <1>2, <1>3
    <2> HIDE DEF now
    <2>3. LastSize(rest, now, size)
      BY <2>1, <2>2 DEF LastSize
    <2> QED
      BY <2>3 DEF rest, now
  <1>4. ASSUME NEW i \in 1..Len(s), IsResize(s, i), s[i].size = size,
               \A j \in 1..Len(s) : IsResize(s, j) => j <= i
        PROVE  LastSize(rest, now, size)
    <2>1. CASE i = 1
      <3>1. now = size
        BY <1>1, <1>4, <2>1 DEF IsResize
      <3>2. \A j \in 1..Len(rest) : ~IsResize(rest, j)
        <4> SUFFICES ASSUME NEW j \in 1..Len(rest), IsResize(rest, j) PROVE FALSE
          OBVIOUS
        <4>1. j + 1 <= 1
          BY <1>2, <1>4, <2>1
        <4> QED
          BY <1>1, <4>1
      <3> HIDE DEF now
      <3> QED
        BY <3>1, <3>2 DEF LastSize
    <2>2. CASE i # 1
      <3> DEFINE k == i - 1
      <3>1. k \in 1..Len(rest) /\ k + 1 = i
        BY <1>1, <2>2
      <3> HIDE DEF k
      <3>2. IsResize(rest, k) /\ rest[k].size = size
        BY <1>1, <1>2, <1>4, <3>1
      <3>3. \A j \in 1..Len(rest) : IsResize(rest, j) => j <= k
        <4> SUFFICES ASSUME NEW j \in 1..Len(rest), IsResize(rest, j) PROVE j <= k
          OBVIOUS
        <4>1. j + 1 <= i
          BY <1>2, <1>4
        <4> QED
          BY <1>1, <3>1, <4>1
      <3> HIDE DEF now
      <3> QED
        BY <3>1, <3>2, <3>3 DEF LastSize
    <2> QED
      BY <2>1, <2>2
  <1> HIDE DEF now
  <1>5. LastSize(rest, now, size)
    <2>1. CASE \E i \in 1..Len(s) :
                 /\ IsResize(s, i) /\ s[i].size = size
                 /\ \A j \in 1..Len(s) : IsResize(s, j) => j <= i
      BY <1>4, <2>1
    <2>2. CASE screen = size /\ \A i \in 1..Len(s) : ~IsResize(s, i)
      BY <1>3, <2>2 DEF rest, now
    <2> QED
      BY <2>1, <2>2 DEF LastSize
  <1> QED
    BY <1>5 DEF rest, now

LEMMA SizedStep == PaneInv /\ [Next]_vars => Sized'
  <1> SUFFICES ASSUME PaneInv, [Next]_vars PROVE Sized'
    OBVIOUS
  <1>1. TypeOK /\ Sized /\ inbox \in Seq(Commands)
    BY DEF PaneInv, TypeOK
  <1>2. ASSUME inbox' = inbox, pane'.term.size = pane.term.size, main'.size = main.size,
               worker' = "gone" <=> worker = "gone"
        PROVE  Sized'
    BY <1>1, <1>2 DEF Sized
  <1>3. ASSUME NEW command \in Commands, Send(command), worker' = worker, pane' = pane,
               main'.size = IF command.op = "Resize" THEN command.size ELSE main.size
        PROVE  Sized'
    <2>1. CASE worker = "gone"
      BY <1>3, <2>1 DEF Sized
    <2>2. CASE worker # "gone"
      <3>1. LastSize(inbox, pane.term.size, main.size)
        BY <1>1, <2>2 DEF Sized
      <3>2. LastSize(Append(inbox, command), pane.term.size,
                     IF command.op = "Resize" THEN command.size ELSE main.size)
        BY <1>1, <3>1, LastSizeAppend
      <3>3. inbox' = Append(inbox, command)
        BY <1>3, <2>2 DEF Send
      <3>4. LastSize(inbox', pane'.term.size, main'.size)
        BY <1>3, <3>2, <3>3
      <3> QED
        BY <3>4 DEF Sized
    <2> QED
      BY <2>1, <2>2
  <1>4. CASE Handles
    <2>1. PICK to \in {"commands", "events"} : Handle(Head(inbox), to)
      BY <1>4 DEF Handles
    <2>2. /\ inbox # <<>> /\ inbox' = Tail(inbox) /\ worker # "gone"
      BY <1>4, <2>1 DEF Handles, Handle
    <2>3. /\ main'.size = main.size
          /\ pane'.term.size
                = IF Head(inbox).op = "Resize" THEN Head(inbox).size ELSE pane.term.size
      BY <1>1, <2>1 DEF Handle, TypeOK, ScreenType
    <2>4. LastSize(inbox, pane.term.size, main.size)
      BY <1>1, <2>2 DEF Sized
    <2>5. LastSize(Tail(inbox),
                   IF Head(inbox).op = "Resize" THEN Head(inbox).size ELSE pane.term.size,
                   main.size)
      BY <1>1, <2>2, <2>4, LastSizeTail
    <2>6. LastSize(inbox', pane'.term.size, main'.size)
      BY <2>2, <2>3, <2>5
    <2> QED
      BY <2>6 DEF Sized
  <1>5. CASE Receives
    BY <1>1, <1>2, <1>5 DEF Receives, Receive, TypeOK
  <1>6. CASE Process
    <2>1. /\ inbox' = inbox /\ main' = main /\ worker = "process" /\ worker' = "publish"
          /\ \E taken \in 0..pane.pending :
                pane'.term = [pane.term EXCEPT !.chunks = @ + taken]
      BY <1>1, <1>6 DEF Process, TypeOK
    <2>2. pane.term \in ScreenType
      BY <1>1 DEF TypeOK
    <2>3. pane'.term.size = pane.term.size
      BY <2>1, <2>2 DEF ScreenType
    <2> QED
      BY <1>2, <2>1, <2>3
  <1>7. CASE Publish
    BY <1>1, <1>2, <1>7 DEF Publish, TypeOK
  <1>8. CASE Leaves
    BY <1>8 DEF Leaves, Sized
  <1>9. CASE Orders
    <2>1. PICK command \in Commands : Commanded(command)
      BY <1>9 DEF Orders
    <2>2. main'.size = IF command.op = "Resize" THEN command.size ELSE main.size
      BY <1>1, <2>1 DEF Commanded, TypeOK
    <2> QED
      BY <1>3, <2>1, <2>2 DEF Commanded
  <1>10. [op |-> "Link"] \in Commands /\ [op |-> "Shutdown"] \in Commands
    BY DEF Commands
  <1>11. CASE AsksLink
    BY <1>1, <1>3, <1>10, <1>11 DEF AsksLink, TypeOK
  <1>12. CASE Closes
    BY <1>1, <1>3, <1>10, <1>12 DEF Closes, TypeOK
  <1>13. CASE Polls
    <2>1. main'.size = main.size /\ worker' = worker /\ pane' = pane
      BY <1>1, <1>13 DEF Polls, TypeOK
    <2>2. CASE shared.exited
      <3>1. Send([op |-> "Shutdown"])
        BY <1>13, <2>2 DEF Polls
      <3> QED
        BY <1>3, <1>10, <2>1, <3>1
    <2>3. CASE ~shared.exited
      <3>1. inbox' = inbox
        BY <1>13, <2>3 DEF Polls
      <3> QED
        BY <1>2, <2>1, <3>1
    <2> QED
      BY <2>2, <2>3
  <1>14. CASE GetsLink \/ Joined
    BY <1>1, <1>2, <1>14 DEF GetsLink, Joined, TypeOK
  <1>15. CASE Moves
    BY <1>2, <1>15 DEF Moves, Goes
  <1>16. CASE Wake
    BY <1>2, <1>16 DEF Wake
  <1>17. CASE Reads \/ Exits \/ StrangerOpens \/ StrangerCloses \/ UNCHANGED vars
    BY <1>2, <1>17 DEF Reads, Exits, StrangerOpens, StrangerCloses, vars
  <1>18. CASE ReaderEnds \/ ReaderReaps \/ \E chunk \in Chunk : Writes(chunk)
    BY <1>2, <1>18 DEF ReaderEnds, ReaderReaps, Writes
  <1> QED
    BY <1>4, <1>5, <1>6, <1>7, <1>8, <1>9, <1>11, <1>12, <1>13, <1>14, <1>15, <1>16, <1>17,
       <1>18, StepCases

LEMMA UnseenStep == PaneInv /\ [Next]_vars => UnseenMeansWoken'
  <1> SUFFICES ASSUME PaneInv, [Next]_vars PROVE UnseenMeansWoken'
    OBVIOUS
  <1>1. TypeOK /\ UnseenMeansWoken
    BY DEF PaneInv
  <1>2. ASSUME shared' = shared, main'.version = main.version, wake' = wake,
               worker' # "wake" => worker # "wake",
               main'.at \in {"idle", "asking"} => main.at \in {"idle", "asking"}
        PROVE  UnseenMeansWoken'
    BY <1>1, <1>2 DEF UnseenMeansWoken
  <1>3. CASE Publish
    <2>1. /\ worker = "publish" /\ UNCHANGED <<main, wake>>
          /\ shared' = Published /\ worker' = IF ShouldWake THEN "wake" ELSE "decide"
      BY <1>3 DEF Publish
    <2>2. CASE ShouldWake
      BY <2>1, <2>2 DEF UnseenMeansWoken
    <2>3. CASE ~ShouldWake
      <3>0. /\ pane.changed \in BOOLEAN /\ pane.exited \in BOOLEAN /\ shared.exited \in BOOLEAN
            /\ pane.notes \in Nat /\ shared.notes \in Nat /\ shared.version \in Nat
        BY <1>1, Numbers DEF TypeOK
      <3>1. pane.changed = FALSE /\ pane.notes = 0 /\ (pane.exited => shared.exited)
        BY <2>3, <3>0 DEF ShouldWake
      <3>2. /\ shared'.version = shared.version /\ shared'.notes = shared.notes
            /\ shared'.exited <=> shared.exited
        BY <2>1, <3>0, <3>1 DEF Published
      <3> QED
        BY <1>1, <2>1, <3>2 DEF UnseenMeansWoken
    <2> QED
      BY <2>2, <2>3
  <1>4. CASE Wake
    BY <1>4 DEF Wake, UnseenMeansWoken
  <1>5. CASE Polls
    <2>1. /\ main'.version = shared.version /\ shared'.version = shared.version
          /\ shared'.notes = 0 /\ shared'.exited = shared.exited
          /\ shared.exited => main'.at = "joining"
      BY <1>1, <1>5 DEF Polls, TypeOK
    <2> QED
      BY <2>1 DEF UnseenMeansWoken
  <1>6. CASE Handles
    BY <1>1, <1>2, <1>6 DEF Handles, Handle, TypeOK
  <1>7. CASE Receives
    BY <1>2, <1>7 DEF Receives, Receive
  <1>8. CASE Moves
    BY <1>2, <1>8 DEF Moves, Goes
  <1>9. CASE Process
    BY <1>2, <1>9 DEF Process
  <1>10. CASE Leaves
    BY <1>2, <1>10 DEF Leaves
  <1>11. CASE Orders \/ AsksLink \/ GetsLink \/ Closes \/ Joined
    BY <1>1, <1>2, <1>11 DEF Orders, Commanded, AsksLink, GetsLink, Closes, Joined, TypeOK
  <1>12. CASE Reads \/ Exits \/ StrangerOpens \/ StrangerCloses \/ UNCHANGED vars
    BY <1>2, <1>12 DEF Reads, Exits, StrangerOpens, StrangerCloses, vars
  <1>13. CASE ReaderEnds \/ ReaderReaps \/ \E chunk \in Chunk : Writes(chunk)
    BY <1>2, <1>13 DEF ReaderEnds, ReaderReaps, Writes
  <1> QED
    BY <1>3, <1>4, <1>5, <1>6, <1>7, <1>8, <1>9, <1>10, <1>11, <1>12, <1>13, StepCases

LEMMA PaneInitially == Init => PaneInv
  <1> SUFFICES ASSUME Init PROVE PaneInv
    OBVIOUS
  <1>1. Counted(events, Note) = 0 /\ Counted(events, Chunk) = 0
    BY CountedEmpty DEF Init
  <1>2. 0 \in 0..MaxOutput /\ 0 \in 0..PtyRoom /\ 0 \in 0..MaxCommands
    BY BoundsAssumption
  <1>3. Blank \in ScreenType
    BY <1>2, SizesAssumption DEF Blank, ScreenType
  <1>4. TypeOK
    <2>1. events \in Seq({"text", "note", "exited"}) /\ inbox \in Seq(Commands)
      BY DEF Init
    <2> QED
      BY <1>2, <1>3, <2>1, SizesAssumption DEF Init, TypeOK
  <1>5. Balance
    BY <1>1 DEF Init, Balance, NotesUnderWay, ChunksUnderWay, Blank
  <1>6. LastWord /\ Fresh /\ UnseenMeansWoken
    BY DEF Init, LastWord, Fresh, UnseenMeansWoken
  <1>7. Sized
    BY DEF Init, Sized, LastSize, Blank
  <1> QED
    BY <1>4, <1>5, <1>6, <1>7 DEF PaneInv

LEMMA PaneInvariant == Spec => []PaneInv
  <1>1. PaneInv /\ [Next]_vars => PaneInv'
    BY TypeStep, BalanceStep, LastWordStep, FreshStep, SizedStep, UnseenStep DEF PaneInv
  <1> QED
    BY <1>1, PaneInitially, PTL DEF Spec

-----------------------------------------------------------------------------
(* The properties.                                                         *)

\* Every state is well typed, with every counter within what the program has
\* written and the main thread has sent.
THEOREM TypeCorrect == Spec => []TypeOK
  <1>1. PaneInv => TypeOK
    BY DEF PaneInv
  <1> QED
    BY <1>1, PaneInvariant, PTL

\* worker_loop wakes the main thread for everything it publishes: a main thread
\* that can still poll has a wakeup coming for what it has not seen.
THEOREM WokenForAll == Spec => []UnseenMeansWoken
  <1>1. PaneInv => UnseenMeansWoken
    BY DEF PaneInv
  <1> QED
    BY <1>1, PaneInvariant, PTL

\* When poll learns that the program has exited, every note the program wrote
\* has been handed to the main thread: the exit overtakes nothing.
THEOREM ExitIsLast == Spec => []ExitComesLast
  <1>1. PaneInv => ExitComesLast
    <2> SUFFICES ASSUME PaneInv, main.exited PROVE main.notes = child.notes
      BY DEF ExitComesLast
    <2>1. /\ pane.exited /\ events = <<>> /\ pane.notes = 0 /\ shared.notes = 0
      BY DEF PaneInv, LastWord
    <2>2. Counted(events, Note) + pane.notes + shared.notes + main.notes = child.notes
      BY <2>1 DEF PaneInv, Balance, NotesUnderWay
    <2>3. Counted(events, Note) = 0 /\ main.notes \in Nat /\ child.notes \in Nat
      BY <2>1, CountedEmpty, Numbers DEF PaneInv
    <2> QED
      BY <2>1, <2>2, <2>3
  <1> QED
    BY <1>1, PaneInvariant, PTL

\* A worker that waits in select with nothing to take has published the screen
\* after all output and the last resize (process_pending_pty_work, refresh).
THEOREM SettledIsCurrent == Spec => []SettledSnapshot
  <1>1. PaneInv => SettledSnapshot
    <2> SUFFICES ASSUME PaneInv, worker = "select", ~Busy, events = <<>>, inbox = <<>>
                 PROVE  shared.snap = [chunks |-> child.chunks, size |-> main.size]
      BY DEF SettledSnapshot
    <2>1. /\ pane.pending \in Nat /\ pane.term.chunks \in Nat /\ child.chunks \in Nat
          /\ pane.term \in ScreenType
      BY Numbers DEF PaneInv, TypeOK
    <2>2. pane.pending = 0
      BY <2>1 DEF Busy
    <2>3. shared.snap = pane.term
      BY <2>2 DEF PaneInv, Fresh
    <2>4. pane.term.chunks = child.chunks
      <3>1. Counted(events, Chunk) + pane.pending + pane.term.chunks = child.chunks
        BY DEF PaneInv, Balance, ChunksUnderWay
      <3>2. Counted(events, Chunk) = 0
        BY CountedEmpty
      <3> QED
        BY <2>1, <2>2, <3>1, <3>2
    <2>5. pane.term.size = main.size
      BY DEF PaneInv, Sized, LastSize
    <2> QED
      BY <2>1, <2>3, <2>4, <2>5 DEF ScreenType
  <1> QED
    BY <1>1, PaneInvariant, PTL
=============================================================================
