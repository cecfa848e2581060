------------------------- MODULE OutboundStreamProofs -------------------------
(***************************************************************************)
(* The stream to a client, for every set of panes, screens and payloads    *)
(* and every bound.                                                        *)
(*                                                                         *)
(* First the screens of a client on the local socket: the frames under way *)
(* lead, one by one, from the screen the client holds to the screen the    *)
(* server believes it holds.  There is a history of screens with those two *)
(* ends in which each frame makes one screen out of the one before:        *)
(* Publish adds a screen at the end, Receive takes one from the start,     *)
(* WriteOne moves a frame and changes no screen.                           *)
(*                                                                         *)
(* Then the payloads and the replies, coalesced or not.  A reader is a     *)
(* fold along the frames under way.  CoalescedBy says what makes a reader  *)
(* indifferent to batches: it passes the screens over, and of the control  *)
(* frames with one place in a batch the last counts.  BatchFold shows, by  *)
(* induction along the frames, that such a reader makes of a batch what it *)
(* would have made of the frames one by one; the reader of the replies and *)
(* the reader of a slot are such readers.                                  *)
(***************************************************************************)
EXTENDS OutboundStream, SequenceLemmas, TLAPS

UnderWay == wire \o queue

\* h is the history of the screens of a stream under the frames of q.
History(h, q, stream, first) ==
    /\ h[0] = first
    /\ \A i \in 1..Len(q) : h[i] = Applied(q[i], stream, h[i - 1])

\* The frames under way lead from the screen held to the one sent last.
Leads(stream) ==
    \E h : /\ History(h, UnderWay, stream, held[stream])
           /\ last[stream] # NoScreen => h[Len(UnderWay)] = last[stream]

LocalInv ==
    local => /\ last \in [Streams -> AllScreens \cup {NoScreen}]
             /\ queue \in Seq(Message)
             /\ wire \in Seq(Message)
             /\ \A s \in Streams : Leads(s)

-----------------------------------------------------------------------------
(* The frames of the encoder.                                              *)

\* A screen is a function on its rows, of which it has one at least.
LEMMA ScreenShape ==
    ASSUME NEW x \in AllScreens
    PROVE  x = [r \in DOMAIN x |-> x[r]] /\ DOMAIN x # {} /\ x # NoScreen
<1>1. PICK n \in Sizes : x \in [1..n -> Glyphs]
  BY DEF AllScreens
<1>2. n \in Nat /\ n # 0
  BY SizesAssumption
<1>3. DOMAIN x = 1..n /\ x = [r \in DOMAIN x |-> x[r]]
  BY <1>1
<1>4. 1 \in DOMAIN x
  BY <1>2, <1>3
<1>5. DOMAIN NoScreen = {}
  <2>1. NoScreen \in Seq({}) /\ Len(NoScreen) = 0
    BY EmptySeq DEF NoScreen
  <2> QED BY <2>1, LenProperties
<1> QED BY <1>3, <1>4, <1>5

\* encode_delta is right about its own base: what the frame makes of the screen
\* it was cut against is the screen it was cut from.
LEMMA EncodeApplied ==
    ASSUME NEW s, NEW old, NEW new \in AllScreens
    PROVE  Applied(Encode(s, old, new), s, old) = new
<1>1. new = [r \in DOMAIN new |-> new[r]]
  BY ScreenShape
<1>2. CASE DeltaPossible(old, new)
  <2> DEFINE rows == [r \in Changed(old, new) |-> new[r]]
  <2>1. Encode(s, old, new) = [kind |-> "update", stream |-> s, full |-> FALSE, rows |-> rows]
    BY <1>2 DEF Encode, Update
  <2>2. DOMAIN rows = Changed(old, new)
    OBVIOUS
  <2>3. Applied(Encode(s, old, new), s, old)
          = [r \in DOMAIN old |-> IF r \in Changed(old, new) THEN new[r] ELSE old[r]]
    BY <2>1, <2>2 DEF Applied
  <2>4. DOMAIN old = DOMAIN new
    BY <1>2 DEF DeltaPossible
  <2>5. \A r \in DOMAIN old : r \notin Changed(old, new) => old[r] = new[r]
    BY <2>4 DEF Changed
  <2> QED BY <1>1, <2>3, <2>4, <2>5
<1>3. CASE ~DeltaPossible(old, new)
  BY <1>3 DEF Encode, Update, Applied
<1> QED BY <1>2, <1>3

\* What was believed of a client that was sent nothing is of no consequence.
LEMMA EncodeFromNone ==
    ASSUME NEW s, NEW new \in AllScreens
    PROVE  Encode(s, NoScreen, new) = Update(s, TRUE, new)
<1>1. DOMAIN new # {}
  BY ScreenShape
<1>2. DOMAIN NoScreen = {}
  <2>1. NoScreen \in Seq({}) /\ Len(NoScreen) = 0
    BY EmptySeq DEF NoScreen
  <2> QED BY <2>1, LenProperties
<1> QED BY <1>1, <1>2 DEF Encode, DeltaPossible

LEMMA EncodeType ==
    ASSUME NEW s \in Streams, NEW old, NEW new \in AllScreens
    PROVE  Encode(s, old, new) \in Message
<1>1. PICK n \in Sizes : new \in [1..n -> Glyphs]
  BY DEF AllScreens
<1>2. \A R \in SUBSET (1..n) : [R -> Glyphs] \subseteq RowSets
  BY DEF RowSets
<1>3. new \in RowSets
  BY <1>1, <1>2
<1>4. [r \in Changed(old, new) |-> new[r]] \in RowSets
  <2>1. Changed(old, new) \in SUBSET (1..n)
    BY <1>1 DEF Changed
  <2>2. [r \in Changed(old, new) |-> new[r]] \in [Changed(old, new) -> Glyphs]
    BY <1>1, <2>1
  <2> QED BY <1>2, <2>1, <2>2
<1> QED BY <1>3, <1>4 DEF Encode, Update, Message

-----------------------------------------------------------------------------
(* Histories.                                                              *)

\* With nothing under way a history is a single screen.
LEMMA EmptyHistory ==
    ASSUME NEW s, NEW x
    PROVE  /\ Len(<<>> \o <<>>) = 0
           /\ \E h : History(h, <<>> \o <<>>, s, x)
<1>1. <<>> \in Seq({}) /\ Len(<<>>) = 0
  BY EmptySeq
<1>2. Len(<<>> \o <<>>) = 0
  BY <1>1, ConcatProperties
<1> DEFINE h == [i \in {0} |-> x]
<1>3. h[0] = x
  OBVIOUS
<1> HIDE DEF h
<1>4. 1..Len(<<>> \o <<>>) = {}
  BY <1>2
<1> QED BY <1>2, <1>3, <1>4 DEF History

\* A frame queued behind the others makes the last screen out of the one before.
LEMMA LeadsAppend ==
    ASSUME NEW s \in Streams, NEW m \in Message, queue \in Seq(Message), wire \in Seq(Message),
           Leads(s), queue' = Append(queue, m), wire' = wire, held' = held,
           last'[s] # NoScreen =>
               \A y : (last[s] # NoScreen => y = last[s]) => Applied(m, s, y) = last'[s]
    PROVE  Leads(s)'
<1> DEFINE n == Len(UnderWay)
<1>1. UnderWay \in Seq(Message) /\ n \in Nat
  BY ConcatProperties, LenProperties DEF UnderWay
<1>2. UnderWay' = Append(UnderWay, m)
  <2>1. <<m>> \in Seq(Message)
    OBVIOUS
  <2>2. Append(queue, m) = queue \o <<m>> /\ Append(UnderWay, m) = UnderWay \o <<m>>
    BY <1>1, AppendIsConcat
  <2>3. wire \o (queue \o <<m>>) = (wire \o queue) \o <<m>>
    BY <2>1, ConcatAssociative
  <2> QED BY <2>2, <2>3 DEF UnderWay
<1>3. Len(UnderWay') = n + 1
  BY <1>1, <1>2, AppendProperties
<1>4. \A i \in 1..n : UnderWay'[i] = UnderWay[i]
  BY <1>1, <1>2, AppendProperties
<1>5. UnderWay'[n + 1] = m
  BY <1>1, <1>2, AppendProperties
<1>6. PICK h : /\ History(h, UnderWay, s, held[s])
               /\ last[s] # NoScreen => h[n] = last[s]
  BY DEF Leads
<1> DEFINE g == [i \in 0..(n + 1) |-> IF i <= n THEN h[i] ELSE Applied(m, s, h[n])]
<1> HIDE DEF n
<1>7. \A i \in 0..n : g[i] = h[i]
  BY <1>1
<1>8. g[n + 1] = Applied(m, s, h[n])
  BY <1>1
<1> HIDE DEF g
<1>9. History(g, UnderWay', s, held'[s])
  <2>1. g[0] = held'[s]
    BY <1>1, <1>6, <1>7 DEF History
  <2>2. ASSUME NEW i \in 1..(n + 1)
        PROVE  g[i] = Applied(UnderWay'[i], s, g[i - 1])
    <3>1. CASE i \in 1..n
      <4>1. i \in 0..n /\ i - 1 \in 0..n
        BY <1>1, <3>1
      <4>2. h[i] = Applied(UnderWay[i], s, h[i - 1])
        BY <1>6, <3>1 DEF History, n
      <4> QED BY <1>4, <1>7, <3>1, <4>1, <4>2
    <3>2. CASE i = n + 1
      <4>1. i - 1 = n /\ n \in 0..n
        BY <1>1, <3>2
      <4> QED BY <1>5, <1>7, <1>8, <3>2, <4>1
    <3> QED BY <1>1, <3>1, <3>2
  <2> QED BY <1>3, <2>1, <2>2 DEF History
<1>10. last'[s] # NoScreen => g[n + 1] = last'[s]
  BY <1>6, <1>8
<1> QED BY <1>3, <1>9, <1>10 DEF Leads

\* The frame read makes the screen held the next one of the history.
LEMMA LeadsTail ==
    ASSUME NEW s \in Streams, queue \in Seq(Message), wire \in Seq(Message), wire # <<>>,
           Leads(s), wire' = Tail(wire), queue' = queue, last' = last,
           held'[s] = Applied(Head(wire), s, held[s])
    PROVE  Leads(s)'
<1> DEFINE n == Len(UnderWay)
           k == Len(wire)
<1>1. /\ UnderWay \in Seq(Message) /\ n \in Nat
      /\ k \in Nat \ {0} /\ Len(queue) \in Nat /\ n = k + Len(queue)
  BY ConcatProperties, LenProperties, EmptySeq DEF UnderWay
<1>2. Tail(wire) \in Seq(Message) /\ Len(Tail(wire)) = k - 1
      /\ \A i \in 1..(k - 1) : Tail(wire)[i] = wire[i + 1]
  BY HeadTailProperties
<1>3. Len(UnderWay') = n - 1
  <2>1. Len(UnderWay') = Len(Tail(wire)) + Len(queue)
    BY <1>2, ConcatProperties DEF UnderWay
  <2> QED BY <1>1, <1>2, <2>1
<1>4. \A i \in 1..n : UnderWay[i] = IF i <= k THEN wire[i] ELSE queue[i - k]
  BY <1>1, ConcatProperties DEF UnderWay
<1>5. \A i \in 1..(n - 1) :
        UnderWay'[i] = IF i <= k - 1 THEN Tail(wire)[i] ELSE queue[i - (k - 1)]
  <2>1. \A i \in 1..(Len(Tail(wire)) + Len(queue)) :
          (Tail(wire) \o queue)[i]
            = IF i <= Len(Tail(wire)) THEN Tail(wire)[i] ELSE queue[i - Len(Tail(wire))]
    BY <1>2, ConcatProperties
  <2> QED BY <1>1, <1>2, <2>1 DEF UnderWay
<1> HIDE DEF n, k
<1>6. ASSUME NEW i \in 1..(n - 1)
      PROVE  UnderWay'[i] = UnderWay[i + 1]
  <2>1. i + 1 \in 1..n
    BY <1>1
  <2>2. CASE i <= k - 1
    <3>1. i \in 1..(k - 1) /\ i + 1 <= k
      BY <1>1, <2>2
    <3> QED BY <1>2, <1>4, <1>5, <2>1, <2>2, <3>1
  <2>3. CASE ~(i <= k - 1)
    <3>1. ~(i + 1 <= k) /\ i - (k - 1) = (i + 1) - k
      BY <1>1, <2>3
    <3> QED BY <1>4, <1>5, <2>1, <2>3, <3>1
  <2> QED BY <2>2, <2>3
<1>7. 1 \in 1..n /\ UnderWay[1] = Head(wire)
  <2>1. 1 \in 1..n /\ 1 <= k
    BY <1>1
  <2> QED BY <1>4, <2>1, HeadTailProperties
<1>8. PICK h : /\ History(h, UnderWay, s, held[s])
               /\ last[s] # NoScreen => h[n] = last[s]
  BY DEF Leads, n
<1> DEFINE g == [i \in 0..(n - 1) |-> h[i + 1]]
<1>9. \A i \in 0..(n - 1) : g[i] = h[i + 1]
  OBVIOUS
<1> HIDE DEF g
<1>10. History(g, UnderWay', s, held'[s])
  <2>0. \A i \in 1..n : h[i] = Applied(UnderWay[i], s, h[i - 1])
    BY <1>8 DEF History, n
  <2>1. g[0] = held'[s]
    <3>1. 0 \in 0..(n - 1) /\ 0 + 1 = 1 /\ 1 - 1 = 0
      BY <1>1
    <3>2. g[0] = h[1]
      BY <1>9, <3>1
    <3>3. h[0] = held[s]
      BY <1>8 DEF History
    <3> QED BY <1>7, <2>0, <3>1, <3>2, <3>3
  <2>2. ASSUME NEW i \in 1..(n - 1)
        PROVE  g[i] = Applied(UnderWay'[i], s, g[i - 1])
    <3>1. /\ i \in 0..(n - 1) /\ i - 1 \in 0..(n - 1) /\ i + 1 \in 1..n
          /\ (i + 1) - 1 = i /\ (i - 1) + 1 = i
      BY <1>1
    <3>2. g[i] = h[i + 1] /\ g[i - 1] = h[i]
      BY <1>9, <3>1
    <3>3. h[i + 1] = Applied(UnderWay[i + 1], s, h[i])
      BY <2>0, <3>1
    <3> QED BY <1>6, <3>2, <3>3
  <2> QED BY <1>3, <2>1, <2>2 DEF History
<1>11. last'[s] # NoScreen => g[n - 1] = last'[s]
  <2>1. n - 1 \in 0..(n - 1) /\ (n - 1) + 1 = n
    BY <1>1
  <2> QED BY <1>8, <1>9, <2>1
<1> QED BY <1>3, <1>10, <1>11 DEF Leads

\* A step that moves no frame in or out; the server may forget what it sent.
LEMMA LeadsKept ==
    ASSUME NEW s \in Streams, Leads(s), UnderWay' = UnderWay, held' = held,
           last'[s] = last[s] \/ last'[s] = NoScreen
    PROVE  Leads(s)'
BY DEF Leads

\* A frame for the client's screens, its control payloads or a reply: what
\* enters the queue fits behind what is there.
LEMMA EnqueueKeepsInv ==
    ASSUME LocalInv, NEW m \in Message, Enqueue(m), local' = local,
           wire' = wire, held' = held,
           last' \in [Streams -> AllScreens \cup {NoScreen}],
           \A s \in Streams : last'[s] # NoScreen =>
               \A y : (last[s] # NoScreen => y = last[s]) => Applied(m, s, y) = last'[s]
    PROVE  LocalInv'
<1> SUFFICES ASSUME local' PROVE LocalInv'
  BY DEF LocalInv
<1>1. /\ queue \in Seq(Message) /\ wire \in Seq(Message)
      /\ \A s \in Streams : Leads(s)
  BY DEF LocalInv
<1>2. queue' = Append(queue, m)
  BY DEF Enqueue
<1>3. queue' \in Seq(Message)
  BY <1>1, <1>2, AppendProperties
<1>4. ASSUME NEW s \in Streams PROVE Leads(s)'
  BY <1>1, <1>2, LeadsAppend
<1> QED BY <1>1, <1>3, <1>4 DEF LocalInv

\* A screen is encoded against what the server believes.
LEMMA PublishKeepsInv ==
    ASSUME LocalInv, NEW stream \in Streams, NEW screen \in Screens, Publish(stream, screen)
    PROVE  LocalInv'
<1> DEFINE m == Encode(stream, last[stream], screen)
<1> SUFFICES ASSUME local' PROVE LocalInv'
  BY DEF LocalInv
<1>1. local /\ local' = local /\ wire' = wire /\ held' = held /\ Enqueue(m)
      /\ last' = [last EXCEPT ![stream] = screen]
  BY DEF Publish
<1>2. last \in [Streams -> AllScreens \cup {NoScreen}] /\ screen \in AllScreens
  BY <1>1, ScreensAssumption DEF LocalInv
<1>3. last' \in [Streams -> AllScreens \cup {NoScreen}]
  BY <1>1, <1>2
<1>4. m \in Message
  BY <1>2, EncodeType
<1>5. ASSUME NEW s \in Streams, last'[s] # NoScreen,
             NEW y, last[s] # NoScreen => y = last[s]
      PROVE  Applied(m, s, y) = last'[s]
  <2>1. CASE s = stream /\ last[s] = NoScreen
    <3>1. m = Update(s, TRUE, screen)
      BY <1>2, <2>1, EncodeFromNone
    <3> QED BY <1>1, <1>2, <2>1, <3>1 DEF Applied, Update
  <2>2. CASE s = stream /\ last[s] # NoScreen
    <3>1. Applied(m, s, last[s]) = screen
      BY <1>2, <2>2, EncodeApplied
    <3> QED BY <1>1, <1>2, <1>5, <2>2, <3>1
  <2>3. CASE s # stream
    <3>1. m.stream = stream
      BY DEF Encode, Update
    <3>2. last'[s] = last[s]
      BY <1>1, <1>2, <2>3
    <3> QED BY <1>5, <2>3, <3>1, <3>2 DEF Applied
  <2> QED BY <2>1, <2>2, <2>3
<1> HIDE DEF m
<1> QED BY <1>1, <1>3, <1>4, <1>5, EnqueueKeepsInv

\* A frame that is no update leaves the beliefs and the screens alone.
LEMMA OtherFrameKeepsInv ==
    ASSUME LocalInv, NEW m \in Message, m.kind # "update", Enqueue(m), local' = local,
           wire' = wire, held' = held, last' = last
    PROVE  LocalInv'
<1> SUFFICES ASSUME local' PROVE LocalInv'
  BY DEF LocalInv
<1>1. last' \in [Streams -> AllScreens \cup {NoScreen}]
  BY DEF LocalInv
<1>2. \A s \in Streams : last'[s] # NoScreen =>
          \A y : (last[s] # NoScreen => y = last[s]) => Applied(m, s, y) = last'[s]
  BY DEF Applied
<1> QED BY <1>1, <1>2, EnqueueKeepsInv

-----------------------------------------------------------------------------
(* Every step.                                                             *)

LEMMA NextKeepsInv == LocalInv /\ [Next]_vars => LocalInv'
<1> SUFFICES ASSUME LocalInv, [Next]_vars PROVE LocalInv'
  OBVIOUS
<1>1. ASSUME NEW stream \in Streams, NEW screen \in Screens, Publish(stream, screen)
      PROVE  LocalInv'
  BY <1>1, PublishKeepsInv
<1>2. CASE TouchView
  <2> SUFFICES ASSUME local' PROVE LocalInv'
    BY DEF LocalInv
  <2>1. local /\ last' = [s \in Streams |-> NoScreen]
        /\ queue' = queue /\ wire' = wire /\ held' = held
    BY <1>2 DEF TouchView
  <2>2. UnderWay' = UnderWay
    BY <2>1 DEF UnderWay
  <2>3. ASSUME NEW s \in Streams PROVE Leads(s)'
    BY <2>1, <2>2, LeadsKept DEF LocalInv
  <2> QED BY <2>1, <2>3 DEF LocalInv
<1>3. ASSUME NEW slot \in Slots, NEW value \in Payloads[slot], SendControl(slot, value)
      PROVE  LocalInv'
  <2> DEFINE m == [kind |-> "control", slot |-> slot, value |-> value]
  <2>1. m \in Message
    BY PayloadsAssumption DEF Message
  <2>2. m.kind # "update"
    OBVIOUS
  <2>3. Enqueue(m) /\ local' = local /\ wire' = wire /\ held' = held /\ last' = last
    BY <1>3 DEF SendControl
  <2> HIDE DEF m
  <2> QED BY <2>1, <2>2, <2>3, OtherFrameKeepsInv
<1>4. ASSUME NEW value \in Payloads[TabList], ReplyTabList(value)
      PROVE  LocalInv'
  <2> DEFINE m == [kind |-> "control", slot |-> TabList, value |-> value]
  <2>1. m \in Message
    BY PayloadsAssumption, SlotsAssumption DEF Message
  <2>2. m.kind # "update"
    OBVIOUS
  <2>3. Enqueue(m) /\ local' = local /\ wire' = wire /\ held' = held /\ last' = last
    BY <1>4 DEF ReplyTabList
  <2> HIDE DEF m
  <2> QED BY <2>1, <2>2, <2>3, OtherFrameKeepsInv
<1>5. ASSUME NEW kind \in ReplyKinds, Reply(kind)
      PROVE  LocalInv'
  <2> DEFINE m == [kind |-> kind]
  <2>1. m \in Message /\ m.kind # "update"
    BY DEF Message, ReplyKinds
  <2>2. Enqueue(m) /\ local' = local /\ wire' = wire /\ held' = held /\ last' = last
    BY <1>5 DEF Reply
  <2> HIDE DEF m
  <2> QED BY <2>1, <2>2, OtherFrameKeepsInv
<1>6. CASE WriteOne
  <2>1. local /\ local' = local /\ held' = held /\ last' = last /\ queue # <<>>
        /\ wire' = Append(wire, Head(queue)) /\ queue' = Tail(queue)
    BY <1>6 DEF WriteOne
  <2>2. queue \in Seq(Message) /\ wire \in Seq(Message)
        /\ last \in [Streams -> AllScreens \cup {NoScreen}]
        /\ \A s \in Streams : Leads(s)
    BY <2>1 DEF LocalInv
  <2>3. Head(queue) \in Message /\ Tail(queue) \in Seq(Message)
    BY <2>1, <2>2, HeadTailProperties
  <2>4. UnderWay' = UnderWay
    <3>1. <<Head(queue)>> \in Seq(Message)
      BY <2>3
    <3>2. Append(wire, Head(queue)) = wire \o <<Head(queue)>>
      BY <2>2, <2>3, AppendIsConcat
    <3>3. queue = <<Head(queue)>> \o Tail(queue)
      <4>1. Len(queue) \in Nat \ {0}
        BY <2>1, <2>2, EmptySeq, LenProperties
      <4>2. 1 \in 1..Len(queue) /\ Len(queue) \in 1..Len(queue)
        BY <4>1
      <4>3. SubSeq(queue, 1, Len(queue)) = <<queue[1]>> \o SubSeq(queue, 1 + 1, Len(queue))
        BY <2>2, <4>2, SubSeqRecursiveFirst
      <4>4. SubSeq(queue, 1, Len(queue)) = queue
        BY <2>2, SubSeqFull
      <4>5. Tail(queue) = SubSeq(queue, 2, Len(queue))
        BY <2>1, <2>2, TailIsSubSeq
      <4>6. Head(queue) = queue[1]
        OBVIOUS
      <4> QED BY <4>3, <4>4, <4>5, <4>6
    <3>4. (wire \o <<Head(queue)>>) \o Tail(queue) = wire \o (<<Head(queue)>> \o Tail(queue))
      BY <2>2, <2>3, <3>1, ConcatAssociative
    <3> QED BY <2>1, <3>2, <3>3, <3>4 DEF UnderWay
  <2>5. wire' \in Seq(Message) /\ queue' \in Seq(Message)
    BY <2>1, <2>2, <2>3, AppendProperties
  <2>6. ASSUME NEW s \in Streams PROVE Leads(s)'
    BY <2>1, <2>2, <2>4, LeadsKept
  <2> QED BY <2>1, <2>2, <2>5, <2>6 DEF LocalInv
<1>7. ASSUME NEW n \in 1..MaxUnderWay, WriteBatch(n) PROVE LocalInv'
  BY <1>7 DEF WriteBatch, LocalInv
<1>8. CASE Receive
  <2> SUFFICES ASSUME local' PROVE LocalInv'
    BY DEF LocalInv
  <2>1. /\ local /\ last' = last /\ queue' = queue /\ wire # <<>> /\ wire' = Tail(wire)
        /\ held' = [s \in Streams |-> Applied(Head(wire), s, held[s])]
    BY <1>8 DEF Receive
  <2>2. queue \in Seq(Message) /\ wire \in Seq(Message)
        /\ last \in [Streams -> AllScreens \cup {NoScreen}]
        /\ \A s \in Streams : Leads(s)
    BY <2>1 DEF LocalInv
  <2>3. wire' \in Seq(Message)
    BY <2>1, <2>2, HeadTailProperties
  <2>4. ASSUME NEW s \in Streams PROVE Leads(s)'
    <3>1. held'[s] = Applied(Head(wire), s, held[s])
      BY <2>1
    <3> QED BY <2>1, <2>2, <3>1, LeadsTail
  <2> QED BY <2>1, <2>2, <2>3, <2>4 DEF LocalInv
<1>9. CASE Reconnect
  <2>1. last' = [s \in Streams |-> NoScreen] /\ queue' = <<>> /\ wire' = <<>>
    BY <1>9 DEF Reconnect
  <2>2. ASSUME NEW s \in Streams PROVE Leads(s)'
    <3>1. last'[s] = NoScreen
      BY <2>1
    <3>2. UnderWay' = <<>> \o <<>>
      BY <2>1 DEF UnderWay
    <3>3. PICK h : History(h, <<>> \o <<>>, s, held'[s])
      BY EmptyHistory
    <3> QED BY <3>1, <3>2, <3>3 DEF Leads
  <2>3. queue' \in Seq(Message) /\ wire' \in Seq(Message)
    BY <2>1
  <2> QED BY <2>1, <2>2, <2>3 DEF LocalInv
<1>10. CASE UNCHANGED vars
  <2>1. local' = local /\ last' = last /\ queue' = queue /\ wire' = wire /\ held' = held
    BY <1>10 DEF vars
  <2> QED BY <2>1 DEF LocalInv, Leads, UnderWay
<1> QED BY <1>1, <1>2, <1>3, <1>4, <1>5, <1>6, <1>7, <1>8, <1>9, <1>10 DEF Next

\* For every set of panes and screens: once a desktop client has read all that
\* was sent to it, it shows what the server believes it shows, however screens,
\* view changes, control payloads and reconnections interleave.
THEOREM LocalClientConverges == Spec => []LocalConverged
<1>1. Init => LocalInv
  <2> SUFFICES ASSUME Init PROVE LocalInv
    OBVIOUS
  <2>1. last = [s \in Streams |-> NoScreen] /\ queue = <<>> /\ wire = <<>>
    BY DEF Init
  <2>2. ASSUME NEW s \in Streams PROVE Leads(s)
    <3>1. UnderWay = <<>> \o <<>>
      BY <2>1 DEF UnderWay
    <3> QED BY <2>1, <3>1, EmptyHistory DEF Leads
  <2>3. queue \in Seq(Message) /\ wire \in Seq(Message)
    BY <2>1
  <2> QED BY <2>1, <2>2, <2>3 DEF LocalInv
<1>2. LocalInv => LocalConverged
  <2> SUFFICES ASSUME LocalInv, local, Idle, NEW s \in Streams, last[s] # NoScreen
               PROVE  held[s] = last[s]
    BY DEF LocalConverged, Converged
  <2>1. Len(UnderWay) = 0
    BY EmptyHistory DEF Idle, UnderWay
  <2>2. PICK h : h[0] = held[s] /\ h[Len(UnderWay)] = last[s]
    BY DEF LocalInv, Leads, History
  <2> QED BY <2>1, <2>2
<1>3. QED
  BY <1>1, <1>2, NextKeepsInv, PTL DEF Spec

-----------------------------------------------------------------------------
(* The batches of the writer.                                              *)

Updates == {m \in Message : m.kind = "update"}

Controls == {m \in Message : m.kind = "control"}

Batches ==
    [frames : Seq(Message), control : Seq(Controls), screen : Seq(Updates),
     passive : Seq(Updates)]

LEMMA MessageShape ==
    ASSUME NEW m \in Message
    PROVE  /\ m.kind \in {"update", "control", "priority", "plain"}
           /\ m.kind = "control" => m.slot \in Slots /\ m.value \in Nat
           /\ m.kind = "update" => m.stream \in Streams
           /\ m.kind \in ReplyKinds <=> m.kind \in {"priority", "plain"}
BY DEF Message, ReplyKinds

LEMMA SetPendingType ==
    ASSUME NEW S, NEW p \in Seq(S), NEW m \in S
    PROVE  SetPending(p, m) \in Seq(S)
<1>1. DOMAIN p = 1..Len(p) /\ Len(p) \in Nat /\ p \in [1..Len(p) -> S]
  BY LenProperties
<1> DEFINE r == [i \in DOMAIN p |-> IF SameKey(p[i], m) THEN m ELSE p[i]]
<1>2. r \in Seq(S)
  <2>1. r \in [1..Len(p) -> S]
    BY <1>1
  <2> HIDE DEF r
  <2> QED BY <1>1, <2>1, SeqDef
<1>3. Append(p, m) \in Seq(S)
  BY AppendProperties
<1> HIDE DEF r
<1> QED BY <1>2, <1>3 DEF SetPending, r

LEMMA SubsetSeqs ==
    /\ \A p \in Seq(Updates) : p \in Seq(Message)
    /\ \A p \in Seq(Controls) : p \in Seq(Message)
BY SeqMonotonic DEF Updates, Controls

\* What becomes of a batch with one frame more.
LEMMA PushControl ==
    ASSUME NEW b \in Batches, NEW m \in Message, m.kind = "control"
    PROVE  Push(b, m) = [frames |-> b.frames, control |-> SetPending(b.control, m),
                         screen |-> b.screen, passive |-> b.passive]
BY DEF Push, Batches

LEMMA PushUpdate ==
    ASSUME NEW b \in Batches, NEW m \in Message, m.kind = "update"
    PROVE  \E screen, passive \in Seq(Updates) :
               Push(b, m) = [frames |-> b.frames, control |-> b.control,
                             screen |-> screen, passive |-> passive]
<1>1. m \in Updates /\ <<m>> \in Seq(Updates)
  BY DEF Updates
<1>2. b.screen \in Seq(Updates) /\ b.passive \in Seq(Updates)
  BY DEF Batches
<1>3. SetPending(b.passive, m) \in Seq(Updates)
  BY <1>1, <1>2, SetPendingType
<1>4. CASE m.stream = Focused
  <2>1. Push(b, m) = [frames |-> b.frames, control |-> b.control,
                      screen |-> <<m>>, passive |-> b.passive]
    BY <1>4 DEF Push, Batches
  <2> QED BY <1>1, <1>2, <2>1
<1>5. CASE m.stream # Focused
  <2>1. Push(b, m) = [frames |-> b.frames, control |-> b.control,
                      screen |-> b.screen, passive |-> SetPending(b.passive, m)]
    BY <1>5 DEF Push, Batches
  <2> QED BY <1>2, <1>3, <2>1
<1> QED BY <1>4, <1>5

LEMMA PushPriority ==
    ASSUME NEW b \in Batches, NEW m \in Message, m.kind = "priority"
    PROVE  Push(b, m) = [frames |-> Append(b.frames \o b.control, m), control |-> <<>>,
                         screen |-> b.screen, passive |-> b.passive]
BY DEF Push, WithControl, Batches

LEMMA PushPlain ==
    ASSUME NEW b \in Batches, NEW m \in Message, m.kind = "plain"
    PROVE  Push(b, m) =
             [frames |-> Append(((b.frames \o b.control) \o b.screen) \o b.passive, m),
              control |-> <<>>, screen |-> <<>>, passive |-> <<>>]
BY DEF Push, WithControl, WithPanes, Batches

LEMMA BatchesRecord ==
    ASSUME NEW f \in Seq(Message), NEW c \in Seq(Controls), NEW u \in Seq(Updates),
           NEW v \in Seq(Updates)
    PROVE  [frames |-> f, control |-> c, screen |-> u, passive |-> v] \in Batches
BY DEF Batches

LEMMA PushType ==
    ASSUME NEW b \in Batches, NEW m \in Message
    PROVE  Push(b, m) \in Batches
<1>1. /\ b.frames \in Seq(Message) /\ b.control \in Seq(Controls)
      /\ b.screen \in Seq(Updates) /\ b.passive \in Seq(Updates)
  BY DEF Batches
<1>2. /\ b.control \in Seq(Message) /\ b.screen \in Seq(Message) /\ b.passive \in Seq(Message)
  BY <1>1, SubsetSeqs
<1>3. CASE m.kind = "control"
  <2>1. SetPending(b.control, m) \in Seq(Controls)
    BY <1>1, <1>3, SetPendingType DEF Controls
  <2> QED BY <1>1, <1>3, <2>1, PushControl, BatchesRecord
<1>4. CASE m.kind = "update"
  <2>1. PICK screen, passive \in Seq(Updates) :
            Push(b, m) = [frames |-> b.frames, control |-> b.control,
                          screen |-> screen, passive |-> passive]
    BY <1>4, PushUpdate
  <2> QED BY <1>1, <2>1, BatchesRecord
<1>5. CASE m.kind = "priority"
  <2>1. b.frames \o b.control \in Seq(Message)
    BY <1>1, <1>2, ConcatProperties
  <2>2. Append(b.frames \o b.control, m) \in Seq(Message)
    BY <2>1, AppendProperties
  <2>3. <<>> \in Seq(Controls)
    BY EmptySeq
  <2>4. Push(b, m) = [frames |-> Append(b.frames \o b.control, m), control |-> <<>>,
                      screen |-> b.screen, passive |-> b.passive]
    BY <1>5, PushPriority
  <2> QED BY <1>1, <2>2, <2>3, <2>4, BatchesRecord
<1>6. CASE m.kind = "plain"
  <2>1. b.frames \o b.control \in Seq(Message)
    BY <1>1, <1>2, ConcatProperties
  <2>2. (b.frames \o b.control) \o b.screen \in Seq(Message)
    BY <1>2, <2>1, ConcatProperties
  <2>3. ((b.frames \o b.control) \o b.screen) \o b.passive \in Seq(Message)
    BY <1>2, <2>2, ConcatProperties
  <2>4. Append(((b.frames \o b.control) \o b.screen) \o b.passive, m) \in Seq(Message)
    BY <2>3, AppendProperties
  <2>5. <<>> \in Seq(Controls) /\ <<>> \in Seq(Updates)
    BY EmptySeq
  <2> QED BY <1>6, <2>4, <2>5, PushPlain, BatchesRecord
<1> QED BY <1>3, <1>4, <1>5, <1>6, MessageShape

\* A step F of a reader that coalescing does not disturb: it passes the screens
\* over, and of the control frames with one place in a batch the last counts.
CoalescedBy(F, S) ==
    /\ F \in [Message \X S -> S]
    /\ \A m \in Updates, x \in S : F[<<m, x>>] = x
    /\ \A p \in Seq(Controls), m \in Controls, x \in S :
          Fold(SetPending(p, m), F, x) = F[<<m, Fold(p, F, x)>>]

\* What such a reader makes of all that is in a batch.
Gathered(b, F, x) == Fold(b.control, F, Fold(b.frames, F, x))

LEMMA MessageFold ==
    ASSUME NEW F, NEW x
    PROVE  \A s \in Seq(Message), m \in Message :
             Fold(Append(s, m), F, x) = F[<<m, Fold(s, F, x)>>]
<1>1. \A s \in Seq(Message), m \in Message :
        \A v : v = F[<<m, Fold(s, F, x)>>] => Fold(Append(s, m), F, x) = v
  BY FoldAppend
<1> QED BY <1>1

LEMMA UpdatesPassed ==
    ASSUME NEW S, NEW F, CoalescedBy(F, S), NEW p \in Seq(Updates), NEW x \in S
    PROVE  Fold(p, F, x) = x
<1>1. \A i \in 1..Len(p) : p[i] \in Updates
  BY ElementOfSeq
<1>2. \A i \in 1..Len(p) : F[<<p[i], x>>] = x
  BY <1>1 DEF CoalescedBy
<1> QED BY <1>2, FoldPasses

LEMMA FlatFold ==
    ASSUME NEW S, NEW F, CoalescedBy(F, S), NEW b \in Batches, NEW x \in S
    PROVE  /\ ((b.frames \o b.control) \o b.screen) \o b.passive \in Seq(Message)
           /\ Fold(((b.frames \o b.control) \o b.screen) \o b.passive, F, x) = Gathered(b, F, x)
<1>1. /\ b.frames \in Seq(Message) /\ b.screen \in Seq(Updates) /\ b.passive \in Seq(Updates)
      /\ b.control \in Seq(Message) /\ b.screen \in Seq(Message) /\ b.passive \in Seq(Message)
  BY SubsetSeqs DEF Batches
<1> DEFINE p == b.frames \o b.control
           r == p \o b.screen
<1>2. p \in Seq(Message)
  BY <1>1, ConcatProperties
<1>3. Fold(p, F, x) = Gathered(b, F, x)
  <2>1. \A f, c \in Seq(Message) : Fold(f \o c, F, x) = Fold(c, F, Fold(f, F, x))
    BY FoldConcat
  <2> QED BY <1>1, <2>1 DEF Gathered
<1>4. Fold(p, F, x) \in S
  BY <1>2, FoldType DEF CoalescedBy
<1> HIDE DEF p
<1>5. r \in Seq(Message)
  BY <1>1, <1>2, ConcatProperties
<1>6. Fold(r, F, x) = Fold(b.screen, F, Fold(p, F, x))
  BY <1>1, <1>2, FoldConcat
<1>7. Fold(b.screen, F, Fold(p, F, x)) = Fold(p, F, x)
  BY <1>1, <1>4, UpdatesPassed
<1> HIDE DEF r
<1>8. r \o b.passive \in Seq(Message)
  BY <1>1, <1>5, ConcatProperties
<1>9. Fold(r \o b.passive, F, x) = Fold(b.passive, F, Fold(r, F, x))
  BY <1>1, <1>5, FoldConcat
<1>10. Fold(b.passive, F, Fold(r, F, x)) = Fold(r, F, x)
  BY <1>1, <1>4, <1>6, <1>7, UpdatesPassed
<1> QED BY <1>3, <1>6, <1>7, <1>8, <1>9, <1>10 DEF p, r

\* Pushing a frame is one step more of the reader.
LEMMA PushGathers ==
    ASSUME NEW S, NEW F, CoalescedBy(F, S), NEW b \in Batches, NEW m \in Message, NEW x \in S
    PROVE  Gathered(Push(b, m), F, x) = F[<<m, Gathered(b, F, x)>>]
<1>1. /\ b.frames \in Seq(Message) /\ b.control \in Seq(Controls) /\ b.control \in Seq(Message)
  BY SubsetSeqs DEF Batches
<1>2. Fold(b.frames, F, x) \in S
  BY <1>1, FoldType DEF CoalescedBy
<1>3. Gathered(b, F, x) \in S
  BY <1>1, <1>2, FoldType DEF CoalescedBy, Gathered
<1>4. CASE m.kind = "control"
  <2>1. Push(b, m).frames = b.frames /\ Push(b, m).control = SetPending(b.control, m)
    BY <1>4, PushControl
  <2>2. m \in Controls
    BY <1>4 DEF Controls
  <2>3. Fold(SetPending(b.control, m), F, Fold(b.frames, F, x))
          = F[<<m, Fold(b.control, F, Fold(b.frames, F, x))>>]
    BY <1>1, <1>2, <2>2 DEF CoalescedBy
  <2> QED BY <2>1, <2>3 DEF Gathered
<1>5. CASE m.kind = "update"
  <2>1. Push(b, m).frames = b.frames /\ Push(b, m).control = b.control
    BY <1>5, PushUpdate
  <2>2. F[<<m, Gathered(b, F, x)>>] = Gathered(b, F, x)
    BY <1>3, <1>5 DEF CoalescedBy, Updates
  <2> QED BY <2>1, <2>2 DEF Gathered
<1>6. CASE m.kind = "priority"
  <2> DEFINE p == b.frames \o b.control
  <2>1. Push(b, m).frames = Append(p, m) /\ Push(b, m).control = <<>>
    <3>1. Push(b, m) = [frames |-> Append(p, m), control |-> <<>>,
                        screen |-> b.screen, passive |-> b.passive]
      BY <1>6, PushPriority
    <3> HIDE DEF p
    <3> QED BY <3>1
  <2>2. p \in Seq(Message)
    BY <1>1, ConcatProperties
  <2>3. Fold(p, F, x) = Gathered(b, F, x)
    <3>1. \A f, c \in Seq(Message) : Fold(f \o c, F, x) = Fold(c, F, Fold(f, F, x))
      BY FoldConcat
    <3> QED BY <1>1, <3>1 DEF Gathered
  <2> HIDE DEF p
  <2>4. Fold(Append(p, m), F, x) = F[<<m, Fold(p, F, x)>>]
    BY <2>2, MessageFold
  <2> QED BY <2>1, <2>3, <2>4, FoldEmpty DEF Gathered
<1>7. CASE m.kind = "plain"
  <2> DEFINE p == ((b.frames \o b.control) \o b.screen) \o b.passive
  <2>1. Push(b, m).frames = Append(p, m) /\ Push(b, m).control = <<>>
    <3>1. Push(b, m) = [frames |-> Append(p, m), control |-> <<>>,
                        screen |-> <<>>, passive |-> <<>>]
      BY <1>7, PushPlain
    <3> HIDE DEF p
    <3> QED BY <3>1
  <2>2. p \in Seq(Message) /\ Fold(p, F, x) = Gathered(b, F, x)
    BY FlatFold
  <2> HIDE DEF p
  <2>3. Fold(Append(p, m), F, x) = F[<<m, Fold(p, F, x)>>]
    BY <2>2, FoldAppend
  <2> QED BY <2>1, <2>2, <2>3, FoldEmpty DEF Gathered
<1> QED BY <1>4, <1>5, <1>6, <1>7, MessageShape

\* The closure `push', as the step of a fold.
PushStep == [x \in Message \X Batches |-> Push(x[2], x[1])]

LEMMA PushStepType ==
    /\ PushStep \in [Message \X Batches -> Batches]
    /\ EmptyBatch \in Batches
    /\ \A m \in Message, b \in Batches : PushStep[<<m, b>>] = Push(b, m)
<1>1. ASSUME NEW x \in Message \X Batches PROVE Push(x[2], x[1]) \in Batches
  <2>1. x[1] \in Message /\ x[2] \in Batches
    OBVIOUS
  <2> QED BY <2>1, PushType
<1>2. PushStep \in [Message \X Batches -> Batches]
  BY <1>1 DEF PushStep
<1>3. \A m \in Message, b \in Batches : PushStep[<<m, b>>] = Push(b, m)
  BY DEF PushStep
<1>4. EmptyBatch \in Batches
  BY EmptySeq, BatchesRecord DEF EmptyBatch
<1> QED BY <1>2, <1>3, <1>4

\* The batch of q, before its last panes and payloads join its frames.
Collected(q) == Fold(q, PushStep, EmptyBatch)

LEMMA BatchIsCollected ==
    ASSUME NEW q \in Seq(Message)
    PROVE  Batch(q) = WithPanes(WithControl(Collected(q))).frames
<1> DEFINE n == Len(q)
           Collects(b) == b = [k \in 0..n |-> IF k = 0 THEN EmptyBatch ELSE Push(b[k - 1], q[k])]
           g == CHOOSE b : Collects(b)
<1>1. n \in Nat /\ \A k \in 1..n : q[k] \in Message
  BY LenProperties, ElementOfSeq
<1>2. \E b : Collects(b)
  <2>1. PICK f : f = [k \in 0..n |-> f[k]] /\ Run(f, q, PushStep, EmptyBatch)
    BY PushStepType, RunOnPlaces
  <2>2. \A k \in 0..n : f[k] \in Batches
    BY <2>1, PushStepType, RunType
  <2>3. ASSUME NEW k \in 0..n
        PROVE  f[k] = IF k = 0 THEN EmptyBatch ELSE Push(f[k - 1], q[k])
    <3>1. CASE k = 0
      BY <2>1, <3>1 DEF Run
    <3>2. CASE k # 0
      <4>1. k \in 1..n /\ k - 1 \in 0..n
        BY <1>1, <3>2
      <4>2. f[k] = PushStep[<<q[k], f[k - 1]>>]
        BY <2>1, <4>1 DEF Run
      <4> QED BY <1>1, <2>2, <3>2, <4>1, <4>2, PushStepType
    <3> QED BY <3>1, <3>2
  <2> HIDE DEF n
  <2> QED BY <2>1, <2>3
<1>3. Collects(g)
  <2> HIDE DEF Collects
  <2> QED BY <1>2
<1>4. Batch(q) = WithPanes(WithControl(g[n])).frames
  BY DEF Batch
<1>5. \A k \in 0..n : g[k] = IF k = 0 THEN EmptyBatch ELSE Push(g[k - 1], q[k])
  <2>1. g = [k \in 0..n |-> IF k = 0 THEN EmptyBatch ELSE Push(g[k - 1], q[k])]
    BY <1>3
  <2> HIDE DEF g, n
  <2> QED BY <2>1
<1> HIDE DEF g
<1>6. Run(g, q, PushStep, EmptyBatch)
  <2>1. ASSUME NEW k \in 1..n, g[k - 1] \in Batches
        PROVE  g[k] = PushStep[<<q[k], g[k - 1]>>]
    <3>1. k \in 0..n /\ k # 0
      BY <1>1
    <3>2. g[k] = Push(g[k - 1], q[k])
      BY <1>5, <3>1
    <3> QED BY <1>1, <2>1, <3>2, PushStepType
  <2>2. g[0] = EmptyBatch
    <3>1. 0 \in 0..n
      BY <1>1
    <3> QED BY <1>5, <3>1
  <2> QED BY <2>1, <2>2, PushStepType, RecursionRuns
<1>7. g[n] = Collected(q)
  BY <1>6, FoldIsEnd DEF Collected
<1> QED BY <1>4, <1>7

\* Whatever the server queued, a reader makes of the coalesced batch what it would
\* have made of the frames one by one.
LEMMA BatchFold ==
    ASSUME NEW S, NEW F, CoalescedBy(F, S), NEW x \in S, NEW q \in Seq(Message)
    PROVE  Batch(q) \in Seq(Message) /\ Fold(Batch(q), F, x) = Fold(q, F, x)
<1> DEFINE T == {r \in Seq(Message) : Gathered(Collected(r), F, x) = Fold(r, F, x)}
<1>1. \A r \in Seq(Message) : Collected(r) \in Batches
  BY PushStepType, FoldType DEF Collected
<1>2. <<>> \in T
  <2>1. <<>> \in Seq(Message) /\ Collected(<<>>) = EmptyBatch
    BY EmptySeq, FoldEmpty DEF Collected
  <2>2. Gathered(EmptyBatch, F, x) = x
    BY FoldEmpty DEF EmptyBatch, Gathered
  <2> QED BY <2>1, <2>2, FoldEmpty
<1>3. ASSUME NEW r \in Seq(Message), r \in T, NEW m \in Message PROVE Append(r, m) \in T
  <2>1. Collected(Append(r, m)) = Push(Collected(r), m)
    <3>1. Collected(Append(r, m)) = PushStep[<<m, Collected(r)>>]
      BY FoldAppend DEF Collected
    <3> QED BY <1>1, <3>1, PushStepType
  <2>2. Gathered(Push(Collected(r), m), F, x) = F[<<m, Gathered(Collected(r), F, x)>>]
    BY <1>1, PushGathers
  <2>3. Fold(Append(r, m), F, x) = F[<<m, Fold(r, F, x)>>]
    BY FoldAppend
  <2>4. Append(r, m) \in Seq(Message)
    BY AppendProperties
  <2> QED BY <1>3, <2>1, <2>2, <2>3, <2>4
<1>4. q \in T
  <2> HIDE DEF T
  <2> QED BY <1>2, <1>3, InductionOnSequences
<1> DEFINE b == Collected(q)
<1>5. b \in Batches
  BY <1>1
<1>6. Batch(q) = WithPanes(WithControl(b)).frames
  BY BatchIsCollected
<1>7. Gathered(b, F, x) = Fold(q, F, x)
  BY <1>4
<1> HIDE DEF b
<1>8. WithPanes(WithControl(b)).frames = ((b.frames \o b.control) \o b.screen) \o b.passive
  BY <1>5 DEF WithPanes, WithControl, Batches
<1> QED BY <1>5, <1>6, <1>7, <1>8, FlatFold

-----------------------------------------------------------------------------
(* The two readers: the replies in their order, the payload of a slot.     *)

ReplyStep ==
    [x \in Message \X Seq(ReplyKinds) |->
        IF x[1].kind \in ReplyKinds THEN Append(x[2], x[1].kind) ELSE x[2]]

LEMMA ReplyStepType ==
    /\ ReplyStep \in [Message \X Seq(ReplyKinds) -> Seq(ReplyKinds)]
    /\ \A m \in Message, c \in Seq(ReplyKinds) :
          ReplyStep[<<m, c>>] = IF m.kind \in ReplyKinds THEN Append(c, m.kind) ELSE c
<1>1. ASSUME NEW x \in Message \X Seq(ReplyKinds)
      PROVE  (IF x[1].kind \in ReplyKinds THEN Append(x[2], x[1].kind) ELSE x[2])
                \in Seq(ReplyKinds)
  <2>1. x[2] \in Seq(ReplyKinds)
    OBVIOUS
  <2>2. \A k \in ReplyKinds : Append(x[2], k) \in Seq(ReplyKinds)
    BY <2>1, AppendProperties
  <2> QED BY <2>1, <2>2
<1>2. ReplyStep \in [Message \X Seq(ReplyKinds) -> Seq(ReplyKinds)]
  BY <1>1 DEF ReplyStep
<1>3. \A m \in Message, c \in Seq(ReplyKinds) :
          ReplyStep[<<m, c>>] = IF m.kind \in ReplyKinds THEN Append(c, m.kind) ELSE c
  BY DEF ReplyStep
<1> QED BY <1>2, <1>3

LEMMA RepliesIsFold ==
    ASSUME NEW q \in Seq(Message)
    PROVE  Replies(q) = Fold(q, ReplyStep, <<>>)
<1> DEFINE n == Len(q)
           Next1(c, m) == IF m.kind \in ReplyKinds THEN Append(c, m.kind) ELSE c
           Collects(r) == r = [k \in 0..n |-> IF k = 0 THEN <<>> ELSE Next1(r[k - 1], q[k])]
           g == CHOOSE r : Collects(r)
<1>1. n \in Nat /\ \A k \in 1..n : q[k] \in Message
  BY LenProperties, ElementOfSeq
<1>2. <<>> \in Seq(ReplyKinds)
  BY EmptySeq
<1>3. \A m \in Message, c \in Seq(ReplyKinds) : ReplyStep[<<m, c>>] = Next1(c, m)
  BY ReplyStepType
<1>4. Replies(q) = g[n]
  BY DEF Replies
<1> HIDE DEF Next1
<1>5. \E r : Collects(r)
  <2>1. PICK f : f = [k \in 0..n |-> f[k]] /\ Run(f, q, ReplyStep, <<>>)
    BY <1>2, ReplyStepType, RunOnPlaces
  <2>2. \A k \in 0..n : f[k] \in Seq(ReplyKinds)
    BY <1>2, <2>1, ReplyStepType, RunType
  <2>3. ASSUME NEW k \in 0..n
        PROVE  f[k] = IF k = 0 THEN <<>> ELSE Next1(f[k - 1], q[k])
    <3>1. CASE k = 0
      BY <2>1, <3>1 DEF Run
    <3>2. CASE k # 0
      <4>1. k \in 1..n /\ k - 1 \in 0..n
        BY <1>1, <3>2
      <4>2. f[k] = ReplyStep[<<q[k], f[k - 1]>>]
        BY <2>1, <4>1 DEF Run
      <4> QED BY <1>1, <1>3, <2>2, <3>2, <4>1, <4>2
    <3> QED BY <3>1, <3>2
  <2> HIDE DEF n
  <2> QED BY <2>1, <2>3
<1>6. Collects(g)
  <2> HIDE DEF Collects
  <2> QED BY <1>5
<1>7. \A k \in 0..n : g[k] = IF k = 0 THEN <<>> ELSE Next1(g[k - 1], q[k])
  <2>1. g = [k \in 0..n |-> IF k = 0 THEN <<>> ELSE Next1(g[k - 1], q[k])]
    BY <1>6
  <2> HIDE DEF g, n
  <2> QED BY <2>1
<1> HIDE DEF g
<1>8. Run(g, q, ReplyStep, <<>>)
  <2>1. ASSUME NEW k \in 1..n, g[k - 1] \in Seq(ReplyKinds)
        PROVE  g[k] = ReplyStep[<<q[k], g[k - 1]>>]
    <3>1. k \in 0..n /\ k # 0
      BY <1>1
    <3>2. g[k] = Next1(g[k - 1], q[k])
      BY <1>7, <3>1
    <3> QED BY <1>1, <1>3, <2>1, <3>2
  <2>2. g[0] = <<>>
    <3>1. 0 \in 0..n
      BY <1>1
    <3> QED BY <1>7, <3>1
  <2> QED BY <1>2, <2>1, <2>2, ReplyStepType, RecursionRuns
<1>9. g[n] = Fold(q, ReplyStep, <<>>)
  BY <1>8, FoldIsEnd
<1> QED BY <1>4, <1>9

\* Coalescing disturbs no reply.
LEMMA RepliesCoalesced == CoalescedBy(ReplyStep, Seq(ReplyKinds))
<1>1. ASSUME NEW m \in Message, m.kind \notin ReplyKinds, NEW x \in Seq(ReplyKinds)
      PROVE  ReplyStep[<<m, x>>] = x
  BY <1>1, ReplyStepType
<1>2. \A m \in Updates \cup Controls : m \in Message /\ m.kind \notin ReplyKinds
  BY DEF Updates, Controls, ReplyKinds
<1>3. ASSUME NEW p \in Seq(Controls), NEW x \in Seq(ReplyKinds)
      PROVE  Fold(p, ReplyStep, x) = x
  <2>1. \A i \in 1..Len(p) : p[i] \in Controls
    BY ElementOfSeq
  <2>2. \A i \in 1..Len(p) : ReplyStep[<<p[i], x>>] = x
    BY <1>1, <1>2, <2>1
  <2> QED BY <2>2, FoldPasses
<1>4. ASSUME NEW p \in Seq(Controls), NEW m \in Controls, NEW x \in Seq(ReplyKinds)
      PROVE  Fold(SetPending(p, m), ReplyStep, x) = ReplyStep[<<m, Fold(p, ReplyStep, x)>>]
  <2>1. SetPending(p, m) \in Seq(Controls)
    BY SetPendingType
  <2>2. Fold(SetPending(p, m), ReplyStep, x) = x /\ Fold(p, ReplyStep, x) = x
    BY <1>3, <2>1
  <2> QED BY <1>1, <1>2, <2>2
<1> QED BY <1>1, <1>2, <1>4, ReplyStepType DEF CoalescedBy

\* Replies read before others stay before them.
LEMMA RepliesAfter ==
    ASSUME NEW q \in Seq(Message), NEW c \in Seq(ReplyKinds)
    PROVE  /\ Fold(q, ReplyStep, <<>>) \in Seq(ReplyKinds)
           /\ Fold(q, ReplyStep, c) = c \o Fold(q, ReplyStep, <<>>)
<1> DEFINE T == {r \in Seq(Message) : Fold(r, ReplyStep, c) = c \o Fold(r, ReplyStep, <<>>)}
<1>0. <<>> \in Seq(ReplyKinds)
  BY EmptySeq
<1>1. \A r \in Seq(Message) : /\ Fold(r, ReplyStep, <<>>) \in Seq(ReplyKinds)
                              /\ Fold(r, ReplyStep, c) \in Seq(ReplyKinds)
  BY <1>0, ReplyStepType, FoldType
<1>2. <<>> \in T
  <2>1. <<>> \in Seq(Message) /\ c \o <<>> = c
    BY ConcatEmptySeq
  <2> QED BY <2>1, FoldEmpty
<1>3. ASSUME NEW r \in Seq(Message), r \in T, NEW m \in Message PROVE Append(r, m) \in T
  <2> DEFINE d == Fold(r, ReplyStep, <<>>)
  <2>1. d \in Seq(ReplyKinds) /\ Fold(r, ReplyStep, c) = c \o d
    BY <1>1, <1>3
  <2>2. c \o d \in Seq(ReplyKinds)
    BY <1>1, <2>1
  <2>3. Fold(Append(r, m), ReplyStep, c) = ReplyStep[<<m, c \o d>>]
    <3>1. Fold(Append(r, m), ReplyStep, c) = ReplyStep[<<m, Fold(r, ReplyStep, c)>>]
      BY FoldAppend
    <3> QED BY <2>1, <3>1
  <2>4. Fold(Append(r, m), ReplyStep, <<>>) = ReplyStep[<<m, d>>]
    <3>1. \A e : Fold(Append(r, m), ReplyStep, e) = ReplyStep[<<m, Fold(r, ReplyStep, e)>>]
      BY FoldAppend
    <3> QED BY <3>1
  <2> HIDE DEF d
  <2>5. ReplyStep[<<m, c \o d>>] = c \o ReplyStep[<<m, d>>]
    <3>1. CASE m.kind \in ReplyKinds
      <4>1. ReplyStep[<<m, c \o d>>] = Append(c \o d, m.kind)
            /\ ReplyStep[<<m, d>>] = Append(d, m.kind)
        BY <2>1, <2>2, <3>1, ReplyStepType
      <4>2. <<m.kind>> \in Seq(ReplyKinds)
        BY <3>1
      <4>3. Append(c \o d, m.kind) = (c \o d) \o <<m.kind>>
            /\ Append(d, m.kind) = d \o <<m.kind>>
        BY <2>1, <2>2, <3>1, AppendIsConcat
      <4>4. (c \o d) \o <<m.kind>> = c \o (d \o <<m.kind>>)
        BY <2>1, <4>2, ConcatAssociative
      <4> QED BY <4>1, <4>3, <4>4
    <3>2. CASE m.kind \notin ReplyKinds
      BY <2>1, <2>2, <3>2, ReplyStepType
    <3> QED BY <3>1, <3>2
  <2>6. Append(r, m) \in Seq(Message)
    BY AppendProperties
  <2> QED BY <2>3, <2>4, <2>5, <2>6
<1>4. q \in T
  <2> HIDE DEF T
  <2> QED BY <1>2, <1>3, InductionOnSequences
<1> QED BY <1>1, <1>4

SlotStep(slot) ==
    [x \in Message \X Nat |->
        IF x[1].kind = "control" /\ x[1].slot = slot THEN x[1].value ELSE x[2]]

LEMMA SlotStepType ==
    ASSUME NEW slot \in Slots
    PROVE  /\ SlotStep(slot) \in [Message \X Nat -> Nat]
           /\ \A m \in Message, v \in Nat :
                 SlotStep(slot)[<<m, v>>]
                   = IF m.kind = "control" /\ m.slot = slot THEN m.value ELSE v
<1>1. ASSUME NEW x \in Message \X Nat
      PROVE  (IF x[1].kind = "control" /\ x[1].slot = slot THEN x[1].value ELSE x[2]) \in Nat
  <2>1. x[1] \in Message /\ x[2] \in Nat
    OBVIOUS
  <2> QED BY <2>1, MessageShape
<1>2. SlotStep(slot) \in [Message \X Nat -> Nat]
  BY <1>1 DEF SlotStep
<1>3. \A m \in Message, v \in Nat :
         SlotStep(slot)[<<m, v>>] = IF m.kind = "control" /\ m.slot = slot THEN m.value ELSE v
  BY DEF SlotStep
<1> QED BY <1>2, <1>3

\* Of the payloads of a slot coalescing keeps the last.
LEMMA SlotCoalesced ==
    ASSUME NEW slot \in Slots
    PROVE  CoalescedBy(SlotStep(slot), Nat)
<1> DEFINE F == SlotStep(slot)
<1>1. /\ F \in [Message \X Nat -> Nat]
      /\ \A m \in Message, v \in Nat :
            F[<<m, v>>] = IF m.kind = "control" /\ m.slot = slot THEN m.value ELSE v
  BY SlotStepType
<1> HIDE DEF F
<1>2. \A m \in Updates, v \in Nat : F[<<m, v>>] = v
  <2>1. \A m \in Updates : m \in Message /\ m.kind # "control"
    BY DEF Updates
  <2> QED BY <1>1, <2>1
<1>3. \A m \in Controls : m \in Message /\ m.value \in Nat /\ m.kind = "control"
  BY MessageShape DEF Controls
<1>4. \A m \in Controls, v \in Nat : F[<<m, v>>] = IF m.slot = slot THEN m.value ELSE v
  BY <1>1, <1>3
<1>5. ASSUME NEW p \in Seq(Controls), NEW m \in Controls, NEW v \in Nat
      PROVE  Fold(SetPending(p, m), F, v) = F[<<m, Fold(p, F, v)>>]
  <2>1. p \in Seq(Message) /\ m \in Message
    BY <1>3, SubsetSeqs
  <2>2. Fold(p, F, v) \in Nat
    BY <1>1, <2>1, FoldType
  <2>3. DOMAIN p = 1..Len(p) /\ Len(p) \in Nat /\ \A i \in 1..Len(p) : p[i] \in Controls
    BY LenProperties, ElementOfSeq
  <2>4. CASE \E i \in DOMAIN p : SameKey(p[i], m)
    <3> DEFINE r == [i \in DOMAIN p |-> IF SameKey(p[i], m) THEN m ELSE p[i]]
    <3>1. SetPending(p, m) = r
      BY <2>4 DEF SetPending
    <3>2. r \in Seq(Message)
      BY <3>1, SetPendingType, SubsetSeqs
    <3>3. Len(r) = Len(p)
      <4>1. DOMAIN r = 1..Len(p) /\ DOMAIN r = 1..Len(r) /\ Len(r) \in Nat
        BY <2>3, <3>2, LenProperties
      <4> QED BY <2>3, <4>1
    <3>4. \A i \in 1..Len(p) : r[i] = IF p[i].slot = m.slot THEN m ELSE p[i]
      BY <1>3, <2>3 DEF SameKey
    <3>5. PICK i \in 1..Len(p) : p[i].slot = m.slot
      BY <1>3, <2>3, <2>4 DEF SameKey
    <3> HIDE DEF r
    <3>6. CASE m.slot = slot
      <4>1. \A x \in Nat : F[<<r[i], x>>] = m.value
        BY <1>4, <3>4, <3>5, <3>6
      <4>2. \A j \in 1..Len(r) : F[<<r[j], m.value>>] = m.value
        BY <1>3, <1>4, <2>3, <3>3, <3>4, <3>6
      <4> DEFINE w == m.value
      <4>3. Decides(i, r, F, Message, Nat, w)
        BY <1>1, <3>2, <3>3, <4>1, <4>2 DEF Decides
      <4> HIDE DEF w
      <4>4. Fold(r, F, v) = w
        BY <4>3, FoldDecided
      <4>5. F[<<m, Fold(p, F, v)>>] = m.value
        BY <1>4, <2>2, <3>6
      <4> QED BY <3>1, <4>5, <4>4 DEF w
    <3>7. CASE m.slot # slot
      <4>1. \A j \in 1..Len(r) : \A x \in Nat : F[<<r[j], x>>] = F[<<p[j], x>>]
        BY <1>4, <2>3, <3>3, <3>4, <3>7
      <4>2. Agree(r, p, F, Message, Nat)
        BY <1>1, <2>1, <3>2, <3>3, <4>1 DEF Agree
      <4>3. Fold(r, F, v) = Fold(p, F, v)
        BY <4>2, FoldAgrees
      <4> QED BY <1>4, <2>2, <3>1, <3>7, <4>3
    <3> QED BY <3>6, <3>7
  <2>5. CASE ~\E i \in DOMAIN p : SameKey(p[i], m)
    <3>1. SetPending(p, m) = Append(p, m)
      BY <2>5 DEF SetPending
    <3> QED BY <2>1, <3>1, FoldAppend
  <2> QED BY <2>4, <2>5
<1> QED BY <1>1, <1>2, <1>5 DEF CoalescedBy, F

-----------------------------------------------------------------------------
(* What is under way.                                                      *)

LEMMA UnderWayType ==
    ASSUME queue \in Seq(Message), wire \in Seq(Message)
    PROVE  /\ UnderWay \in Seq(Message)
           /\ \A F, x : Fold(UnderWay, F, x) = Fold(queue, F, Fold(wire, F, x))
BY ConcatProperties, FoldConcat DEF UnderWay

\* A frame queued is one step more of every reader.
LEMMA QueuedFold ==
    ASSUME queue \in Seq(Message), wire \in Seq(Message), NEW m \in Message,
           queue' = Append(queue, m), wire' = wire, NEW F, NEW x
    PROVE  Fold(UnderWay', F, x) = F[<<m, Fold(UnderWay, F, x)>>]
<1> DEFINE r == Append(queue, m)
           y == Fold(wire, F, x)
<1>1. r \in Seq(Message)
  BY AppendProperties
<1>2. Fold(r, F, y) = F[<<m, Fold(queue, F, y)>>]
  BY FoldAppend
<1>3. UnderWay' = wire \o r
  BY DEF UnderWay
<1> HIDE DEF r
<1>4. Fold(wire \o r, F, x) = Fold(r, F, y)
  BY <1>1, FoldConcat
<1> QED BY <1>2, <1>3, <1>4, UnderWayType

\* A frame read is the first step of every reader.
LEMMA ReadFold ==
    ASSUME queue \in Seq(Message), wire \in Seq(Message), wire # <<>>,
           wire' = Tail(wire), queue' = queue, NEW F, NEW x
    PROVE  Fold(UnderWay, F, x) = Fold(UnderWay', F, F[<<Head(wire), x>>])
<1> DEFINE y == F[<<Head(wire), x>>]
           r == Tail(wire)
<1>1. r \in Seq(Message)
  BY HeadTailProperties
<1>2. Fold(wire, F, x) = Fold(r, F, y)
  BY FoldHead
<1>3. UnderWay' = r \o queue
  BY DEF UnderWay
<1> HIDE DEF r, y
<1>4. Fold(r \o queue, F, y) = Fold(queue, F, Fold(r, F, y))
  BY <1>1, FoldConcat
<1> QED BY <1>2, <1>4, <1>3, UnderWayType DEF y

\* A frame moved from the queue to the wire stays in its place.
LEMMA MovedFold ==
    ASSUME queue \in Seq(Message), wire \in Seq(Message), queue # <<>>,
           wire' = Append(wire, Head(queue)), queue' = Tail(queue), NEW F, NEW x
    PROVE  Fold(UnderWay', F, x) = Fold(UnderWay, F, x)
<1> DEFINE m == Head(queue)
           r == Tail(queue)
           w == Append(wire, m)
<1>1. m \in Message /\ r \in Seq(Message)
  BY HeadTailProperties
<1>2. w \in Seq(Message)
  BY <1>1, AppendProperties
<1>3. Fold(w, F, x) = F[<<m, Fold(wire, F, x)>>]
  BY <1>1, MessageFold
<1>4. Fold(queue, F, Fold(wire, F, x)) = Fold(r, F, F[<<m, Fold(wire, F, x)>>])
  BY FoldHead
<1>5. UnderWay' = w \o r
  BY DEF UnderWay
<1> HIDE DEF m, r, w
<1>6. Fold(w \o r, F, x) = Fold(r, F, Fold(w, F, x))
  BY <1>1, <1>2, FoldConcat
<1> QED BY <1>3, <1>4, <1>5, <1>6, UnderWayType

\* A batch written leaves a reader with what the frames would have.
LEMMA BatchedFold ==
    ASSUME NEW S, NEW F, CoalescedBy(F, S), NEW x \in S,
           queue \in Seq(Message), wire \in Seq(Message), NEW n \in 1..Len(queue),
           wire' = wire \o Batch(SubSeq(queue, 1, n)),
           queue' = SubSeq(queue, n + 1, Len(queue))
    PROVE  /\ wire' \in Seq(Message) /\ queue' \in Seq(Message)
           /\ Fold(UnderWay', F, x) = Fold(UnderWay, F, x)
<1> DEFINE h == SubSeq(queue, 1, n)
           r == SubSeq(queue, n + 1, Len(queue))
           b == Batch(h)
           y == Fold(wire, F, x)
<1>1. Len(queue) \in Nat /\ n \in Nat /\ \A i \in 1..Len(queue) : queue[i] \in Message
  BY LenProperties, ElementOfSeq
<1>2. h \in Seq(Message) /\ r \in Seq(Message)
  <2>1. 1 \in Int /\ n \in Int /\ n + 1 \in Int /\ Len(queue) \in Int
    BY <1>1
  <2>2. \A i \in 1..n : queue[i] \in Message
    BY <1>1
  <2>3. \A i \in (n + 1)..Len(queue) : queue[i] \in Message
    BY <1>1
  <2> QED BY <2>1, <2>2, <2>3, SubSeqProperties
<1>3. queue = h \o r
  <2>1. 1 \in 1..(Len(queue) + 1) /\ n \in (1 - 1)..Len(queue) /\ Len(queue) \in n..Len(queue)
    BY <1>1
  <2>2. h \o r = SubSeq(queue, 1, Len(queue))
    BY <2>1, ConcatAdjacentSubSeq
  <2> QED BY <2>2, SubSeqFull
<1>4. y \in S
  BY FoldType DEF CoalescedBy
<1> HIDE DEF h, r
<1>5. b \in Seq(Message) /\ Fold(b, F, y) = Fold(h, F, y)
  BY <1>2, <1>4, BatchFold
<1>6. wire' = wire \o b /\ queue' = r /\ UnderWay' = (wire \o b) \o r
  BY DEF UnderWay, h, r
<1> HIDE DEF b, y
<1> DEFINE w == wire \o b
<1>7. w \in Seq(Message)
  BY <1>5, ConcatProperties
<1>8. Fold(w, F, x) = Fold(b, F, y)
  BY <1>5, FoldConcat DEF y
<1> HIDE DEF w
<1>9. Fold(w \o r, F, x) = Fold(r, F, Fold(w, F, x))
  BY <1>2, <1>7, FoldConcat
<1>10. Fold(queue, F, y) = Fold(r, F, Fold(h, F, y))
  BY <1>2, <1>3, FoldConcat
<1>11. Fold(UnderWay, F, x) = Fold(queue, F, y)
  BY UnderWayType DEF y
<1> QED BY <1>2, <1>5, <1>6, <1>7, <1>9, <1>8, <1>10, <1>11 DEF w

-----------------------------------------------------------------------------
(* The stream, batched or not.                                             *)

\* Read to the end, what is under way leaves a client with the payload the server
\* has cached for the slot, if any.
SlotsLead ==
    \A k \in Slots \ {TabList} :
        cached[k] # 0 => Fold(UnderWay, SlotStep(k), shown[k]) = cached[k]

StreamInv == TypeOK /\ Fold(UnderWay, ReplyStep, <<>>) = owed /\ SlotsLead

LEMMA RepliesInv ==
    ASSUME TypeOK
    PROVE  RepliesInOrder <=> Fold(UnderWay, ReplyStep, <<>>) = owed
<1>1. UnderWay \in Seq(Message)
  BY UnderWayType DEF TypeOK
<1> QED BY <1>1, RepliesIsFold DEF RepliesInOrder, UnderWay

\* A frame that is no reply and no payload of a cached slot, or one that is: what
\* the readers make of it is what the server notes.
LEMMA QueuedKeepsInv ==
    ASSUME StreamInv, NEW m \in Message, Enqueue(m), wire' = wire, held' = held,
           shown' = shown, local' = local,
           last' \in [Streams -> AllScreens \cup {NoScreen}], cached' \in [Slots -> Nat],
           owed' = IF m.kind \in ReplyKinds THEN Append(owed, m.kind) ELSE owed,
           \A k \in Slots \ {TabList} :
               cached'[k] = IF m.kind = "control" /\ m.slot = k THEN m.value ELSE cached[k]
    PROVE  StreamInv'
<1>1. /\ queue \in Seq(Message) /\ wire \in Seq(Message) /\ owed \in Seq(ReplyKinds)
      /\ shown \in [Slots -> Nat] /\ Fold(UnderWay, ReplyStep, <<>>) = owed
  BY DEF StreamInv, TypeOK
<1>2. queue' = Append(queue, m) /\ queue' \in Seq(Message)
  BY <1>1, AppendProperties DEF Enqueue
<1>3. owed' = ReplyStep[<<m, owed>>]
  BY <1>1, ReplyStepType
<1>4. owed' \in Seq(ReplyKinds)
  BY <1>1, AppendProperties
<1> DEFINE new == UnderWay'
<1>5. \A F, x : Fold(new, F, x) = F[<<m, Fold(UnderWay, F, x)>>]
  BY <1>1, <1>2, QueuedFold
<1> HIDE DEF new
<1>6. Fold(new, ReplyStep, <<>>) = owed'
  BY <1>5, <1>1, <1>3
<1>7. ASSUME NEW k \in Slots \ {TabList}, cached'[k] # 0
      PROVE  Fold(new, SlotStep(k), shown'[k]) = cached'[k]
  <2> DEFINE v == Fold(UnderWay, SlotStep(k), shown[k])
  <2>1. v \in Nat
    BY <1>1, UnderWayType, SlotStepType, FoldType
  <2>2. Fold(new, SlotStep(k), shown[k]) = SlotStep(k)[<<m, v>>]
    BY <1>5
  <2>3. cached[k] # 0 => v = cached[k]
    BY DEF StreamInv, SlotsLead
  <2> HIDE DEF v
  <2>4. SlotStep(k)[<<m, v>>] = IF m.kind = "control" /\ m.slot = k THEN m.value ELSE v
    BY <2>1, SlotStepType
  <2> QED BY <1>7, <2>2, <2>3, <2>4
<1>8. TypeOK'
  BY <1>2, <1>4 DEF StreamInv, TypeOK
<1> QED BY <1>6, <1>7, <1>8 DEF StreamInv, SlotsLead, new

\* A step of the writer, which no reader notices.
LEMMA WrittenKeepsInv ==
    ASSUME StreamInv, UNCHANGED <<local, last, cached, held, shown, owed>>,
           queue' \in Seq(Message), wire' \in Seq(Message),
           Fold(UnderWay', ReplyStep, <<>>) = Fold(UnderWay, ReplyStep, <<>>),
           \A k \in Slots, v \in Nat :
               Fold(UnderWay', SlotStep(k), v) = Fold(UnderWay, SlotStep(k), v)
    PROVE  StreamInv'
<1>1. TypeOK'
  BY DEF StreamInv, TypeOK
<1>2. \A k \in Slots : shown[k] \in Nat
  BY DEF StreamInv, TypeOK
<1>3. SlotsLead'
  BY <1>2 DEF StreamInv, SlotsLead
<1> QED BY <1>1, <1>3 DEF StreamInv

\* What a frame leaves of a screen is a screen.
LEMMA AppliedType ==
    ASSUME NEW m \in Message, NEW s \in Streams, NEW x \in AllScreens \cup {NoScreen}
    PROVE  Applied(m, s, x) \in AllScreens \cup {NoScreen}
<1>1. CASE m.kind # "update" \/ m.stream # s
  BY <1>1 DEF Applied
<1>2. CASE m.kind = "update" /\ m.stream = s /\ m.full
  <2>1. m.rows \in AllScreens
    BY <1>2 DEF Message, ReplyKinds
  <2> QED BY <1>2, <2>1 DEF Applied
<1>3. CASE m.kind = "update" /\ m.stream = s /\ ~m.full
  <2> DEFINE y == [r \in DOMAIN x |-> IF r \in DOMAIN m.rows THEN m.rows[r] ELSE x[r]]
  <2>1. Applied(m, s, x) = y
    BY <1>3 DEF Applied
  <2>2. \A r \in DOMAIN m.rows : m.rows[r] \in Glyphs
    <3>1. m.rows \in RowSets
      BY <1>3 DEF Message, ReplyKinds
    <3>2. PICK R : m.rows \in [R -> Glyphs]
      BY <3>1 DEF RowSets
    <3> QED BY <3>2
  <2>3. CASE x \in AllScreens
    <3>1. PICK n \in Sizes : x \in [1..n -> Glyphs]
      BY <2>3 DEF AllScreens
    <3>2. y \in [1..n -> Glyphs]
      BY <2>2, <3>1
    <3> HIDE DEF y
    <3> QED BY <2>1, <3>2 DEF AllScreens
  <2>4. CASE x = NoScreen
    <3>1. DOMAIN NoScreen = {}
      <4>1. NoScreen \in Seq({}) /\ Len(NoScreen) = 0
        BY EmptySeq DEF NoScreen
      <4> QED BY <4>1, LenProperties
    <3>2. y = NoScreen
      BY <2>4, <3>1 DEF NoScreen
    <3> QED BY <2>1, <3>2
  <2> QED BY <2>3, <2>4
<1> QED BY <1>1, <1>2, <1>3

LEMMA ReceiveKeepsInv ==
    ASSUME StreamInv, Receive
    PROVE  StreamInv'
<1> DEFINE m == Head(wire)
<1>1. /\ queue \in Seq(Message) /\ wire \in Seq(Message) /\ owed \in Seq(ReplyKinds)
      /\ shown \in [Slots -> Nat] /\ held \in [Streams -> AllScreens \cup {NoScreen}]
      /\ Fold(UnderWay, ReplyStep, <<>>) = owed
  BY DEF StreamInv, TypeOK
<1>2. /\ wire # <<>> /\ wire' = Tail(wire) /\ queue' = queue
      /\ held' = [s \in Streams |-> Applied(m, s, held[s])]
      /\ shown' = IF m.kind = "control" THEN [shown EXCEPT ![m.slot] = m.value] ELSE shown
      /\ owed' = IF m.kind \in ReplyKinds THEN Tail(owed) ELSE owed
      /\ local' = local /\ last' = last /\ cached' = cached
  BY DEF Receive
<1>3. m \in Message /\ wire' \in Seq(Message)
  BY <1>1, <1>2, HeadTailProperties
<1>4. \A F, x : Fold(UnderWay, F, x) = Fold(UnderWay', F, F[<<m, x>>])
  BY <1>1, <1>2, ReadFold
<1> HIDE DEF m
<1>5. held' \in [Streams -> AllScreens \cup {NoScreen}]
  <2>1. \A s \in Streams : Applied(m, s, held[s]) \in AllScreens \cup {NoScreen}
    BY <1>1, <1>3, AppliedType
  <2> QED BY <1>2, <2>1
<1>6. shown' \in [Slots -> Nat]
  BY <1>1, <1>2, <1>3, MessageShape
<1>7. ASSUME NEW k \in Slots
      PROVE  shown'[k] = SlotStep(k)[<<m, shown[k]>>]
  BY <1>1, <1>2, <1>3, MessageShape, SlotStepType
<1> DEFINE new == UnderWay'
<1>8. ASSUME NEW k \in Slots \ {TabList}, cached'[k] # 0
      PROVE  Fold(new, SlotStep(k), shown'[k]) = cached'[k]
  <2>1. Fold(UnderWay, SlotStep(k), shown[k]) = cached'[k]
    BY <1>2, <1>8 DEF StreamInv, SlotsLead
  <2>2. Fold(UnderWay, SlotStep(k), shown[k]) = Fold(new, SlotStep(k), SlotStep(k)[<<m, shown[k]>>])
    BY <1>4
  <2> HIDE DEF new
  <2> QED BY <1>7, <2>1, <2>2
<1>9. owed' = Fold(UnderWay', ReplyStep, <<>>) /\ owed' \in Seq(ReplyKinds)
  <2> DEFINE d == Fold(UnderWay', ReplyStep, <<>>)
  <2>1. UnderWay' \in Seq(Message)
    <3>1. queue' \in Seq(Message)
      BY <1>1, <1>2
    <3> QED BY <1>3, <3>1, ConcatProperties DEF UnderWay
  <2>2. <<>> \in Seq(ReplyKinds)
    BY EmptySeq
  <2>3. owed = Fold(UnderWay', ReplyStep, ReplyStep[<<m, <<>>>>])
    BY <1>1, <1>4
  <2>4. d \in Seq(ReplyKinds)
    BY <2>1, <2>2, RepliesAfter
  <2>5. CASE m.kind \in ReplyKinds
    <3>1. ReplyStep[<<m, <<>>>>] = <<m.kind>>
      <4>1. ReplyStep[<<m, <<>>>>] = Append(<<>>, m.kind)
        BY <1>3, <2>2, <2>5, ReplyStepType
      <4> QED BY <4>1
    <3>2. <<m.kind>> \in Seq(ReplyKinds)
      BY <2>5
    <3>3. owed = <<m.kind>> \o d
      BY <2>1, <2>3, <3>1, <3>2, RepliesAfter
    <3> HIDE DEF d
    <3>4. Tail(<<m.kind>> \o d) = d
      BY <2>4
    <3> QED BY <1>2, <2>4, <2>5, <3>3, <3>4 DEF d
  <2>6. CASE m.kind \notin ReplyKinds
    <3>1. ReplyStep[<<m, <<>>>>] = <<>>
      BY <1>3, <2>2, <2>6, ReplyStepType
    <3> QED BY <1>1, <1>2, <2>3, <2>6, <3>1
  <2> QED BY <2>5, <2>6
<1>10. TypeOK'
  BY <1>1, <1>2, <1>3, <1>5, <1>6, <1>9 DEF StreamInv, TypeOK
<1> QED BY <1>8, <1>9, <1>10 DEF StreamInv, SlotsLead

LEMMA NextKeepsStreamInv == StreamInv /\ [Next]_vars => StreamInv'
<1> SUFFICES ASSUME StreamInv, [Next]_vars PROVE StreamInv'
  OBVIOUS
<1>0. /\ local \in BOOLEAN /\ last \in [Streams -> AllScreens \cup {NoScreen}]
      /\ cached \in [Slots -> Nat] /\ queue \in Seq(Message) /\ wire \in Seq(Message)
      /\ held \in [Streams -> AllScreens \cup {NoScreen}] /\ shown \in [Slots -> Nat]
      /\ owed \in Seq(ReplyKinds)
  BY DEF StreamInv, TypeOK
<1>1. ASSUME NEW stream \in Streams, NEW screen \in Screens, Publish(stream, screen)
      PROVE  StreamInv'
  <2> DEFINE m == Encode(stream, last[stream], screen)
  <2>1. screen \in AllScreens
    BY ScreensAssumption
  <2>2. m \in Message
    BY <2>1, EncodeType
  <2>3. m.kind = "update"
    BY DEF Encode, Update
  <2>4. /\ Enqueue(m) /\ last' = [last EXCEPT ![stream] = screen]
        /\ UNCHANGED <<local, cached, wire, held, shown, owed>>
    BY <1>1 DEF Publish
  <2>5. last' \in [Streams -> AllScreens \cup {NoScreen}]
    BY <1>0, <2>1, <2>4
  <2> HIDE DEF m
  <2>6. m.kind \notin ReplyKinds /\ m.kind # "control"
    BY <2>3 DEF ReplyKinds
  <2> QED BY <1>0, <2>2, <2>4, <2>5, <2>6, QueuedKeepsInv
<1>2. CASE TouchView
  <2>1. /\ last' = [s \in Streams |-> NoScreen]
        /\ UNCHANGED <<local, cached, queue, wire, held, shown, owed>>
    BY <1>2 DEF TouchView
  <2>2. last' \in [Streams -> AllScreens \cup {NoScreen}]
    BY <2>1
  <2>3. TypeOK'
    BY <1>0, <2>1, <2>2 DEF TypeOK
  <2>4. UnderWay' = UnderWay
    BY <2>1 DEF UnderWay
  <2> QED BY <2>1, <2>3, <2>4 DEF StreamInv, SlotsLead
<1>3. ASSUME NEW slot \in Slots, NEW value \in Payloads[slot], SendControl(slot, value)
      PROVE  StreamInv'
  <2> DEFINE m == [kind |-> "control", slot |-> slot, value |-> value]
  <2>1. value \in Nat
    BY PayloadsAssumption
  <2>2. m \in Message
    BY <2>1 DEF Message
  <2>3. m.kind = "control" /\ m.slot = slot /\ m.value = value
    OBVIOUS
  <2>4. /\ Enqueue(m) /\ cached' = [cached EXCEPT ![slot] = value]
        /\ UNCHANGED <<local, last, wire, held, shown, owed>>
    BY <1>3 DEF SendControl
  <2> HIDE DEF m
  <2>5. cached' \in [Slots -> Nat]
    BY <1>0, <2>1, <2>4
  <2>6. \A k \in Slots \ {TabList} :
            cached'[k] = IF m.kind = "control" /\ m.slot = k THEN m.value ELSE cached[k]
    BY <1>0, <2>3, <2>4
  <2>7. m.kind \notin ReplyKinds
    BY <2>3 DEF ReplyKinds
  <2> QED BY <1>0, <2>2, <2>4, <2>5, <2>6, <2>7, QueuedKeepsInv
<1>4. ASSUME NEW value \in Payloads[TabList], ReplyTabList(value)
      PROVE  StreamInv'
  <2> DEFINE m == [kind |-> "control", slot |-> TabList, value |-> value]
  <2>1. value \in Nat
    BY PayloadsAssumption, SlotsAssumption
  <2>2. m \in Message
    BY <2>1, SlotsAssumption DEF Message
  <2>3. m.kind = "control" /\ m.slot = TabList
    OBVIOUS
  <2>4. Enqueue(m) /\ UNCHANGED <<local, last, cached, wire, held, shown, owed>>
    BY <1>4 DEF ReplyTabList
  <2> HIDE DEF m
  <2>5. \A k \in Slots \ {TabList} :
            cached'[k] = IF m.kind = "control" /\ m.slot = k THEN m.value ELSE cached[k]
    BY <2>3, <2>4
  <2>6. m.kind \notin ReplyKinds
    BY <2>3 DEF ReplyKinds
  <2> QED BY <1>0, <2>2, <2>4, <2>5, <2>6, QueuedKeepsInv
<1>5. ASSUME NEW kind \in ReplyKinds, Reply(kind)
      PROVE  StreamInv'
  <2> DEFINE m == [kind |-> kind]
  <2>1. m \in Message
    BY DEF Message
  <2>2. m.kind = kind /\ m.kind # "control"
    BY DEF ReplyKinds
  <2>3. /\ Enqueue(m) /\ owed' = Append(owed, kind)
        /\ UNCHANGED <<local, last, cached, wire, held, shown>>
    BY <1>5 DEF Reply
  <2> HIDE DEF m
  <2> QED BY <1>0, <2>1, <2>2, <2>3, QueuedKeepsInv
<1>6. CASE WriteOne
  <2>1. /\ queue # <<>> /\ wire' = Append(wire, Head(queue)) /\ queue' = Tail(queue)
        /\ UNCHANGED <<local, last, cached, held, shown, owed>>
    BY <1>6 DEF WriteOne
  <2>2. Head(queue) \in Message /\ queue' \in Seq(Message)
    BY <1>0, <2>1, HeadTailProperties
  <2>3. wire' \in Seq(Message)
    BY <1>0, <2>1, <2>2, AppendProperties
  <2>4. \A F, x : Fold(UnderWay', F, x) = Fold(UnderWay, F, x)
    BY <1>0, <2>1, MovedFold
  <2> QED BY <2>1, <2>2, <2>3, <2>4, WrittenKeepsInv
<1>7. ASSUME NEW n \in 1..MaxUnderWay, WriteBatch(n) PROVE StreamInv'
  <2>1. /\ n \in 1..Len(queue) /\ wire' = wire \o Batch(SubSeq(queue, 1, n))
        /\ queue' = SubSeq(queue, n + 1, Len(queue))
        /\ UNCHANGED <<local, last, cached, held, shown, owed>>
    BY <1>7 DEF WriteBatch
  <2>2. ASSUME NEW S, NEW F, CoalescedBy(F, S), NEW x \in S
        PROVE  /\ wire' \in Seq(Message) /\ queue' \in Seq(Message)
               /\ Fold(UnderWay', F, x) = Fold(UnderWay, F, x)
    BY <1>0, <2>1, <2>2, BatchedFold
  <2>3. /\ wire' \in Seq(Message) /\ queue' \in Seq(Message)
        /\ Fold(UnderWay', ReplyStep, <<>>) = Fold(UnderWay, ReplyStep, <<>>)
    <3>1. <<>> \in Seq(ReplyKinds)
      BY EmptySeq
    <3> QED BY <2>2, <3>1, RepliesCoalesced
  <2>4. ASSUME NEW k \in Slots, NEW v \in Nat
        PROVE  Fold(UnderWay', SlotStep(k), v) = Fold(UnderWay, SlotStep(k), v)
    <3>1. CoalescedBy(SlotStep(k), Nat)
      BY SlotCoalesced
    <3> QED BY <2>2, <3>1
  <2> QED BY <2>1, <2>3, <2>4, WrittenKeepsInv
<1>8. CASE Receive
  BY <1>8, ReceiveKeepsInv
<1>9. CASE Reconnect
  <2>1. /\ last' = [s \in Streams |-> NoScreen] /\ cached' = [k \in Slots |-> 0]
        /\ queue' = <<>> /\ wire' = <<>> /\ owed' = <<>>
        /\ UNCHANGED <<local, held, shown>>
    BY <1>9 DEF Reconnect
  <2>2. TypeOK'
    BY <1>0, <2>1 DEF TypeOK
  <2>3. UnderWay' = <<>>
    <3>1. <<>> \in Seq({}) /\ <<>> \o <<>> = <<>>
      BY EmptySeq, ConcatEmptySeq
    <3> QED BY <2>1, <3>1 DEF UnderWay
  <2>4. Fold(UnderWay', ReplyStep, <<>>) = owed'
    BY <2>1, <2>3, FoldEmpty
  <2>5. SlotsLead'
    BY <2>1 DEF SlotsLead
  <2> QED BY <2>2, <2>4, <2>5 DEF StreamInv
<1>10. CASE UNCHANGED vars
  <2>1. UNCHANGED <<local, last, cached, queue, wire, held, shown, owed>>
    BY <1>10 DEF vars
  <2>2. UnderWay' = UnderWay
    BY <2>1 DEF UnderWay
  <2> QED BY <2>1, <2>2 DEF StreamInv, SlotsLead, TypeOK
<1> QED BY <1>1, <1>2, <1>3, <1>4, <1>5, <1>6, <1>7, <1>8, <1>9, <1>10 DEF Next

LEMMA InitStreamInv == Init => StreamInv
<1> SUFFICES ASSUME Init PROVE StreamInv
  OBVIOUS
<1>1. TypeOK
  BY DEF Init, TypeOK
<1>2. UnderWay = <<>>
  <2>1. <<>> \in Seq({}) /\ <<>> \o <<>> = <<>>
    BY EmptySeq, ConcatEmptySeq
  <2> QED BY <2>1 DEF Init, UnderWay
<1>3. Fold(UnderWay, ReplyStep, <<>>) = owed
  BY <1>2, FoldEmpty DEF Init
<1>4. SlotsLead
  BY DEF Init, SlotsLead
<1> QED BY <1>1, <1>3, <1>4 DEF StreamInv

\* A frame that is written, read or coalesced is one the server can send, whatever
\* the panes show, and what the client holds after it is a screen.
THEOREM StreamTypeCorrect == Spec => []TypeOK
<1>1. StreamInv => TypeOK
  BY DEF StreamInv
<1> QED BY <1>1, InitStreamInv, NextKeepsStreamInv, PTL DEF Spec

\* Over QUIC as on the local socket: no reply is lost, repeated or overtaken by
\* another, whichever frames lie between them and however they fall into batches.
THEOREM RepliesStayInOrder == Spec => []RepliesInOrder
<1>1. StreamInv => RepliesInOrder
  BY RepliesInv DEF StreamInv
<1> QED BY <1>1, InitStreamInv, NextKeepsStreamInv, PTL DEF Spec

\* Over QUIC as on the local socket: a client that has read all it was sent holds
\* the payloads the server has cached, so the server may leave out what it sent.
THEOREM ControlConverges == Spec => []ControlConverged
<1>1. StreamInv => ControlConverged
  <2> SUFFICES ASSUME StreamInv, Idle, NEW k \in Slots \ {TabList}, cached[k] # 0
               PROVE  shown[k] = cached[k]
    BY DEF ControlConverged
  <2>1. UnderWay = <<>>
    <3>1. <<>> \in Seq({}) /\ <<>> \o <<>> = <<>>
      BY EmptySeq, ConcatEmptySeq
    <3> QED BY <3>1 DEF Idle, UnderWay
  <2>2. Fold(UnderWay, SlotStep(k), shown[k]) = cached[k]
    BY DEF StreamInv, SlotsLead
  <2> QED BY <2>1, <2>2, FoldEmpty
<1> QED BY <1>1, InitStreamInv, NextKeepsStreamInv, PTL DEF Spec
=============================================================================
