--------------------------- MODULE CommandLoopProofs ---------------------------
(***************************************************************************)
(* The server of CommandLoop does not sleep through a command of a stream, *)
(* for any number of connections and panes and any budgets.                *)
(***************************************************************************)
EXTENDS CommandLoop, TLAPS

\* The main thread is done with the channel for this turn.
Past(ch) ==
    IF ch = "local" THEN pc \in {"remote", "publish", "wait"} ELSE pc \in {"publish", "wait"}

\* What is in the channel by then will wake the server again.
WakeDue(ch) ==
    \/ pending
    \/ more /\ pc # "wait"
    \/ \E t \in owing : Queued(ch, t)

WakeInv == \A ch \in Streams : Past(ch) /\ queue[ch] # <<>> => WakeDue(ch)

\* The empty channels of Init, and what sending and handling leave of a channel.
LEMMA QueueTypes ==
    ASSUME NEW q \in [Channels -> Seq(Threads)], NEW ch \in Channels
    PROVE  /\ \A t \in Threads : [q EXCEPT ![ch] = Append(@, t)] \in [Channels -> Seq(Threads)]
           /\ q[ch] # <<>> => [q EXCEPT ![ch] = Tail(@)] \in [Channels -> Seq(Threads)]
  OBVIOUS

\* A thread that sends is in its channel.
LEMMA SenderQueued ==
    ASSUME NEW q \in [Channels -> Seq(Threads)], NEW ch \in Channels, NEW t \in Threads,
           NEW r, r = [q EXCEPT ![ch] = Append(@, t)]
    PROVE  \E i \in 1..Len(r[ch]) : r[ch][i] = t
  <1>1. r[ch] = Append(q[ch], t) /\ q[ch] \in Seq(Threads)
    OBVIOUS
  <1>2. Len(r[ch]) = Len(q[ch]) + 1 /\ r[ch][Len(q[ch]) + 1] = t /\ Len(q[ch]) \in Nat
    BY <1>1
  <1> QED
    BY <1>2

LEMMA SendersAreThreads == \A ch \in Channels : Senders(ch) \subseteq Threads
  BY DEF Channels, Senders, Threads

\* Every state is well typed: pc, the flags, the budget and the channels of the
\* main loop stay in their ranges whatever the threads do.
THEOREM TypeCorrect == Spec => []TypeOK
<1>1. Init => TypeOK
  <2>1. Init => queue \in [Channels -> Seq(Threads)]
    BY DEF Init
  <2>2. Init => fonts \in BOOLEAN
    BY FontsAssumption DEF Init
  <2>3. Init => pending \in BOOLEAN /\ more \in BOOLEAN
    BY DEF Init
  <2>4. Init => /\ pc \in {"boot", "poll", "control", "local", "remote", "publish", "wait",
                           "skipped"}
                /\ budget \in Nat
                /\ owing \in SUBSET Threads
                /\ fresh \in SUBSET Panes
                /\ dirty \in SUBSET Panes
    BY DEF Init
  <2> QED
    BY <2>1, <2>2, <2>3, <2>4 DEF TypeOK
<1>2. TypeOK /\ [Next]_vars => TypeOK'
  <2> SUFFICES ASSUME TypeOK, [Next]_vars PROVE TypeOK'
    OBVIOUS
  <2> USE DEF TypeOK
  <2>1. ASSUME NEW ch \in Channels, NEW t \in Senders(ch), Send(ch, t) PROVE TypeOK'
    <3>1. t \in Threads
      BY SendersAreThreads
    <3> QED
      BY <2>1, <3>1, QueueTypes DEF Send
  <2>2. ASSUME NEW p \in Panes, Output(p) PROVE TypeOK'
    BY <2>2 DEF Output, Threads
  <2>3. ASSUME NEW t \in Threads, Notify(t) PROVE TypeOK'
    BY <2>3 DEF Notify
  <2>4. CASE InstallWaker
    BY <2>4 DEF InstallWaker
  <2>5. CASE LoadFont
    BY <2>5 DEF LoadFont
  <2>6. CASE Poll
    BY <2>6 DEF Poll
  <2>7. ASSUME NEW ch \in Channels, queue[ch] # <<>>, HandleFirst(ch)
        PROVE  queue' \in [Channels -> Seq(Threads)] /\ fonts' \in BOOLEAN
    BY <2>7, QueueTypes, FontsAssumption DEF HandleFirst
  <2>8. CASE ServeControl
    <3>1. queue' \in [Channels -> Seq(Threads)] /\ fonts' \in BOOLEAN
      BY <2>7, <2>8 DEF ServeControl, Channels
    <3> QED
      BY <2>8, <3>1, BudgetsAssumption DEF ServeControl
  <2>9. ASSUME NEW ch \in Streams, ServeStream(ch) PROVE TypeOK'
    <3>1. queue' \in [Channels -> Seq(Threads)] /\ fonts' \in BOOLEAN
      BY <2>7, <2>9 DEF ServeStream, Channels, Streams
    <3> QED
      BY <2>9, <3>1 DEF ServeStream
  <2>10. ASSUME NEW ch \in Streams, LeaveStream(ch) PROVE TypeOK'
    BY <2>10, BudgetsAssumption DEF LeaveStream
  <2>11. CASE Publish
    BY <2>11 DEF Publish
  <2>12. CASE Wake
    BY <2>12 DEF Wake
  <2>13. CASE UNCHANGED vars
    BY <2>13 DEF vars
  <2> QED
    BY <2>1, <2>2, <2>3, <2>4, <2>5, <2>6, <2>8, <2>9, <2>10, <2>11, <2>12, <2>13
    DEF Next, MainThread, Request, Senders, Channels, Streams
<1> QED
  BY <1>1, <1>2, PTL DEF Spec

\* No wakeup of a stream is lost: when the main thread goes to sleep after a whole
\* turn, a command it finds in no turn of its own comes with a thread that is
\* about to raise the flag.  Merged flags, a spent budget and commands sent
\* before the gate is installed do not break it.
THEOREM WakeupsKept == Spec => []NoLostWakeup
<1>1. Init => WakeInv
  BY DEF Init, WakeInv, Past, Streams
<1>2. TypeOK /\ WakeInv /\ [Next]_vars => WakeInv'
  <2> SUFFICES ASSUME TypeOK, WakeInv, [Next]_vars, NEW ch \in Streams,
                      Past(ch)', queue'[ch] # <<>>
               PROVE  WakeDue(ch)'
    BY DEF WakeInv
  <2> ch \in Channels
    BY DEF Streams, Channels
  <2>1. ASSUME NEW c \in Channels, NEW t \in Senders(c), Send(c, t) PROVE WakeDue(ch)'
    <3>1. CASE c = ch
      <4>1. t \in Threads
        BY SendersAreThreads
      <4>2. Queued(ch, t)'
        BY <2>1, <3>1, <4>1, SenderQueued DEF Send, Queued, TypeOK
      <4> QED
        BY <2>1, <4>2 DEF Send, WakeDue
    <3>2. CASE c # ch
      <4>1. queue'[ch] = queue[ch]
        BY <2>1, <3>2 DEF Send, TypeOK
      <4>2. WakeDue(ch)
        BY <2>1, <4>1 DEF Send, WakeInv, Past
      <4> QED
        BY <2>1, <4>1, <4>2 DEF Send, WakeDue, Queued
    <3> QED
      BY <3>1, <3>2
  <2>2. ASSUME NEW p \in Panes, Output(p) PROVE WakeDue(ch)'
    BY <2>2 DEF Output, WakeInv, WakeDue, Past, Queued
  <2>3. ASSUME NEW t \in Threads, Notify(t) PROVE WakeDue(ch)'
    BY <2>3 DEF Notify, WakeDue, Past
  <2>4. CASE InstallWaker \/ LoadFont \/ Poll \/ Wake
    BY <2>4 DEF InstallWaker, LoadFont, Poll, Wake, Past
  <2>5. CASE ServeControl
    BY <2>5 DEF ServeControl, Past
  <2>6. ASSUME NEW c \in Streams, ServeStream(c) PROVE WakeDue(ch)'
    <3>1. queue'[ch] = queue[ch] /\ Past(ch)
      BY <2>6 DEF ServeStream, HandleFirst, Past, Streams, TypeOK
    <3> QED
      BY <2>6, <3>1 DEF ServeStream, WakeInv, WakeDue, Queued
  <2>7. ASSUME NEW c \in Streams, LeaveStream(c) PROVE WakeDue(ch)'
    <3>1. CASE c = ch
      BY <2>7, <3>1 DEF LeaveStream, WakeDue, Streams
    <3>2. CASE c # ch
      <4>1. ch = "local" /\ c = "remote"
        BY <2>7, <3>2 DEF LeaveStream, Past, Streams
      <4>2. pc = "remote" /\ pc' = "publish" /\ queue' = queue
        BY <2>7, <4>1 DEF LeaveStream
      <4>3. WakeDue(ch)
        BY <4>1, <4>2 DEF WakeInv, Past
      <4>4. more => more'
        BY <2>7 DEF LeaveStream
      <4> QED
        BY <2>7, <4>2, <4>3, <4>4 DEF LeaveStream, WakeDue, Queued
    <3> QED
      BY <3>1, <3>2
  <2>8. CASE Publish
    BY <2>8 DEF Publish, WakeInv, WakeDue, Past, Queued, Streams
  <2>9. CASE UNCHANGED vars
    BY <2>9 DEF vars, WakeInv, WakeDue, Past, Queued
  <2> QED
    BY <2>1, <2>2, <2>3, <2>4, <2>5, <2>6, <2>7, <2>8, <2>9
    DEF Next, MainThread, Request, Senders, Channels, Streams
<1>3. WakeInv => NoLostWakeup
  BY DEF WakeInv, WakeDue, Past, NoLostWakeup, Attended, Asleep
<1> QED
  BY <1>1, <1>2, <1>3, TypeCorrect, PTL DEF Spec
=============================================================================
