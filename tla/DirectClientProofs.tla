------------------------- MODULE DirectClientProofs -------------------------
(***************************************************************************)
(* The daemon, its threads and the commands that talk to it implement      *)
(* TabService, for any number of calls, tabs, panes and others.            *)
(*                                                                         *)
(* While a command waits, whatever is under way to it, queued or written,  *)
(* speaks of lists the server had during the call: nothing is left of an   *)
(* earlier connection, coalescing makes up no message, and the list that   *)
(* is cached is the current one, unless somebody has left a stale one      *)
(* there.  And the request for a tab is under way once: not written yet,   *)
(* or in the channel to the main thread, or made.                          *)
(***************************************************************************)
EXTENDS DirectClient, SequenceLemmas

-----------------------------------------------------------------------------
(* What coalescing returns was queued.                                     *)

Kinds == {"control", "update", "priority", "plain"}

\* Messages the writer thread knows what to do with.
Sendable(M) == \A m \in M : m.kind \in Kinds

Gathered(M) == [frames : Seq(M), control : Seq(M), screen : Seq(M), passive : Seq(M)]

LEMMA GatheredRecord ==
    ASSUME NEW M, NEW f \in Seq(M), NEW c \in Seq(M), NEW u \in Seq(M), NEW v \in Seq(M)
    PROVE  [frames |-> f, control |-> c, screen |-> u, passive |-> v] \in Gathered(M)
BY DEF Gathered

LEMMA SetPendingType ==
    ASSUME NEW M, NEW p \in Seq(M), NEW m \in M
    PROVE  Out!SetPending(p, m) \in Seq(M)
<1>1. DOMAIN p = 1..Len(p) /\ Len(p) \in Nat /\ p \in [1..Len(p) -> M]
  BY LenProperties
<1> DEFINE r == [i \in DOMAIN p |-> IF Out!SameKey(p[i], m) THEN m ELSE p[i]]
<1>2. r \in Seq(M)
  <2>1. r \in [1..Len(p) -> M]
    BY <1>1
  <2> HIDE DEF r
  <2> QED BY <1>1, <2>1, SeqDef
<1>3. Append(p, m) \in Seq(M)
  BY AppendProperties
<1> HIDE DEF r
<1> QED BY <1>2, <1>3 DEF Out!SetPending, r

LEMMA PushControl ==
    ASSUME NEW M, NEW b \in Gathered(M), NEW m, m.kind = "control"
    PROVE  Out!Push(b, m) = [frames |-> b.frames, control |-> Out!SetPending(b.control, m),
                             screen |-> b.screen, passive |-> b.passive]
BY DEF Out!Push, Gathered

LEMMA PushScreen ==
    ASSUME NEW M, NEW b \in Gathered(M), NEW m, m.kind = "update"
    PROVE  \/ Out!Push(b, m) = [frames |-> b.frames, control |-> b.control,
                                screen |-> <<m>>, passive |-> b.passive]
           \/ Out!Push(b, m) = [frames |-> b.frames, control |-> b.control,
                                screen |-> b.screen, passive |-> Out!SetPending(b.passive, m)]
BY DEF Out!Push, Gathered

LEMMA PushPriority ==
    ASSUME NEW M, NEW b \in Gathered(M), NEW m, m.kind = "priority"
    PROVE  Out!Push(b, m) = [frames |-> Append(b.frames \o b.control, m), control |-> <<>>,
                             screen |-> b.screen, passive |-> b.passive]
BY DEF Out!Push, Out!WithControl, Gathered

LEMMA PushPlain ==
    ASSUME NEW M, NEW b \in Gathered(M), NEW m, m.kind = "plain"
    PROVE  Out!Push(b, m) =
             [frames |-> Append(((b.frames \o b.control) \o b.screen) \o b.passive, m),
              control |-> <<>>, screen |-> <<>>, passive |-> <<>>]
BY DEF Out!Push, Out!WithControl, Out!WithPanes, Gathered

LEMMA PushType ==
    ASSUME NEW M, Sendable(M), NEW b \in Gathered(M), NEW m \in M
    PROVE  Out!Push(b, m) \in Gathered(M)
<1>1. /\ b.frames \in Seq(M) /\ b.control \in Seq(M)
      /\ b.screen \in Seq(M) /\ b.passive \in Seq(M)
  BY DEF Gathered
<1>2. <<>> \in Seq(M) /\ <<m>> \in Seq(M)
  BY EmptySeq
<1>3. CASE m.kind = "control"
  <2>1. Out!SetPending(b.control, m) \in Seq(M)
    BY <1>1, SetPendingType
  <2> QED BY <1>1, <1>3, <2>1, PushControl, GatheredRecord
<1>4. CASE m.kind = "update"
  <2>1. Out!SetPending(b.passive, m) \in Seq(M)
    BY <1>1, SetPendingType
  <2>2. [frames |-> b.frames, control |-> b.control,
         screen |-> <<m>>, passive |-> b.passive] \in Gathered(M)
    BY <1>1, <1>2, GatheredRecord
  <2>3. [frames |-> b.frames, control |-> b.control, screen |-> b.screen,
         passive |-> Out!SetPending(b.passive, m)] \in Gathered(M)
    BY <1>1, <2>1, GatheredRecord
  <2> QED BY <1>4, <2>2, <2>3, PushScreen
<1>5. CASE m.kind = "priority"
  <2>1. b.frames \o b.control \in Seq(M)
    BY <1>1, ConcatProperties
  <2> DEFINE f == Append(b.frames \o b.control, m)
  <2>2. f \in Seq(M)
    BY <2>1, AppendProperties
  <2>3. Out!Push(b, m) = [frames |-> f, control |-> <<>>,
                          screen |-> b.screen, passive |-> b.passive]
    BY <1>5, PushPriority
  <2> HIDE DEF f
  <2>4. [frames |-> f, control |-> <<>>,
         screen |-> b.screen, passive |-> b.passive] \in Gathered(M)
    BY <1>1, <1>2, <2>2, GatheredRecord
  <2> QED BY <2>3, <2>4
<1>6. CASE m.kind = "plain"
  <2>1. b.frames \o b.control \in Seq(M)
    BY <1>1, ConcatProperties
  <2>2. (b.frames \o b.control) \o b.screen \in Seq(M)
    BY <1>1, <2>1, ConcatProperties
  <2>3. ((b.frames \o b.control) \o b.screen) \o b.passive \in Seq(M)
    BY <1>1, <2>2, ConcatProperties
  <2> DEFINE f == Append(((b.frames \o b.control) \o b.screen) \o b.passive, m)
  <2>4. f \in Seq(M)
    BY <2>3, AppendProperties
  <2>5. Out!Push(b, m) = [frames |-> f, control |-> <<>>, screen |-> <<>>, passive |-> <<>>]
    BY <1>6, PushPlain
  <2> HIDE DEF f
  <2>6. [frames |-> f, control |-> <<>>, screen |-> <<>>, passive |-> <<>>]
          \in Gathered(M)
    BY <1>2, <2>4, GatheredRecord
  <2> QED BY <2>5, <2>6
<1>7. m.kind \in Kinds
  BY DEF Sendable
<1> QED BY <1>3, <1>4, <1>5, <1>6, <1>7 DEF Kinds

PushStep(M) == [x \in M \X Gathered(M) |-> Out!Push(x[2], x[1])]

LEMMA PushStepType ==
    ASSUME NEW M, Sendable(M)
    PROVE  /\ PushStep(M) \in [M \X Gathered(M) -> Gathered(M)]
           /\ Out!EmptyBatch \in Gathered(M)
           /\ \A m \in M, b \in Gathered(M) : PushStep(M)[<<m, b>>] = Out!Push(b, m)
<1>1. ASSUME NEW x \in M \X Gathered(M) PROVE Out!Push(x[2], x[1]) \in Gathered(M)
  <2>1. x[1] \in M /\ x[2] \in Gathered(M)
    OBVIOUS
  <2> QED BY <2>1, PushType
<1>2. PushStep(M) \in [M \X Gathered(M) -> Gathered(M)]
  BY <1>1 DEF PushStep
<1>3. \A m \in M, b \in Gathered(M) : PushStep(M)[<<m, b>>] = Out!Push(b, m)
  BY DEF PushStep
<1>4. Out!EmptyBatch \in Gathered(M)
  BY EmptySeq, GatheredRecord DEF Out!EmptyBatch
<1> QED BY <1>2, <1>3, <1>4

\* What the writer thread makes of messages it knows is some of them.
LEMMA BatchType ==
    ASSUME NEW M, Sendable(M), NEW q \in Seq(M)
    PROVE  Out!Batch(q) \in Seq(M)
<1> DEFINE n == Len(q)
           Collects(b) ==
               b = [k \in 0..n |-> IF k = 0 THEN Out!EmptyBatch ELSE Out!Push(b[k - 1], q[k])]
           g == CHOOSE b : Collects(b)
<1>1. n \in Nat /\ \A k \in 1..n : q[k] \in M
  BY LenProperties, ElementOfSeq
<1>2. \E b : Collects(b)
  <2>1. PICK f : f = [k \in 0..n |-> f[k]] /\ Run(f, q, PushStep(M), Out!EmptyBatch)
    BY PushStepType, RunOnPlaces
  <2>2. \A k \in 0..n : f[k] \in Gathered(M)
    BY <2>1, PushStepType, RunType
  <2>3. ASSUME NEW k \in 0..n
        PROVE  f[k] = IF k = 0 THEN Out!EmptyBatch ELSE Out!Push(f[k - 1], q[k])
    <3>1. CASE k = 0
      BY <2>1, <3>1 DEF Run
    <3>2. CASE k # 0
      <4>1. k \in 1..n /\ k - 1 \in 0..n
        BY <1>1, <3>2
      <4>2. f[k] = PushStep(M)[<<q[k], f[k - 1]>>]
        BY <2>1, <4>1 DEF Run
      <4> QED BY <1>1, <2>2, <3>2, <4>1, <4>2, PushStepType
    <3> QED BY <3>1, <3>2
  <2> HIDE DEF n
  <2> QED BY <2>1, <2>3
<1>3. Collects(g)
  <2> HIDE DEF Collects
  <2> QED BY <1>2
<1>4. Out!Batch(q) = Out!WithPanes(Out!WithControl(g[n])).frames
  BY DEF Out!Batch
<1>5. \A k \in 0..n : g[k] = IF k = 0 THEN Out!EmptyBatch ELSE Out!Push(g[k - 1], q[k])
  <2>1. g = [k \in 0..n |-> IF k = 0 THEN Out!EmptyBatch ELSE Out!Push(g[k - 1], q[k])]
    BY <1>3
  <2> HIDE DEF g, n
  <2> QED BY <2>1
<1> HIDE DEF g
<1>6. \A k \in 0..n : g[k] \in Gathered(M)
  <2> DEFINE T == {k \in 0..n : g[k] \in Gathered(M)}
  <2>1. 0 \in T
    <3>1. 0 \in 0..n
      BY <1>1
    <3> QED BY <1>5, <3>1, PushStepType
  <2>2. ASSUME NEW k \in 0..n, k \in T, k < n PROVE k + 1 \in T
    <3>1. k + 1 \in 1..n /\ k + 1 \in 0..n /\ (k + 1) - 1 = k /\ k + 1 # 0
      BY <1>1, <2>2
    <3>2. g[k + 1] = Out!Push(g[k], q[k + 1])
      BY <1>5, <3>1
    <3> QED BY <1>1, <2>2, <3>1, <3>2, PushType
  <2>3. \A k \in 0..n : k \in T
    <3> HIDE DEF T, n
    <3> QED BY <1>1, <2>1, <2>2, InductionUpTo
  <2> QED BY <2>3
<1> DEFINE b == g[n]
<1>7. b \in Gathered(M)
  BY <1>1, <1>6
<1> HIDE DEF b
<1>8. b.frames \o b.control \in Seq(M)
  BY <1>7, ConcatProperties DEF Gathered
<1>9. (b.frames \o b.control) \o b.screen \in Seq(M)
  BY <1>7, <1>8, ConcatProperties DEF Gathered
<1>10. ((b.frames \o b.control) \o b.screen) \o b.passive \in Seq(M)
  BY <1>7, <1>9, ConcatProperties DEF Gathered
<1>11. Out!WithPanes(Out!WithControl(b)).frames
          = ((b.frames \o b.control) \o b.screen) \o b.passive
  BY <1>7 DEF Out!WithPanes, Out!WithControl, Gathered
<1> QED BY <1>4, <1>10, <1>11 DEF b

-----------------------------------------------------------------------------
(* What a client may be sent while the server has the lists given, and while *)
(* the cached list may be stale.                                             *)

Ids(lists) == {0} \cup UNION {ToSet(list) : list \in lists}

Sent(lists, st) ==
    [kind : {"update"}, stream : Nat]
        \cup [kind : {"priority"}, what : {"authok", "ack", "error"}]
        \cup [kind : {"control"}, slot : {"appearance"}, value : {0}]
        \cup [kind : {"control"}, slot : {"state"}, value : Ids(lists)]
        \cup [kind : {"control"}, slot : {"tabs"}, value : IF st THEN Seq(Nat) ELSE lists]

LEMMA SentSendable ==
    ASSUME NEW lists, NEW st \in BOOLEAN
    PROVE  Sendable(Sent(lists, st))
BY DEF Sent, Sendable, Kinds

LEMMA SentMessages ==
    ASSUME NEW lists, NEW st \in BOOLEAN
    PROVE  /\ \A i \in Nat : Screen(i) \in Sent(lists, st)
           /\ \A what \in {"authok", "ack", "error"} : Priority(what) \in Sent(lists, st)
           /\ Appearance \in Sent(lists, st)
           /\ \A id \in Ids(lists) : Control("state", id) \in Sent(lists, st)
           /\ \A list \in (IF st THEN Seq(Nat) ELSE lists) :
                Control("tabs", list) \in Sent(lists, st)
BY DEF Sent, Screen, Priority, Appearance, Control

LEMMA SentGrows ==
    ASSUME NEW lists, NEW more, lists \subseteq more, more \subseteq Seq(Nat),
           NEW st \in BOOLEAN, NEW later \in BOOLEAN, st => later
    PROVE  /\ Ids(lists) \subseteq Ids(more)
           /\ Sent(lists, st) \subseteq Sent(more, later)
<1>1. Ids(lists) \subseteq Ids(more)
  BY DEF Ids
<1>2. (IF st THEN Seq(Nat) ELSE lists) \subseteq (IF later THEN Seq(Nat) ELSE more)
  OBVIOUS
<1>3. [kind : {"control"}, slot : {"state"}, value : Ids(lists)]
        \subseteq [kind : {"control"}, slot : {"state"}, value : Ids(more)]
  BY <1>1
<1>4. [kind : {"control"}, slot : {"tabs"}, value : IF st THEN Seq(Nat) ELSE lists]
        \subseteq [kind : {"control"}, slot : {"tabs"},
                   value : IF later THEN Seq(Nat) ELSE more]
  BY <1>2
<1>5. Sent(lists, st) \subseteq Sent(more, later)
  BY <1>3, <1>4, Zenon DEF Sent
<1> QED BY <1>1, <1>5

-----------------------------------------------------------------------------
(* The main thread: its handlers on the record of its state.               *)

Views(lists, st) ==
    [on : BOOLEAN, sub : BOOLEAN, tab : Ids(lists), cached : SUBSET Sent(lists, st)]

Server(lists, st) ==
    [tabs : lists, active : Nat, tabId : Nat, cache : SUBSET Seq(Nat),
     view : Views(lists, st), queue : Seq(Sent(lists, st))]

\* A state in which the client has been sent nothing but of the lists.
Good(s, lists, st) ==
    /\ s \in Server(lists, st)
    /\ ToSet(s.tabs) \subseteq 1..s.tabId
    /\ s.active \in (IF s.tabs = <<>> THEN {0} ELSE 1..Len(s.tabs))
    /\ s.view.on \/ (s.view = NoView /\ s.queue = <<>>)

\* The cached list is the current one.
Fresh(s, st) == ~st => s.cache \subseteq {s.tabs}

\* A handler, or part of one, that does not touch the tabs.
Serves(s, t, lists, st) ==
    /\ Good(t, lists, st) /\ Fresh(t, st)
    /\ t.tabs = s.tabs /\ t.active = s.active /\ t.tabId = s.tabId
    /\ t.view.on = s.view.on

LEMMA ViewServes ==
    ASSUME NEW lists, NEW st \in BOOLEAN, NEW s, Good(s, lists, st), Fresh(s, st), s.view.on,
           NEW v \in Views(lists, st), v.on
    PROVE  Serves(s, [s EXCEPT !.view = v], lists, st)
<1> DEFINE t == [s EXCEPT !.view = v]
<1>1. s \in Server(lists, st) /\ s.view.on \in BOOLEAN
  BY DEF Good, Server, Views
<1>2. /\ t.tabs = s.tabs /\ t.active = s.active /\ t.tabId = s.tabId /\ t.cache = s.cache
      /\ t.view = v /\ t.queue = s.queue
  BY <1>1 DEF Server
<1>3. t \in Server(lists, st)
  BY <1>1 DEF Server
<1>4. t.view.on = s.view.on
  BY <1>1, <1>2 DEF Views
<1> HIDE DEF t
<1>5. Good(t, lists, st)
  BY <1>2, <1>3 DEF Good
<1>6. Fresh(t, st)
  BY <1>2 DEF Fresh
<1> QED BY <1>2, <1>4, <1>5, <1>6 DEF Serves, t

LEMMA QueueServes ==
    ASSUME NEW lists, NEW st \in BOOLEAN, NEW s, Good(s, lists, st), Fresh(s, st), s.view.on,
           NEW q \in Seq(Sent(lists, st))
    PROVE  Serves(s, [s EXCEPT !.queue = q], lists, st)
<1> DEFINE t == [s EXCEPT !.queue = q]
<1>1. s \in Server(lists, st)
  BY DEF Good
<1>2. /\ t.tabs = s.tabs /\ t.active = s.active /\ t.tabId = s.tabId /\ t.cache = s.cache
      /\ t.view = s.view /\ t.queue = q
  BY <1>1 DEF Server
<1>3. t \in Server(lists, st)
  BY <1>1 DEF Server
<1> HIDE DEF t
<1>4. Good(t, lists, st)
  BY <1>2, <1>3 DEF Good
<1>5. Fresh(t, st)
  BY <1>2 DEF Fresh
<1> QED BY <1>2, <1>4, <1>5 DEF Serves, t

LEMMA ServesAgain ==
    ASSUME NEW lists, NEW st, NEW r, NEW s, NEW t,
           Serves(r, s, lists, st), Serves(s, t, lists, st)
    PROVE  Serves(r, t, lists, st)
BY DEF Serves

LEMMA TellServes ==
    ASSUME NEW lists, NEW st \in BOOLEAN, NEW s, Good(s, lists, st), Fresh(s, st), s.view.on,
           NEW m \in Sent(lists, st)
    PROVE  Serves(s, Tell(s, m), lists, st)
<1>1. /\ s \in Server(lists, st) /\ s.view \in Views(lists, st)
      /\ s.queue \in Seq(Sent(lists, st)) /\ s.view.cached \subseteq Sent(lists, st)
  BY DEF Good, Server, Views
<1>2. CASE m \in s.view.cached
  BY <1>2 DEF Tell, Serves
<1>3. CASE m \notin s.view.cached
  <2> DEFINE q == Append(s.queue, m)
             v == [s.view EXCEPT !.cached = {n \in @ : n.slot # m.slot} \cup {m}]
             r == [s EXCEPT !.queue = q]
  <2>1. q \in Seq(Sent(lists, st))
    BY <1>1, AppendProperties
  <2>2. v \in Views(lists, st) /\ v.on = s.view.on
    BY <1>1 DEF Views
  <2> HIDE DEF q, v
  <2>3. Serves(s, r, lists, st)
    BY <2>1, QueueServes
  <2>4. Tell(s, m) = [r EXCEPT !.view = v]
    BY <1>1, <1>3 DEF Tell, Server, Views, q, v
  <2> HIDE DEF r
  <2>5. Serves(r, [r EXCEPT !.view = v], lists, st)
    <3>1. Good(r, lists, st) /\ Fresh(r, st) /\ r.view.on /\ v.on
      BY <2>2, <2>3 DEF Serves
    <3> QED BY <2>2, <3>1, ViewServes
  <2> QED BY <2>3, <2>4, <2>5, ServesAgain
<1> QED BY <1>2, <1>3

LEMMA SendServes ==
    ASSUME NEW lists, NEW st \in BOOLEAN, NEW s, Good(s, lists, st), Fresh(s, st), s.view.on,
           NEW m \in Sent(lists, st)
    PROVE  Serves(s, [s EXCEPT !.queue = Append(@, m)], lists, st)
<1> DEFINE q == Append(s.queue, m)
<1>1. q \in Seq(Sent(lists, st))
  BY AppendProperties DEF Good, Server
<1>2. [s EXCEPT !.queue = Append(@, m)] = [s EXCEPT !.queue = q]
  OBVIOUS
<1> HIDE DEF q
<1> QED BY <1>1, <1>2, QueueServes

LEMMA RevisedServes ==
    ASSUME NEW lists, NEW st \in BOOLEAN, NEW s, Good(s, lists, st), Fresh(s, st)
    PROVE  Serves(s, Revised(s), lists, st) /\ Revised(s).cache = s.cache
<1>1. s \in Server(lists, st) /\ s.view \in Views(lists, st)
  BY DEF Good, Server
<1> DEFINE v == [s.view EXCEPT !.cached = {m \in @ : m.slot # "state"}]
<1>2. Revised(s) = [s EXCEPT !.view = v]
  BY <1>1 DEF Revised, Server, Views
<1>3. v \in Views(lists, st) /\ v.on = s.view.on
  BY <1>1 DEF Views
<1>4. CASE s.view.on
  <2> HIDE DEF v
  <2>1. Serves(s, [s EXCEPT !.view = v], lists, st)
    BY <1>3, <1>4, ViewServes
  <2>2. [s EXCEPT !.view = v].cache = s.cache
    BY <1>1 DEF Server
  <2> QED BY <1>2, <2>1, <2>2
<1>5. CASE ~s.view.on
  <2>1. s.view = NoView
    BY <1>5 DEF Good
  <2>2. v = s.view
    BY <2>1 DEF NoView
  <2> HIDE DEF v
  <2>3. Revised(s) = s
    BY <1>1, <1>2, <2>2 DEF Server
  <2> QED BY <2>3 DEF Serves
<1> QED BY <1>4, <1>5

LEMMA LookingServes ==
    ASSUME NEW lists, NEW st \in BOOLEAN, NEW s, Good(s, lists, st), Fresh(s, st),
           NEW tab \in Ids(lists)
    PROVE  Serves(s, Looking(s, tab), lists, st) /\ Looking(s, tab).cache = s.cache
<1>1. CASE ~s.view.on
  BY <1>1 DEF Looking, Serves
<1>2. CASE s.view.on
  <2> DEFINE r == Revised(s)
             v == [r.view EXCEPT !.tab = tab]
  <2>1. Serves(s, r, lists, st) /\ r.cache = s.cache
    BY RevisedServes
  <2>2. Looking(s, tab) = [r EXCEPT !.view.tab = tab]
    BY <1>2 DEF Looking
  <2> HIDE DEF r
  <2>3. r \in Server(lists, st) /\ r.view \in Views(lists, st) /\ r.view.on
    BY <1>2, <2>1 DEF Serves, Good, Server
  <2>4. v \in Views(lists, st) /\ v.on = r.view.on
    BY <2>3 DEF Views
  <2>5. Looking(s, tab) = [r EXCEPT !.view = v]
    BY <2>2
  <2> HIDE DEF v
  <2>6. Serves(r, [r EXCEPT !.view = v], lists, st)
    <3>1. Good(r, lists, st) /\ Fresh(r, st) /\ v.on
      BY <2>1, <2>3, <2>4 DEF Serves
    <3> QED BY <2>3, <2>4, <3>1, ViewServes
  <2>7. [r EXCEPT !.view = v].cache = r.cache
    BY <2>3 DEF Server
  <2> QED BY <2>1, <2>5, <2>6, <2>7, ServesAgain
<1> QED BY <1>1, <1>2

LEMMA RemoteTabsServes ==
    ASSUME NEW lists, lists \subseteq Seq(Nat), NEW st \in BOOLEAN,
           NEW s, Good(s, lists, st), Fresh(s, st)
    PROVE  Serves(s, RemoteTabs(s), lists, st) /\ RemoteTabs(s).cache # {}
<1>1. CASE s.cache # {}
  BY <1>1 DEF RemoteTabs, Serves
<1>2. CASE s.cache = {}
  <2> DEFINE t == [s EXCEPT !.cache = {s.tabs}]
  <2>1. s \in Server(lists, st) /\ s.tabs \in Seq(Nat)
    BY DEF Good, Server
  <2>2. /\ t.tabs = s.tabs /\ t.active = s.active /\ t.tabId = s.tabId
        /\ t.cache = {s.tabs} /\ t.view = s.view /\ t.queue = s.queue
    BY <2>1 DEF Server
  <2>3. t \in Server(lists, st)
    BY <2>1 DEF Server
  <2>4. RemoteTabs(s) = t
    BY <1>2 DEF RemoteTabs
  <2> HIDE DEF t
  <2>5. Good(t, lists, st)
    BY <2>2, <2>3 DEF Good
  <2>6. Fresh(t, st)
    BY <2>2 DEF Fresh
  <2> QED BY <2>2, <2>4, <2>5, <2>6 DEF Serves
<1> QED BY <1>1, <1>2

LEMMA PublishServes ==
    ASSUME NEW lists, NEW st \in BOOLEAN, NEW s, Good(s, lists, st), Fresh(s, st),
           NEW tab, panes \in Nat
    PROVE  Serves(s, Publish(s, tab), lists, st)
<1> DEFINE looks == s.view.on /\ s.view.sub /\ s.view.tab = tab /\ tab \in ToSet(s.tabs)
           screens == [i \in 1..panes |-> Screen(i)]
           q == s.queue \o screens
<1>1. CASE ~looks
  <2>1. Publish(s, tab) = s
    BY <1>1 DEF Publish
  <2> QED BY <2>1 DEF Serves
<1>2. CASE looks
  <2>1. screens \in [1..panes -> Sent(lists, st)]
    BY SentMessages
  <2>2. screens \in Seq(Sent(lists, st))
    <3> HIDE DEF screens
    <3> QED BY <2>1, SeqDef
  <2>3. q \in Seq(Sent(lists, st))
    <3> HIDE DEF screens
    <3> QED BY <2>2, ConcatProperties DEF Good, Server
  <2>4. Publish(s, tab) = [s EXCEPT !.queue = q]
    BY <1>2 DEF Publish
  <2> HIDE DEF q
  <2> QED BY <1>2, <2>3, <2>4, QueueServes
<1> QED BY <1>1, <1>2

\* What the main thread tells.
LEMMA ToldIsSent ==
    ASSUME NEW lists, lists \subseteq Seq(Nat), NEW st \in BOOLEAN,
           NEW s, Good(s, lists, st), Fresh(s, st)
    PROVE  /\ ActiveTab(s) \in Ids(lists)
           /\ State(s) \in Sent(lists, st)
           /\ s.cache # {} => TabList(s) \in Sent(lists, st)
<1>1. s \in Server(lists, st) /\ s.view \in Views(lists, st) /\ s.tabs \in lists
  BY DEF Good, Server
<1>2. ActiveTab(s) \in Ids(lists)
  <2>1. CASE s.tabs = <<>>
    BY <2>1 DEF ActiveTab, Ids
  <2>2. CASE s.tabs # <<>>
    <3>1. s.active \in DOMAIN s.tabs
      BY <1>1, <2>2, LenProperties DEF Good
    <3>2. s.tabs[s.active] \in ToSet(s.tabs)
      BY <3>1 DEF ToSet
    <3> QED BY <1>1, <2>2, <3>2 DEF ActiveTab, Ids
  <2> QED BY <2>1, <2>2
<1>3. s.view.tab \in Ids(lists)
  BY <1>1 DEF Views
<1>4. State(s) \in Sent(lists, st)
  BY <1>2, <1>3, SentMessages DEF State
<1>5. ASSUME s.cache # {} PROVE TabList(s) \in Sent(lists, st)
  <2>1. CurrentTabs(s) \in s.cache
    BY <1>5 DEF CurrentTabs
  <2>2. CurrentTabs(s) \in (IF st THEN Seq(Nat) ELSE lists)
    BY <1>1, <2>1 DEF Fresh, Server
  <2> QED BY <2>2, SentMessages DEF TabList
<1> QED BY <1>2, <1>4, <1>5

LEMMA ThenTold ==
    ASSUME NEW lists, NEW st \in BOOLEAN, NEW s, NEW t, Serves(s, t, lists, st), s.view.on,
           NEW m \in Sent(lists, st)
    PROVE  Serves(s, Tell(t, m), lists, st)
<1>1. Good(t, lists, st) /\ Fresh(t, st) /\ t.view.on
  BY DEF Serves
<1>2. Serves(t, Tell(t, m), lists, st)
  BY <1>1, TellServes
<1> QED BY <1>2, ServesAgain

LEMMA ThenPublished ==
    ASSUME NEW lists, NEW st \in BOOLEAN, NEW s, NEW t, Serves(s, t, lists, st),
           NEW tab, panes \in Nat
    PROVE  Serves(s, Publish(t, tab), lists, st)
<1>1. Good(t, lists, st) /\ Fresh(t, st)
  BY DEF Serves
<1>2. Serves(t, Publish(t, tab), lists, st)
  BY <1>1, PublishServes
<1> QED BY <1>2, ServesAgain

LEMMA ConnectedServes ==
    ASSUME NEW lists, lists \subseteq Seq(Nat), NEW st \in BOOLEAN,
           NEW s, Good(s, lists, st), Fresh(s, st), s.view.on, panes \in Nat
    PROVE  Serves(s, Connected(s), lists, st)
<1> DEFINE listed == RemoteTabs(s)
           shown == Looking(listed, ActiveTab(s))
           one == Tell(shown, TabList(shown))
           two == Tell(one, State(shown))
           told == Tell(two, Appearance)
           seeing == [told EXCEPT !.view.sub = (ActiveTab(s) # 0)]
<1>1. Connected(s) = Publish(seeing, ActiveTab(s))
  BY DEF Connected
<1>2. Serves(s, listed, lists, st) /\ listed.cache # {}
  BY RemoteTabsServes
<1>3. ActiveTab(s) \in Ids(lists)
  BY ToldIsSent
<1> HIDE DEF listed
<1>4. Good(listed, lists, st) /\ Fresh(listed, st)
  BY <1>2 DEF Serves
<1>5. Serves(listed, shown, lists, st) /\ shown.cache # {}
  BY <1>2, <1>3, <1>4, LookingServes
<1> HIDE DEF shown
<1>6. Serves(s, shown, lists, st)
  BY <1>2, <1>5, ServesAgain
<1>7. Good(shown, lists, st) /\ Fresh(shown, st)
  BY <1>6 DEF Serves
<1>8. TabList(shown) \in Sent(lists, st) /\ State(shown) \in Sent(lists, st)
      /\ Appearance \in Sent(lists, st)
  BY <1>5, <1>7, ToldIsSent, SentMessages
<1>9. Serves(s, one, lists, st)
  BY <1>6, <1>8, ThenTold
<1> HIDE DEF one
<1>10. Serves(s, two, lists, st)
  BY <1>8, <1>9, ThenTold
<1> HIDE DEF two
<1>11. Serves(s, told, lists, st)
  BY <1>8, <1>10, ThenTold
<1> HIDE DEF told
<1>12. Good(told, lists, st) /\ Fresh(told, st) /\ told.view.on
  BY <1>11 DEF Serves
<1> DEFINE v == [told.view EXCEPT !.sub = (ActiveTab(s) # 0)]
<1>13. v \in Views(lists, st) /\ v.on = told.view.on /\ seeing = [told EXCEPT !.view = v]
  BY <1>12 DEF Good, Server, Views
<1> HIDE DEF v, seeing
<1>14. Serves(told, [told EXCEPT !.view = v], lists, st)
  BY <1>12, <1>13, ViewServes
<1>15. Serves(s, seeing, lists, st)
  BY <1>11, <1>13, <1>14, ServesAgain
<1> QED BY <1>1, <1>15, ThenPublished

LEMMA ListTabsServes ==
    ASSUME NEW lists, lists \subseteq Seq(Nat), NEW st \in BOOLEAN,
           NEW s, Good(s, lists, st), Fresh(s, st), s.view.on
    PROVE  Serves(s, ListTabs(s), lists, st)
<1> DEFINE listed == RemoteTabs(s)
           answered == [listed EXCEPT !.queue = Append(@, TabList(listed))]
           one == Tell(answered, State(listed))
<1>1. ListTabs(s) = Tell(one, Appearance)
  BY DEF ListTabs
<1>2. Serves(s, listed, lists, st) /\ listed.cache # {}
  BY RemoteTabsServes
<1> HIDE DEF listed
<1>3. Good(listed, lists, st) /\ Fresh(listed, st) /\ listed.view.on
  BY <1>2 DEF Serves
<1>4. TabList(listed) \in Sent(lists, st) /\ State(listed) \in Sent(lists, st)
      /\ Appearance \in Sent(lists, st)
  BY <1>2, <1>3, ToldIsSent, SentMessages
<1>5. Serves(listed, answered, lists, st)
  BY <1>3, <1>4, SendServes
<1> HIDE DEF answered
<1>6. Serves(s, answered, lists, st)
  BY <1>2, <1>5, ServesAgain
<1>7. Serves(s, one, lists, st)
  BY <1>4, <1>6, ThenTold
<1> HIDE DEF one
<1> QED BY <1>1, <1>4, <1>7, ThenTold

LEMMA BroadcastServes ==
    ASSUME NEW lists, lists \subseteq Seq(Nat), NEW st \in BOOLEAN,
           NEW s, Good(s, lists, st), Fresh(s, st), panes \in Nat
    PROVE  Serves(s, Broadcast(s), lists, st)
<1> DEFINE cached == RemoteTabs(s)
           listed == Revised(cached)
           one == Tell(listed, TabList(listed))
           two == Tell(one, Appearance)
           told == IF s.view.sub THEN two ELSE listed
           three == Tell(told, State(listed))
<1>1. Broadcast(s) = IF s.view.on THEN Publish(three, ActiveTab(s)) ELSE listed
  BY DEF Broadcast
<1>2. Serves(s, cached, lists, st) /\ cached.cache # {}
  BY RemoteTabsServes
<1> HIDE DEF cached
<1>3. Good(cached, lists, st) /\ Fresh(cached, st)
  BY <1>2 DEF Serves
<1>4. Serves(cached, listed, lists, st) /\ listed.cache # {}
  BY <1>2, <1>3, RevisedServes
<1> HIDE DEF listed
<1>5. Serves(s, listed, lists, st)
  BY <1>2, <1>4, ServesAgain
<1>6. Good(listed, lists, st) /\ Fresh(listed, st)
  BY <1>5 DEF Serves
<1>7. TabList(listed) \in Sent(lists, st) /\ State(listed) \in Sent(lists, st)
      /\ Appearance \in Sent(lists, st)
  BY <1>4, <1>6, ToldIsSent, SentMessages
<1>8. CASE ~s.view.on
  BY <1>1, <1>5, <1>8
<1>9. CASE s.view.on
  <2>1. Serves(s, one, lists, st)
    BY <1>5, <1>7, <1>9, ThenTold
  <2> HIDE DEF one
  <2>2. Serves(s, two, lists, st)
    BY <1>7, <1>9, <2>1, ThenTold
  <2> HIDE DEF two
  <2>3. Serves(s, told, lists, st)
    BY <1>5, <2>2
  <2> HIDE DEF told
  <2>4. Serves(s, three, lists, st)
    BY <1>7, <1>9, <2>3, ThenTold
  <2> HIDE DEF three
  <2>5. Serves(s, Publish(three, ActiveTab(s)), lists, st)
    BY <2>4, ThenPublished
  <2> QED BY <1>1, <1>9, <2>5
<1> QED BY <1>8, <1>9

LEMMA InvalidatedServes ==
    ASSUME NEW lists, NEW st \in BOOLEAN, NEW s, Good(s, lists, st)
    PROVE  Serves(s, Invalidated(s), lists, st)
<1>1. s \in Server(lists, st)
  BY DEF Good
<1> DEFINE t == [s EXCEPT !.cache = {}]
<1>2. /\ t.tabs = s.tabs /\ t.active = s.active /\ t.tabId = s.tabId
      /\ t.cache = {} /\ t.view = s.view /\ t.queue = s.queue
  BY <1>1 DEF Server
<1>3. t \in Server(lists, st)
  BY <1>1 DEF Server
<1>4. Invalidated(s) = t
  BY DEF Invalidated
<1> HIDE DEF t
<1>5. Good(t, lists, st)
  BY <1>2, <1>3 DEF Good
<1>6. Fresh(t, st)
  BY <1>2 DEF Fresh
<1> QED BY <1>2, <1>4, <1>5, <1>6 DEF Serves

LEMMA OutputServes ==
    ASSUME NEW lists, NEW st \in BOOLEAN, NEW s, Good(s, lists, st), panes \in Nat
    PROVE  Serves(s, Output(s), lists, st)
<1> DEFINE t == Invalidated(s)
<1>1. Serves(s, t, lists, st)
  BY InvalidatedServes
<1> HIDE DEF t
<1>2. Serves(s, Publish(t, ActiveTab(s)), lists, st)
  BY <1>1, ThenPublished
<1> QED BY <1>2 DEF Output, t

-----------------------------------------------------------------------------
(* Tabs come and go.                                                       *)

LEMMA GoodGrows ==
    ASSUME NEW lists, NEW more, lists \subseteq more, more \subseteq Seq(Nat),
           NEW st \in BOOLEAN, NEW later \in BOOLEAN, st => later,
           NEW s, Good(s, lists, st)
    PROVE  Good(s, more, later)
<1>1. Ids(lists) \subseteq Ids(more) /\ Sent(lists, st) \subseteq Sent(more, later)
  BY SentGrows
<1>2. Views(lists, st) \subseteq Views(more, later)
  BY <1>1 DEF Views
<1>3. Seq(Sent(lists, st)) \subseteq Seq(Sent(more, later))
  BY <1>1, SeqMonotonic
<1>4. s \in Server(more, later)
  BY <1>2, <1>3 DEF Good, Server
<1> QED BY <1>4 DEF Good

Added(old, new) == new # <<>> /\ old = Front(new) /\ Last(new) \notin ToSet(old)

Removed(old, new) == \E i \in DOMAIN old : new = RemoveAt(old, i)

\* A handler that makes or closes a tab.
Changes(s, t, lists, st) ==
    /\ Good(t, lists \cup {t.tabs}, st) /\ Fresh(t, st)
    /\ t.tabs \in Seq(Nat)
    /\ Added(s.tabs, t.tabs) \/ Removed(s.tabs, t.tabs)
    /\ t.view.on = s.view.on

LEMMA AppendIsAdded ==
    ASSUME NEW l \in Seq(Nat), NEW id \in Nat, id \notin ToSet(l)
    PROVE  Added(l, Append(l, id))
<1> DEFINE a == Append(l, id)
           n == Len(l)
<1>1. /\ a \in Seq(Nat) /\ a # <<>> /\ Len(a) = n + 1
      /\ \A i \in 1..n : a[i] = l[i]
      /\ a[n + 1] = id
  BY AppendProperties
<1>2. n \in Nat /\ (n + 1) - 1 = n
  BY LenProperties
<1> HIDE DEF a, n
<1>3. Last(a) = id
  BY <1>1 DEF Last
<1>4. Front(a) = SubSeq(a, 1, n)
  BY <1>1, <1>2 DEF Front
<1>5. SubSeq(a, 1, n) \in Seq(Nat) /\ Len(SubSeq(a, 1, n)) = n
      /\ \A i \in 1..n : SubSeq(a, 1, n)[i] = l[i]
  <2>1. 1 \in Int /\ n \in Int /\ n - 1 + 1 = n /\ (1 <= n \/ n = 0)
        /\ \A i \in 1..n : i \in 1..(n + 1) /\ 1 + i - 1 = i
    BY <1>2
  <2>2. \A i \in 1..n : a[i] \in Nat
    BY <1>1, <2>1, ElementOfSeq
  <2>3. /\ SubSeq(a, 1, n) \in Seq(Nat)
        /\ Len(SubSeq(a, 1, n)) = IF 1 <= n THEN n - 1 + 1 ELSE 0
        /\ \A i \in 1..(n - 1 + 1) : SubSeq(a, 1, n)[i] = a[1 + i - 1]
    BY <2>1, <2>2, SubSeqProperties
  <2> QED BY <1>1, <2>1, <2>3
<1>6. SubSeq(a, 1, n) = l
  BY <1>5, SeqEqual DEF n
<1> QED BY <1>1, <1>3, <1>4, <1>6 DEF Added, a

LEMMA WithNewTabGood ==
    ASSUME NEW lists, lists \subseteq Seq(Nat), NEW st \in BOOLEAN, NEW s, Good(s, lists, st)
    PROVE  LET t == WithNewTab(s)
           IN  /\ Good(t, lists \cup {t.tabs}, st)
               /\ t.tabs \in Seq(Nat) /\ Added(s.tabs, t.tabs)
               /\ s.tabId + 1 \in Ids(lists \cup {t.tabs})
               /\ t.view = s.view
<1> DEFINE l == Append(s.tabs, s.tabId + 1)
           n == Len(s.tabs)
           more == lists \cup {l}
           t == [s EXCEPT !.tabs = l, !.active = n + 1, !.tabId = s.tabId + 1]
<1>1. s \in Server(lists, st) /\ s.tabs \in Seq(Nat) /\ s.tabId \in Nat /\ n \in Nat
  BY LenProperties DEF Good, Server
<1>2. n + 1 \in Nat /\ s.tabId + 1 \in Nat
  BY <1>1
<1>3. l \in Seq(Nat) /\ l # <<>> /\ Len(l) = n + 1
      /\ (\A i \in 1..n : l[i] = s.tabs[i]) /\ l[n + 1] = s.tabId + 1
  BY <1>2, <1>1, AppendProperties
<1>4. DOMAIN l = 1..(n + 1) /\ DOMAIN s.tabs = 1..n
  BY <1>1, <1>3, LenProperties
<1>5. ToSet(l) \subseteq 1..(s.tabId + 1) /\ s.tabId + 1 \in ToSet(l)
  <2>1. ASSUME NEW i \in 1..(n + 1) PROVE l[i] \in 1..(s.tabId + 1)
    <3>1. CASE i = n + 1
      BY <1>1, <1>3, <3>1
    <3>2. CASE i # n + 1
      <4>1. i \in 1..n
        BY <1>1, <3>2
      <4>2. s.tabs[i] \in ToSet(s.tabs)
        BY <1>4, <4>1 DEF ToSet
      <4>3. s.tabs[i] \in 1..s.tabId
        BY <4>2 DEF Good
      <4> QED BY <1>1, <1>3, <4>1, <4>3
    <3> QED BY <3>1, <3>2
  <2>2. n + 1 \in 1..(n + 1)
    BY <1>1
  <2> HIDE DEF l, n
  <2> QED BY <1>3, <1>4, <2>1, <2>2 DEF ToSet
<1>6. s.tabId + 1 \notin ToSet(s.tabs)
  BY <1>1 DEF Good
<1>7. Added(s.tabs, l)
  BY <1>2, <1>1, <1>6, AppendIsAdded
<1> HIDE DEF l
<1>8. Good(s, more, st)
  <2>1. lists \subseteq more /\ more \subseteq Seq(Nat)
    BY <1>3
  <2> HIDE DEF more
  <2> QED BY <2>1, GoodGrows
<1>9. s \in Server(more, st) /\ l \in more
  BY <1>8 DEF Good
<1>10. /\ t.tabs = l /\ t.active = n + 1 /\ t.tabId = s.tabId + 1
      /\ t.cache = s.cache /\ t.view = s.view /\ t.queue = s.queue
  BY <1>9 DEF Server
<1>11. t \in Server(more, st)
  <2> DEFINE a == n + 1
             id == s.tabId + 1
  <2>1. a \in Nat /\ id \in Nat
    BY <1>2
  <2> HIDE DEF a, id, more
  <2>2. [s EXCEPT !.tabs = l, !.active = a, !.tabId = id] \in Server(more, st)
    BY <1>9, <2>1 DEF Server
  <2> QED BY <2>2 DEF a, id
<1>12. t = WithNewTab(s)
  BY <1>9 DEF WithNewTab, Server, l
<1> HIDE DEF t
<1>13. n + 1 \in 1..(n + 1)
  BY <1>1
<1>14. Good(t, more, st)
  BY <1>3, <1>5, <1>8, <1>10, <1>11, <1>13 DEF Good
<1>15. s.tabId + 1 \in Ids(more)
  BY <1>5 DEF Ids
<1> QED BY <1>3, <1>7, <1>10, <1>12, <1>14, <1>15

LEMMA WithoutTabGood ==
    ASSUME NEW lists, lists \subseteq Seq(Nat), NEW st \in BOOLEAN, NEW s, Good(s, lists, st),
           NEW i \in DOMAIN s.tabs
    PROVE  LET t == WithoutTab(s, i)
           IN  /\ Good(t, lists \cup {t.tabs}, st)
               /\ t.tabs \in Seq(Nat) /\ Removed(s.tabs, t.tabs)
               /\ t.view = s.view
<1> DEFINE l == RemoveAt(s.tabs, i)
           n == Len(s.tabs)
           more == lists \cup {l}
           a == IF s.active > i \/ s.active > Len(l) THEN s.active - 1 ELSE s.active
           t == [s EXCEPT !.tabs = l, !.active = a]
<1>1. s \in Server(lists, st) /\ s.tabs \in Seq(Nat) /\ s.tabId \in Nat
      /\ n \in Nat /\ DOMAIN s.tabs = 1..n
  BY LenProperties DEF Good, Server
<1>2. i \in 1..Len(s.tabs)
  BY <1>1
<1>3. l \in Seq(Nat) /\ Len(l) = n - 1
      /\ \A k \in 1..(n - 1) : l[k] = IF k < i THEN s.tabs[k] ELSE s.tabs[k + 1]
  BY <1>2, <1>1, RemoveAtProperties
<1>4. DOMAIN l = 1..(n - 1) /\ (l = <<>> <=> n = 1) /\ (s.tabs # <<>>)
  <2>1. DOMAIN l = 1..Len(l)
    BY <1>3, LenProperties
  <2>2. (l # <<>> => Len(l) # 0) /\ Len(<<>>) = 0
    BY <1>3, EmptySeq
  <2>3. n - 1 = 0 <=> n = 1
    BY <1>1
  <2> HIDE DEF l, n
  <2>4. l = <<>> <=> n = 1
    BY <1>3, <2>2, <2>3
  <2>5. s.tabs # <<>>
    BY <1>2, EmptySeq
  <2> QED BY <1>3, <2>1, <2>4, <2>5
<1>5. Removed(s.tabs, l)
  BY DEF Removed
<1> HIDE DEF l
<1>6. Good(s, more, st)
  <2>1. lists \subseteq more /\ more \subseteq Seq(Nat)
    BY <1>3
  <2> HIDE DEF more
  <2> QED BY <2>1, GoodGrows
<1>7. ToSet(l) \subseteq ToSet(s.tabs)
  <2>1. ASSUME NEW k \in 1..(n - 1) PROVE l[k] \in ToSet(s.tabs)
    <3>1. k \in 1..n /\ k + 1 \in 1..n
      BY <1>1
    <3> QED BY <1>1, <1>3, <3>1 DEF ToSet
  <2> HIDE DEF n
  <2> QED BY <1>4, <2>1 DEF ToSet
<1>8. s \in Server(more, st) /\ l \in more
  BY <1>6 DEF Good
<1>9. s.active \in 1..n
  BY <1>4 DEF Good
<1>10. a \in Nat /\ a \in (IF l = <<>> THEN {0} ELSE 1..Len(l))
  <2>1. i \in 1..n /\ n \in Nat /\ Len(l) = n - 1 /\ s.active \in 1..n
    BY <1>1, <1>3, <1>9
  <2>2. l = <<>> <=> n = 1
    BY <1>4
  <2> DEFINE x == s.active
             m == Len(l)
  <2>3. x \in 1..n /\ m = n - 1
    BY <2>1
  <2> HIDE DEF n, x, m
  <2>4. a = IF x > i \/ x > m THEN x - 1 ELSE x
    BY DEF x, m
  <2>5. a \in Nat /\ (n = 1 => a = 0) /\ (n # 1 => a \in 1..m)
    <3> HIDE DEF a
    <3> QED BY <2>1, <2>3, <2>4
  <2> HIDE DEF a
  <2> QED BY <2>2, <2>5 DEF m
<1> HIDE DEF a
<1>11. /\ t.tabs = l /\ t.active = a /\ t.tabId = s.tabId
       /\ t.cache = s.cache /\ t.view = s.view /\ t.queue = s.queue
  BY <1>8 DEF Server
<1>12. t \in Server(more, st)
  <2> HIDE DEF more
  <2> QED BY <1>8, <1>10 DEF Server
<1>13. t = WithoutTab(s, i)
  BY DEF WithoutTab, l, a
<1> HIDE DEF t
<1>14. Good(t, more, st)
  BY <1>6, <1>7, <1>10, <1>11, <1>12 DEF Good
<1> QED BY <1>3, <1>5, <1>11, <1>13, <1>14

\* From the change of the tabs on.
LEMMA ThenServes ==
    ASSUME NEW lists, NEW st, NEW s, NEW t, NEW u,
           t.tabs \in Seq(Nat), Added(s.tabs, t.tabs) \/ Removed(s.tabs, t.tabs),
           t.view.on = s.view.on,
           Serves(t, u, lists \cup {t.tabs}, st)
    PROVE  Changes(s, u, lists, st)
BY DEF Changes, Serves

LEMMA CommandedTabChanges ==
    ASSUME NEW lists, lists \subseteq Seq(Nat), NEW st \in BOOLEAN, NEW s, Good(s, lists, st),
           panes \in Nat
    PROVE  \A u \in {Broadcast(Invalidated(WithNewTab(s))), NewTab(s)} :
              Changes(s, u, lists, st) /\ Added(s.tabs, u.tabs)
<1> DEFINE t == WithNewTab(s)
           more == lists \cup {t.tabs}
           fresh == Invalidated(t)
           looking == Looking(fresh, s.tabId + 1)
           id == s.tabId + 1
<1>1. /\ Good(t, more, st)
      /\ t.tabs \in Seq(Nat) /\ Added(s.tabs, t.tabs)
      /\ id \in Ids(more)
      /\ t.view = s.view
  BY WithNewTabGood
<1>2. more \subseteq Seq(Nat)
  BY <1>1
<1> HIDE DEF t, more, id
<1>3. Serves(t, fresh, more, st)
  BY <1>1, InvalidatedServes
<1> HIDE DEF fresh
<1>4. Good(fresh, more, st) /\ Fresh(fresh, st)
  BY <1>3 DEF Serves
<1>5. Serves(fresh, Broadcast(fresh), more, st)
  BY <1>2, <1>4, BroadcastServes
<1>6. looking = Looking(fresh, id)
  BY DEF id
<1>7. Serves(fresh, looking, more, st)
  BY <1>1, <1>4, <1>6, LookingServes
<1> HIDE DEF looking
<1>8. Good(looking, more, st) /\ Fresh(looking, st)
  BY <1>7 DEF Serves
<1>9. Serves(looking, Broadcast(looking), more, st)
  BY <1>2, <1>8, BroadcastServes
<1> DEFINE one == Broadcast(fresh)
           two == Broadcast(looking)
<1>10. Serves(fresh, one, more, st) /\ Serves(looking, two, more, st)
  BY <1>5, <1>9
<1> HIDE DEF one, two
<1>11. Serves(t, one, more, st) /\ Serves(t, two, more, st)
  BY <1>3, <1>7, <1>10, ServesAgain
<1>12. Changes(s, one, lists, st) /\ Changes(s, two, lists, st)
  BY <1>1, <1>11, ThenServes DEF more
<1>13. one.tabs = t.tabs /\ two.tabs = t.tabs
  BY <1>11 DEF Serves
<1>14. one = Broadcast(Invalidated(WithNewTab(s))) /\ two = NewTab(s)
  BY DEF one, two, looking, fresh, t, NewTab
<1> QED BY <1>1, <1>12, <1>14, <1>13

\* A key binding, which leaves the cached list.
LEMMA UncommandedTabChanges ==
    ASSUME NEW lists, lists \subseteq Seq(Nat), NEW st \in BOOLEAN, NEW s, Good(s, lists, st),
           panes \in Nat
    PROVE  Changes(s, Broadcast(WithNewTab(s)), lists, TRUE)
<1> DEFINE t == WithNewTab(s)
           more == lists \cup {t.tabs}
<1>1. Good(s, lists, TRUE)
  BY GoodGrows
<1>2. /\ Good(t, more, TRUE)
      /\ t.tabs \in Seq(Nat) /\ Added(s.tabs, t.tabs)
      /\ t.view = s.view
  BY <1>1, WithNewTabGood
<1>3. more \subseteq Seq(Nat)
  BY <1>2
<1> HIDE DEF t, more
<1>4. Fresh(t, TRUE)
  BY DEF Fresh
<1> DEFINE u == Broadcast(t)
<1>5. Serves(t, u, more, TRUE)
  BY <1>2, <1>3, <1>4, BroadcastServes
<1> HIDE DEF u
<1>6. Changes(s, u, lists, TRUE)
  BY <1>2, <1>5, ThenServes DEF more
<1> QED BY <1>6 DEF u, t

LEMMA CloseTabChanges ==
    ASSUME NEW lists, lists \subseteq Seq(Nat), NEW st \in BOOLEAN, NEW s, Good(s, lists, st),
           NEW i \in DOMAIN s.tabs, panes \in Nat
    PROVE  Changes(s, CloseTab(s, i), lists, st)
<1> DEFINE t == WithoutTab(s, i)
           more == lists \cup {t.tabs}
           left == Invalidated(t)
           near == IF i > Len(left.tabs) THEN Len(left.tabs) ELSE i
           tab == IF left.view.tab \in ToSet(left.tabs) THEN left.view.tab
                  ELSE IF left.tabs = <<>> THEN 0 ELSE left.tabs[near]
           repaired == Looking(left, tab)
           u == Broadcast(repaired)
<1>1. i \in Nat /\ i >= 1
  <2>1. s.tabs \in Seq(Nat)
    BY DEF Good, Server
  <2>2. DOMAIN s.tabs = 1..Len(s.tabs) /\ Len(s.tabs) \in Nat
    BY <2>1, LenProperties
  <2> QED BY <2>2
<1>2. /\ Good(t, more, st)
      /\ t.tabs \in Seq(Nat) /\ Removed(s.tabs, t.tabs)
      /\ t.view = s.view
  BY WithoutTabGood
<1>3. more \subseteq Seq(Nat) /\ t.tabs \in more
  BY <1>2
<1> HIDE DEF t, more
<1>4. Serves(t, left, more, st)
  BY <1>2, InvalidatedServes
<1> HIDE DEF left
<1>5. Good(left, more, st) /\ Fresh(left, st) /\ left.tabs = t.tabs
  BY <1>4 DEF Serves
<1>6. tab \in Ids(more)
  <2>1. left.view.tab \in Ids(more) /\ 0 \in Ids(more)
    BY <1>5 DEF Good, Server, Views, Ids
  <2>2. ASSUME left.tabs # <<>> PROVE left.tabs[near] \in Ids(more)
    <3> DEFINE n == Len(left.tabs)
    <3>1. n \in Nat /\ n # 0 /\ DOMAIN left.tabs = 1..n
      BY <1>2, <1>5, <2>2, LenProperties, EmptySeq
    <3> HIDE DEF n
    <3>2. near = IF i > n THEN n ELSE i
      BY DEF n
    <3>3. near \in 1..n
      BY <1>1, <3>1, <3>2
    <3> HIDE DEF near
    <3>4. left.tabs[near] \in ToSet(left.tabs)
      BY <3>1, <3>3 DEF ToSet
    <3> QED BY <1>3, <1>5, <3>4 DEF Ids
  <2> HIDE DEF near
  <2> QED BY <2>1, <2>2
<1>7. CloseTab(s, i) = u
  BY DEF CloseTab, Repaired, left, t
<1> HIDE DEF tab
<1>8. Serves(left, repaired, more, st)
  BY <1>5, <1>6, LookingServes
<1> HIDE DEF repaired
<1>9. Good(repaired, more, st) /\ Fresh(repaired, st)
  BY <1>8 DEF Serves
<1>10. Serves(repaired, u, more, st)
  BY <1>3, <1>9, BroadcastServes
<1> HIDE DEF u
<1>11. Serves(t, u, more, st)
  BY <1>4, <1>8, <1>10, ServesAgain
<1>12. Changes(s, u, lists, st)
  BY <1>2, <1>11, ThenServes DEF more
<1> QED BY <1>7, <1>12

LEMMA PaneExitsChanges ==
    ASSUME NEW lists, lists \subseteq Seq(Nat), NEW st \in BOOLEAN, NEW s, Good(s, lists, st),
           NEW i \in DOMAIN s.tabs, NEW watched, panes \in Nat
    PROVE  Changes(s, PaneExits(s, i, watched), lists, TRUE)
<1> DEFINE t == WithoutTab(s, i)
           more == lists \cup {t.tabs}
           u == PaneExits(s, i, watched)
<1>1. Good(s, lists, TRUE)
  BY GoodGrows
<1>2. /\ Good(t, more, TRUE)
      /\ t.tabs \in Seq(Nat) /\ Removed(s.tabs, t.tabs)
      /\ t.view = s.view
  BY <1>1, WithoutTabGood
<1>3. more \subseteq Seq(Nat)
  BY <1>2
<1>4. u = IF ~watched THEN t ELSE IF t.tabs = <<>> THEN Broadcast(t) ELSE Output(t)
  BY DEF PaneExits
<1> HIDE DEF t, more, u
<1>5. Fresh(t, TRUE)
  BY DEF Fresh
<1>6. Serves(t, t, more, TRUE)
  BY <1>2, <1>5 DEF Serves
<1>7. Serves(t, Broadcast(t), more, TRUE)
  BY <1>2, <1>3, <1>5, BroadcastServes
<1>8. Serves(t, Output(t), more, TRUE)
  BY <1>2, OutputServes
<1>9. Serves(t, u, more, TRUE)
  BY <1>4, <1>6, <1>7, <1>8
<1>10. Changes(s, u, lists, TRUE)
  BY <1>2, <1>9, ThenServes DEF more
<1> QED BY <1>10 DEF u

-----------------------------------------------------------------------------
(* One of a kind in a queue.                                               *)

Holds(q, x) == \E i \in 1..Len(q) : q[i] = x

Once(q, x) == \A i, j \in 1..Len(q) : q[i] = x /\ q[j] = x => i = j

LEMMA AppendHolds ==
    ASSUME NEW S, NEW q \in Seq(S), NEW m \in S, NEW x
    PROVE  /\ Holds(Append(q, m), x) <=> Holds(q, x) \/ m = x
           /\ Once(q, x) /\ (m = x => ~Holds(q, x)) => Once(Append(q, m), x)
<1> DEFINE n == Len(q)
           a == Append(q, m)
<1>1. n \in Nat /\ Len(a) = n + 1 /\ (\A i \in 1..n : a[i] = q[i]) /\ a[n + 1] = m
  BY LenProperties, AppendProperties
<1> HIDE DEF a
<1>2. Holds(q, x) <=> \E i \in 1..n : q[i] = x
  BY DEF Holds
<1>3. Once(q, x) <=> \A i, j \in 1..n : q[i] = x /\ q[j] = x => i = j
  BY DEF Once
<1> HIDE DEF n
<1>4. n + 1 \in 1..(n + 1) /\ (\A i \in 1..n : i \in 1..(n + 1))
      /\ \A i \in 1..(n + 1) : i \in 1..n \/ i = n + 1
  BY <1>1
<1>5. Holds(a, x) <=> Holds(q, x) \/ m = x
  BY <1>1, <1>2, <1>4 DEF Holds
<1>6. Once(q, x) /\ (m = x => ~Holds(q, x)) => Once(a, x)
  BY <1>1, <1>2, <1>3, <1>4 DEF Once
<1> QED BY <1>5, <1>6 DEF a

LEMMA TailHolds ==
    ASSUME NEW S, NEW q \in Seq(S), q # <<>>, NEW x
    PROVE  /\ Holds(Tail(q), x) => Holds(q, x)
           /\ Head(q) = x => Holds(q, x)
           /\ Once(q, x) => Once(Tail(q), x) /\ (Head(q) = x => ~Holds(Tail(q), x))
<1> DEFINE n == Len(q)
           t == Tail(q)
<1>1. n \in Nat \ {0} /\ Len(t) = n - 1 /\ (\A i \in 1..(n - 1) : t[i] = q[i + 1])
      /\ Head(q) = q[1]
  BY EmptySeq, HeadTailProperties
<1> HIDE DEF t
<1>2. Holds(q, x) <=> \E i \in 1..n : q[i] = x
  BY DEF Holds
<1>3. Once(q, x) <=> \A i, j \in 1..n : q[i] = x /\ q[j] = x => i = j
  BY DEF Once
<1> HIDE DEF n
<1>4. 1 \in 1..n /\ (\A i \in 1..(n - 1) : i + 1 \in 1..n /\ i + 1 # 1)
      /\ \A i, j \in 1..(n - 1) : i + 1 = j + 1 => i = j
  BY <1>1
<1>5. Holds(t, x) => Holds(q, x)
  BY <1>1, <1>2, <1>4 DEF Holds
<1>6. Head(q) = x => Holds(q, x)
  BY <1>1, <1>2, <1>4
<1>7. Once(q, x) => Once(t, x)
  <2> SUFFICES ASSUME Once(q, x), NEW i \in 1..(n - 1), NEW j \in 1..(n - 1),
                      t[i] = x, t[j] = x
               PROVE  i = j
    BY <1>1 DEF Once
  <2>1. q[i + 1] = x /\ q[j + 1] = x
    BY <1>1
  <2> QED BY <1>3, <1>4, <2>1
<1>8. Once(q, x) => (Head(q) = x => ~Holds(t, x))
  BY <1>1, <1>3, <1>4 DEF Holds
<1> QED BY <1>5, <1>6, <1>7, <1>8 DEF t

LEMMA PrefixHolds ==
    ASSUME NEW S, NEW q \in Seq(S), NEW n \in 0..Len(q), NEW x
    PROVE  /\ SubSeq(q, 1, n) \in Seq(S)
           /\ Holds(SubSeq(q, 1, n), x) => Holds(q, x)
           /\ Once(q, x) => Once(SubSeq(q, 1, n), x)
<1> DEFINE p == SubSeq(q, 1, n)
<1>1. Len(q) \in Nat /\ n \in Int /\ 1 \in Int /\ \A i \in 1..n : i \in 1..Len(q)
  BY LenProperties
<1>2. \A i \in 1..n : q[i] \in S
  BY <1>1, ElementOfSeq
<1>3. /\ p \in Seq(S)
      /\ Len(p) = IF 1 <= n THEN n - 1 + 1 ELSE 0
      /\ \A i \in 1..(n - 1 + 1) : p[i] = q[1 + i - 1]
  BY <1>1, <1>2, SubSeqProperties
<1>4. n - 1 + 1 = n /\ (1 <= n \/ n = 0) /\ \A i \in 1..n : 1 + i - 1 = i
  BY <1>1
<1>5. Len(p) = n /\ \A i \in 1..n : p[i] = q[i]
  BY <1>3, <1>4
<1> HIDE DEF p
<1>6. Holds(p, x) => Holds(q, x)
  BY <1>1, <1>5 DEF Holds
<1>7. Once(q, x) => Once(p, x)
  BY <1>1, <1>5 DEF Once
<1> QED BY <1>3, <1>6, <1>7 DEF p

LEMMA OtherHeadHolds ==
    ASSUME NEW S, NEW q \in Seq(S), q # <<>>, NEW y \in S, NEW x, y # x
    PROVE  LET r == [q EXCEPT ![1] = y]
           IN  /\ r \in Seq(S) /\ Len(r) = Len(q)
               /\ \A i \in 1..Len(q) : r[i] = IF i = 1 THEN y ELSE q[i]
               /\ Holds(r, x) => Holds(q, x)
               /\ Once(q, x) => Once(r, x)
<1> DEFINE r == [q EXCEPT ![1] = y]
<1>1. 1 \in 1..Len(q)
  BY EmptySeq
<1>2. r \in Seq(S) /\ Len(r) = Len(q) /\ \A i \in 1..Len(q) : r[i] = IF i = 1 THEN y ELSE q[i]
  BY <1>1, ExceptSeq
<1> HIDE DEF r
<1>3. Holds(r, x) => Holds(q, x)
  BY <1>2 DEF Holds
<1>4. Once(q, x) => Once(r, x)
  BY <1>2 DEF Once
<1> QED BY <1>2, <1>3, <1>4 DEF r

-----------------------------------------------------------------------------
(* The invariant.                                                          *)

\* The lists that what is under way to the command may speak of.
Had == IF Calling THEN seen ELSE Seq(Nat)

\* What is under way to the command.
TalkInv ==
    /\ panes \in Nat /\ stale \in BOOLEAN
    /\ seen \subseteq Seq(Nat)
    /\ Good(Now, Had, stale) /\ Fresh(Now, stale)
    /\ wire \in Seq(Sent(Had, stale))
    /\ ~Calling => wire = <<>>

LEMMA HadType ==
    ASSUME TalkInv
    PROVE  /\ Had \subseteq Seq(Nat)
           /\ tabs \in Had /\ tabs \in Seq(Nat)
           /\ view \in Views(Had, stale) /\ queue \in Seq(Sent(Had, stale))
           /\ Calling => tabs \in seen
<1>1. Had \subseteq Seq(Nat)
  BY DEF TalkInv, Had
<1>2. tabs \in Had /\ view \in Views(Had, stale) /\ queue \in Seq(Sent(Had, stale))
  BY DEF TalkInv, Good, Server, Now
<1> QED BY <1>1, <1>2 DEF Had

LEMMA BecomesNow ==
    ASSUME NEW s, NEW lists, NEW st, Good(s, lists, st), Becomes(s)
    PROVE  /\ Now' = s /\ tabs' = s.tabs
           /\ seen' = IF Calling THEN seen \cup {tabs'} ELSE seen
BY DEF Becomes, Now, Good, Server

LEMMA ServedTalk ==
    ASSUME TalkInv, NEW s, Serves(Now, s, Had, stale), Becomes(s),
           UNCHANGED <<panes, wire, call, stale>>
    PROVE  TalkInv' /\ UNCHANGED <<tabs, seen>>
<1>1. Good(s, Had, stale) /\ Fresh(s, stale) /\ s.tabs = tabs
  BY DEF Serves, Now
<1>2. Now' = s /\ tabs' = tabs /\ seen' = IF Calling THEN seen \cup {tabs} ELSE seen
  BY <1>1, BecomesNow
<1>3. seen' = seen
  BY <1>2, HadType
<1>4. Had' = Had /\ (Calling' <=> Calling)
  BY <1>3 DEF Had, Calling
<1>5. Good(Now', Had', stale') /\ Fresh(Now', stale')
  BY <1>1, <1>2, <1>4
<1> QED BY <1>2, <1>3, <1>4, <1>5 DEF TalkInv

LEMMA ChangedTalk ==
    ASSUME TalkInv, NEW s, NEW later \in BOOLEAN, stale => later, stale' = later,
           Changes(Now, s, Had, later), Becomes(s),
           UNCHANGED <<panes, wire, call>>
    PROVE  /\ TalkInv'
           /\ Added(tabs, tabs') \/ Removed(tabs, tabs')
           /\ seen' = IF Calling THEN seen \cup {tabs'} ELSE seen
<1>1. /\ Good(s, Had \cup {s.tabs}, later) /\ Fresh(s, later) /\ s.tabs \in Seq(Nat)
      /\ Added(tabs, s.tabs) \/ Removed(tabs, s.tabs)
  BY DEF Changes, Now
<1>2. Now' = s /\ tabs' = s.tabs /\ seen' = IF Calling THEN seen \cup {tabs'} ELSE seen
  BY <1>1, BecomesNow
<1>3. Had' = Had \cup {s.tabs} /\ (Calling' <=> Calling)
  BY <1>1, <1>2 DEF Had, Calling
<1>4. Had' \subseteq Seq(Nat) /\ seen' \subseteq Seq(Nat)
  BY <1>1, <1>2, <1>3, HadType DEF TalkInv
<1>5. wire' \in Seq(Sent(Had', stale'))
  <2>1. wire \in Seq(Sent(Had, stale)) /\ stale \in BOOLEAN
    BY DEF TalkInv
  <2> DEFINE more == Had'
  <2>2. Had \subseteq more /\ more \subseteq Seq(Nat)
    BY <1>3, <1>4
  <2> HIDE DEF more
  <2>3. Sent(Had, stale) \subseteq Sent(more, later)
    BY <2>1, <2>2, SentGrows
  <2>4. wire \in Seq(Sent(more, later))
    BY <2>1, <2>3, SeqMonotonic
  <2> QED BY <2>4 DEF more
<1>6. Good(Now', Had', stale') /\ Fresh(Now', stale')
  BY <1>1, <1>2, <1>3
<1> QED BY <1>1, <1>2, <1>3, <1>4, <1>5, <1>6 DEF TalkInv

Commands == [conn : Nat, name : {"connected", "list", "create", "refused"}]

LEMMA HandledTalks ==
    ASSUME TalkInv, NEW cmd \in Commands
    PROVE  /\ cmd.name # "create" => Serves(Now, Handled(Now, cmd), Had, stale)
           /\ cmd.name = "create" => /\ Changes(Now, Handled(Now, cmd), Had, stale)
                                     /\ Added(tabs, Handled(Now, cmd).tabs)
<1> DEFINE s == Now
           gone == cmd.conn # conn \/ ~s.view.on
<1>1. /\ Had \subseteq Seq(Nat) /\ stale \in BOOLEAN /\ panes \in Nat
      /\ Good(s, Had, stale) /\ Fresh(s, stale)
  BY HadType DEF TalkInv
<1>2. Handled(Now, cmd) =
        CASE cmd.name = "connected" -> IF gone THEN RemoteTabs(s) ELSE Connected(s)
          [] cmd.name = "list"      -> IF gone THEN RemoteTabs(s) ELSE ListTabs(s)
          [] cmd.name = "create"    -> IF gone THEN Broadcast(Invalidated(WithNewTab(s)))
                                       ELSE NewTab(s)
          [] cmd.name = "refused"   -> IF gone THEN s ELSE Refuse(s)
  BY DEF Handled
<1> HIDE DEF s
<1>3. ~gone => s.view.on
  OBVIOUS
<1> HIDE DEF gone
<1>4. Serves(s, RemoteTabs(s), Had, stale) /\ Serves(s, s, Had, stale)
  BY <1>1, RemoteTabsServes DEF Serves
<1>5. CASE cmd.name = "connected"
  <2>1. ~gone => Serves(s, Connected(s), Had, stale)
    BY <1>1, <1>3, ConnectedServes
  <2> QED BY <1>2, <1>4, <1>5, <2>1 DEF s
<1>6. CASE cmd.name = "list"
  <2>1. ~gone => Serves(s, ListTabs(s), Had, stale)
    BY <1>1, <1>3, ListTabsServes
  <2> QED BY <1>2, <1>4, <1>6, <2>1 DEF s
<1>7. CASE cmd.name = "create"
  <2>1. \A u \in {Broadcast(Invalidated(WithNewTab(s))), NewTab(s)} :
            Changes(s, u, Had, stale) /\ Added(s.tabs, u.tabs)
    BY <1>1, CommandedTabChanges
  <2>2. Handled(s, cmd) \in {Broadcast(Invalidated(WithNewTab(s))), NewTab(s)}
    BY <1>2, <1>7 DEF s
  <2>3. s.tabs = tabs
    BY DEF s, Now
  <2> QED BY <1>7, <2>1, <2>2, <2>3 DEF s
<1>8. CASE cmd.name = "refused"
  <2>1. Priority("error") \in Sent(Had, stale)
    BY <1>1, SentMessages
  <2>2. ~gone => Serves(s, Refuse(s), Had, stale)
    <3> DEFINE m == Priority("error")
    <3> HIDE DEF m
    <3>1. m \in Sent(Had, stale)
      BY <2>1 DEF m
    <3>2. ~gone => Serves(s, [s EXCEPT !.queue = Append(@, m)], Had, stale)
      BY <1>1, <1>3, <3>1, SendServes
    <3> QED BY <3>2 DEF Refuse, m
  <2> QED BY <1>2, <1>4, <1>8, <2>2 DEF s
<1> QED BY <1>5, <1>6, <1>7, <1>8 DEF Commands

-----------------------------------------------------------------------------

Requests == {"auth", "beat", "list", "create"}

Wanted(n) == [conn |-> n, name |-> "create"]

\* Where the command is, and what is under way from it.
CallInv ==
    /\ call \in [name : Jobs \cup {"none", "probed", "listed", "created", "failed"},
                 step : Requests \cup {"off"}, skipped : Nat, answer : Seq(Nat),
                 sure : BOOLEAN]
    /\ Calling <=> call.step # "off"
    /\ Calling /\ call.step \in {"list", "create"} => call.name = call.step
    /\ conn \in Nat /\ up \in Seq(Requests) /\ cmds \in Seq(Commands)
    /\ \A i \in 1..Len(cmds) : cmds[i].conn <= conn

\* Of the requests u, the channel c and the tabs made k: a tab is asked for once.
OneTab(u, c, n, k, idle) ==
    /\ Once(u, "create") /\ Once(c, Wanted(n))
    /\ Holds(u, "create") => ~Holds(c, Wanted(n))
    /\ Holds(u, "create") \/ Holds(c, Wanted(n)) => k = 0
    /\ idle => ~Holds(u, "create") /\ ~Holds(c, Wanted(n)) /\ k = 0
    /\ k \in {0, 1}

OneTabInv == OneTab(up, cmds, conn, made, Calling /\ call.step # "create")

DirectInv == TalkInv /\ CallInv /\ OneTabInv

\* Fewer requests, and a call that need not be idle.
LEMMA FewerRequests ==
    ASSUME NEW u, NEW c, NEW n, NEW k, NEW idle \in BOOLEAN, OneTab(u, c, n, k, idle),
           NEW v, Holds(v, "create") => Holds(u, "create"), Once(v, "create"),
           NEW d, Holds(d, Wanted(n)) => Holds(c, Wanted(n)), Once(d, Wanted(n)),
           NEW less \in BOOLEAN, less => idle
    PROVE  OneTab(v, d, n, k, less)
BY DEF OneTab

Implements == [Service!Next]_(Service!vars)

LEMMA Stutters ==
    ASSUME UNCHANGED <<tabs, call, seen, made>>
    PROVE  Implements
BY DEF Implements, Service!vars, SureAnswer, Answer

LEMMA ServiceCalling ==
    ASSUME CallInv
    PROVE  Service!Calling <=> Calling
BY DEF Service!Calling, Service!Jobs, Calling, Jobs, SureAnswer, Answer

LEMMA ChangesTabs ==
    ASSUME CallInv, Added(tabs, tabs') \/ Removed(tabs, tabs'),
           seen' = (IF Calling THEN seen \cup {tabs'} ELSE seen),
           UNCHANGED <<call, made>>
    PROVE  Implements
<1>1. Service!OneMore \/ Service!OneLess
  BY DEF Added, Removed, Service!OneMore, Service!OneLess, Service!Front, Service!Last,
         Service!ToSet, Service!RemoveAt, Front, Last, ToSet, RemoveAt
<1>2. UNCHANGED SureAnswer
  BY DEF SureAnswer, Answer
<1>3. Service!Change
  BY <1>1, <1>2, ServiceCalling DEF Service!Change
<1> QED BY <1>3 DEF Implements, Service!Next

LEMMA MakesTab ==
    ASSUME CallInv, Added(tabs, tabs'),
           seen' = (IF Calling THEN seen \cup {tabs'} ELSE seen),
           UNCHANGED call, made = 0, made' = 1
    PROVE  Implements
<1>1. Service!OneMore
  BY DEF Added, Service!OneMore, Service!Front, Service!Last, Service!ToSet, Front, Last, ToSet
<1>2. UNCHANGED SureAnswer
  BY DEF SureAnswer, Answer
<1>3. Service!Create
  BY <1>1, <1>2, ServiceCalling DEF Service!Create
<1> QED BY <1>3 DEF Implements, Service!Next

\* Only a new tab is not taken out of the list.
LEMMA MainStep ==
    ASSUME DirectInv, Main
    PROVE  DirectInv' /\ Implements
<1> DEFINE cmd == Head(cmds)
           rest == Tail(cmds)
<1>1. /\ TalkInv /\ CallInv /\ OneTabInv
      /\ cmds # <<>> /\ Becomes(Handled(Now, cmd)) /\ cmds' = rest
      /\ made' = IF cmd.name = "create" /\ cmd.conn = conn THEN made + 1 ELSE made
      /\ UNCHANGED <<panes, up, wire, conn, call, stale>>
  BY DEF DirectInv, Main
<1>2. cmds \in Seq(Commands) /\ stale \in BOOLEAN
  BY <1>1 DEF CallInv, TalkInv
<1>3. /\ cmd \in Commands /\ rest \in Seq(Commands)
      /\ Len(rest) = Len(cmds) - 1 /\ Len(cmds) \in Nat
      /\ \A i \in 1..Len(rest) : rest[i] = cmds[i + 1]
  BY <1>1, <1>2, HeadTailProperties, LenProperties
<1>4. /\ Holds(rest, Wanted(conn)) => Holds(cmds, Wanted(conn))
      /\ cmd = Wanted(conn) => Holds(cmds, Wanted(conn))
      /\ Once(cmds, Wanted(conn)) =>
            Once(rest, Wanted(conn)) /\ (cmd = Wanted(conn) => ~Holds(rest, Wanted(conn)))
  BY <1>1, <1>2, TailHolds
<1> HIDE DEF cmd, rest
<1>5. CallInv'
  <2>1. \A i \in 1..Len(rest) : i + 1 \in 1..Len(cmds)
    BY <1>3
  <2>2. \A i \in 1..Len(rest) : rest[i].conn <= conn
    BY <1>1, <1>3, <2>1 DEF CallInv
  <2> QED BY <1>1, <1>3, <2>2 DEF CallInv, Calling
<1>6. (Calling /\ call.step # "create")' <=> (Calling /\ call.step # "create")
  BY <1>1 DEF Calling
<1>7. CASE cmd.name = "create" /\ cmd.conn = conn
  <2>1. cmd = Wanted(conn)
    BY <1>3, <1>7 DEF Commands, Wanted
  <2>2. /\ TalkInv' /\ seen' = (IF Calling THEN seen \cup {tabs'} ELSE seen)
        /\ Added(tabs, tabs') \/ Removed(tabs, tabs')
    BY <1>1, <1>2, <1>3, <1>7, HandledTalks, ChangedTalk
  <2>3. made = 0 /\ made' = 1
    BY <1>1, <1>4, <1>7, <2>1 DEF OneTabInv, OneTab
  <2>4. OneTabInv'
    BY <1>1, <1>4, <1>6, <2>1, <2>3 DEF OneTabInv, OneTab
  <2>5. Added(tabs, tabs')
    <3>1. Added(tabs, Handled(Now, cmd).tabs)
      BY <1>1, <1>3, <1>7, HandledTalks
    <3> QED BY <1>1, <3>1 DEF Becomes
  <2> QED BY <1>1, <1>5, <2>2, <2>3, <2>4, <2>5, MakesTab DEF DirectInv
<1>8. CASE ~(cmd.name = "create" /\ cmd.conn = conn)
  <2>1. OneTabInv'
    BY <1>1, <1>4, <1>6, <1>8, FewerRequests DEF OneTabInv, OneTab
  <2>2. made' = made
    BY <1>1, <1>8
  <2>3. CASE cmd.name = "create"
    <3>1. /\ TalkInv' /\ seen' = (IF Calling THEN seen \cup {tabs'} ELSE seen)
          /\ Added(tabs, tabs') \/ Removed(tabs, tabs')
      BY <1>1, <1>2, <1>3, <2>3, HandledTalks, ChangedTalk
    <3> QED BY <1>1, <1>5, <2>1, <2>2, <3>1, ChangesTabs DEF DirectInv
  <2>4. CASE cmd.name # "create"
    <3>1. TalkInv' /\ UNCHANGED <<tabs, seen>>
      BY <1>1, <1>2, <1>3, <2>4, HandledTalks, ServedTalk
    <3> QED BY <1>1, <1>5, <2>1, <2>2, <3>1, Stutters DEF DirectInv
  <2> QED BY <2>3, <2>4
<1> QED BY <1>7, <1>8

\* The tabs are left alone.
LEMMA TalkMoves ==
    ASSUME TalkInv, UNCHANGED <<panes, tabs, active, tabId, cache, seen, stale>>,
           Calling' <=> Calling,
           view' \in Views(Had, stale), queue' \in Seq(Sent(Had, stale)),
           wire' \in Seq(Sent(Had, stale)), ~Calling => wire' = <<>>,
           view'.on \/ (view' = NoView /\ queue' = <<>>)
    PROVE  TalkInv'
<1>1. Had' = Had
  BY DEF Had
<1>2. /\ Now \in Server(Had, stale)
      /\ ToSet(tabs) \subseteq 1..tabId
      /\ active \in (IF tabs = <<>> THEN {0} ELSE 1..Len(tabs))
      /\ ~stale => cache \subseteq {tabs}
  BY DEF TalkInv, Good, Fresh, Now
<1>3. /\ Now'.tabs = tabs /\ Now'.active = active /\ Now'.tabId = tabId /\ Now'.cache = cache
      /\ Now'.view = view' /\ Now'.queue = queue'
  BY DEF Now
<1>4. tabs \in Had /\ active \in Nat /\ tabId \in Nat /\ cache \in SUBSET Seq(Nat)
  BY <1>2 DEF Server, Now
<1>5. Now' \in Server(Had, stale)
  BY <1>4 DEF Server, Now
<1> DEFINE s == Now'
<1>6. Good(s, Had, stale) /\ Fresh(s, stale)
  <2> HIDE DEF s
  <2> QED BY <1>2, <1>3, <1>5 DEF Good, Fresh, s
<1> QED BY <1>1, <1>6 DEF TalkInv

LEMMA TalkRests ==
    ASSUME TalkInv, UNCHANGED <<panes, tabs, active, tabId, cache, view, queue, wire, seen, stale>>,
           Calling' <=> Calling
    PROVE  TalkInv'
<1>1. /\ view \in Views(Had, stale) /\ queue \in Seq(Sent(Had, stale))
      /\ wire \in Seq(Sent(Had, stale)) /\ (~Calling => wire = <<>>)
      /\ view.on \/ (view = NoView /\ queue = <<>>)
  BY HadType DEF TalkInv, Good, Now
<1> QED BY <1>1, TalkMoves

\* A call that is over has no claim on what is queued.
LEMMA TalkEnds ==
    ASSUME TalkInv, UNCHANGED <<panes, tabs, active, tabId, cache, view, queue, seen, stale>>,
           ~Calling', wire' = <<>>
    PROVE  TalkInv'
<1>1. Had' = Seq(Nat)
  BY DEF Had
<1>2. Good(Now, Had, stale) /\ Fresh(Now, stale) /\ stale \in BOOLEAN
  BY DEF TalkInv
<1>3. Had \subseteq Seq(Nat)
  BY HadType
<1>4. Good(Now, Seq(Nat), stale)
  <2> DEFINE more == Seq(Nat)
  <2>1. Had \subseteq more /\ more \subseteq Seq(Nat)
    BY <1>3
  <2> HIDE DEF more
  <2>2. Good(Now, more, stale)
    BY <1>2, <2>1, GoodGrows
  <2> QED BY <2>2 DEF more
<1>5. Now' = Now
  BY DEF Now
<1>6. wire' \in Seq(Sent(Had', stale'))
  BY EmptySeq
<1> QED BY <1>1, <1>2, <1>4, <1>5, <1>6 DEF TalkInv

LEMMA CreateFailsStep ==
    ASSUME DirectInv, CreateFails
    PROVE  DirectInv' /\ Implements
<1> DEFINE cmd == [Head(cmds) EXCEPT !.name = "refused"]
           changed == [cmds EXCEPT ![1] = cmd]
<1>1. /\ TalkInv /\ CallInv /\ OneTabInv /\ cmds # <<>>
      /\ cmds' = [cmds EXCEPT ![1].name = "refused"]
      /\ UNCHANGED <<panes, tabs, active, tabId, cache, view, up, queue, wire, conn, call,
                     seen, made, stale>>
  BY DEF DirectInv, CreateFails
<1>2. cmds \in Seq(Commands)
  BY <1>1 DEF CallInv
<1>3. Head(cmds) = cmds[1] /\ Head(cmds) \in Commands
  BY <1>1, <1>2, HeadTailProperties
<1>4. cmd \in Commands /\ cmd # Wanted(conn) /\ cmd.conn = cmds[1].conn
  BY <1>3 DEF Commands, Wanted
<1>5. cmds' = changed
  BY <1>1, <1>3
<1> HIDE DEF cmd
<1>6. /\ changed \in Seq(Commands) /\ Len(changed) = Len(cmds)
      /\ \A i \in 1..Len(cmds) : changed[i] = IF i = 1 THEN cmd ELSE cmds[i]
      /\ Holds(changed, Wanted(conn)) => Holds(cmds, Wanted(conn))
      /\ Once(cmds, Wanted(conn)) => Once(changed, Wanted(conn))
  BY <1>1, <1>2, <1>4, OtherHeadHolds
<1> HIDE DEF changed
<1>7. CallInv'
  <2>1. \A i \in 1..Len(changed) : changed[i].conn <= conn
    BY <1>1, <1>4, <1>6 DEF CallInv
  <2> QED BY <1>1, <1>5, <1>6, <2>1 DEF CallInv, Calling
<1>8. (Calling /\ call.step # "create")' <=> (Calling /\ call.step # "create")
  BY <1>1 DEF Calling
<1>9. OneTabInv'
  BY <1>1, <1>5, <1>6, <1>8 DEF OneTabInv, OneTab
<1>10. TalkInv'
  BY <1>1, TalkRests DEF Calling
<1> QED BY <1>1, <1>7, <1>9, <1>10, Stutters DEF DirectInv

LEMMA ElsewhereStep ==
    ASSUME DirectInv, Elsewhere
    PROVE  DirectInv' /\ Implements
<1>1. /\ TalkInv /\ CallInv /\ OneTabInv
      /\ Commanded \/ Uncommanded
      /\ UNCHANGED <<panes, up, cmds, wire, conn, call, made>>
  BY DEF DirectInv, Elsewhere
<1>2. CallInv' /\ OneTabInv'
  BY <1>1 DEF CallInv, OneTabInv, Calling
<1>3. /\ Had \subseteq Seq(Nat) /\ stale \in BOOLEAN /\ panes \in Nat
      /\ Good(Now, Had, stale) /\ Now.tabs = tabs
  BY <1>1, HadType DEF TalkInv, Now
<1>4. ASSUME NEW s, NEW later \in BOOLEAN, stale => later, stale' = later,
             Changes(Now, s, Had, later), Becomes(s)
      PROVE  TalkInv' /\ Implements
  <2>1. /\ TalkInv'
        /\ Added(tabs, tabs') \/ Removed(tabs, tabs')
        /\ seen' = IF Calling THEN seen \cup {tabs'} ELSE seen
    BY <1>1, <1>4, ChangedTalk
  <2> QED BY <1>1, <2>1, ChangesTabs
<1>5. CASE stale' = stale /\ Becomes(Broadcast(Invalidated(WithNewTab(Now))))
  <2>1. Changes(Now, Broadcast(Invalidated(WithNewTab(Now))), Had, stale)
    BY <1>3, CommandedTabChanges
  <2>2. TalkInv' /\ Implements
    BY <1>3, <1>4, <1>5, <2>1
  <2> QED BY <1>2, <2>2 DEF DirectInv
<1>6. ASSUME stale' = stale, NEW i \in DOMAIN tabs, Becomes(CloseTab(Now, i))
      PROVE  DirectInv' /\ Implements
  <2>1. Changes(Now, CloseTab(Now, i), Had, stale)
    BY <1>3, <1>6, CloseTabChanges
  <2>2. TalkInv' /\ Implements
    BY <1>3, <1>4, <1>6, <2>1
  <2> QED BY <1>2, <2>2 DEF DirectInv
<1>7. CASE stale' = stale /\ Becomes(Output(Now))
  <2>1. Serves(Now, Output(Now), Had, stale)
    BY <1>3, OutputServes
  <2>2. TalkInv' /\ UNCHANGED <<tabs, seen>>
    BY <1>1, <1>7, <2>1, ServedTalk
  <2> QED BY <1>1, <1>2, <2>2, Stutters DEF DirectInv
<1>8. CASE stale' = TRUE /\ Becomes(Broadcast(WithNewTab(Now)))
  <2>1. Changes(Now, Broadcast(WithNewTab(Now)), Had, TRUE)
    BY <1>3, UncommandedTabChanges
  <2>2. TalkInv' /\ Implements
    BY <1>4, <1>8, <2>1
  <2> QED BY <1>2, <2>2 DEF DirectInv
<1>9. ASSUME stale' = TRUE, NEW i \in DOMAIN tabs, NEW watched,
             Becomes(PaneExits(Now, i, watched))
      PROVE  DirectInv' /\ Implements
  <2>1. Changes(Now, PaneExits(Now, i, watched), Had, TRUE)
    BY <1>3, <1>9, PaneExitsChanges
  <2>2. TalkInv' /\ Implements
    BY <1>4, <1>9, <2>1
  <2> QED BY <1>2, <2>2 DEF DirectInv
<1>10. CASE Commanded
  BY <1>5, <1>6, <1>7, <1>10 DEF Commanded
<1>11. CASE Uncommanded
  BY <1>8, <1>9, <1>11 DEF Uncommanded
<1> QED BY <1>1, <1>10, <1>11

\* The reader hands a command to the main thread.
LEMMA CommandSent ==
    ASSUME CallInv, NEW name \in {"connected", "list", "create", "refused"},
           NEW c, c = [conn |-> conn, name |-> name]
    PROVE  /\ Append(cmds, c) \in Seq(Commands)
           /\ \A i \in 1..Len(Append(cmds, c)) : Append(cmds, c)[i].conn <= conn
           /\ Holds(Append(cmds, c), Wanted(conn))
                 <=> Holds(cmds, Wanted(conn)) \/ name = "create"
           /\ Once(cmds, Wanted(conn)) /\ (name = "create" => ~Holds(cmds, Wanted(conn)))
                 => Once(Append(cmds, c), Wanted(conn))
<1> DEFINE q == Append(cmds, c)
           n == Len(cmds)
<1>1. /\ cmds \in Seq(Commands) /\ conn \in Nat /\ n \in Nat
      /\ \A i \in 1..n : cmds[i].conn <= conn
  BY LenProperties DEF CallInv
<1>2. c \in Commands /\ (c = Wanted(conn) <=> name = "create") /\ c.conn <= conn
  BY <1>1 DEF Commands, Wanted
<1>3. /\ q \in Seq(Commands) /\ Len(q) = n + 1
      /\ \A i \in 1..n : q[i] = cmds[i]
      /\ q[n + 1] = c
  BY <1>1, <1>2, AppendProperties
<1>4. /\ Holds(q, Wanted(conn)) <=> Holds(cmds, Wanted(conn)) \/ c = Wanted(conn)
      /\ Once(cmds, Wanted(conn)) /\ (c = Wanted(conn) => ~Holds(cmds, Wanted(conn)))
            => Once(q, Wanted(conn))
  BY <1>1, <1>2, AppendHolds
<1> HIDE DEF q, n
<1>5. \A i \in 1..(n + 1) : i \in 1..n \/ i = n + 1
  BY <1>1
<1>6. \A i \in 1..Len(q) : q[i].conn <= conn
  BY <1>1, <1>2, <1>3, <1>5
<1> QED BY <1>2, <1>3, <1>4, <1>6 DEF q

LEMMA AcceptStep ==
    ASSUME DirectInv, Accept
    PROVE  DirectInv' /\ Implements
<1> DEFINE c == [conn |-> conn, name |-> "connected"]
           sent == Append(cmds, c)
<1>1. /\ TalkInv /\ CallInv /\ OneTabInv /\ ~view.on
      /\ view' = [NoView EXCEPT !.on = TRUE]
      /\ cmds' = sent
      /\ UNCHANGED <<panes, tabs, active, tabId, cache, up, queue, wire, conn, call, seen, made,
                     stale>>
  BY DEF DirectInv, Accept
<1>2. /\ sent \in Seq(Commands)
      /\ \A i \in 1..Len(sent) : sent[i].conn <= conn
      /\ Holds(sent, Wanted(conn)) <=> Holds(cmds, Wanted(conn))
      /\ Once(cmds, Wanted(conn)) => Once(sent, Wanted(conn))
  <2>1. \A x : x = c => /\ Append(cmds, x) \in Seq(Commands)
                        /\ \A i \in 1..Len(Append(cmds, x)) : Append(cmds, x)[i].conn <= conn
                        /\ Holds(Append(cmds, x), Wanted(conn)) <=> Holds(cmds, Wanted(conn))
                        /\ Once(cmds, Wanted(conn)) => Once(Append(cmds, x), Wanted(conn))
    BY <1>1, CommandSent
  <2> QED BY <2>1
<1> HIDE DEF sent
<1>3. CallInv'
  BY <1>1, <1>2 DEF CallInv, Calling
<1>4. (Calling /\ call.step # "create")' <=> (Calling /\ call.step # "create")
  BY <1>1 DEF Calling
<1>5. OneTabInv'
  BY <1>1, <1>2, <1>4 DEF OneTabInv, OneTab
<1>6. TalkInv'
  <2>1. view' \in Views(Had, stale) /\ view'.on
    BY <1>1 DEF NoView, Views, Ids
  <2>2. /\ queue' \in Seq(Sent(Had, stale)) /\ wire' \in Seq(Sent(Had, stale))
        /\ (~Calling => wire' = <<>>) /\ (Calling' <=> Calling)
    BY <1>1, HadType DEF TalkInv, Calling
  <2> QED BY <1>1, <2>1, <2>2, TalkMoves
<1> QED BY <1>1, <1>3, <1>5, <1>6, Stutters DEF DirectInv

LEMMA ReadStep ==
    ASSUME DirectInv, Read
    PROVE  DirectInv' /\ Implements
<1> DEFINE req == Head(up)
           rest == Tail(up)
<1>1. /\ TalkInv /\ CallInv /\ OneTabInv /\ view.on /\ up # <<>>
      /\ up' = rest
      /\ queue' = CASE req = "auth" -> Append(queue, Priority("authok"))
                    [] req = "beat" -> Append(queue, Priority("ack"))
                    [] req \in {"list", "create"} -> queue
      /\ cmds' = CASE req = "auth" -> Append(cmds, [conn |-> conn, name |-> "connected"])
                   [] req = "beat" -> cmds
                   [] req \in {"list", "create"} -> Append(cmds, [conn |-> conn, name |-> req])
      /\ UNCHANGED <<panes, tabs, active, tabId, cache, view, wire, conn, call, seen, made, stale>>
  BY DEF DirectInv, Read
<1>2. up \in Seq(Requests)
  BY <1>1 DEF CallInv
<1>3. req \in Requests /\ rest \in Seq(Requests)
  BY <1>1, <1>2, HeadTailProperties
<1>4. /\ Holds(rest, "create") => Holds(up, "create")
      /\ req = "create" => Holds(up, "create")
      /\ Once(up, "create") => Once(rest, "create") /\ (req = "create" => ~Holds(rest, "create"))
  BY <1>1, <1>2, TailHolds
<1> HIDE DEF req, rest
<1>5. (Calling /\ call.step # "create")' <=> (Calling /\ call.step # "create")
  BY <1>1 DEF Calling
<1>6. TalkInv'
  <2>1. queue \in Seq(Sent(Had, stale)) /\ view \in Views(Had, stale) /\ stale \in BOOLEAN
    BY <1>1, HadType DEF TalkInv
  <2>2. \A what \in {"authok", "ack"} : Append(queue, Priority(what)) \in Seq(Sent(Had, stale))
    BY <2>1, SentMessages, AppendProperties
  <2>3. queue' \in Seq(Sent(Had, stale))
    BY <1>1, <1>3, <2>1, <2>2 DEF Requests
  <2>4. /\ wire' \in Seq(Sent(Had, stale)) /\ (~Calling => wire' = <<>>)
        /\ (Calling' <=> Calling)
    BY <1>1 DEF TalkInv, Calling
  <2> QED BY <1>1, <2>1, <2>3, <2>4, TalkMoves
<1>7. CallInv' /\ OneTabInv'
  <2>1. CASE req = "beat"
    <3>1. cmds' = cmds
      BY <1>1, <2>1
    <3> QED BY <1>1, <1>3, <1>4, <1>5, <3>1 DEF CallInv, OneTabInv, OneTab, Calling
  <2>2. ASSUME NEW name \in {"connected", "list", "create"},
               name = "create" <=> req = "create",
               cmds' = Append(cmds, [conn |-> conn, name |-> name])
        PROVE  CallInv' /\ OneTabInv'
    <3> DEFINE c == [conn |-> conn, name |-> name]
               sent == Append(cmds, c)
    <3>1. /\ sent \in Seq(Commands)
          /\ \A i \in 1..Len(sent) : sent[i].conn <= conn
          /\ Holds(sent, Wanted(conn)) <=> Holds(cmds, Wanted(conn)) \/ name = "create"
          /\ Once(cmds, Wanted(conn)) /\ (name = "create" => ~Holds(cmds, Wanted(conn)))
                => Once(sent, Wanted(conn))
      <4> HIDE DEF c
      <4>1. name \in {"connected", "list", "create", "refused"} /\ CallInv
            /\ c = [conn |-> conn, name |-> name]
        BY <1>1 DEF c
      <4> QED BY <4>1, CommandSent
    <3>2. cmds' = sent
      BY <2>2
    <3> HIDE DEF sent
    <3>3. CallInv'
      BY <1>1, <1>3, <3>1, <3>2 DEF CallInv, Calling
    <3>4. OneTab(up, cmds, conn, made, Calling /\ call.step # "create")
      BY <1>1 DEF OneTabInv
    <3>5. OneTab(rest, sent, conn, made, Calling /\ call.step # "create")
      BY <1>4, <2>2, <3>1, <3>4 DEF OneTab
    <3> QED BY <1>1, <1>5, <3>2, <3>3, <3>5 DEF OneTabInv
  <2>3. CASE req = "auth"
    <3>1. cmds' = Append(cmds, [conn |-> conn, name |-> "connected"])
      BY <1>1, <2>3
    <3> QED BY <2>2, <2>3, <3>1
  <2>4. CASE req \in {"list", "create"}
    <3>1. cmds' = Append(cmds, [conn |-> conn, name |-> req])
      BY <1>1, <2>4
    <3> QED BY <2>2, <2>4, <3>1
  <2> QED BY <1>3, <2>1, <2>3, <2>4 DEF Requests
<1> QED BY <1>1, <1>6, <1>7, Stutters DEF DirectInv

LEMMA DisconnectStep ==
    ASSUME DirectInv, Disconnect
    PROVE  DirectInv' /\ Implements
<1>1. /\ TalkInv /\ CallInv /\ OneTabInv /\ ~Calling
      /\ view' = NoView /\ queue' = <<>>
      /\ UNCHANGED <<panes, tabs, active, tabId, cache, up, cmds, wire, conn, call, seen, made,
                     stale>>
  BY DEF DirectInv, Disconnect
<1>2. CallInv' /\ OneTabInv'
  BY <1>1 DEF CallInv, OneTabInv, Calling
<1>3. TalkInv'
  <2>1. view' \in Views(Had, stale)
    BY <1>1 DEF NoView, Views, Ids
  <2>2. queue' \in Seq(Sent(Had, stale))
    BY <1>1, EmptySeq
  <2>3. wire' \in Seq(Sent(Had, stale)) /\ (~Calling => wire' = <<>>) /\ (Calling' <=> Calling)
    BY <1>1 DEF TalkInv, Calling
  <2> QED BY <1>1, <2>1, <2>2, <2>3, TalkMoves
<1> QED BY <1>1, <1>2, <1>3, Stutters DEF DirectInv

LEMMA WriteStep ==
    ASSUME DirectInv, Write
    PROVE  DirectInv' /\ Implements
<1>1. /\ TalkInv /\ CallInv /\ OneTabInv /\ Calling
      /\ UNCHANGED <<panes, tabs, active, tabId, cache, view, up, cmds, conn, call, seen, made,
                     stale>>
  BY DEF DirectInv, Write
<1>2. PICK n \in 1..Len(queue) :
         /\ wire' = wire \o Out!Batch(SubSeq(queue, 1, n))
         /\ queue' = SubSeq(queue, n + 1, Len(queue))
  BY DEF DirectInv, Write
<1>3. CallInv' /\ OneTabInv'
  BY <1>1 DEF CallInv, OneTabInv, Calling
<1> DEFINE M == Sent(Had, stale)
           p == SubSeq(queue, 1, n)
           b == Out!Batch(p)
<1>4. /\ queue \in Seq(M) /\ wire \in Seq(M) /\ view \in Views(Had, stale)
      /\ view.on /\ Sendable(M)
  <2>1. queue # <<>>
    BY <1>1, <1>2, HadType, EmptySeq
  <2> QED BY <1>1, <2>1, HadType, SentSendable DEF TalkInv, Good, Now
<1> HIDE DEF M
<1>5. Len(queue) \in Nat /\ \A i \in 1..Len(queue) : queue[i] \in M
  BY <1>4, LenProperties, ElementOfSeq
<1>6. p \in Seq(M) /\ SubSeq(queue, n + 1, Len(queue)) \in Seq(M)
  <2>1. /\ n \in Int /\ n + 1 \in Int /\ Len(queue) \in Int /\ 1 \in Int
        /\ \A i \in 1..n : i \in 1..Len(queue)
        /\ \A i \in (n + 1)..Len(queue) : i \in 1..Len(queue)
    BY <1>5
  <2>2. (\A i \in 1..n : queue[i] \in M) /\ \A i \in (n + 1)..Len(queue) : queue[i] \in M
    BY <1>5, <2>1
  <2> QED BY <2>1, <2>2, SubSeqProperties
<1> HIDE DEF p
<1>7. b \in Seq(M)
  BY <1>4, <1>6, BatchType
<1> HIDE DEF b
<1>8. wire \o b \in Seq(M)
  BY <1>4, <1>7, ConcatProperties
<1>9. TalkInv'
  <2>1. wire' \in Seq(M) /\ queue' \in Seq(M)
    BY <1>2, <1>6, <1>8 DEF b, p
  <2>2. view'.on /\ (Calling' <=> Calling)
    BY <1>1, <1>4 DEF Calling
  <2> QED BY <1>1, <1>4, <2>1, <2>2, TalkMoves DEF M
<1> QED BY <1>1, <1>3, <1>9, Stutters DEF DirectInv

\* Nothing is left of the last connection.
LEMMA BeginStep ==
    ASSUME DirectInv, Begin
    PROVE  DirectInv' /\ Implements
<1>1. /\ TalkInv /\ CallInv /\ OneTabInv /\ ~Calling /\ ~view.on /\ up = <<>>
      /\ conn' = conn + 1 /\ up' = <<"auth">>
      /\ seen' = {tabs} /\ made' = 0
      /\ UNCHANGED <<panes, tabs, active, tabId, cache, view, cmds, queue, wire, stale>>
  BY DEF DirectInv, Begin
<1>2. PICK job \in Jobs :
         call' = [name |-> job, step |-> "auth", skipped |-> 0, answer |-> <<>>, sure |-> TRUE]
  BY DEF DirectInv, Begin
<1>3. Calling' /\ call'.step = "auth" /\ call'.name = job
  BY <1>2 DEF Calling
<1>4. tabs \in Seq(Nat) /\ view = NoView /\ queue = <<>> /\ wire = <<>> /\ Had' = {tabs}
  BY <1>1, <1>3, HadType DEF TalkInv, Good, Now, Had
<1>5. TalkInv'
  <2> DEFINE lists == {tabs}
             s == Now
  <2>1. /\ Good(s, Had, stale) /\ Fresh(s, stale)
        /\ s.view = NoView /\ s.queue = <<>> /\ s.tabs = tabs
    BY <1>1, <1>4 DEF TalkInv, Now
  <2>2. NoView \in Views(lists, stale)
    BY DEF NoView, Views, Ids
  <2>3. <<>> \in Seq(Sent(lists, stale))
    BY EmptySeq
  <2>4. s \in Server(lists, stale)
    BY <2>1, <2>2, <2>3 DEF Good, Server
  <2>5. Now' = s
    BY <1>1 DEF Now
  <2> HIDE DEF s
  <2>6. Good(s, lists, stale)
    BY <2>1, <2>4 DEF Good
  <2>7. lists \subseteq Seq(Nat)
    BY <1>4
  <2> HIDE DEF lists
  <2>8. Had' = lists /\ seen' = lists
    BY <1>1, <1>4 DEF lists
  <2> QED BY <1>1, <1>3, <1>4, <2>1, <2>3, <2>5, <2>6, <2>7, <2>8 DEF TalkInv
<1>6. CallInv'
  <2>1. conn \in Nat /\ conn + 1 \in Nat /\ cmds \in Seq(Commands)
        /\ \A i \in 1..Len(cmds) : cmds[i].conn <= conn + 1
    <3>1. /\ conn \in Nat /\ cmds \in Seq(Commands)
          /\ \A i \in 1..Len(cmds) : cmds[i].conn <= conn /\ cmds[i] \in Commands
      BY <1>1, ElementOfSeq DEF CallInv
    <3>2. \A x \in Nat : x <= conn => x <= conn + 1
      BY <3>1
    <3> QED BY <3>1, <3>2 DEF Commands
  <2>2. call' \in [name : Jobs \cup {"none", "probed", "listed", "created", "failed"},
                   step : Requests \cup {"off"}, skipped : Nat, answer : Seq(Nat),
                   sure : BOOLEAN]
    BY <1>2, EmptySeq DEF Requests
  <2>3. up' \in Seq(Requests)
    BY <1>1 DEF Requests
  <2> QED BY <1>1, <1>3, <2>1, <2>2, <2>3 DEF CallInv
<1>7. OneTabInv'
  <2> DEFINE q == <<"auth">>
  <2>1. ~Holds(q, "create") /\ Once(q, "create")
    BY DEF Holds, Once
  <2>2. ~Holds(cmds, Wanted(conn + 1)) /\ Once(cmds, Wanted(conn + 1))
    <3>1. \A i \in 1..Len(cmds) : cmds[i].conn # conn + 1
      <4>1. /\ conn \in Nat /\ cmds \in Seq(Commands)
            /\ \A i \in 1..Len(cmds) : cmds[i].conn <= conn
        BY <1>1 DEF CallInv
      <4>2. \A x \in Nat : x <= conn => x # conn + 1
        BY <4>1
      <4>3. \A i \in 1..Len(cmds) : cmds[i] \in Commands
        BY <4>1, ElementOfSeq
      <4> QED BY <4>1, <4>2, <4>3 DEF Commands
    <3>2. \A i \in 1..Len(cmds) : cmds[i] # Wanted(conn + 1)
      BY <3>1 DEF Wanted
    <3> QED BY <3>2 DEF Holds, Once
  <2> HIDE DEF q
  <2>3. up' = q /\ cmds' = cmds /\ conn' = conn + 1 /\ made' = 0
    BY <1>1 DEF q
  <2> QED BY <2>1, <2>2, <2>3 DEF OneTabInv, OneTab
<1>8. Service!Begin
  <2>1. SureAnswer' = [name |-> job, answer |-> <<>>] /\ job \in Service!Jobs
    BY <1>2 DEF SureAnswer, Answer, Jobs, Service!Jobs
  <2> QED BY <1>1, <2>1, ServiceCalling DEF Service!Begin
<1> QED BY <1>5, <1>6, <1>7, <1>8 DEF DirectInv, Implements, Service!Next

LEMMA Ends ==
    ASSUME DirectInv, NEW name \in {"probed", "listed", "created", "failed"},
           NEW answer \in Seq(Nat), End(name, answer),
           UNCHANGED <<panes, tabs, active, tabId, cache, view, cmds, queue, conn, seen, made,
                       stale>>
    PROVE  DirectInv'
<1>1. TalkInv /\ CallInv /\ OneTabInv /\ wire' = <<>>
      /\ call' = [name |-> name, step |-> "off", skipped |-> 0, answer |-> answer,
                  sure |-> ~stale]
  BY DEF DirectInv, End
<1>2. ~Calling' /\ call'.step = "off"
  BY <1>1 DEF Calling, Jobs
<1>3. PICK n \in 0..Len(up) : up' = SubSeq(up, 1, n)
  BY DEF End
<1> DEFINE rest == SubSeq(up, 1, n)
<1>4. /\ rest \in Seq(Requests)
      /\ Holds(rest, "create") => Holds(up, "create")
      /\ Once(up, "create") => Once(rest, "create")
  <2>1. up \in Seq(Requests)
    BY <1>1 DEF CallInv
  <2> QED BY <2>1, PrefixHolds
<1>5. up' = rest
  BY <1>3
<1> HIDE DEF rest
<1>6. TalkInv'
  BY <1>1, <1>2, TalkEnds
<1>7. CallInv'
  <2>1. call' \in [name : Jobs \cup {"none", "probed", "listed", "created", "failed"},
                   step : Requests \cup {"off"}, skipped : Nat, answer : Seq(Nat),
                   sure : BOOLEAN]
    BY <1>1
  <2> QED BY <1>1, <1>2, <1>4, <1>5, <2>1 DEF CallInv
<1>8. OneTabInv'
  BY <1>1, <1>2, <1>4, <1>5 DEF OneTabInv, OneTab
<1> QED BY <1>6, <1>7, <1>8 DEF DirectInv

\* What a call may end with.
LEMMA EndReturns ==
    ASSUME CallInv, Calling, NEW name, NEW answer, End(name, answer),
           UNCHANGED <<tabs, seen, made>>,
           \/ name = "failed" /\ answer = <<>>
           \/ name = "probed" /\ answer = <<>> /\ call.name = "probe"
           \/ name = "listed" /\ call.name = "list" /\ (stale \/ answer \in seen)
           \/ /\ name = "created" /\ call.name = "create"
              /\ \E list \in seen : \E id \in ToSet(list) : answer = <<id>>
    PROVE  Implements
<1>1. call' = [name |-> name, step |-> "off", skipped |-> 0, answer |-> answer,
               sure |-> ~stale]
  BY DEF End
<1>2. SureAnswer.name = call.name
  BY DEF SureAnswer, Answer, Calling, Jobs
<1>3. SureAnswer' = IF name = "listed" /\ stale
                    THEN [name |-> "failed", answer |-> <<>>]
                    ELSE [name |-> name, answer |-> answer]
  BY <1>1 DEF SureAnswer, Answer
<1>4. \A list : Service!ToSet(list) = ToSet(list)
  BY DEF Service!ToSet, ToSet
<1>5. Service!Return
  BY <1>2, <1>3, <1>4, ServiceCalling DEF Service!Return
<1> QED BY <1>5 DEF Implements, Service!Next

LEMMA LostStep ==
    ASSUME DirectInv, Lost
    PROVE  DirectInv' /\ Implements
<1>1. /\ CallInv /\ Calling /\ End("failed", <<>>)
      /\ UNCHANGED <<panes, tabs, active, tabId, cache, view, cmds, queue, conn, seen, made,
                     stale>>
  BY DEF DirectInv, Lost
<1>2. <<>> \in Seq(Nat)
  BY EmptySeq
<1>3. DirectInv'
  BY <1>1, <1>2, Ends
<1>4. Implements
  BY <1>1, EndReturns
<1> QED BY <1>3, <1>4

\* The next message is read and the call goes on.
LEMMA GoesOn ==
    ASSUME DirectInv, Calling, wire # <<>>, wire' = Tail(wire),
           UNCHANGED <<panes, tabs, active, tabId, cache, view, cmds, queue, conn, seen, made,
                       stale>>,
           Calling'
    PROVE  TalkInv'
<1>1. /\ view \in Views(Had, stale) /\ queue \in Seq(Sent(Had, stale))
      /\ wire \in Seq(Sent(Had, stale))
      /\ view.on \/ (view = NoView /\ queue = <<>>)
      /\ TalkInv
  BY HadType DEF DirectInv, TalkInv, Good, Now
<1>2. Tail(wire) \in Seq(Sent(Had, stale))
  BY <1>1, HeadTailProperties
<1> QED BY <1>1, <1>2, TalkMoves

LEMMA Asks ==
    ASSUME DirectInv, Calling, wire # <<>>, call.step \in {"auth", "beat"},
           NEW step \in {"beat", "list", "create"}, step # "beat" => call.name = step,
           Ask(step),
           UNCHANGED <<panes, tabs, active, tabId, cache, view, cmds, queue, conn, seen, made,
                       stale>>
    PROVE  DirectInv' /\ Implements
<1> DEFINE asked == Append(up, step)
<1>1. /\ TalkInv /\ CallInv /\ OneTabInv
      /\ call' = [call EXCEPT !.step = step, !.skipped = 0]
      /\ up' = asked /\ wire' = Tail(wire)
  BY DEF DirectInv, Ask
<1>2. call' \in [name : Jobs \cup {"none", "probed", "listed", "created", "failed"},
                 step : Requests \cup {"off"}, skipped : Nat, answer : Seq(Nat),
                 sure : BOOLEAN]
  BY <1>1 DEF CallInv, Requests
<1>3. /\ call'.name = call.name /\ call'.step = step
      /\ call'.answer = call.answer /\ call'.sure = call.sure
  BY <1>1 DEF CallInv
<1>4. Calling'
  BY <1>3 DEF Calling
<1>5. TalkInv'
  BY <1>1, <1>4, GoesOn
<1>6. /\ asked \in Seq(Requests)
      /\ Holds(asked, "create") <=> Holds(up, "create") \/ step = "create"
      /\ Once(up, "create") /\ (step = "create" => ~Holds(up, "create"))
            => Once(asked, "create")
  <2>1. up \in Seq(Requests) /\ step \in Requests
    BY <1>1 DEF CallInv, Requests
  <2> QED BY <2>1, AppendProperties, AppendHolds
<1> HIDE DEF asked
<1>7. CallInv'
  BY <1>1, <1>2, <1>3, <1>4, <1>6 DEF CallInv
<1>8. OneTabInv'
  BY <1>1, <1>3, <1>6 DEF OneTabInv, OneTab
<1>9. Implements
  <2>1. SureAnswer' = SureAnswer
    BY <1>3 DEF SureAnswer, Answer
  <2> QED BY <2>1 DEF Implements, Service!vars
<1> QED BY <1>1, <1>5, <1>7, <1>8, <1>9 DEF DirectInv

\* A message that is not the answer.
LEMMA Passes ==
    ASSUME DirectInv, Calling, wire # <<>>, wire' = Tail(wire), UNCHANGED up,
           NEW n \in Nat, call' = [call EXCEPT !.skipped = n],
           UNCHANGED <<panes, tabs, active, tabId, cache, view, cmds, queue, conn, seen, made,
                       stale>>
    PROVE  DirectInv' /\ Implements
<1>1. TalkInv /\ CallInv /\ OneTabInv
  BY DEF DirectInv
<1>2. call' \in [name : Jobs \cup {"none", "probed", "listed", "created", "failed"},
                 step : Requests \cup {"off"}, skipped : Nat, answer : Seq(Nat),
                 sure : BOOLEAN]
  BY <1>1 DEF CallInv
<1>3. /\ call'.name = call.name /\ call'.step = call.step
      /\ call'.answer = call.answer /\ call'.sure = call.sure
  BY <1>1 DEF CallInv
<1>4. Calling' <=> Calling
  BY <1>3 DEF Calling
<1>5. TalkInv'
  BY <1>4, GoesOn
<1>6. CallInv' /\ OneTabInv'
  BY <1>1, <1>2, <1>3, <1>4 DEF CallInv, OneTabInv
<1>7. SureAnswer' = SureAnswer
  BY <1>3 DEF SureAnswer, Answer
<1>8. Implements
  BY <1>7 DEF Implements, Service!vars
<1> QED BY <1>1, <1>5, <1>6, <1>8 DEF DirectInv

\* What the list and the tab that are printed may be.
LEMMA AnswersOfTheCall ==
    ASSUME TalkInv, Calling, NEW m \in Sent(Had, stale)
    PROVE  /\ IsControl(m, "tabs") =>
                 m.value \in Seq(Nat) /\ (stale \/ m.value \in seen)
           /\ IsControl(m, "state") /\ m.value # 0 =>
                 /\ <<m.value>> \in Seq(Nat)
                 /\ \E list \in seen : m.value \in ToSet(list)
<1>1. Had = seen /\ seen \subseteq Seq(Nat)
  BY DEF Had, TalkInv
<1>2. ASSUME IsControl(m, "tabs")
      PROVE  m.value \in Seq(Nat) /\ (stale \/ m.value \in seen)
  <2>1. m.value \in (IF stale THEN Seq(Nat) ELSE seen)
    BY <1>1, <1>2 DEF Sent, IsControl
  <2> QED BY <1>1, <2>1
<1>3. ASSUME IsControl(m, "state"), m.value # 0
      PROVE  /\ <<m.value>> \in Seq(Nat)
             /\ \E list \in seen : m.value \in ToSet(list)
  <2>1. m.value \in Ids(seen)
    BY <1>1, <1>3 DEF Sent, IsControl
  <2>2. PICK list \in seen : m.value \in ToSet(list)
    BY <1>3, <2>1 DEF Ids
  <2>3. list \in Seq(Nat)
    BY <1>1
  <2>4. DOMAIN list = 1..Len(list) /\ \A i \in 1..Len(list) : list[i] \in Nat
    BY <2>3, LenProperties, ElementOfSeq
  <2>5. m.value \in Nat
    BY <2>2, <2>4 DEF ToSet
  <2> DEFINE v == m.value
  <2> HIDE DEF v
  <2>6. v \in Nat
    BY <2>5 DEF v
  <2>7. <<v>> \in Seq(Nat)
    BY <2>6
  <2> QED BY <2>2, <2>7 DEF v
<1> QED BY <1>2, <1>3

LEMMA ReceiveStep ==
    ASSUME DirectInv, Receive
    PROVE  DirectInv' /\ Implements
<1> DEFINE m == Head(wire)
<1>1. /\ TalkInv /\ CallInv /\ Calling /\ wire # <<>>
      /\ Answered \/ Listed \/ Skip \/ Created \/ Rejected \/ PassOver
      /\ UNCHANGED <<panes, tabs, active, tabId, cache, view, cmds, queue, conn, seen, made,
                     stale>>
  BY DEF DirectInv, Receive, server
<1>2. m \in Sent(Had, stale)
  BY <1>1, HeadTailProperties DEF TalkInv
<1>3. <<>> \in Seq(Nat) /\ call.name \in Jobs
  BY <1>1, EmptySeq DEF Calling
<1>4. CASE Answered
  <2>1. CASE call.step = "auth"
    <3>1. Ask("beat")
      BY <1>4, <2>1 DEF Answered
    <3> QED BY <1>1, <2>1, <3>1, Asks
  <2>2. CASE call.step = "beat" /\ call.name = "probe"
    <3>1. End("probed", <<>>)
      BY <1>4, <2>2 DEF Answered
    <3>2. DirectInv'
      BY <1>1, <1>3, <3>1, Ends
    <3>3. Implements
      BY <1>1, <2>2, <3>1, EndReturns
    <3> QED BY <3>2, <3>3
  <2>3. CASE call.step = "beat" /\ call.name # "probe"
    <3>1. Ask(call.name) /\ call.name \in {"list", "create"}
      BY <1>3, <1>4, <2>3 DEF Answered, Jobs
    <3>2. ASSUME NEW step \in {"list", "create"}, call.name = step
          PROVE  DirectInv' /\ Implements
      <4>1. Ask(step)
        BY <3>1, <3>2
      <4> QED BY <1>1, <2>3, <3>2, <4>1, Asks
    <3> QED BY <3>1, <3>2
  <2> QED BY <1>4, <2>1, <2>2, <2>3 DEF Answered
<1>5. CASE Listed
  <2>1. /\ call.step = "list" /\ IsControl(m, "tabs") /\ End("listed", m.value)
    BY <1>5 DEF Listed, Expected
  <2>2. call.name = "list"
    BY <1>1, <2>1 DEF CallInv
  <2> DEFINE answer == m.value
  <2>3. answer \in Seq(Nat) /\ (stale \/ answer \in seen) /\ End("listed", answer)
    BY <1>1, <1>2, <2>1, AnswersOfTheCall
  <2> HIDE DEF answer
  <2>4. DirectInv'
    BY <1>1, <2>3, Ends
  <2>5. Implements
    BY <1>1, <2>2, <2>3, EndReturns
  <2> QED BY <2>4, <2>5
<1>6. CASE Skip
  <2>1. CASE call.skipped + 1 = MaxReads
    <3>1. End("failed", <<>>)
      BY <1>6, <2>1 DEF Skip
    <3>2. DirectInv'
      BY <1>1, <1>3, <3>1, Ends
    <3>3. Implements
      BY <1>1, <3>1, EndReturns
    <3> QED BY <3>2, <3>3
  <2>2. CASE call.skipped + 1 # MaxReads
    <3> DEFINE n == call.skipped + 1
    <3>1. n \in Nat
      BY <1>1 DEF CallInv
    <3>2. call' = [call EXCEPT !.skipped = n] /\ wire' = Tail(wire) /\ UNCHANGED up
      BY <1>6, <2>2 DEF Skip
    <3> HIDE DEF n
    <3> QED BY <1>1, <3>1, <3>2, Passes
  <2> QED BY <2>1, <2>2
<1>7. CASE Created
  <2>1. /\ call.step = "create" /\ IsControl(m, "state") /\ m.value # 0
        /\ End("created", <<m.value>>)
    BY <1>7 DEF Created
  <2>2. call.name = "create"
    BY <1>1, <2>1 DEF CallInv
  <2> DEFINE answer == <<m.value>>
  <2>3. /\ answer \in Seq(Nat) /\ End("created", answer)
        /\ \E list \in seen : \E id \in ToSet(list) : answer = <<id>>
    BY <1>1, <1>2, <2>1, AnswersOfTheCall
  <2> HIDE DEF answer
  <2>4. DirectInv'
    BY <1>1, <2>3, Ends
  <2>5. Implements
    BY <1>1, <2>2, <2>3, EndReturns
  <2> QED BY <2>4, <2>5
<1>8. CASE Rejected
  <2>1. End("failed", <<>>)
    BY <1>8 DEF Rejected
  <2>2. DirectInv'
    BY <1>1, <1>3, <2>1, Ends
  <2>3. Implements
    BY <1>1, <2>1, EndReturns
  <2> QED BY <2>2, <2>3
<1>9. CASE PassOver
  <2> DEFINE n == call.skipped
  <2>1. n \in Nat /\ call = [call EXCEPT !.skipped = n]
    BY <1>1 DEF CallInv
  <2>2. wire' = Tail(wire) /\ UNCHANGED <<up, call>>
    BY <1>9 DEF PassOver
  <2> HIDE DEF n
  <2>3. call' = [call EXCEPT !.skipped = n]
    BY <2>1, <2>2
  <2> QED BY <1>1, <2>1, <2>2, <2>3, Passes
<1> QED BY <1>1, <1>4, <1>5, <1>6, <1>7, <1>8, <1>9

LEMMA InitDirectInv ==
    ASSUME Init
    PROVE  DirectInv /\ Service!Init
<1>1. PICK n \in 0..MaxTabs : tabs = [i \in 1..n |-> i]
  BY DEF Init
<1>2. /\ panes \in Nat /\ n \in Nat
      /\ active = Len(tabs) /\ tabId = Len(tabs)
      /\ cache = {} /\ view = NoView /\ up = <<>> /\ cmds = <<>> /\ queue = <<>> /\ wire = <<>>
      /\ conn = 0
      /\ call = [name |-> "none", step |-> "off", skipped |-> 0, answer |-> <<>>, sure |-> TRUE]
      /\ seen = {tabs} /\ made = 0 /\ stale = FALSE
  BY DirectAssumption DEF Init
<1>3. tabs \in [1..n -> Nat] /\ \A i \in 1..n : tabs[i] = i
  BY <1>1
<1>4. tabs \in Seq(Nat) /\ Len(tabs) = n /\ DOMAIN tabs = 1..n
  BY <1>2, <1>3, SeqDef, LenProperties
<1>5. ToSet(tabs) \subseteq 1..n
  BY <1>3, <1>4 DEF ToSet
<1>6. active \in (IF tabs = <<>> THEN {0} ELSE 1..Len(tabs))
  <2>1. CASE tabs = <<>>
    BY <1>2, <2>1
  <2>2. CASE tabs # <<>>
    <3>1. Len(tabs) # 0
      BY <1>4, <2>2, EmptySeq
    <3>2. n \in 1..n
      BY <1>2, <1>4, <3>1
    <3> QED BY <1>2, <1>4, <2>2, <3>2
  <2> QED BY <2>1, <2>2
<1>7. ~Calling
  BY <1>2 DEF Calling, Jobs
<1>8. Had = Seq(Nat)
  BY <1>7 DEF Had
<1>9. TalkInv
  <2> DEFINE lists == Seq(Nat)
             s == Now
  <2>1. NoView \in Views(lists, FALSE)
    BY DEF NoView, Views, Ids
  <2>2. <<>> \in Seq(Sent(lists, FALSE))
    BY EmptySeq
  <2>3. /\ s.tabs = tabs /\ s.active = active /\ s.tabId = tabId /\ s.cache = {}
        /\ s.view = NoView /\ s.queue = <<>>
    BY <1>2 DEF Now
  <2>4. tabs \in lists /\ active \in Nat /\ tabId \in Nat
    BY <1>2, <1>4
  <2>5. s \in Server(lists, FALSE)
    <3> HIDE DEF lists
    <3> QED BY <1>2, <2>1, <2>2, <2>4 DEF Server, Now
  <2> HIDE DEF s, lists
  <2>6. Good(s, lists, FALSE)
    BY <1>2, <1>4, <1>5, <1>6, <2>3, <2>5 DEF Good
  <2>7. Fresh(s, FALSE)
    BY <2>3 DEF Fresh
  <2>8. seen \subseteq Seq(Nat)
    BY <1>2, <1>4
  <2> QED BY <1>2, <1>8, <2>2, <2>6, <2>7, <2>8 DEF TalkInv, s, lists
<1>10. CallInv
  <2>1. call \in [name : Jobs \cup {"none", "probed", "listed", "created", "failed"},
                  step : Requests \cup {"off"}, skipped : Nat, answer : Seq(Nat),
                  sure : BOOLEAN]
    BY <1>2, EmptySeq
  <2>2. up \in Seq(Requests) /\ cmds \in Seq(Commands) /\ Len(cmds) = 0
    BY <1>2, EmptySeq
  <2>3. call.step = "off"
    BY <1>2
  <2> QED BY <1>2, <1>7, <2>1, <2>2, <2>3 DEF CallInv
<1>11. OneTabInv
  <2>1. Len(up) = 0 /\ Len(cmds) = 0
    BY <1>2, EmptySeq
  <2>2. ~Holds(up, "create") /\ Once(up, "create")
    BY <2>1 DEF Holds, Once
  <2>3. ~Holds(cmds, Wanted(conn)) /\ Once(cmds, Wanted(conn))
    BY <2>1 DEF Holds, Once
  <2> QED BY <1>2, <2>2, <2>3 DEF OneTabInv, OneTab
<1>12. Service!Init
  BY <1>2, <1>4 DEF Service!Init, SureAnswer, Answer
<1> QED BY <1>9, <1>10, <1>11, <1>12 DEF DirectInv

LEMMA NextImplements ==
    ASSUME DirectInv, [Next]_vars
    PROVE  DirectInv' /\ Implements
<1>1. CASE Main
  BY <1>1, MainStep
<1>2. CASE CreateFails
  BY <1>2, CreateFailsStep
<1>3. CASE Elsewhere
  BY <1>3, ElsewhereStep
<1>4. CASE Accept
  BY <1>4, AcceptStep
<1>5. CASE Read
  BY <1>5, ReadStep
<1>6. CASE Disconnect
  BY <1>6, DisconnectStep
<1>7. CASE Write
  BY <1>7, WriteStep
<1>8. CASE Begin
  BY <1>8, BeginStep
<1>9. CASE Receive
  BY <1>9, ReceiveStep
<1>10. CASE Lost
  BY <1>10, LostStep
<1>11. CASE UNCHANGED vars
  <2>1. UNCHANGED <<panes, tabs, active, tabId, cache, view, up, cmds, queue, wire, conn, call,
                    seen, made, stale>>
    BY <1>11 DEF vars
  <2>2. Calling' <=> Calling
    BY <2>1 DEF Calling
  <2>3. TalkInv' /\ CallInv' /\ OneTabInv'
    BY <2>1, <2>2, TalkRests DEF DirectInv, CallInv, OneTabInv
  <2> QED BY <2>1, <2>3, Stutters DEF DirectInv
<1> QED
  BY <1>1, <1>2, <1>3, <1>4, <1>5, <1>6, <1>7, <1>8, <1>9, <1>10, <1>11 DEF Next

\* While a call waits, all that is under way to it, whatever the threads race and
\* coalesce, speaks of lists the server had during the call, and its tab is asked
\* for once.
THEOREM OnlyTheCallUnderWay == Spec => []DirectInv
<1>1. Init => DirectInv
  BY InitDirectInv
<1>2. DirectInv /\ [Next]_vars => DirectInv'
  BY NextImplements
<1>3. QED
  BY <1>1, <1>2, PTL DEF Spec

\* The daemon and the commands implement TabService: a list that is printed is
\* one the server had during the call, unless somebody has left a stale one in
\* its cache, a tab that is printed was there, and one call makes one tab at most.
THEOREM CommandsServeTabs == Spec => ServesTabs
<1>1. Init => DirectInv /\ Service!Init
  BY InitDirectInv
<1>2. DirectInv /\ [Next]_vars => DirectInv' /\ [Service!Next]_(Service!vars)
  BY NextImplements DEF Implements
<1>3. QED
  BY <1>1, <1>2, PTL DEF Spec, ServesTabs, Service!Spec
=============================================================================
