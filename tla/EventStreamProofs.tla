------------------------- MODULE EventStreamProofs -------------------------
(***************************************************************************)
(* The event stream for every number of containers and interfaces, every   *)
(* length of the channel and every order in which the goroutines run: what *)
(* is printed is current, the counter differences are possible, and what   *)
(* the watchers could see is not lost.                                     *)
(***************************************************************************)
EXTENDS EventStream, FiniteSetTheorems, TLAPS

(***************************************************************************)
(* The types.                                                              *)
(***************************************************************************)

State   == [attr : Attrs \cup {"absent"}, netem : BOOLEAN, rx : 0..MaxRx]
States  == [Interfaces -> State]
Samples == [Interfaces -> {NoSample} \cup 0..MaxRx]
Update  == [i : Interfaces, s : State]

\* What the runtime publishes, and what the first listing announces.
RuntimeEvent == [type : {"container"}, c : Containers, gen : Nat, seen : Nat,
                 action : {"start", "die", "kill", "unpause"}]
ListedEvent  == [type : {"container"}, c : Containers, gen : Nat, seen : {0},
                 action : {"running", "exited"}]

\* What the watchers send: no difference is larger than the counter.
WatcherEvent == [type : {"interface"}, c : Containers, i : Interfaces, gen : Nat,
                 action : {"snapshot", "create", "update", "delete", "stats"},
                 attr : Attrs \cup {"absent"}, netem : BOOLEAN, delta : 0..MaxRx]

Watcher == [pc : {"resolve", "snapshot", "subscribe", "loop", "remove", "done"},
            gen : Nat, attempt : Nat, cancelled : BOOLEAN, states : States,
            samples : Samples, updates : Seq(Update), out : Seq(WatcherEvent)]

WorldType ==
    /\ status \in [Containers -> {"running", "exited"}]
    /\ gen \in [Containers -> Nat]
    /\ link \in [Containers -> States]
    /\ feed \in Seq(RuntimeEvent)

ProcessType ==
    /\ listed \subseteq ListedEvent
    /\ eventCh \in Seq(RuntimeEvent \cup ListedEvent \cup WatcherEvent)
    /\ forwarder \in [pc : {"none", "idle", "stopping", "sending", "ended"},
                      ev : RuntimeEvent \cup {<<>>}]
    /\ forwarder.pc \in {"stopping", "sending"} => forwarder.ev \in RuntimeEvent
    /\ registry \subseteq Containers
    /\ dead \in [Containers -> Nat]

WatcherType == watcher \in [Containers -> Watcher]

Types == WorldType /\ ProcessType /\ WatcherType

(***************************************************************************)
(* The order of the events, in parts.                                      *)
(***************************************************************************)

\* The start of container c that is number g has ended.
Over(c, g) == g < gen[c] \/ (g = gen[c] /\ ~ Running(c))

\* The end of a container is an event only after the container has ended, wherever
\* the event has got to.
FeedOver == \A k \in DOMAIN feed : feed[k].action = "die" => Over(feed[k].c, feed[k].gen)

ForwarderOver ==
    forwarder.pc \in {"stopping", "sending"} /\ forwarder.ev.action = "die" =>
        Over(forwarder.ev.c, forwarder.ev.gen)

ChannelOver ==
    \A k \in DOMAIN eventCh : eventCh[k].action = "die" => Over(eventCh[k].c, eventCh[k].gen)

DeadOver == \A c \in Containers : Over(c, dead[c])

DiesAreOver == FeedOver /\ ForwarderOver /\ ChannelOver /\ DeadOver

\* No event of the runtime is about a start that has not happened.
NoneAhead ==
    /\ \A k \in DOMAIN feed : feed[k].gen <= gen[feed[k].c]
    /\ forwarder.pc \in {"stopping", "sending"} => forwarder.ev.gen <= gen[forwarder.ev.c]

\* A watcher is in the registry or being waited for, and one whose stop is being
\* forwarded has ended.
StoppedFirst ==
    /\ phase \in {"init", "listed"} => forwarder.pc = "none"
    /\ \A c \in Containers : watcher[c].pc # "done" =>
          c \in registry \/ (forwarder.pc = "stopping" /\ forwarder.ev.c = c)
    /\ forwarder.pc = "sending" /\ forwarder.ev.action \in Stops =>
          watcher[forwarder.ev.c].pc = "done"

\* A watcher with an open namespace: everything known to have ended ended earlier.
Active(c) == watcher[c].pc \in {"snapshot", "subscribe", "loop"}

ActiveIsLater ==
    \A c \in Containers : Active(c) =>
        /\ dead[c] < watcher[c].gen
        /\ \A k \in DOMAIN eventCh :
              eventCh[k].action = "die" /\ eventCh[k].c = c => eventCh[k].gen < watcher[c].gen

\* Only a watcher with an open namespace has something to send, about that namespace.
OutIsOwn ==
    \A c \in Containers : watcher[c].out # <<>> =>
        /\ watcher[c].pc \in {"subscribe", "loop"}
        /\ \A k \in DOMAIN watcher[c].out :
              watcher[c].out[k].c = c /\ watcher[c].out[k].gen = watcher[c].gen

\* In the channel, what follows the end of a container is about a later start.
InOrder ==
    \A k, l \in DOMAIN eventCh :
        k < l /\ eventCh[k].action = "die" /\ eventCh[l].type = "interface"
              /\ eventCh[k].c = eventCh[l].c
        => eventCh[k].gen < eventCh[l].gen

Order == /\ DiesAreOver /\ NoneAhead /\ StoppedFirst /\ ActiveIsLater /\ OutIsOwn /\ InOrder
         /\ NothingAfterDie /\ AttributesAreFresh

EventInv == Types /\ Order

(***************************************************************************)
(* Lemmas about the operators of the model.                                *)
(***************************************************************************)

\* SetToSeq enumerates a finite set: every entry is a member.
LEMMA SetToSeqMember ==
    ASSUME NEW S, IsFiniteSet(S), NEW k \in 1..Cardinality(S)
    PROVE  SetToSeq(S)[k] \in S
<1>1. Cardinality(S) \in Nat /\ ExistsBijection(1..Cardinality(S), S)
  BY FS_CardinalityType
<1>2. \E f \in [1..Cardinality(S) -> S] : IsInjective(f)
  BY <1>1 DEF ExistsBijection, Bijection, Injection, IsInjective
<1>3. SetToSeq(S) \in [1..Cardinality(S) -> S]
  BY <1>2 DEF SetToSeq
<1> QED BY <1>3

\* The constants that the model starts from have their types.
LEMMA Constants ==
    /\ Absent \in State /\ NoStates \in States /\ NoWatcher \in Watcher /\ newWatcher \in Watcher
    /\ NoWatcher.pc = "done" /\ NoWatcher.out = <<>>
    /\ newWatcher.pc = "resolve" /\ newWatcher.out = <<>>
<1>1. MaxRx \in Nat /\ 0 \in 0..MaxRx
  BY BoundsAssumption
<1>2. Absent \in State /\ NoStates \in States
  BY <1>1 DEF Absent, State, NoStates, States
<1>3. <<>> \in Seq(Update) /\ <<>> \in Seq(WatcherEvent)
  OBVIOUS
<1>4. [i \in Interfaces |-> NoSample] \in Samples
  BY DEF Samples
<1>5. NoWatcher \in Watcher /\ NoWatcher.pc = "done" /\ NoWatcher.out = <<>>
  BY <1>2, <1>3, <1>4 DEF NoWatcher, Watcher
<1>6. newWatcher \in Watcher /\ newWatcher.pc = "resolve" /\ newWatcher.out = <<>>
  BY <1>5 DEF newWatcher, Watcher
<1> QED BY <1>2, <1>5, <1>6

\* An impairment that is written into the state of an interface changes nothing else.
LEMMA NetemState ==
    ASSUME NEW s \in State, NEW b \in BOOLEAN
    PROVE  [s EXCEPT !.netem = b] \in State /\ [s EXCEPT !.netem = b].rx = s.rx
  BY DEF State

\* What Query returns, for every failure of the query, says yes or no.
LEMMA QueryType ==
    ASSUME NEW c \in Containers, NEW w, NEW infos \in Query(c, w), NEW i \in Interfaces,
           link \in [Containers -> States]
    PROVE  infos[i] \in BOOLEAN
  BY DEF Query, States, State

\* applyNetemToSnapshots returns states again.
LEMMA NetemStates ==
    ASSUME NEW s \in States, NEW infos, \A i \in Interfaces : infos[i] \in BOOLEAN
    PROVE  applyNetemToSnapshots(s, infos) \in States
<1> SUFFICES ASSUME NEW i \in Interfaces
             PROVE  [s[i] EXCEPT !.netem = i \in Present(s) /\ infos[i]] \in State
  BY DEF applyNetemToSnapshots, States
<1> DEFINE b == i \in Present(s) /\ infos[i]
<1>1. b \in BOOLEAN
  BY Zenon
<1>2. s[i] \in State
  BY DEF States
<1> HIDE DEF b
<1>3. [s[i] EXCEPT !.netem = b] \in State
  BY <1>1, <1>2, NetemState
<1> QED BY <1>3 DEF b

\* The kernel's view of a namespace has its type.
LEMMA SnapshotType ==
    ASSUME NEW c \in Containers, NEW w, link \in [Containers -> States]
    PROVE  snapshotInterfaces(c, w) \in States
  BY Constants DEF snapshotInterfaces

\* So has the first listing, also when it fails.
LEMMA ListingType ==
    ASSUME NEW c \in Containers, NEW w, link \in [Containers -> States], NEW seen \in firstListing(c, w)
    PROVE  seen \in States
  BY SnapshotType, Constants DEF firstListing

\* A sample is a value of the counter, or missing.
LEMMA SampleType ==
    ASSUME NEW s \in State
    PROVE  newStatsSample(s) \in {NoSample} \cup 0..MaxRx
  BY DEF newStatsSample, State

\* An event of a watcher carries its container and the start it has opened.
LEMMA InterfaceEventType ==
    ASSUME NEW c \in Containers, NEW i \in Interfaces, NEW w \in Watcher, NEW s \in State,
           NEW a \in {"snapshot", "create", "update", "delete", "stats"}
    PROVE  /\ interfaceEvent(c, i, a, w, s) \in WatcherEvent
           /\ interfaceEvent(c, i, a, w, s).c = c
           /\ interfaceEvent(c, i, a, w, s).gen = w.gen
<1>1. 0 \in 0..MaxRx
  BY BoundsAssumption
<1>2. w.gen \in Nat /\ s.attr \in Attrs \cup {"absent"} /\ s.netem \in BOOLEAN
  BY DEF Watcher, State
<1> QED BY <1>1, <1>2 DEF interfaceEvent, WatcherEvent

\* Between two samples the counter can have counted what deltaCounter says: at most
\* its largest value, also after it was reset.
LEMMA DeltaBounded ==
    ASSUME NEW p \in 0..MaxRx, NEW q \in 0..MaxRx
    PROVE  deltaCounter(p, q) \in 0..MaxRx
  BY BoundsAssumption DEF deltaCounter

\* The same for the event that reports the difference.
LEMMA StatsEventType ==
    ASSUME NEW c \in Containers, NEW i \in Interfaces, NEW w \in Watcher, NEW s \in State,
           w.samples[i] # NoSample
    PROVE  /\ interfaceStatsEvent(c, i, w, s) \in WatcherEvent
           /\ interfaceStatsEvent(c, i, w, s).c = c
           /\ interfaceStatsEvent(c, i, w, s).gen = w.gen
<1>1. w.samples[i] \in 0..MaxRx /\ s.rx \in 0..MaxRx
  BY DEF Watcher, Samples, State
<1>2. deltaCounter(w.samples[i], s.rx) \in 0..MaxRx
  BY <1>1, DeltaBounded
<1>3. /\ interfaceEvent(c, i, "stats", w, s) \in WatcherEvent
      /\ interfaceEvent(c, i, "stats", w, s).c = c
      /\ interfaceEvent(c, i, "stats", w, s).gen = w.gen
  BY InterfaceEventType
<1> DEFINE d == deltaCounter(w.samples[i], s.rx)
           e == interfaceEvent(c, i, "stats", w, s)
<1> HIDE DEF d, e
<1>4. /\ [e EXCEPT !.delta = d] \in WatcherEvent
      /\ [e EXCEPT !.delta = d].c = c
      /\ [e EXCEPT !.delta = d].gen = w.gen
  <2>1. e \in WatcherEvent /\ e.c = c /\ e.gen = w.gen
    BY <1>3 DEF e
  <2>2. d \in 0..MaxRx
    BY <1>2 DEF d
  <2> QED BY <2>1, <2>2 DEF WatcherEvent
<1> QED BY <1>4 DEF interfaceStatsEvent, d, e

(***************************************************************************)
(* The steps of a watcher.                                                 *)
(***************************************************************************)

\* What a watcher may become by a step of its own: it was running, a namespace it has
\* opened is the one it had or that of the present start, and what it has to send is
\* about that namespace.
Steady(c, w) ==
    /\ w \in Watcher /\ watcher[c].pc # "done"
    /\ w.pc \in {"snapshot", "subscribe", "loop"} =>
          \/ Active(c) /\ w.gen = watcher[c].gen
          \/ Running(c) /\ w.gen = gen[c]
    /\ w.out # <<>> => /\ w.pc \in {"subscribe", "loop"}
                       /\ \A k \in DOMAIN w.out : w.out[k].c = c /\ w.out[k].gen = w.gen

\* Such a step keeps the invariant.
LEMMA SteadyStep ==
    ASSUME EventInv, NEW c \in Containers, NEW w, Steady(c, w), Move(c, w),
           ProcessUnchanged, UNCHANGED <<world, dead>>
    PROVE  EventInv'
<1> USE DEF world, ProcessUnchanged
<1>1. /\ watcher' = [watcher EXCEPT ![c] = w] /\ watcher \in [Containers -> Watcher]
      /\ w \in Watcher /\ watcher[c].pc # "done"
  BY DEF Move, Steady, EventInv, Types, WatcherType
<1>2. watcher'[c] = w /\ \A d \in Containers : d # c => watcher'[d] = watcher[d]
  BY <1>1
<1>3. Types'
  <2>1. WatcherType'
    BY <1>1 DEF WatcherType
  <2> QED BY <2>1 DEF EventInv, Types, WorldType, ProcessType
<1>4. DiesAreOver' /\ NoneAhead' /\ InOrder' /\ NothingAfterDie' /\ AttributesAreFresh'
  BY DEF EventInv, Order, DiesAreOver, FeedOver, ForwarderOver, ChannelOver, DeadOver, Over,
         Running, NoneAhead, InOrder, NothingAfterDie,
         AttributesAreFresh
<1>5. StoppedFirst'
  BY <1>1, <1>2 DEF EventInv, Order, StoppedFirst, Types, ProcessType, RuntimeEvent
<1>6. ActiveIsLater'
  <2> SUFFICES ASSUME NEW d \in Containers, Active(d)'
               PROVE  /\ dead[d] < watcher'[d].gen
                      /\ \A k \in DOMAIN eventCh : eventCh[k].action = "die" /\ eventCh[k].c = d
                            => eventCh[k].gen < watcher'[d].gen
    BY DEF ActiveIsLater
  <2>1. CASE d # c \/ (Active(c) /\ w.gen = watcher[c].gen)
    BY <2>1, <1>2 DEF EventInv, Order, ActiveIsLater, Active
  <2>2. CASE d = c /\ Running(c) /\ w.gen = gen[c]
    <3>1. /\ gen[c] \in Nat /\ dead[c] \in Nat
      BY DEF EventInv, Types, WorldType, ProcessType
    <3>2. Over(c, dead[c]) /\ \A k \in DOMAIN eventCh :
             eventCh[k].action = "die" /\ eventCh[k].c = c => Over(c, eventCh[k].gen)
      BY DEF EventInv, Order, DiesAreOver, ChannelOver, DeadOver
    <3> QED BY <2>2, <3>1, <3>2, <1>2 DEF Over
  <2> QED BY <2>1, <2>2, <1>2 DEF Steady, Active
<1>7. OutIsOwn'
  BY <1>1, <1>2 DEF EventInv, Order, OutIsOwn, Steady
<1> QED BY <1>3, <1>4, <1>5, <1>6, <1>7 DEF EventInv, Order

\* run returns with nothing left to send.
LEMMA LeaveStep ==
    ASSUME EventInv, NEW c \in Containers, leave(c), watcher[c].pc # "done", watcher[c].out = <<>>,
           ProcessUnchanged, UNCHANGED <<world, dead>>
    PROVE  EventInv'
<1>1. watcher[c] \in Watcher /\ <<>> \in Seq(Update)
  BY DEF EventInv, Types, WatcherType
<1>2. Steady(c, [watcher[c] EXCEPT !.pc = "remove", !.updates = <<>>])
  BY <1>1 DEF Steady, Watcher
<1> QED BY <1>2, SteadyStep DEF leave

\* waitForNamespacePath opens the namespace of the present start.
LEMMA ResolveStep ==
    ASSUME EventInv, NEW c \in Containers, waitForNamespacePath(c)
    PROVE  EventInv'
<1>1. /\ watcher[c] \in Watcher /\ watcher[c].pc = "resolve" /\ watcher[c].out = <<>>
      /\ gen[c] \in Nat /\ ProcessUnchanged /\ UNCHANGED <<world, dead>>
  BY DEF waitForNamespacePath, Idle, EventInv, Types, WatcherType, WorldType
<1>2. CASE Running(c) /\ Move(c, [watcher[c] EXCEPT !.pc = "snapshot", !.gen = gen[c]])
  <2>1. Steady(c, [watcher[c] EXCEPT !.pc = "snapshot", !.gen = gen[c]])
    BY <1>1, <1>2 DEF Steady, Watcher
  <2> QED BY <2>1, <1>1, <1>2, SteadyStep
<1>3. CASE Move(c, [watcher[c] EXCEPT !.attempt = @ + 1])
  <2>1. Steady(c, [watcher[c] EXCEPT !.attempt = @ + 1])
    BY <1>1 DEF Steady, Watcher
  <2> QED BY <2>1, <1>1, <1>3, SteadyStep
<1>4. CASE leave(c)
  BY <1>1, <1>4, LeaveStep
<1> QED BY <1>2, <1>3, <1>4 DEF waitForNamespacePath

\* The listing is announced by events of the namespace that was listed.
LEMMA SnapshotStep ==
    ASSUME EventInv, NEW c \in Containers, runSnapshot(c)
    PROVE  EventInv'
<1>1. /\ watcher[c] \in Watcher /\ watcher[c].pc = "snapshot" /\ watcher[c].out = <<>>
      /\ link \in [Containers -> States] /\ ProcessUnchanged /\ UNCHANGED <<world, dead>>
  BY DEF runSnapshot, Idle, EventInv, Types, WatcherType, WorldType
<1>0. PICK seen \in firstListing(c, watcher[c]) : \E infos \in Query(c, watcher[c]) :
         LET w == watcher[c]
             states == applyNetemToSnapshots(seen, infos)
             announced == [k \in 1..Cardinality(Present(states)) |->
                             LET i == SetToSeq(Present(states))[k] IN
                               interfaceEvent(c, i, "snapshot", w, states[i])]
         IN  Move(c, [w EXCEPT !.pc = "subscribe", !.states = states,
                       !.samples = [i \in Interfaces |-> IF opts.stats THEN newStatsSample(states[i])
                                                         ELSE NoSample],
                       !.out = IF opts.initial THEN announced ELSE <<>>])
  BY DEF runSnapshot
<1> DEFINE St(infos) == applyNetemToSnapshots(seen, infos)
           Ann(states) == [k \in 1..Cardinality(Present(states)) |->
                             LET i == SetToSeq(Present(states))[k] IN
                               interfaceEvent(c, i, "snapshot", watcher[c], states[i])]
           Sam(states) == [i \in Interfaces |-> IF opts.stats THEN newStatsSample(states[i])
                                                ELSE NoSample]
           Out(states) == IF opts.initial THEN Ann(states) ELSE <<>>
<1>2. PICK infos \in Query(c, watcher[c]) :
         Move(c, [watcher[c] EXCEPT !.pc = "subscribe", !.states = St(infos),
                                    !.samples = Sam(St(infos)), !.out = Out(St(infos))])
  BY <1>0
<1>3. St(infos) \in States
  <2>1. \A i \in Interfaces : infos[i] \in BOOLEAN
    BY <1>1, QueryType
  <2> QED BY <1>1, <2>1, ListingType, NetemStates
<1> DEFINE st == St(infos)
<1>4. st \in States
  BY <1>3
<1>5. Move(c, [watcher[c] EXCEPT !.pc = "subscribe", !.states = st,
                                 !.samples = Sam(st), !.out = Out(st)])
  BY <1>2
<1> HIDE DEF st, St
<1>6. Sam(st) \in Samples
  BY <1>4, SampleType DEF Samples, States
<1>7. Ann(st) \in Seq(WatcherEvent) /\ \A k \in DOMAIN Ann(st) :
         Ann(st)[k].c = c /\ Ann(st)[k].gen = watcher[c].gen
  <2>1. IsFiniteSet(Present(st)) /\ Present(st) \subseteq Interfaces
    BY BoundsAssumption, FS_Subset DEF Present
  <2>2. Cardinality(Present(st)) \in Nat
    BY <2>1, FS_CardinalityType
  <2>3. \A k \in 1..Cardinality(Present(st)) :
           /\ Ann(st)[k] \in WatcherEvent
           /\ Ann(st)[k].c = c /\ Ann(st)[k].gen = watcher[c].gen
    <3> SUFFICES ASSUME NEW k \in 1..Cardinality(Present(st))
                 PROVE  /\ Ann(st)[k] \in WatcherEvent
                        /\ Ann(st)[k].c = c /\ Ann(st)[k].gen = watcher[c].gen
      OBVIOUS
    <3> DEFINE i == SetToSeq(Present(st))[k]
    <3>1. i \in Interfaces
      BY <2>1, SetToSeqMember
    <3>2. Ann(st)[k] = interfaceEvent(c, i, "snapshot", watcher[c], st[i])
      OBVIOUS
    <3> HIDE DEF i, Ann
    <3>3. st[i] \in State
      BY <3>1, <1>4 DEF States
    <3> QED BY <3>1, <3>2, <3>3, <1>1, InterfaceEventType
  <2>4. DOMAIN Ann(st) = 1..Cardinality(Present(st)) /\ Ann(st) = [k \in 1..Cardinality(Present(st)) |-> Ann(st)[k]]
    OBVIOUS
  <2> HIDE DEF Ann
  <2>5. Ann(st) \in Seq(WatcherEvent)
    BY <2>2, <2>3, <2>4
  <2> QED BY <2>3, <2>4, <2>5
<1>8. Out(st) \in Seq(WatcherEvent) /\ \A k \in DOMAIN Out(st) :
         Out(st)[k].c = c /\ Out(st)[k].gen = watcher[c].gen
  <2> HIDE DEF Ann
  <2>1. CASE opts.initial
    BY <2>1, <1>7
  <2>2. CASE ~ opts.initial
    BY <2>2
  <2> QED BY <2>1, <2>2
<1> HIDE DEF Sam, Out, Ann
<1>9. Steady(c, [watcher[c] EXCEPT !.pc = "subscribe", !.states = st,
                                   !.samples = Sam(st), !.out = Out(st)])
  BY <1>1, <1>4, <1>6, <1>8 DEF Steady, Watcher, Active
<1> QED BY <1>1, <1>5, <1>9, SteadyStep

\* The subscription, or the end of the watcher, opens nothing new.
LEMMA SubscribeStep ==
    ASSUME EventInv, NEW c \in Containers,
           runSubscribe(c) \/ watcherCancelled(c) \/ openFails(c) \/ updatesClosed(c)
    PROVE  EventInv'
<1>1. /\ watcher[c] \in Watcher /\ watcher[c].pc \in {"snapshot", "subscribe", "loop"}
      /\ watcher[c].out = <<>> /\ ProcessUnchanged /\ UNCHANGED <<world, dead>>
  BY DEF runSubscribe, watcherCancelled, openFails, updatesClosed, Idle, EventInv, Types, WatcherType
<1>2. CASE watcher[c].pc = "subscribe" /\ Move(c, [watcher[c] EXCEPT !.pc = "loop"])
  <2>1. Steady(c, [watcher[c] EXCEPT !.pc = "loop"])
    BY <1>1, <1>2 DEF Steady, Watcher, Active
  <2> QED BY <2>1, <1>1, <1>2, SteadyStep
<1>3. CASE leave(c)
  BY <1>1, <1>3, LeaveStep
<1> QED BY <1>2, <1>3 DEF runSubscribe, watcherCancelled, openFails, updatesClosed, Idle

\* A watcher in its loop that remembers one interface and has one event about it to
\* send, or none, is steady.
LEMMA LoopStep ==
    ASSUME EventInv, NEW c \in Containers, Idle(c, "loop"),
           NEW v, v = watcher[c] \/
                  (watcher[c].updates # <<>> /\ v = [watcher[c] EXCEPT !.updates = Tail(@)]),
           NEW i \in Interfaces, NEW s \in State, NEW x \in {NoSample} \cup 0..MaxRx,
           NEW e \in WatcherEvent, e.c = c, e.gen = watcher[c].gen
    PROVE  /\ v \in Watcher /\ v.pc = "loop" /\ v.gen = watcher[c].gen /\ v.out = <<>>
           /\ v.states = watcher[c].states /\ v.samples = watcher[c].samples
           /\ Steady(c, v)
           /\ Steady(c, [v EXCEPT !.states[i] = s, !.samples[i] = x, !.out = <<e>>])
           /\ Steady(c, [v EXCEPT !.states[i] = s, !.samples[i] = x, !.out = <<>>])
           /\ Steady(c, [v EXCEPT !.states[i] = s, !.out = <<e>>])
<1>1. watcher[c] \in Watcher /\ watcher[c].pc = "loop" /\ watcher[c].out = <<>>
  BY DEF Idle, EventInv, Types, WatcherType
<1>2. /\ v \in Watcher /\ v.pc = "loop" /\ v.gen = watcher[c].gen /\ v.out = <<>>
      /\ v.states = watcher[c].states /\ v.samples = watcher[c].samples
  <2>1. CASE v = watcher[c]
    BY <2>1, <1>1
  <2>2. CASE watcher[c].updates # <<>> /\ v = [watcher[c] EXCEPT !.updates = Tail(@)]
    <3>1. watcher[c].updates \in Seq(Update)
      BY <1>1 DEF Watcher
    <3>2. Tail(watcher[c].updates) \in Seq(Update)
      BY <2>2, <3>1
    <3> QED BY <1>1, <2>2, <3>2 DEF Watcher
  <2> QED BY <2>1, <2>2
<1>3. v.states \in States /\ v.samples \in Samples /\ v.out \in Seq(WatcherEvent)
  BY <1>2 DEF Watcher
<1>4. [v.states EXCEPT ![i] = s] \in States
  BY <1>3 DEF States
<1>5. [v.samples EXCEPT ![i] = x] \in Samples
  BY <1>3 DEF Samples
<1>6. <<e>> \in Seq(WatcherEvent) /\ \A k \in DOMAIN <<e>> : <<e>>[k] = e
  OBVIOUS
<1>7. Active(c) /\ v.gen = watcher[c].gen
  BY <1>1, <1>2 DEF Active
<1>8. Steady(c, v)
  BY <1>1, <1>2, <1>7 DEF Steady
<1>9. Steady(c, [v EXCEPT !.states[i] = s, !.samples[i] = x, !.out = <<e>>])
  <2> DEFINE u == [v EXCEPT !.states[i] = s, !.samples[i] = x, !.out = <<e>>]
  <2>1. /\ u \in Watcher /\ u.pc = "loop" /\ u.gen = v.gen /\ u.out = <<e>>
    BY <1>2, <1>4, <1>5, <1>6 DEF Watcher
  <2> HIDE DEF u
  <2>2. Steady(c, u)
    BY <1>1, <1>6, <1>7, <2>1 DEF Steady
  <2> QED BY <2>2 DEF u
<1>10. Steady(c, [v EXCEPT !.states[i] = s, !.samples[i] = x, !.out = <<>>])
  <2> DEFINE u == [v EXCEPT !.states[i] = s, !.samples[i] = x, !.out = <<>>]
  <2>1. /\ u \in Watcher /\ u.pc = "loop" /\ u.gen = v.gen /\ u.out = <<>>
    BY <1>2, <1>4, <1>5 DEF Watcher
  <2> HIDE DEF u
  <2>2. Steady(c, u)
    BY <1>1, <1>7, <2>1 DEF Steady
  <2> QED BY <2>2 DEF u
<1>11. Steady(c, [v EXCEPT !.states[i] = s, !.out = <<e>>])
  <2> DEFINE u == [v EXCEPT !.states[i] = s, !.out = <<e>>]
  <2>1. /\ u \in Watcher /\ u.pc = "loop" /\ u.gen = v.gen /\ u.out = <<e>>
    BY <1>2, <1>4, <1>6 DEF Watcher
  <2> HIDE DEF u
  <2>2. Steady(c, u)
    BY <1>1, <1>6, <1>7, <2>1 DEF Steady
  <2> QED BY <2>2 DEF u
<1> QED BY <1>2, <1>8, <1>9, <1>10, <1>11

\* processUpdate handles one message of the kernel.
LEMMA UpdateStep ==
    ASSUME EventInv, NEW c \in Containers, processUpdate(c)
    PROVE  EventInv'
<1>1. /\ watcher[c] \in Watcher /\ Idle(c, "loop") /\ watcher[c].updates # <<>>
      /\ link \in [Containers -> States] /\ ProcessUnchanged /\ UNCHANGED <<world, dead>>
  BY DEF processUpdate, HistoryUnchanged, EventInv, Types, WatcherType, WorldType
<1> DEFINE w == [watcher[c] EXCEPT !.updates = Tail(@)]
           u == Head(watcher[c].updates)
           previous == w.states[u.i]
           exists == u.i \in Present(w.states)
           s(infos) == [u.s EXCEPT !.netem = infos[u.i]]
<1>2. PICK infos \in Query(c, watcher[c]) :
        Move(c, IF u.s.attr = "absent"
                THEN [w EXCEPT !.states[u.i] = Absent, !.samples[u.i] = NoSample,
                               !.out = <<interfaceEvent(c, u.i, "delete", w, previous)>>]
                ELSE IF exists /\ equal(s(infos), previous) THEN w
                ELSE [w EXCEPT !.states[u.i] = s(infos),
                               !.samples[u.i] = IF opts.stats THEN newStatsSample(s(infos)) ELSE @,
                               !.out = <<interfaceEvent(c, u.i, IF exists THEN "update" ELSE "create",
                                                        w, s(infos))>>])
  BY DEF processUpdate
<1>3. u.i \in Interfaces /\ u.s \in State
  <2>1. watcher[c].updates \in Seq(Update)
    BY <1>1 DEF Watcher
  <2>2. u \in Update
    BY <1>1, <2>1
  <2> HIDE DEF u
  <2> QED BY <2>2 DEF Update
<1> DEFINE t == s(infos)
<1>4. t \in State
  <2>1. infos[u.i] \in BOOLEAN
    BY <1>1, <1>3, QueryType
  <2> QED BY <1>3, <2>1, NetemState
<1> HIDE DEF t, u
<1>5. /\ w \in Watcher /\ w.gen = watcher[c].gen
      /\ w.states = watcher[c].states /\ w.samples = watcher[c].samples
      /\ Steady(c, w)
  <2>1. PICK e \in WatcherEvent : e.c = c /\ e.gen = watcher[c].gen
    BY <1>1, <1>3, InterfaceEventType
  <2> HIDE DEF w
  <2>2. w = [watcher[c] EXCEPT !.updates = Tail(@)]
    BY DEF w
  <2> QED BY <1>1, <1>3, <2>1, <2>2, LoopStep
<1>6. previous \in State /\ w.samples[u.i] \in {NoSample} \cup 0..MaxRx
  BY <1>3, <1>5 DEF Watcher, States, Samples
<1>7. w = [watcher[c] EXCEPT !.updates = Tail(@)]
  OBVIOUS
<1> HIDE DEF w, previous, exists
<1>8. CASE Move(c, [w EXCEPT !.states[u.i] = Absent, !.samples[u.i] = NoSample,
                             !.out = <<interfaceEvent(c, u.i, "delete", w, previous)>>])
  <2> DEFINE e == interfaceEvent(c, u.i, "delete", w, previous)
  <2>1. e \in WatcherEvent /\ e.c = c /\ e.gen = watcher[c].gen
    BY <1>3, <1>5, <1>6, InterfaceEventType
  <2> HIDE DEF e
  <2>2. Steady(c, [w EXCEPT !.states[u.i] = Absent, !.samples[u.i] = NoSample, !.out = <<e>>])
    BY <1>1, <1>3, <1>7, <2>1, Constants, LoopStep
  <2> QED BY <1>1, <1>8, <2>2, SteadyStep DEF e
<1>9. CASE Move(c, w)
  BY <1>1, <1>5, <1>9, SteadyStep
<1>10. ASSUME NEW a \in {"update", "create"}, NEW x \in {NoSample} \cup 0..MaxRx,
              Move(c, [w EXCEPT !.states[u.i] = t, !.samples[u.i] = x,
                                !.out = <<interfaceEvent(c, u.i, a, w, t)>>])
       PROVE  EventInv'
  <2> DEFINE e == interfaceEvent(c, u.i, a, w, t)
  <2>1. e \in WatcherEvent /\ e.c = c /\ e.gen = watcher[c].gen
    BY <1>3, <1>4, <1>5, InterfaceEventType
  <2> HIDE DEF e
  <2>2. Steady(c, [w EXCEPT !.states[u.i] = t, !.samples[u.i] = x, !.out = <<e>>])
    BY <1>1, <1>3, <1>4, <1>7, <2>1, LoopStep
  <2> QED BY <1>1, <1>10, <2>2, SteadyStep DEF e
<1>11. CASE Move(c, [w EXCEPT !.states[u.i] = t,
                              !.samples[u.i] = IF opts.stats THEN newStatsSample(t) ELSE @,
                              !.out = <<interfaceEvent(c, u.i, IF exists THEN "update" ELSE "create",
                                                       w, t)>>])
  <2> DEFINE a == IF exists THEN "update" ELSE "create"
             x == IF opts.stats THEN newStatsSample(t) ELSE w.samples[u.i]
  <2>1. a \in {"update", "create"}
    OBVIOUS
  <2>2. x \in {NoSample} \cup 0..MaxRx
    <3>1. newStatsSample(t) \in {NoSample} \cup 0..MaxRx
      BY <1>4, SampleType
    <3> QED BY <1>6, <3>1
  <2>3. Move(c, [w EXCEPT !.states[u.i] = t, !.samples[u.i] = x,
                          !.out = <<interfaceEvent(c, u.i, a, w, t)>>])
    BY <1>11
  <2> HIDE DEF a, x
  <2> QED BY <1>10, <2>1, <2>2, <2>3
<1>12. Move(c, IF u.s.attr = "absent"
                THEN [w EXCEPT !.states[u.i] = Absent, !.samples[u.i] = NoSample,
                               !.out = <<interfaceEvent(c, u.i, "delete", w, previous)>>]
                ELSE IF exists /\ equal(t, previous) THEN w
                ELSE [w EXCEPT !.states[u.i] = t,
                               !.samples[u.i] = IF opts.stats THEN newStatsSample(t) ELSE @,
                               !.out = <<interfaceEvent(c, u.i, IF exists THEN "update" ELSE "create",
                                                        w, t)>>])
  BY <1>2 DEF t, w, u, previous, exists
<1> QED BY <1>8, <1>9, <1>11, <1>12

\* A tick of either kind reports what it has remembered.
LEMMA TickStep ==
    ASSUME EventInv, NEW c \in Containers, Ticks(c)
    PROVE  EventInv'
<1> DEFINE w == watcher[c]
<1>1. /\ w \in Watcher /\ Idle(c, "loop") /\ w.states \in States /\ w.samples \in Samples
      /\ link \in [Containers -> States] /\ ProcessUnchanged /\ UNCHANGED <<world, dead>>
  <2>1. w \in Watcher /\ link \in [Containers -> States]
    BY DEF EventInv, Types, WatcherType, WorldType
  <2> QED BY <2>1 DEF Ticks, pollNetemChanges, collectAndEmitStats, HistoryUnchanged, Watcher
<1>2. CASE pollNetemChanges(c)
  <2>1. PICK infos \in Query(c, w), i \in Present(w.states) :
           Move(c, [w EXCEPT !.states[i] = [w.states[i] EXCEPT !.netem = infos[i]],
                             !.out = <<interfaceEvent(c, i, "update", w,
                                         [w.states[i] EXCEPT !.netem = infos[i]])>>])
    BY <1>2 DEF pollNetemChanges
  <2> DEFINE s == [w.states[i] EXCEPT !.netem = infos[i]]
             e == interfaceEvent(c, i, "update", w, s)
  <2>2. i \in Interfaces /\ w.states[i] \in State /\ infos[i] \in BOOLEAN
    BY <1>1, QueryType DEF Present, States
  <2>3. s \in State
    BY <2>2, NetemState
  <2>4. Move(c, [w EXCEPT !.states[i] = s, !.out = <<e>>])
    BY <2>1
  <2> HIDE DEF s
  <2>5. e \in WatcherEvent /\ e.c = c /\ e.gen = watcher[c].gen
    BY <1>1, <2>2, <2>3, InterfaceEventType
  <2> HIDE DEF e
  <2>6. Steady(c, [w EXCEPT !.states[i] = s, !.out = <<e>>])
    <3>1. NoSample \in {NoSample} \cup 0..MaxRx
      OBVIOUS
    <3> QED BY <1>1, <2>2, <2>3, <2>5, <3>1, LoopStep
  <2> QED BY <1>1, <2>4, <2>6, SteadyStep
<1>3. CASE collectAndEmitStats(c)
  <2> DEFINE s(i) == [snapshotInterfaces(c, w)[i] EXCEPT !.netem = w.states[i].netem]
  <2>1. PICK i \in Present(w.states) \cap Present(snapshotInterfaces(c, w)) :
           Move(c, [w EXCEPT !.states[i] = s(i), !.samples[i] = s(i).rx,
                             !.out = IF w.samples[i] = NoSample THEN <<>>
                                     ELSE <<interfaceStatsEvent(c, i, w, s(i))>>])
    BY <1>3 DEF collectAndEmitStats
  <2> DEFINE t == s(i)
  <2>2. /\ i \in Interfaces /\ w.states[i].netem \in BOOLEAN
        /\ snapshotInterfaces(c, w)[i] \in State
    BY <1>1, SnapshotType DEF Present, States, State
  <2>3. t \in State
    BY <2>2, NetemState
  <2>4. Move(c, [w EXCEPT !.states[i] = t, !.samples[i] = t.rx,
                          !.out = IF w.samples[i] = NoSample THEN <<>>
                                  ELSE <<interfaceStatsEvent(c, i, w, t)>>])
    BY <2>1
  <2> HIDE DEF t, s
  <2>5. t.rx \in {NoSample} \cup 0..MaxRx
    BY <2>3 DEF State
  <2>6. CASE w.samples[i] = NoSample
    <3>1. PICK e \in WatcherEvent : e.c = c /\ e.gen = watcher[c].gen
      BY <1>1, <2>2, <2>3, InterfaceEventType
    <3>2. Steady(c, [w EXCEPT !.states[i] = t, !.samples[i] = t.rx, !.out = <<>>])
      BY <1>1, <2>2, <2>3, <2>5, <3>1, LoopStep
    <3>3. Move(c, [w EXCEPT !.states[i] = t, !.samples[i] = t.rx, !.out = <<>>])
      BY <2>4, <2>6
    <3> QED BY <1>1, <3>2, <3>3, SteadyStep
  <2>7. CASE w.samples[i] # NoSample
    <3> DEFINE e == interfaceStatsEvent(c, i, w, t)
    <3>1. e \in WatcherEvent /\ e.c = c /\ e.gen = watcher[c].gen
      BY <1>1, <2>2, <2>3, <2>7, StatsEventType
    <3>2. Move(c, [w EXCEPT !.states[i] = t, !.samples[i] = t.rx, !.out = <<e>>])
      BY <2>4, <2>7
    <3> HIDE DEF e
    <3>3. Steady(c, [w EXCEPT !.states[i] = t, !.samples[i] = t.rx, !.out = <<e>>])
      BY <1>1, <2>2, <2>3, <2>5, <3>1, LoopStep
    <3> QED BY <1>1, <3>2, <3>3, SteadyStep
  <2> QED BY <2>6, <2>7
<1> QED BY <1>2, <1>3 DEF Ticks

\* A watcher that ends leaves the registry.
LEMMA RemoveStep ==
    ASSUME EventInv, NEW c \in Containers, remove(c)
    PROVE  EventInv'
<1> USE DEF remove, world, HistoryUnchanged
<1>1. /\ watcher' = [watcher EXCEPT ![c] = NoWatcher] /\ watcher \in [Containers -> Watcher]
      /\ registry' = registry \ {c}
  BY DEF Move, EventInv, Types, WatcherType
<1>2. watcher'[c] = NoWatcher /\ \A d \in Containers : d # c => watcher'[d] = watcher[d]
  BY <1>1
<1>3. NoWatcher \in Watcher /\ NoWatcher.pc = "done" /\ NoWatcher.out = <<>>
  BY Constants
<1>4. Types'
  <2>1. WatcherType'
    BY <1>1, <1>3 DEF WatcherType
  <2> QED BY <2>1 DEF EventInv, Types, WorldType, ProcessType
<1>5. DiesAreOver' /\ NoneAhead' /\ InOrder' /\ NothingAfterDie' /\ AttributesAreFresh'
  BY DEF EventInv, Order, DiesAreOver, FeedOver, ForwarderOver, ChannelOver, DeadOver, Over,
         Running, NoneAhead, InOrder, NothingAfterDie,
         AttributesAreFresh
<1>6. StoppedFirst'
  BY <1>1, <1>2, <1>3 DEF EventInv, Order, StoppedFirst, Types, ProcessType, RuntimeEvent
<1>7. ActiveIsLater'
  BY <1>2, <1>3 DEF EventInv, Order, ActiveIsLater, Active
<1>8. OutIsOwn'
  BY <1>2, <1>3 DEF EventInv, Order, OutIsOwn
<1> QED BY <1>4, <1>5, <1>6, <1>7, <1>8 DEF EventInv, Order

(***************************************************************************)
(* The channel.                                                            *)
(***************************************************************************)

Event == RuntimeEvent \cup ListedEvent \cup WatcherEvent

\* An event may be queued if it is not stale with respect to what is queued or printed.
Queueable(e) ==
    /\ e \in Event
    /\ e.action = "die" => Over(e.c, e.gen)
    /\ e.type = "container" => e.seen = 0 \/ e.seen >= e.gen
    /\ e.type = "interface" =>
          /\ e.gen > dead[e.c]
          /\ \A k \in DOMAIN eventCh :
                eventCh[k].action = "die" /\ eventCh[k].c = e.c => eventCh[k].gen < e.gen

\* What a send to the channel keeps.
LEMMA SendKeeps ==
    ASSUME EventInv, NEW e, Queueable(e), eventCh' = Append(eventCh, e),
           UNCHANGED <<status, gen, dead>>
    PROVE  /\ eventCh' \in Seq(Event)
           /\ \A k \in DOMAIN eventCh' :
                 eventCh'[k] = e \/ (k \in DOMAIN eventCh /\ eventCh'[k] = eventCh[k])
           /\ ChannelOver' /\ InOrder' /\ NothingAfterDie' /\ AttributesAreFresh'
<1>1. eventCh \in Seq(Event) /\ e \in Event
  BY DEF EventInv, Types, ProcessType, Event, Queueable
<1>2. /\ eventCh' \in Seq(Event) /\ Len(eventCh') = Len(eventCh) + 1
      /\ DOMAIN eventCh = 1..Len(eventCh) /\ DOMAIN eventCh' = 1..(Len(eventCh) + 1)
      /\ Len(eventCh) \in Nat
      /\ eventCh'[Len(eventCh) + 1] = e
      /\ \A k \in DOMAIN eventCh : eventCh'[k] = eventCh[k]
  BY <1>1
<1>3. \A k \in DOMAIN eventCh' :
         \/ k = Len(eventCh) + 1 /\ eventCh'[k] = e
         \/ k \in DOMAIN eventCh /\ eventCh'[k] = eventCh[k] /\ k < Len(eventCh) + 1
  BY <1>2
<1>4. ChannelOver'
  BY <1>3 DEF EventInv, Order, DiesAreOver, ChannelOver, Queueable, Over, Running
<1>5. NothingAfterDie'
  BY <1>3 DEF EventInv, Order, NothingAfterDie, Queueable
<1>6. AttributesAreFresh'
  BY <1>3 DEF EventInv, Order, AttributesAreFresh, Queueable
<1>7. InOrder'
  <2> SUFFICES ASSUME NEW k \in DOMAIN eventCh', NEW l \in DOMAIN eventCh', k < l,
                      eventCh'[k].action = "die", eventCh'[l].type = "interface",
                      eventCh'[k].c = eventCh'[l].c
               PROVE  eventCh'[k].gen < eventCh'[l].gen
    BY DEF InOrder
  <2>1. k \in DOMAIN eventCh /\ eventCh'[k] = eventCh[k]
    BY <1>2, <1>3
  <2>2. CASE l \in DOMAIN eventCh /\ eventCh'[l] = eventCh[l]
    BY <2>1, <2>2 DEF EventInv, Order, InOrder
  <2>3. CASE eventCh'[l] = e
    BY <2>1, <2>3 DEF Queueable
  <2> QED BY <1>3, <2>2, <2>3
<1> QED BY <1>2, <1>3, <1>4, <1>5, <1>6, <1>7

\* emitInterfaceEvent sends the first event of a watcher, or drops it.
LEMMA EmitStep ==
    ASSUME EventInv, NEW c \in Containers, emitInterfaceEvent(c)
    PROVE  EventInv'
<1> USE DEF emitInterfaceEvent, world, HistoryUnchanged
<1> DEFINE w == [watcher[c] EXCEPT !.out = Tail(@)]
<1>1. /\ watcher' = [watcher EXCEPT ![c] = w] /\ watcher \in [Containers -> Watcher]
      /\ watcher[c].out # <<>>
  BY DEF Move, EventInv, Types, WatcherType
<1>2. watcher[c] \in Watcher /\ watcher[c].out \in Seq(WatcherEvent)
  BY <1>1 DEF Watcher
<1>3. /\ Tail(watcher[c].out) \in Seq(WatcherEvent) /\ Head(watcher[c].out) \in WatcherEvent
      /\ Head(watcher[c].out) = watcher[c].out[1] /\ 1 \in DOMAIN watcher[c].out
      /\ \A k \in DOMAIN Tail(watcher[c].out) :
            k + 1 \in DOMAIN watcher[c].out /\ Tail(watcher[c].out)[k] = watcher[c].out[k + 1]
  BY <1>1, <1>2
<1>4. /\ w \in Watcher /\ w.pc = watcher[c].pc /\ w.gen = watcher[c].gen
      /\ w.out = Tail(watcher[c].out)
  BY <1>2, <1>3 DEF Watcher
<1> HIDE DEF w
<1>5. /\ watcher[c].pc \in {"subscribe", "loop"}
      /\ \A k \in DOMAIN watcher[c].out :
            watcher[c].out[k].c = c /\ watcher[c].out[k].gen = watcher[c].gen
  BY <1>1 DEF EventInv, Order, OutIsOwn
<1>6. Steady(c, w)
  BY <1>3, <1>4, <1>5 DEF Steady, Active
<1>7. CASE UNCHANGED eventCh
  BY <1>1, <1>6, <1>7, SteadyStep DEF Move, ProcessUnchanged
<1>8. CASE eventCh' = Append(eventCh, Head(watcher[c].out))
  <2> DEFINE e == Head(watcher[c].out)
  <2>1. e \in WatcherEvent /\ e.c = c /\ e.gen = watcher[c].gen
    BY <1>3, <1>5
  <2> HIDE DEF e
  <2>2. e \in Event /\ e.type = "interface" /\ e.action # "die"
    BY <2>1 DEF Event, WatcherEvent
  <2>3. Queueable(e)
    <3>1. /\ dead[c] < watcher[c].gen
          /\ \A k \in DOMAIN eventCh :
                eventCh[k].action = "die" /\ eventCh[k].c = c => eventCh[k].gen < watcher[c].gen
      BY <1>5 DEF EventInv, Order, ActiveIsLater, Active
    <3>2. dead[c] \in Nat /\ watcher[c].gen \in Nat
      BY <1>2 DEF EventInv, Types, ProcessType, Watcher
    <3>3. e.gen > dead[e.c]
      BY <2>1, <3>1, <3>2
    <3>4. \A k \in DOMAIN eventCh :
             eventCh[k].action = "die" /\ eventCh[k].c = e.c => eventCh[k].gen < e.gen
      BY <2>1, <3>1
    <3> QED BY <2>2, <3>3, <3>4 DEF Queueable
  <2>4. /\ eventCh' \in Seq(Event)
        /\ \A k \in DOMAIN eventCh' :
              eventCh'[k] = e \/ (k \in DOMAIN eventCh /\ eventCh'[k] = eventCh[k])
        /\ ChannelOver' /\ InOrder' /\ NothingAfterDie' /\ AttributesAreFresh'
    BY <1>8, <2>3, SendKeeps DEF e
  <2>5. watcher'[c] = w /\ \A d \in Containers : d # c => watcher'[d] = watcher[d]
    BY <1>1
  <2>6. Types'
    <3>1. WatcherType'
      BY <1>1, <1>4 DEF WatcherType
    <3> QED BY <2>4, <3>1 DEF EventInv, Types, WorldType, ProcessType, Event
  <2>7. DiesAreOver'
    <3>1. FeedOver' /\ ForwarderOver' /\ DeadOver'
      BY DEF EventInv, Order, DiesAreOver, FeedOver, ForwarderOver, DeadOver, Over, Running
    <3> QED BY <2>4, <3>1 DEF DiesAreOver
  <2>8. NoneAhead'
    BY DEF EventInv, Order, NoneAhead
  <2>9. StoppedFirst'
    BY <1>4, <1>5, <2>5 DEF EventInv, Order, StoppedFirst, Types, ProcessType, RuntimeEvent
  <2>10. ActiveIsLater'
    BY <1>4, <2>2, <2>4, <2>5 DEF EventInv, Order, ActiveIsLater, Active
  <2>11. OutIsOwn'
    <3>1. w.out # <<>> => /\ w.pc \in {"subscribe", "loop"}
                          /\ \A k \in DOMAIN w.out : w.out[k].c = c /\ w.out[k].gen = w.gen
      BY <1>6 DEF Steady
    <3> QED BY <2>5, <3>1 DEF EventInv, Order, OutIsOwn
  <2> QED BY <2>4, <2>6, <2>7, <2>8, <2>9, <2>10, <2>11 DEF EventInv, Order
<1> QED BY <1>7, <1>8

(***************************************************************************)
(* The goroutine that forwards the events of the runtime.                  *)
(***************************************************************************)

\* Start gives watchers to containers that have none; a new watcher has opened and sent
\* nothing.
LEMMA StartKeeps ==
    ASSUME EventInv, NEW cs \in SUBSET Containers, Start(cs), forwarder.pc \in {"none", "idle"},
           UNCHANGED <<eventCh, dead>>
    PROVE  /\ WatcherType' /\ registry' \subseteq Containers /\ ActiveIsLater' /\ OutIsOwn'
           /\ \A c \in Containers : watcher'[c].pc # "done" => c \in registry'
<1>1. /\ registry' = registry \cup cs /\ watcher \in [Containers -> Watcher]
      /\ watcher' = [c \in Containers |-> IF c \in cs \ registry THEN newWatcher ELSE watcher[c]]
  BY DEF Start, EventInv, Types, WatcherType
<1>2. newWatcher \in Watcher /\ newWatcher.pc = "resolve" /\ newWatcher.out = <<>>
  BY Constants
<1>3. WatcherType'
  BY <1>1, <1>2 DEF WatcherType
<1>4. \A c \in Containers : \/ watcher'[c] = newWatcher /\ c \in registry'
                            \/ watcher'[c] = watcher[c]
  BY <1>1
<1>5. registry' \subseteq Containers
  BY <1>1 DEF EventInv, Types, ProcessType
<1>6. ActiveIsLater'
  BY <1>2, <1>4 DEF EventInv, Order, ActiveIsLater, Active
<1>7. OutIsOwn'
  BY <1>2, <1>4 DEF EventInv, Order, OutIsOwn
<1>8. \A c \in Containers : watcher'[c].pc # "done" => c \in registry'
  BY <1>1, <1>4 DEF EventInv, Order, StoppedFirst
<1> QED BY <1>3, <1>5, <1>6, <1>7, <1>8

\* HandleContainerEvent starts or stops a watcher before the event is forwarded.
LEMMA HandleStep ==
    ASSUME EventInv, HandleContainerEvent
    PROVE  EventInv'
<1> USE DEF HistoryUnchanged
<1> DEFINE ev == Head(feed)
<1>1. /\ forwarder.pc = "idle" /\ feed # <<>> /\ feed' = Tail(feed)
      /\ UNCHANGED <<status, gen, link, phase, listed, eventCh, dead>>
  BY DEF HandleContainerEvent
<1>2. \/ /\ ev.action \in Starts
         /\ Start({ev.c})
         /\ forwarder' = [pc |-> "sending", ev |-> ev]
      \/ /\ ev.action \in Stops
         /\ registry' = registry \ {ev.c}
         /\ watcher' = [watcher EXCEPT ![ev.c].cancelled = ev.c \in registry \/ @]
         /\ forwarder' = [pc |-> IF ev.c \in registry THEN "stopping" ELSE "sending", ev |-> ev]
  BY DEF HandleContainerEvent
<1>3. feed \in Seq(RuntimeEvent)
  BY DEF EventInv, Types, WorldType
<1>4. /\ Tail(feed) \in Seq(RuntimeEvent) /\ Head(feed) \in RuntimeEvent
      /\ Head(feed) = feed[1] /\ 1 \in DOMAIN feed
      /\ \A k \in DOMAIN Tail(feed) : k + 1 \in DOMAIN feed /\ Tail(feed)[k] = feed[k + 1]
  BY <1>1, <1>3
<1>5. ev \in RuntimeEvent /\ ev.c \in Containers
  BY <1>4 DEF RuntimeEvent
<1>6. (ev.action = "die" => Over(ev.c, ev.gen)) /\ ev.gen <= gen[ev.c]
  BY <1>4 DEF EventInv, Order, DiesAreOver, FeedOver, NoneAhead
<1>7. FeedOver'
  BY <1>1, <1>4 DEF EventInv, Order, DiesAreOver, FeedOver, Over, Running
<1> HIDE DEF ev
<1>8. /\ forwarder' \in [pc : {"stopping", "sending"}, ev : RuntimeEvent]
      /\ forwarder'.ev = ev /\ forwarder'.pc \in {"stopping", "sending"}
  BY <1>2, <1>5
<1>9. DiesAreOver'
  <2>1. ForwarderOver'
    BY <1>1, <1>6, <1>8 DEF ForwarderOver, Over, Running
  <2>2. ChannelOver' /\ DeadOver'
    BY <1>1 DEF EventInv, Order, DiesAreOver, ChannelOver, DeadOver, Over, Running
  <2> QED BY <1>7, <2>1, <2>2 DEF DiesAreOver
<1>10. NoneAhead'
  BY <1>1, <1>4, <1>6, <1>8 DEF EventInv, Order, NoneAhead
<1>11. InOrder' /\ NothingAfterDie' /\ AttributesAreFresh'
  BY <1>1 DEF EventInv, Order, InOrder, NothingAfterDie, AttributesAreFresh
<1>12. WorldType' /\ (registry' \subseteq Containers => ProcessType')
  BY <1>1, <1>4, <1>8 DEF EventInv, Types, WorldType, ProcessType
<1>13. phase \notin {"init", "listed"}
  BY <1>1 DEF EventInv, Order, StoppedFirst
<1>14. CASE ev.action \in Starts /\ Start({ev.c}) /\ forwarder' = [pc |-> "sending", ev |-> ev]
  <2>1. /\ WatcherType' /\ registry' \subseteq Containers /\ ActiveIsLater' /\ OutIsOwn'
        /\ \A c \in Containers : watcher'[c].pc # "done" => c \in registry'
    BY <1>1, <1>5, <1>14, StartKeeps
  <2>2. StoppedFirst'
    BY <1>1, <1>8, <1>13, <1>14, <2>1 DEF StoppedFirst, Starts, Stops
  <2> QED BY <1>9, <1>10, <1>11, <1>12, <2>1, <2>2 DEF EventInv, Order, Types
<1>15. CASE /\ ev.action \in Stops
            /\ registry' = registry \ {ev.c}
            /\ watcher' = [watcher EXCEPT ![ev.c].cancelled = ev.c \in registry \/ @]
            /\ forwarder' = [pc |-> IF ev.c \in registry THEN "stopping" ELSE "sending", ev |-> ev]
  <2> DEFINE b == ev.c \in registry \/ watcher[ev.c].cancelled
             w == [watcher[ev.c] EXCEPT !.cancelled = b]
  <2>1. watcher \in [Containers -> Watcher] /\ watcher[ev.c] \in Watcher
    BY <1>5 DEF EventInv, Types, WatcherType
  <2>2. watcher' = [watcher EXCEPT ![ev.c] = w]
    BY <1>5, <1>15, <2>1
  <2>3. b \in BOOLEAN
    BY Zenon
  <2> HIDE DEF b
  <2>4. /\ w \in Watcher /\ w.pc = watcher[ev.c].pc /\ w.out = watcher[ev.c].out
        /\ w.gen = watcher[ev.c].gen
    BY <2>1, <2>3 DEF Watcher
  <2> HIDE DEF w
  <2>5. WatcherType' /\ registry' \subseteq Containers
    BY <1>15, <2>1, <2>2, <2>4 DEF WatcherType, EventInv, Types, ProcessType
  <2>6. \A c \in Containers : /\ watcher'[c].pc = watcher[c].pc /\ watcher'[c].gen = watcher[c].gen
                              /\ watcher'[c].out = watcher[c].out
    BY <2>1, <2>2, <2>4
  <2>7. ActiveIsLater' /\ OutIsOwn'
    BY <1>1, <2>6 DEF EventInv, Order, ActiveIsLater, Active, OutIsOwn
  <2>8. StoppedFirst'
    <3>1. \A c \in Containers : watcher[c].pc # "done" => c \in registry
      BY <1>1 DEF EventInv, Order, StoppedFirst
    <3> QED BY <1>1, <1>5, <1>13, <1>15, <2>6, <3>1 DEF StoppedFirst
  <2> QED BY <1>9, <1>10, <1>11, <1>12, <2>5, <2>7, <2>8 DEF EventInv, Order, Types
<1> QED BY <1>2, <1>14, <1>15

\* The steps of the forwarder that only move it on: the watcher has ended, the stream of
\* the runtime broke, the command was cancelled, the subscription.
LEMMA ForwarderMoves ==
    ASSUME EventInv, watcherStopped \/ runtimeErr \/ forwarderCancelled \/ StreamEvents
    PROVE  EventInv'
<1> USE DEF watcherStopped, runtimeErr, forwarderCancelled, StreamEvents, world, HistoryUnchanged
<1>1. UNCHANGED <<status, gen, link, feed, listed, eventCh, registry, watcher, dead>>
  OBVIOUS
<1>2. /\ forwarder \in [pc : {"none", "idle", "stopping", "sending", "ended"},
                        ev : RuntimeEvent \cup {<<>>}]
      /\ forwarder.pc \in {"stopping", "sending"} => forwarder.ev \in RuntimeEvent
  BY DEF EventInv, Types, ProcessType
<1>3. /\ forwarder' \in [pc : {"none", "idle", "stopping", "sending", "ended"},
                         ev : RuntimeEvent \cup {<<>>}]
      /\ forwarder'.ev = forwarder.ev
      /\ \/ /\ forwarder.pc = "stopping" /\ watcher[forwarder.ev.c].pc = "done"
            /\ forwarder'.pc = "sending" /\ phase' = phase
         \/ /\ forwarder.pc = "idle" /\ forwarder'.pc = "ended" /\ phase' = phase
         \/ phase = "listed" /\ phase' = "loop" /\ forwarder'.pc = "idle"
  BY <1>2
<1>4. Types'
  <2>1. WorldType' /\ WatcherType'
    BY <1>1 DEF EventInv, Types, WorldType, WatcherType
  <2>2. ProcessType'
    BY <1>1, <1>2, <1>3 DEF EventInv, Types, ProcessType
  <2> QED BY <2>1, <2>2 DEF Types
<1>5. DiesAreOver' /\ NoneAhead'
  BY <1>1, <1>3 DEF EventInv, Order, DiesAreOver, FeedOver, ForwarderOver, ChannelOver, DeadOver,
                    Over, Running, NoneAhead
<1>6. StoppedFirst'
  <2>1. phase = "listed" => forwarder.pc = "none"
    BY DEF EventInv, Order, StoppedFirst
  <2> QED BY <1>1, <1>3, <2>1 DEF EventInv, Order, StoppedFirst
<1>7. ActiveIsLater' /\ OutIsOwn' /\ InOrder' /\ NothingAfterDie' /\ AttributesAreFresh'
  BY <1>1 DEF EventInv, Order, ActiveIsLater, Active, OutIsOwn, InOrder, NothingAfterDie,
              AttributesAreFresh
<1> QED BY <1>4, <1>5, <1>6, <1>7 DEF EventInv, Order

\* An event of the runtime that is sent is about a start that has happened; the end of a
\* container is sent when its watcher has ended.
LEMMA ForwardStep ==
    ASSUME EventInv, forwardRuntimeEvents
    PROVE  EventInv'
<1> USE DEF world, HistoryUnchanged
<1> DEFINE ev == forwarder.ev
           e == aggregatedEventFromContainerEvent(ev)
<1>1. /\ forwarder.pc = "sending"
      /\ UNCHANGED <<status, gen, link, feed, phase, listed, registry, watcher, dead>>
  BY DEF forwardRuntimeEvents
<1>2. /\ forwarder \in [pc : {"none", "idle", "stopping", "sending", "ended"},
                        ev : RuntimeEvent \cup {<<>>}]
      /\ ev \in RuntimeEvent
  BY <1>1 DEF EventInv, Types, ProcessType
<1>3. /\ forwarder' \in [pc : {"none", "idle", "stopping", "sending", "ended"},
                         ev : RuntimeEvent \cup {<<>>}]
      /\ forwarder'.pc \in {"idle", "ended"}
  BY <1>2 DEF forwardRuntimeEvents
<1>4. FeedOver' /\ ForwarderOver' /\ DeadOver' /\ NoneAhead' /\ StoppedFirst' /\ OutIsOwn'
  <2>1. phase \notin {"init", "listed"}
    BY <1>1 DEF EventInv, Order, StoppedFirst
  <2> QED BY <1>1, <1>3, <2>1 DEF EventInv, Order, DiesAreOver, FeedOver, ForwarderOver, DeadOver,
               Over, Running, NoneAhead, StoppedFirst, OutIsOwn
<1>5. WorldType' /\ WatcherType' /\ (eventCh' \in Seq(Event) => ProcessType')
  BY <1>1, <1>3 DEF EventInv, Types, WorldType, WatcherType, ProcessType, Event
<1>6. CASE UNCHANGED eventCh
  <2>1. ChannelOver' /\ ActiveIsLater' /\ InOrder' /\ NothingAfterDie' /\ AttributesAreFresh'
    BY <1>1, <1>6 DEF EventInv, Order, DiesAreOver, ChannelOver, Over, Running, ActiveIsLater,
                      Active, InOrder, NothingAfterDie, AttributesAreFresh
  <2>2. eventCh' \in Seq(Event)
    BY <1>6 DEF EventInv, Types, ProcessType, Event
  <2> QED BY <1>4, <1>5, <2>1, <2>2 DEF EventInv, Order, Types, DiesAreOver
<1>7. CASE eventCh' = Append(eventCh, e)
  <2>1. ev.c \in Containers /\ ev.gen \in Nat /\ gen[ev.c] \in Nat /\ ev.gen <= gen[ev.c]
    BY <1>1, <1>2 DEF EventInv, Order, NoneAhead, Types, WorldType, RuntimeEvent
  <2>2. /\ e \in RuntimeEvent /\ e.c = ev.c /\ e.gen = ev.gen /\ e.action = ev.action
        /\ e.type = "container" /\ (e.seen = 0 \/ e.seen = gen[ev.c])
    BY <1>2, <2>1 DEF aggregatedEventFromContainerEvent, ensureContainerAttributes,
                      selectContainerForEvent, RuntimeEvent
  <2> HIDE DEF e
  <2>3. Queueable(e)
    <3>1. e.action = "die" => Over(e.c, e.gen)
      BY <1>1, <2>2 DEF EventInv, Order, DiesAreOver, ForwarderOver
    <3>2. e.seen = 0 \/ e.seen >= e.gen
      BY <2>1, <2>2
    <3> QED BY <2>2, <3>1, <3>2 DEF Queueable, Event
  <2>4. /\ eventCh' \in Seq(Event)
        /\ \A k \in DOMAIN eventCh' :
              eventCh'[k] = e \/ (k \in DOMAIN eventCh /\ eventCh'[k] = eventCh[k])
        /\ ChannelOver' /\ InOrder' /\ NothingAfterDie' /\ AttributesAreFresh'
    BY <1>1, <1>7, <2>3, SendKeeps
  <2>5. ActiveIsLater'
    <3>1. e.action = "die" => watcher[e.c].pc = "done"
      BY <1>1, <2>2 DEF EventInv, Order, StoppedFirst, Stops
    <3> QED BY <1>1, <2>4, <3>1 DEF EventInv, Order, ActiveIsLater, Active
  <2> QED BY <1>4, <1>5, <2>4, <2>5 DEF EventInv, Order, Types, DiesAreOver
<1> QED BY <1>6, <1>7 DEF forwardRuntimeEvents

(***************************************************************************)
(* The main goroutine.                                                     *)
(***************************************************************************)

\* The announcement of the containers at the start.
LEMMA AnnounceStep ==
    ASSUME EventInv, emitContainerSnapshots
    PROVE  EventInv'
<1> USE DEF world, HistoryUnchanged
<1>1. UNCHANGED <<status, gen, link, feed, phase, forwarder, registry, watcher, dead>>
  BY DEF emitContainerSnapshots
<1>2. FeedOver' /\ ForwarderOver' /\ DeadOver' /\ NoneAhead' /\ StoppedFirst' /\ OutIsOwn'
  BY <1>1 DEF EventInv, Order, DiesAreOver, FeedOver, ForwarderOver, DeadOver, Over, Running,
              NoneAhead, StoppedFirst, OutIsOwn
<1>3. PICK e \in listed :
         \/ eventCh' = Append(eventCh, e) /\ listed' = listed \ {e}
         \/ listed' = {} /\ UNCHANGED eventCh
  BY DEF emitContainerSnapshots
<1>4. e \in ListedEvent /\ listed' \subseteq ListedEvent
  BY <1>3 DEF EventInv, Types, ProcessType
<1>5. WorldType' /\ WatcherType' /\ (eventCh' \in Seq(Event) => ProcessType')
  BY <1>1, <1>4 DEF EventInv, Types, WorldType, WatcherType, ProcessType, Event
<1>6. CASE UNCHANGED eventCh
  <2>1. ChannelOver' /\ ActiveIsLater' /\ InOrder' /\ NothingAfterDie' /\ AttributesAreFresh'
    BY <1>1, <1>6 DEF EventInv, Order, DiesAreOver, ChannelOver, Over, Running, ActiveIsLater,
                      Active, InOrder, NothingAfterDie, AttributesAreFresh
  <2>2. eventCh' \in Seq(Event)
    BY <1>6 DEF EventInv, Types, ProcessType, Event
  <2> QED BY <1>2, <1>5, <2>1, <2>2 DEF EventInv, Order, Types, DiesAreOver
<1>7. CASE eventCh' = Append(eventCh, e)
  <2>1. e.type = "container" /\ e.action # "die" /\ e.seen = 0
    BY <1>4 DEF ListedEvent
  <2>2. Queueable(e)
    BY <1>4, <2>1 DEF Queueable, Event
  <2>3. /\ eventCh' \in Seq(Event)
        /\ \A k \in DOMAIN eventCh' :
              eventCh'[k] = e \/ (k \in DOMAIN eventCh /\ eventCh'[k] = eventCh[k])
        /\ ChannelOver' /\ InOrder' /\ NothingAfterDie' /\ AttributesAreFresh'
    BY <1>1, <1>7, <2>2, SendKeeps
  <2>4. ActiveIsLater'
    BY <1>1, <2>1, <2>3 DEF EventInv, Order, ActiveIsLater, Active
  <2> QED BY <1>2, <1>5, <2>3, <2>4 DEF EventInv, Order, Types, DiesAreOver
<1> QED BY <1>3, <1>6, <1>7

\* Printing an event takes it from the channel; the end of a container becomes known.
LEMMA PrintStep ==
    ASSUME EventInv, print
    PROVE  EventInv'
<1> USE DEF world
<1> DEFINE ev == Head(eventCh)
<1>1. /\ UNCHANGED <<status, gen, link, feed, phase, listed, forwarder, registry, watcher>>
      /\ eventCh # <<>> /\ eventCh' = Tail(eventCh)
      /\ dead' = IF ev.action = "die" THEN [dead EXCEPT ![ev.c] = ev.gen] ELSE dead
  BY DEF print
<1>2. eventCh \in Seq(Event) /\ dead \in [Containers -> Nat]
  BY DEF EventInv, Types, ProcessType, Event
<1>3. /\ eventCh' \in Seq(Event) /\ ev \in Event /\ ev = eventCh[1] /\ 1 \in DOMAIN eventCh
      /\ \A k \in DOMAIN eventCh' :
            /\ k \in Nat /\ k >= 1 /\ k + 1 \in DOMAIN eventCh
            /\ eventCh'[k] = eventCh[k + 1] /\ eventCh'[k] \in Event
  BY <1>1, <1>2
<1>4. ev.c \in Containers /\ ev.gen \in Nat
  BY <1>3 DEF Event, RuntimeEvent, ListedEvent, WatcherEvent
<1> HIDE DEF ev
<1>5. dead' \in [Containers -> Nat]
  BY <1>1, <1>2, <1>4
<1>6. \A c \in Containers : dead'[c] = dead[c] \/ (ev.action = "die" /\ ev.c = c /\ dead'[c] = ev.gen)
  BY <1>1, <1>2
<1>7. Types'
  BY <1>1, <1>3, <1>5 DEF EventInv, Types, WorldType, WatcherType, ProcessType, Event
<1>8. FeedOver' /\ ForwarderOver' /\ NoneAhead' /\ StoppedFirst' /\ OutIsOwn'
  BY <1>1 DEF EventInv, Order, DiesAreOver, FeedOver, ForwarderOver, Over, Running, NoneAhead,
              StoppedFirst, OutIsOwn
<1>9. ChannelOver' /\ AttributesAreFresh'
  BY <1>1, <1>3 DEF EventInv, Order, DiesAreOver, ChannelOver, Over, Running, AttributesAreFresh
<1>10. DeadOver'
  BY <1>1, <1>3, <1>6 DEF EventInv, Order, DiesAreOver, ChannelOver, DeadOver, Over, Running
<1>11. InOrder'
  <2> SUFFICES ASSUME NEW k \in DOMAIN eventCh', NEW l \in DOMAIN eventCh', k < l,
                      eventCh'[k].action = "die", eventCh'[l].type = "interface",
                      eventCh'[k].c = eventCh'[l].c
               PROVE  eventCh'[k].gen < eventCh'[l].gen
    BY DEF InOrder
  <2>1. k + 1 \in DOMAIN eventCh /\ l + 1 \in DOMAIN eventCh /\ k + 1 < l + 1
    BY <1>3
  <2>2. eventCh'[k] = eventCh[k + 1] /\ eventCh'[l] = eventCh[l + 1]
    BY <1>3
  <2> QED BY <2>1, <2>2 DEF EventInv, Order, InOrder
<1>12. ActiveIsLater'
  BY <1>1, <1>3, <1>6 DEF EventInv, Order, ActiveIsLater, Active
<1>13. NothingAfterDie'
  <2> SUFFICES ASSUME NEW k \in DOMAIN eventCh', eventCh'[k].type = "interface"
               PROVE  eventCh'[k].gen > dead'[eventCh'[k].c]
    BY DEF NothingAfterDie
  <2>1. k + 1 \in DOMAIN eventCh /\ 1 < k + 1 /\ eventCh'[k] = eventCh[k + 1]
    BY <1>3
  <2>2. eventCh'[k].c \in Containers /\ eventCh'[k].gen \in Nat
    BY <1>3 DEF Event, RuntimeEvent, ListedEvent, WatcherEvent
  <2>3. eventCh'[k].gen > dead[eventCh'[k].c]
    BY <2>1 DEF EventInv, Order, NothingAfterDie
  <2>4. ev.action = "die" /\ ev.c = eventCh'[k].c => ev.gen < eventCh'[k].gen
    BY <1>3, <2>1 DEF EventInv, Order, InOrder
  <2> QED BY <1>4, <1>6, <2>2, <2>3, <2>4
<1> QED BY <1>7, <1>8, <1>9, <1>10, <1>11, <1>12, <1>13 DEF EventInv, Order, DiesAreOver

\* The first listing starts the watchers of the running containers.
LEMMA ListStep ==
    ASSUME EventInv, listContainers
    PROVE  EventInv'
<1> USE DEF world, HistoryUnchanged
<1>1. /\ phase = "init" /\ phase' = "listed" /\ forwarder.pc = "none"
      /\ UNCHANGED <<status, gen, link, feed, forwarder, eventCh, dead>>
  BY DEF listContainers, EventInv, Order, StoppedFirst
<1>2. listed' \subseteq ListedEvent
  BY DEF listContainers, ListedEvent, containerEvent, EventInv, Types, WorldType
<1>3. /\ WatcherType' /\ registry' \subseteq Containers /\ ActiveIsLater' /\ OutIsOwn'
      /\ \A c \in Containers : watcher'[c].pc # "done" => c \in registry'
  <2>1. {c \in Containers : Running(c)} \in SUBSET Containers
    OBVIOUS
  <2>2. Start({c \in Containers : Running(c)})
    BY DEF listContainers
  <2> QED BY <1>1, <2>1, <2>2, StartKeeps
<1>4. Types'
  BY <1>1, <1>2, <1>3 DEF EventInv, Types, WorldType, ProcessType
<1>5. DiesAreOver' /\ NoneAhead' /\ InOrder' /\ NothingAfterDie' /\ AttributesAreFresh'
  BY <1>1 DEF EventInv, Order, DiesAreOver, FeedOver, ForwarderOver, ChannelOver, DeadOver, Over,
              Running, NoneAhead, InOrder, NothingAfterDie, AttributesAreFresh
<1>6. StoppedFirst'
  BY <1>1, <1>3 DEF StoppedFirst
<1> QED BY <1>3, <1>4, <1>5, <1>6 DEF EventInv, Order

(***************************************************************************)
(* The environment.                                                        *)
(***************************************************************************)

\* Steps that touch neither the events nor the watchers, but perhaps the interfaces.
LEMMA QuietStep ==
    ASSUME EventInv, link' \in [Containers -> States], phase' \in {phase, "returned"},
           UNCHANGED <<status, gen, feed, listed, eventCh, forwarder, registry, watcher, dead>>
    PROVE  EventInv'
<1>1. Types'
  BY DEF EventInv, Types, WorldType, ProcessType, WatcherType
<1>2. DiesAreOver' /\ NoneAhead' /\ StoppedFirst'
  BY DEF EventInv, Order, DiesAreOver, FeedOver, ForwarderOver, ChannelOver, DeadOver, Over,
         Running, NoneAhead, StoppedFirst
<1>3. ActiveIsLater' /\ OutIsOwn' /\ InOrder' /\ NothingAfterDie' /\ AttributesAreFresh'
  BY DEF EventInv, Order, ActiveIsLater, Active, OutIsOwn, InOrder, NothingAfterDie,
         AttributesAreFresh
<1> QED BY <1>1, <1>2, <1>3 DEF EventInv, Order

\* A container starts, exits or is signalled: its generation only grows, and what has
\* ended stays ended.
LEMMA ContainerStep ==
    ASSUME EventInv, NEW c \in Containers, NEW a \in {"start", "die", "kill", "unpause"},
           NEW g \in Nat, Publish(c, a, g),
           \/ /\ a = "start" /\ ~ Running(c) /\ g = gen[c] + 1
              /\ status' = [status EXCEPT ![c] = "running"] /\ gen' = [gen EXCEPT ![c] = @ + 1]
           \/ /\ a = "die" /\ Running(c) /\ g = gen[c]
              /\ status' = [status EXCEPT ![c] = "exited"] /\ UNCHANGED gen
           \/ a \in {"kill", "unpause"} /\ g = gen[c] /\ UNCHANGED <<status, gen>>,
           link' \in [Containers -> States],
           UNCHANGED <<phase, listed, eventCh, forwarder, registry, watcher, dead>>
    PROVE  EventInv'
<1>1. /\ status \in [Containers -> {"running", "exited"}] /\ gen \in [Containers -> Nat]
      /\ feed \in Seq(RuntimeEvent) /\ dead \in [Containers -> Nat]
  BY DEF EventInv, Types, WorldType, ProcessType
<1>2. /\ status' \in [Containers -> {"running", "exited"}] /\ gen' \in [Containers -> Nat]
      /\ \A d \in Containers : gen[d] <= gen'[d]
      /\ g <= gen'[c]
  <2>1. CASE a = "start"
    <3>1. /\ status' = [status EXCEPT ![c] = "running"] /\ gen' = [gen EXCEPT ![c] = gen[c] + 1]
          /\ gen[c] \in Nat /\ g = gen[c] + 1
      BY <1>1, <2>1
    <3>2. status' \in [Containers -> {"running", "exited"}] /\ gen' \in [Containers -> Nat]
      BY <1>1, <3>1
    <3>3. \A d \in Containers : gen'[d] = IF d = c THEN gen[c] + 1 ELSE gen[d]
      BY <1>1, <3>1
    <3> QED BY <1>1, <3>1, <3>2, <3>3
  <2>2. CASE a = "die"
    BY <1>1, <2>2
  <2>3. CASE a \in {"kill", "unpause"}
    BY <1>1, <2>3
  <2> QED BY <2>1, <2>2, <2>3
<1>3. \A d \in Containers, h \in Nat : Over(d, h) => Over(d, h)'
  BY <1>1, <1>2 DEF Over, Running
<1>4. a = "die" => Over(c, g)'
  BY <1>1 DEF Over, Running
<1> DEFINE e == containerEvent(c, a, g)
<1>5. e \in RuntimeEvent /\ e.c = c /\ e.gen = g /\ e.action = a
  BY DEF containerEvent, RuntimeEvent
<1>6. feed' = feed \/ feed' = Append(feed, e)
  BY DEF Publish
<1> HIDE DEF e
<1>7. /\ feed' \in Seq(RuntimeEvent)
      /\ \A k \in DOMAIN feed' : feed'[k] = e \/ (k \in DOMAIN feed /\ feed'[k] = feed[k])
  <2>1. CASE feed' = feed
    BY <1>1, <2>1
  <2>2. CASE feed' = Append(feed, e)
    <3>1. /\ feed' \in Seq(RuntimeEvent) /\ DOMAIN feed = 1..Len(feed) /\ Len(feed) \in Nat
          /\ DOMAIN feed' = 1..(Len(feed) + 1) /\ feed'[Len(feed) + 1] = e
          /\ \A k \in DOMAIN feed : feed'[k] = feed[k]
      BY <1>1, <1>5, <2>2
    <3> QED BY <3>1
  <2> QED BY <1>6, <2>1, <2>2
<1>8. Types'
  BY <1>2, <1>7 DEF EventInv, Types, WorldType, ProcessType, WatcherType
<1>9. FeedOver'
  <2>1. \A k \in DOMAIN feed : feed[k].c \in Containers /\ feed[k].gen \in Nat
    <3>1. \A k \in DOMAIN feed : feed[k] \in RuntimeEvent
      BY <1>1
    <3> QED BY <3>1 DEF RuntimeEvent
  <2> SUFFICES ASSUME NEW k \in DOMAIN feed', feed'[k].action = "die"
               PROVE  Over(feed[k].c, feed[k].gen)'
    BY DEF FeedOver
  <2>2. CASE feed'[k] = e
    BY <1>4, <1>5, <2>2 DEF Over, Running
  <2>3. CASE k \in DOMAIN feed /\ feed'[k] = feed[k]
    <3>1. Over(feed[k].c, feed[k].gen)
      BY <2>3 DEF EventInv, Order, DiesAreOver, FeedOver
    <3>2. feed[k].c \in Containers /\ feed[k].gen \in Nat
      BY <2>1, <2>3
    <3> QED BY <1>3, <2>3, <3>1, <3>2 DEF Over, Running
  <2> QED BY <1>7, <2>2, <2>3
<1>10. ForwarderOver'
  <2>1. forwarder.pc \in {"stopping", "sending"} =>
           forwarder.ev.c \in Containers /\ forwarder.ev.gen \in Nat
    BY DEF EventInv, Types, ProcessType, RuntimeEvent
  <2> QED BY <1>3, <2>1 DEF EventInv, Order, DiesAreOver, ForwarderOver, Over, Running
<1>11. ChannelOver' /\ DeadOver'
  <2>1. \A k \in DOMAIN eventCh : eventCh[k].c \in Containers /\ eventCh[k].gen \in Nat
    BY DEF EventInv, Types, ProcessType, RuntimeEvent, ListedEvent, WatcherEvent
  <2> QED BY <1>1, <1>3, <2>1
          DEF EventInv, Order, DiesAreOver, ChannelOver, DeadOver, Over, Running
<1>12. NoneAhead'
  <2>1. \A k \in DOMAIN feed : feed[k].c \in Containers /\ feed[k].gen \in Nat
    <3>1. \A k \in DOMAIN feed : feed[k] \in RuntimeEvent
      BY <1>1
    <3> QED BY <3>1 DEF RuntimeEvent
  <2>2. forwarder.pc \in {"stopping", "sending"} =>
           forwarder.ev.c \in Containers /\ forwarder.ev.gen \in Nat
    BY DEF EventInv, Types, ProcessType, RuntimeEvent
  <2>3. \A k \in DOMAIN feed : feed[k].gen <= gen'[feed[k].c]
    BY <1>1, <1>2, <2>1 DEF EventInv, Order, NoneAhead
  <2>4. forwarder.pc \in {"stopping", "sending"} => forwarder.ev.gen <= gen'[forwarder.ev.c]
    BY <1>1, <1>2, <2>2 DEF EventInv, Order, NoneAhead
  <2> QED BY <1>2, <1>5, <1>7, <2>3, <2>4 DEF NoneAhead
<1>13. StoppedFirst' /\ ActiveIsLater' /\ OutIsOwn' /\ InOrder' /\ NothingAfterDie'
       /\ AttributesAreFresh'
  BY DEF EventInv, Order, StoppedFirst, ActiveIsLater, Active, OutIsOwn, InOrder,
         NothingAfterDie, AttributesAreFresh
<1> QED BY <1>8, <1>9, <1>10, <1>11, <1>12, <1>13 DEF EventInv, Order, DiesAreOver

\* An interface changes, and the kernel tells a subscribed watcher about it.
LEMMA LinkStep ==
    ASSUME EventInv, NEW c \in Containers, NEW i \in Interfaces, NEW a \in Attrs \cup {"absent"},
           linkChanges(c, i, a)
    PROVE  EventInv'
<1> DEFINE s == IF a = "absent" THEN Absent ELSE [link[c][i] EXCEPT !.attr = a]
           w == watcher[c]
<1>1. /\ link' = [link EXCEPT ![c][i] = s]
      /\ \/ watcher' = [watcher EXCEPT ![c].updates = Append(@, [i |-> i, s |-> s])]
         \/ watcher' = watcher
      /\ UNCHANGED <<status, gen, feed, phase, listed, eventCh, forwarder, registry, dead>>
  BY DEF linkChanges
<1>2. /\ link \in [Containers -> States] /\ link[c][i] \in State
      /\ watcher \in [Containers -> Watcher] /\ w \in Watcher
  BY DEF EventInv, Types, WorldType, WatcherType, States
<1>3. s \in State
  <2>1. [link[c][i] EXCEPT !.attr = a] \in State
    <3> DEFINE l == link[c][i]
    <3>1. l \in State
      BY <1>2
    <3> HIDE DEF l
    <3>2. [l EXCEPT !.attr = a] \in State
      BY <3>1 DEF State
    <3> QED BY <3>2 DEF l
  <2> QED BY <2>1, Constants
<1> HIDE DEF s
<1>4. link' \in [Containers -> States]
  <2>1. [link[c] EXCEPT ![i] = s] \in States
    BY <1>2, <1>3 DEF States
  <2> QED BY <1>1, <1>2, <2>1
<1>5. CASE watcher' = watcher
  BY <1>1, <1>4, <1>5, QuietStep
<1>6. CASE watcher' = [watcher EXCEPT ![c].updates = Append(@, [i |-> i, s |-> s])]
  <2> DEFINE q == Append(w.updates, [i |-> i, s |-> s])
             v == [w EXCEPT !.updates = q]
  <2>1. w.updates \in Seq(Update) /\ [i |-> i, s |-> s] \in Update
    BY <1>2, <1>3 DEF Watcher, Update
  <2>2. q \in Seq(Update)
    BY <2>1
  <2>3. watcher' = [watcher EXCEPT ![c] = v]
    BY <1>2, <1>6
  <2> HIDE DEF q
  <2>4. v \in Watcher /\ v.pc = w.pc /\ v.gen = w.gen /\ v.out = w.out
    BY <1>2, <2>2 DEF Watcher
  <2> HIDE DEF v
  <2>5. WatcherType'
    BY <1>2, <2>3, <2>4 DEF WatcherType
  <2>6. \A d \in Containers : /\ watcher'[d].pc = watcher[d].pc /\ watcher'[d].gen = watcher[d].gen
                              /\ watcher'[d].out = watcher[d].out
    BY <1>2, <2>3, <2>4
  <2>7. Types'
    BY <1>1, <1>4, <2>5 DEF EventInv, Types, WorldType, ProcessType
  <2>8. DiesAreOver' /\ NoneAhead' /\ InOrder' /\ NothingAfterDie' /\ AttributesAreFresh'
    BY <1>1 DEF EventInv, Order, DiesAreOver, FeedOver, ForwarderOver, ChannelOver, DeadOver,
                Over, Running, NoneAhead, InOrder, NothingAfterDie, AttributesAreFresh
  <2>9. StoppedFirst'
    BY <1>1, <2>6 DEF EventInv, Order, StoppedFirst, Types, ProcessType, RuntimeEvent
  <2>10. ActiveIsLater' /\ OutIsOwn'
    BY <1>1, <2>6 DEF EventInv, Order, ActiveIsLater, Active, OutIsOwn
  <2> QED BY <2>7, <2>8, <2>9, <2>10 DEF EventInv, Order
<1> QED BY <1>1, <1>5, <1>6

\* Every step of the environment keeps the invariant.
LEMMA EnvironmentStep ==
    ASSUME EventInv, Environment
    PROVE  EventInv'
<1> USE DEF Happens, process
<1>1. /\ link \in [Containers -> States] /\ gen \in [Containers -> Nat]
      /\ NoStates \in States
  BY Constants DEF EventInv, Types, WorldType
<1>2. CASE interrupt \/ feedBreaks
  BY <1>1, <1>2, QuietStep DEF interrupt, feedBreaks, world, HistoryUnchanged
<1>3. ASSUME NEW c \in Containers,
             \/ containerStarts(c) \/ containerExits(c) \/ containerSignalled(c)
             \/ containerUnpaused(c)
      PROVE  EventInv'
  <2>1. gen[c] \in Nat /\ gen[c] + 1 \in Nat
    BY <1>1
  <2>2. CASE containerStarts(c)
    BY <1>1, <2>1, <2>2, ContainerStep DEF containerStarts
  <2>3. CASE containerExits(c)
    <3>1. link' \in [Containers -> States]
      BY <1>1, <2>3 DEF containerExits
    <3> QED BY <2>1, <2>3, <3>1, ContainerStep DEF containerExits
  <2>4. CASE containerSignalled(c)
    BY <1>1, <2>1, <2>4, ContainerStep DEF containerSignalled
  <2>5. CASE containerUnpaused(c)
    BY <1>1, <2>1, <2>5, ContainerStep DEF containerUnpaused
  <2> QED BY <1>3, <2>2, <2>3, <2>4, <2>5
<1>4. ASSUME NEW c \in Containers, NEW i \in Interfaces, netemChanges(c, i) \/ traffic(c, i)
      PROVE  EventInv'
  <2> DEFINE l == link[c][i]
  <2>1. l \in State /\ link[c] \in States
    BY <1>1 DEF States
  <2>2. PICK s \in State : link' = [link EXCEPT ![c] = [link[c] EXCEPT ![i] = s]]
    <3> DEFINE b == ~ l.netem
               r == (l.rx + 1) % (MaxRx + 1)
    <3>1. b \in BOOLEAN
      BY Zenon
    <3>2. r \in 0..MaxRx
      <4>1. l.rx \in Nat /\ MaxRx \in Nat
        BY <2>1, BoundsAssumption DEF State
      <4> QED BY <4>1
    <3>3. CASE netemChanges(c, i)
      <4>1. link' = [link EXCEPT ![c] = [link[c] EXCEPT ![i] = [l EXCEPT !.netem = b]]]
        BY <3>3, <1>1, <2>1 DEF netemChanges, States
      <4> HIDE DEF b, l
      <4>2. [l EXCEPT !.netem = b] \in State
        BY <2>1, <3>1, NetemState
      <4> QED BY <4>1, <4>2
    <3>4. CASE traffic(c, i)
      <4>1. link' = [link EXCEPT ![c] = [link[c] EXCEPT ![i] = [l EXCEPT !.rx = r]]]
        BY <3>4, <1>1, <2>1 DEF traffic, States
      <4> HIDE DEF r, l
      <4>2. [l EXCEPT !.rx = r] \in State
        BY <2>1, <3>2 DEF State
      <4> QED BY <4>1, <4>2
    <3> QED BY <1>4, <3>3, <3>4
  <2>3. link' \in [Containers -> States]
    <3>1. [link[c] EXCEPT ![i] = s] \in States
      BY <2>1 DEF States
    <3> QED BY <1>1, <2>2, <3>1
  <2> QED BY <1>4, <2>3, QuietStep DEF netemChanges, traffic
<1>5. ASSUME NEW c \in Containers, NEW i \in Interfaces, NEW a \in Attrs \cup {"absent"},
             linkChanges(c, i, a)
      PROVE  EventInv'
  BY <1>5, LinkStep
<1> QED BY <1>2, <1>3, <1>4, <1>5, SubscribeStep DEF Environment

(***************************************************************************)
(* The theorems.                                                           *)
(***************************************************************************)

\* The invariant holds at the start: nothing is queued and no watcher runs.
LEMMA EventInit == Init => EventInv
<1> SUFFICES ASSUME Init PROVE EventInv
  OBVIOUS
<1> USE DEF Init
<1>1. /\ NoStates \in States /\ NoWatcher \in Watcher /\ NoWatcher.pc = "done"
      /\ NoWatcher.out = <<>>
  BY Constants
<1>2. Types
  BY <1>1 DEF Types, WorldType, ProcessType, WatcherType
<1>3. DiesAreOver /\ NoneAhead
  BY DEF DiesAreOver, FeedOver, ForwarderOver, ChannelOver, DeadOver, Over, Running, NoneAhead
<1>4. StoppedFirst /\ ActiveIsLater /\ OutIsOwn /\ InOrder /\ NothingAfterDie /\ AttributesAreFresh
  BY <1>1 DEF StoppedFirst, ActiveIsLater, Active, OutIsOwn, InOrder, NothingAfterDie,
              AttributesAreFresh
<1> QED BY <1>2, <1>3, <1>4 DEF EventInv, Order

\* Every step keeps it.
LEMMA EventNext == EventInv /\ [Next]_vars => EventInv'
<1> SUFFICES ASSUME EventInv, [Next]_vars PROVE EventInv'
  OBVIOUS
<1>1. ASSUME NEW c \in Containers, WatcherStep(c) PROVE EventInv'
  BY <1>1, ResolveStep, SnapshotStep, SubscribeStep, UpdateStep, RemoveStep, EmitStep
     DEF WatcherStep
<1>2. ASSUME NEW c \in Containers, Ticks(c) PROVE EventInv'
  BY <1>2, TickStep
<1>3. CASE ForwarderStep
  BY <1>3, HandleStep, ForwarderMoves, ForwardStep DEF ForwarderStep
<1>4. link \in [Containers -> States]
  BY DEF EventInv, Types, WorldType
<1>5. CASE MainStep
  <2>1. CASE streamReturns
    BY <1>4, <2>1, QuietStep DEF streamReturns, world, HistoryUnchanged
  <2> QED BY <1>5, <2>1, ListStep, ForwarderMoves, PrintStep DEF MainStep
<1>6. CASE UNCHANGED vars
  BY <1>4, <1>6, QuietStep DEF vars, world, process
<1> QED BY <1>1, <1>2, <1>3, <1>5, <1>6, AnnounceStep, EnvironmentStep DEF Next

\* The invariant holds in every reachable state.
THEOREM EventInvHolds == Spec => []EventInv
  BY EventInit, EventNext, PTL DEF Spec

\* Events are current: once the end of a container was printed, no interface event of
\* that start is still to be printed, because Stop waits for the watcher before the event
\* is forwarded, and the attributes of a container event are never older than the event.
\* This for every number of containers, every length of the channel and every moment at
\* which containers exit, start again or are signalled.
THEOREM CurrentTheorem == Spec => []EventsAreCurrent
<1>1. EventInv => EventsAreCurrent
  BY DEF EventInv, Order, EventsAreCurrent
<1> QED BY <1>1, EventInvHolds, PTL

\* A difference that is reported is at most what the counter can hold, for every width of
\* the counter and every reset between the samples (deltaCounter).
THEOREM DeltaTheorem == Spec => []DeltasArePossible
<1>1. EventInv => DeltasArePossible
  <2> SUFFICES ASSUME EventInv, NEW k \in DOMAIN eventCh, eventCh[k].type = "interface"
               PROVE  eventCh[k].delta <= MaxRx
    BY DEF DeltasArePossible
  <2>1. eventCh \in Seq(Event)
    BY DEF EventInv, Types, ProcessType, Event
  <2>2. eventCh[k] \in WatcherEvent
    BY <2>1 DEF Event, RuntimeEvent, ListedEvent
  <2>3. eventCh[k].delta \in 0..MaxRx
    BY <2>2 DEF WatcherEvent
  <2> QED BY <2>3, BoundsAssumption
<1> QED BY <1>1, EventInvHolds, PTL

(***************************************************************************)
(* What the output tells about an interface.                               *)
(***************************************************************************)

\* An event changes what is known about interface i of container c, and to what.
Affects(ev, c, i) ==
    ev.c = c /\ IF ev.type = "interface" THEN ev.i = i /\ ev.action # "stats" ELSE ev.action \in Stops

Says(ev) ==
    IF ev.type = "interface" /\ ev.action # "delete"
    THEN [Absent EXCEPT !.attr = ev.attr, !.netem = ev.netem] ELSE Absent

\* After the events s the interface is known as v: the last event about it says so, or
\* there is none and it was known so before.
Silent(s, c, i) == \A k \in DOMAIN s : ~ Affects(s[k], c, i)
LastSays(s, c, i, v) ==
    \E k \in DOMAIN s : /\ Affects(s[k], c, i) /\ equal(Says(s[k]), v)
                        /\ \A l \in DOMAIN s : l > k => ~ Affects(s[l], c, i)
Ends(s, c, i, before, v) == LastSays(s, c, i, v) \/ (Silent(s, c, i) /\ before)

\* What is known when the channel is printed, and when the watcher's events are as well.
Known(c, i, v) == Ends(eventCh, c, i, equal(told[c][i], v), v)
KnownAfter(c, i, v) == Ends(watcher[c].out, c, i, Known(c, i, v), v)

\* The attributes that the watcher has or will have read are those of the kernel.
LastUpdate(u, i, a) ==
    \E k \in DOMAIN u : u[k].i = i /\ u[k].s.attr = a /\ \A l \in DOMAIN u : l > k => u[l].i # i
NoUpdate(u, i) == \A k \in DOMAIN u : u[k].i # i
AttrCurrent(c, i) ==
    \/ LastUpdate(watcher[c].updates, i, link[c][i].attr)
    \/ NoUpdate(watcher[c].updates, i) /\ watcher[c].states[i].attr = link[c][i].attr

\* The forwarder has a stop of c in hand.
HoldsStop(c) ==
    forwarder.pc \in {"stopping", "sending"} /\ forwarder.ev.c = c /\ forwarder.ev.action \in Stops

Wiped(c, i) == HoldsStop(c) \/ Known(c, i, Absent)

\* When the forwarder has read the first k - 1 events of the feed, c has no watcher and
\* all its interfaces are, or are about to be, reported gone.
Quiet(c, i, k) ==
    \E j \in 0..(k - 1) :
       /\ IF j = 0 THEN c \notin registry /\ Wiped(c, i)
          ELSE feed[j].c = c /\ feed[j].action \in Stops
       /\ \A m \in (j + 1)..(k - 1) : feed[m].c = c => feed[m].action \notin Starts

NoStopAfter(c, k) ==
    \A m \in DOMAIN feed : m > k /\ feed[m].c = c => feed[m].action \notin Stops

\* The start of c is still in the feed, or the watcher of the present start is at work.
Starting(c, i) ==
    \E k \in DOMAIN feed : /\ feed[k].c = c /\ feed[k].action \in Starts
                           /\ Quiet(c, i, k) /\ NoStopAfter(c, k)
AtWork(c) ==
    /\ c \in registry /\ watcher[c].pc \in {"resolve", "snapshot", "subscribe", "loop"}
    /\ ~ watcher[c].cancelled
    /\ watcher[c].pc # "resolve" => watcher[c].gen = gen[c]
Following(c, i) ==
    /\ AtWork(c) /\ NoStopAfter(c, 0)
    /\ IF watcher[c].pc \in {"resolve", "snapshot"} THEN Known(c, i, Absent)
       ELSE KnownAfter(c, i, watcher[c].states[i]) /\ AttrCurrent(c, i)

Reported(c, i) ==
    phase # "init" =>
      /\ ~ Running(c) /\ c \notin stale => Quiet(c, i, Len(feed) + 1)
      /\ Running(c) /\ <<c, i>> \notin unseen => Starting(c, i) \/ Following(c, i)

\* What does not depend on the options.
Tidy(c) ==
    /\ HoldsStop(c) => c \notin registry
    /\ watcher[c].pc # "loop" => watcher[c].updates = <<>>
    /\ \A i \in Interfaces :
         /\ c \in stale => <<c, i>> \in unseen
         /\ link[c][i].attr = "absent" => ~ link[c][i].netem
         /\ watcher[c].states[i].attr = "absent" => ~ watcher[c].states[i].netem

\* The subscription opens the feed; before the listing nothing has happened.  The
\* forwarder waits for a watcher only after a stop.
Subscribed ==
    /\ forwarder.pc = "stopping" => forwarder.ev.action \in Stops
    /\ phase \in {"init", "listed", "loop", "returned"}
    /\ phase = "returned" => ctxDone
    /\ phase = "loop" => feedState \in {"open", "error", "over"}
    /\ phase \in {"init", "listed"} => feedState = "closed" /\ feed = <<>>
    /\ phase = "init" => /\ registry = {} /\ listed = {} /\ eventCh = <<>> /\ stale = {}
                         /\ told = [c \in Containers |-> NoStates]
    /\ told \in [Containers -> States]

\* The case that NothingLost is about, until the command is cancelled.
Watching == ~ opts.stats /\ opts.initial /\ ~ ctxDone

ReportInv ==
    /\ Subscribed
    /\ \A c \in Containers : Tidy(c)
    /\ Watching => \A c \in Containers, i \in Interfaces : Reported(c, i)

(***************************************************************************)
(* Lemmas about what is known after a sequence of events.                  *)
(***************************************************************************)

\* An event at the end of the sequence decides, if it is about the interface.
LEMMA EndsAppend ==
    ASSUME NEW E, NEW s \in Seq(E), NEW e \in E, NEW c, NEW i, NEW b, NEW v
    PROVE  /\ Affects(e, c, i) /\ equal(Says(e), v) => Ends(Append(s, e), c, i, b, v)
           /\ ~ Affects(e, c, i) /\ Ends(s, c, i, b, v) => Ends(Append(s, e), c, i, b, v)
<1> DEFINE t == Append(s, e)
<1>1. /\ Len(t) = Len(s) + 1 /\ DOMAIN t = 1..(Len(s) + 1) /\ DOMAIN s = 1..Len(s) /\ Len(s) \in Nat
      /\ t[Len(s) + 1] = e /\ \A k \in 1..Len(s) : t[k] = s[k]
  OBVIOUS
<1> HIDE DEF t
<1>2. ASSUME Affects(e, c, i), equal(Says(e), v) PROVE LastSays(t, c, i, v)
  <2>1. /\ Len(s) + 1 \in DOMAIN t /\ Affects(t[Len(s) + 1], c, i)
        /\ equal(Says(t[Len(s) + 1]), v)
        /\ \A l \in DOMAIN t : ~(l > Len(s) + 1)
    BY <1>1, <1>2
  <2> QED BY <2>1 DEF LastSays
<1>3. ASSUME ~ Affects(e, c, i), LastSays(s, c, i, v) PROVE LastSays(t, c, i, v)
  <2>1. PICK k \in DOMAIN s : /\ Affects(s[k], c, i) /\ equal(Says(s[k]), v)
                              /\ \A l \in DOMAIN s : l > k => ~ Affects(s[l], c, i)
    BY <1>3 DEF LastSays
  <2>2. /\ k \in DOMAIN t /\ Affects(t[k], c, i) /\ equal(Says(t[k]), v)
        /\ \A l \in DOMAIN t : l > k => ~ Affects(t[l], c, i)
    BY <2>1, <1>1, <1>3
  <2> QED BY <2>2 DEF LastSays
<1>4. ASSUME ~ Affects(e, c, i), Silent(s, c, i) PROVE Silent(t, c, i)
  BY <1>1, <1>4 DEF Silent
<1>5. /\ Affects(e, c, i) /\ equal(Says(e), v) => Ends(t, c, i, b, v)
      /\ ~ Affects(e, c, i) /\ Ends(s, c, i, b, v) => Ends(t, c, i, b, v)
  BY <1>2, <1>3, <1>4 DEF Ends
<1> QED BY <1>5 DEF t

\* Taking the first event away leaves the rest, on top of what the first one said.
LEMMA EndsTail ==
    ASSUME NEW E, NEW s \in Seq(E), s # <<>>, NEW c, NEW i, NEW b, NEW v, Ends(s, c, i, b, v),
           NEW a, Affects(Head(s), c, i) /\ equal(Says(Head(s)), v) => a,
           ~ Affects(Head(s), c, i) /\ b => a
    PROVE  Ends(Tail(s), c, i, a, v)
<1> DEFINE t == Tail(s)
<1>1. /\ Len(s) \in Nat \ {0} /\ DOMAIN s = 1..Len(s) /\ DOMAIN t = 1..(Len(s) - 1)
      /\ \A k \in 1..(Len(s) - 1) : t[k] = s[k + 1]
      /\ Head(s) = s[1]
  OBVIOUS
<1> HIDE DEF t
<1>2. ASSUME Silent(s, c, i), b PROVE Silent(t, c, i) /\ a
  BY <1>1, <1>2 DEF Silent
<1>3. ASSUME LastSays(s, c, i, v) PROVE LastSays(t, c, i, v) \/ (Silent(t, c, i) /\ a)
  <2>1. PICK k \in DOMAIN s : /\ Affects(s[k], c, i) /\ equal(Says(s[k]), v)
                              /\ \A l \in DOMAIN s : l > k => ~ Affects(s[l], c, i)
    BY <1>3 DEF LastSays
  <2>2. CASE k = 1
    <3>1. a
      BY <2>1, <2>2, <1>1
    <3>2. \A l \in DOMAIN t : ~ Affects(t[l], c, i)
      BY <2>1, <2>2, <1>1
    <3> QED BY <3>1, <3>2 DEF Silent
  <2>3. CASE k # 1
    <3>1. /\ k - 1 \in DOMAIN t /\ t[k - 1] = s[k]
      BY <2>1, <2>3, <1>1
    <3>2. \A l \in DOMAIN t : l > k - 1 => ~ Affects(t[l], c, i)
      <4> SUFFICES ASSUME NEW l \in DOMAIN t, l > k - 1 PROVE ~ Affects(t[l], c, i)
        OBVIOUS
      <4>1. l \in 1..(Len(s) - 1) /\ k \in Nat
        BY <2>1, <1>1
      <4>2. l + 1 \in DOMAIN s /\ l + 1 > k /\ t[l] = s[l + 1]
        BY <4>1, <1>1
      <4> QED BY <2>1, <4>2
    <3> QED BY <3>1, <3>2, <2>1 DEF LastSays
  <2> QED BY <2>2, <2>3
<1>4. Ends(t, c, i, a, v)
  BY <1>2, <1>3 DEF Ends
<1> QED BY <1>4 DEF t

\* A message of the kernel at the end of those that a watcher has not read.
LEMMA UpdateAppend ==
    ASSUME NEW E, NEW u \in Seq(E), NEW e \in E, NEW i, NEW a
    PROVE  /\ e.i = i /\ e.s.attr = a => LastUpdate(Append(u, e), i, a)
           /\ e.i # i /\ LastUpdate(u, i, a) => LastUpdate(Append(u, e), i, a)
           /\ e.i # i /\ NoUpdate(u, i) => NoUpdate(Append(u, e), i)
<1> DEFINE t == Append(u, e)
<1>1. /\ DOMAIN t = 1..(Len(u) + 1) /\ DOMAIN u = 1..Len(u) /\ Len(u) \in Nat
      /\ t[Len(u) + 1] = e /\ \A k \in 1..Len(u) : t[k] = u[k]
  OBVIOUS
<1> HIDE DEF t
<1>2. ASSUME e.i = i, e.s.attr = a PROVE LastUpdate(t, i, a)
  <2>1. Len(u) + 1 \in DOMAIN t /\ \A l \in DOMAIN t : ~(l > Len(u) + 1)
    BY <1>1
  <2> QED BY <2>1, <1>1, <1>2 DEF LastUpdate
<1>3. ASSUME e.i # i, LastUpdate(u, i, a) PROVE LastUpdate(t, i, a)
  <2>1. PICK k \in DOMAIN u : u[k].i = i /\ u[k].s.attr = a /\ \A l \in DOMAIN u : l > k => u[l].i # i
    BY <1>3 DEF LastUpdate
  <2>2. k \in DOMAIN t /\ t[k] = u[k] /\ \A l \in DOMAIN t : l > k => t[l].i # i
    BY <2>1, <1>1, <1>3
  <2> QED BY <2>1, <2>2 DEF LastUpdate
<1>4. ASSUME e.i # i, NoUpdate(u, i) PROVE NoUpdate(t, i)
  BY <1>1, <1>4 DEF NoUpdate
<1>5. /\ e.i = i /\ e.s.attr = a => LastUpdate(t, i, a)
      /\ e.i # i /\ LastUpdate(u, i, a) => LastUpdate(t, i, a)
      /\ e.i # i /\ NoUpdate(u, i) => NoUpdate(t, i)
  BY <1>2, <1>3, <1>4
<1> QED BY <1>5 DEF t

\* The first message is read: the others are still to come.
LEMMA UpdateTail ==
    ASSUME NEW E, NEW u \in Seq(E), u # <<>>, NEW i, NEW a
    PROVE  /\ LastUpdate(u, i, a) =>
                \/ LastUpdate(Tail(u), i, a)
                \/ NoUpdate(Tail(u), i) /\ Head(u).i = i /\ Head(u).s.attr = a
           /\ NoUpdate(u, i) => NoUpdate(Tail(u), i) /\ Head(u).i # i
<1> DEFINE t == Tail(u)
<1>1. /\ Len(u) \in Nat \ {0} /\ DOMAIN u = 1..Len(u) /\ DOMAIN t = 1..(Len(u) - 1)
      /\ \A k \in 1..(Len(u) - 1) : t[k] = u[k + 1]
      /\ Head(u) = u[1]
  OBVIOUS
<1> HIDE DEF t
<1>2. ASSUME LastUpdate(u, i, a)
      PROVE  LastUpdate(t, i, a) \/ (NoUpdate(t, i) /\ Head(u).i = i /\ Head(u).s.attr = a)
  <2>1. PICK k \in DOMAIN u : u[k].i = i /\ u[k].s.attr = a /\ \A l \in DOMAIN u : l > k => u[l].i # i
    BY <1>2 DEF LastUpdate
  <2>2. CASE k = 1
    <3>1. \A l \in DOMAIN t : t[l].i # i
      BY <2>1, <2>2, <1>1
    <3> QED BY <3>1, <2>1, <2>2, <1>1 DEF NoUpdate
  <2>3. CASE k # 1
    <3>1. k - 1 \in DOMAIN t /\ t[k - 1] = u[k]
      BY <2>1, <2>3, <1>1
    <3>2. \A l \in DOMAIN t : l > k - 1 => t[l].i # i
      BY <2>1, <1>1
    <3> QED BY <3>1, <3>2, <2>1 DEF LastUpdate
  <2> QED BY <2>2, <2>3
<1>3. NoUpdate(u, i) => NoUpdate(t, i) /\ Head(u).i # i
  BY <1>1 DEF NoUpdate
<1> QED BY <1>2, <1>3 DEF t

\* What is reported about one interface does not depend on what happens elsewhere.
LEMMA Frame ==
    ASSUME NEW c \in Containers, NEW i \in Interfaces, Reported(c, i), UNCHANGED feed,
           phase' # "init" => phase # "init",
           status'[c] = status[c], gen'[c] = gen[c], watcher'[c] = watcher[c],
           c \in registry' <=> c \in registry, c \in stale => c \in stale',
           <<c, i>> \in unseen => <<c, i>> \in unseen',
           Wiped(c, i) => Wiped(c, i)', c \in registry => \A v : Known(c, i, v) => Known(c, i, v)',
           link'[c][i].attr = link[c][i].attr
    PROVE  Reported(c, i)'
<1>1. ASSUME NEW k, Quiet(c, i, k) PROVE Quiet(c, i, k)'
  BY <1>1 DEF Quiet
<1>2. ASSUME NEW k PROVE NoStopAfter(c, k)' <=> NoStopAfter(c, k)
  BY DEF NoStopAfter
<1>3. Starting(c, i) => Starting(c, i)'
  BY <1>1, <1>2 DEF Starting
<1>4. AtWork(c) => AtWork(c)'
  BY DEF AtWork
<1>5. AttrCurrent(c, i) => AttrCurrent(c, i)'
  BY DEF AttrCurrent
<1>6. ASSUME NEW v, c \in registry, KnownAfter(c, i, v) PROVE KnownAfter(c, i, v)'
  BY <1>6 DEF KnownAfter, Ends
<1>7. c \in registry /\ KnownAfter(c, i, watcher[c].states[i]) => KnownAfter(c, i, watcher[c].states[i])'
  <2> DEFINE v == watcher[c].states[i]
  <2>1. v' = v
    OBVIOUS
  <2>2. c \in registry /\ KnownAfter(c, i, v) => KnownAfter(c, i, v)'
    BY <1>6, <2>1 DEF KnownAfter, Ends, LastSays, Silent, Known
  <2> QED BY <2>2
<1>8. c \in registry /\ Known(c, i, Absent) => Known(c, i, Absent)'
  OBVIOUS
<1>9. Following(c, i) => Following(c, i)'
  BY <1>2, <1>4, <1>5, <1>7, <1>8 DEF Following, AtWork
<1>10. Running(c)' <=> Running(c)
  BY DEF Running
<1>11. Quiet(c, i, Len(feed) + 1) => Quiet(c, i, Len(feed) + 1)'
  BY <1>1 DEF Quiet
<1> QED BY <1>3, <1>9, <1>10, <1>11 DEF Reported

\* The same for the facts that do not depend on the options.
LEMMA TidyFrame ==
    ASSUME NEW c \in Containers, Tidy(c), watcher'[c] = watcher[c],
           UNCHANGED <<registry, stale, unseen, forwarder>>, link'[c] = link[c]
    PROVE  Tidy(c)'
  BY DEF Tidy, HoldsStop

\* A send to the channel.
LEMMA KnownSend ==
    ASSUME EventInv, NEW e \in Event, eventCh' = Append(eventCh, e), told' = told,
           NEW c \in Containers, NEW i \in Interfaces
    PROVE  /\ ~ Affects(e, c, i) => \A v : Known(c, i, v) => Known(c, i, v)'
           /\ \A v : Affects(e, c, i) /\ equal(Says(e), v) => Known(c, i, v)'
<1>1. eventCh \in Seq(Event)
  BY DEF EventInv, Types, ProcessType, Event
<1> SUFFICES ASSUME NEW v
             PROVE  /\ ~ Affects(e, c, i) /\ Known(c, i, v) => Known(c, i, v)'
                    /\ Affects(e, c, i) /\ equal(Says(e), v) => Known(c, i, v)'
  OBVIOUS
<1> DEFINE b == equal(told[c][i], v)
<1>2. /\ Known(c, i, v) <=> Ends(eventCh, c, i, b, v)
      /\ Known(c, i, v)' <=> Ends(Append(eventCh, e), c, i, b, v)
  BY DEF Known
<1> HIDE DEF b
<1> QED BY <1>1, <1>2, EndsAppend

\* An event of the channel is about an interface, or about a container and then
\* wipes what is known if it is a stop.
LEMMA EventKinds ==
    ASSUME NEW e \in Event
    PROVE  /\ e.c \in Containers
           /\ \/ e.type = "container"
              \/ /\ e.type = "interface" /\ e.i \in Interfaces /\ e.action \notin Stops
                 /\ e.attr \in Attrs \cup {"absent"} /\ e.netem \in BOOLEAN
  BY DEF Event, RuntimeEvent, ListedEvent, WatcherEvent, Stops

\* The reader of the output knows what the event says.
LEMMA FormatterSays ==
    ASSUME NEW e \in Event, told \in [Containers -> States]
    PROVE  /\ formatter(e) \in [Containers -> States]
           /\ \A c \in Containers, i \in Interfaces :
                /\ Affects(e, c, i) => formatter(e)[c][i] = Says(e)
                /\ ~ Affects(e, c, i) => formatter(e)[c][i] = told[c][i]
<1>1. Absent \in State /\ NoStates \in States /\ \A i \in Interfaces : NoStates[i] = Absent
  BY Constants DEF NoStates
<1>2. CASE e.type = "interface" /\ e.action # "stats"
  <2> DEFINE r == IF e.action = "delete" THEN Absent
                  ELSE [Absent EXCEPT !.attr = e.attr, !.netem = e.netem]
  <2>1. e.c \in Containers /\ e.i \in Interfaces /\ e.attr \in Attrs \cup {"absent"} /\ e.netem \in BOOLEAN
    BY <1>2, EventKinds
  <2>2. r \in State
    BY <2>1, <1>1 DEF State
  <2>3. formatter(e) = [told EXCEPT ![e.c][e.i] = r]
    <3>1. e.action \notin Stops
      BY <1>2, EventKinds
    <3> QED BY <1>2, <3>1, Zenon DEF formatter
  <2>4. r = Says(e)
    BY <1>2 DEF Says
  <2> HIDE DEF r
  <2>5. formatter(e) \in [Containers -> States]
    BY <2>1, <2>2, <2>3 DEF States
  <2>6. \A c \in Containers, i \in Interfaces :
           formatter(e)[c][i] = IF e.c = c /\ e.i = i THEN r ELSE told[c][i]
    BY <2>1, <2>3 DEF States
  <2> QED BY <2>4, <2>5, <2>6, <1>2 DEF Affects
<1>3. CASE e.type # "interface" /\ e.action \in Stops
  <2>1. formatter(e) = [told EXCEPT ![e.c] = NoStates] /\ e.c \in Containers
    BY <1>3, EventKinds DEF formatter
  <2>2. \A c \in Containers : formatter(e)[c] = IF e.c = c THEN NoStates ELSE told[c]
    BY <2>1
  <2> QED BY <2>1, <2>2, <1>1, <1>3 DEF Affects, Says
<1>4. CASE ~(e.type = "interface" /\ e.action # "stats") /\ e.action \notin Stops
  <2>1. formatter(e) = told
    BY <1>4 DEF formatter
  <2> QED BY <2>1, <1>4 DEF Affects
<1>5. e.type = "interface" => e.action \notin Stops
  BY EventKinds
<1> QED BY <1>2, <1>3, <1>4, <1>5

\* print: what was known when the channel is printed does not change.
LEMMA PrintReports ==
    ASSUME EventInv, ReportInv, print
    PROVE  ReportInv'
<1> USE DEF print, world
<1> DEFINE e == Head(eventCh)
<1>1. eventCh \in Seq(Event) /\ eventCh # <<>> /\ e \in Event /\ eventCh' = Tail(eventCh)
      /\ told' = formatter(e) /\ told \in [Containers -> States]
  BY DEF EventInv, Types, ProcessType, Event, ReportInv, Subscribed
<1>2. UNCHANGED <<status, gen, link, feed, feedState, opts, phase, forwarder, registry, watcher, ctxDone, unseen, stale>>
  OBVIOUS
<1> HIDE DEF e, print
<1>3. Subscribed'
  <2>1. told' \in [Containers -> States]
    BY <1>1, FormatterSays
  <2> QED BY <2>1, <1>1, <1>2 DEF ReportInv, Subscribed, print
<1>4. ASSUME NEW c \in Containers PROVE Tidy(c)'
  BY <1>2, TidyFrame DEF ReportInv
<1>5. ASSUME NEW c \in Containers, NEW i \in Interfaces, Reported(c, i) PROVE Reported(c, i)'
  <2>1. ASSUME NEW v, Known(c, i, v) PROVE Known(c, i, v)'
    <3> DEFINE b == equal(told[c][i], v)
               a == equal(told'[c][i], v)
    <3>1. Ends(eventCh, c, i, b, v)
      BY <2>1 DEF Known
    <3>2. /\ Affects(e, c, i) /\ equal(Says(e), v) => a
          /\ ~ Affects(e, c, i) /\ b => a
      BY <1>1, FormatterSays
    <3>3. Known(c, i, v)' <=> Ends(Tail(eventCh), c, i, a, v)
      BY <1>1 DEF Known
    <3> HIDE DEF a, b
    <3>4. Ends(Tail(eventCh), c, i, a, v)
      BY <1>1, <3>1, <3>2, EndsTail DEF e
    <3> QED BY <3>3, <3>4
  <2>2. Wiped(c, i) => Wiped(c, i)'
    BY <2>1, <1>2 DEF Wiped, HoldsStop
  <2> QED BY <2>1, <2>2, <1>2, <1>5, Frame
<1>6. Watching' => \A c \in Containers, i \in Interfaces : Reported(c, i)'
  BY <1>2, <1>5 DEF ReportInv, Watching
<1> QED BY <1>3, <1>4, <1>6 DEF ReportInv

\* A step of the watcher of d that sends nothing: only the report of d depends on it, and
\* only while this watcher is the one that follows the container.
LEMMA WatcherReports ==
    ASSUME EventInv, ReportInv, NEW d \in Containers, NEW w \in Watcher, Move(d, w), ProcessUnchanged,
           UNCHANGED <<world, told, stale>>, unseen \subseteq unseen',
           w.pc # "loop" => w.updates = <<>>,
           \A i \in Interfaces : w.states[i].attr = "absent" => ~ w.states[i].netem,
           \A i \in Interfaces :
              Watching /\ Running(d) /\ <<d, i>> \notin unseen' /\ Following(d, i) => Following(d, i)'
    PROVE  ReportInv'
<1> USE DEF world, ProcessUnchanged
<1>1. /\ watcher \in [Containers -> Watcher] /\ watcher' = [watcher EXCEPT ![d] = w]
  BY DEF EventInv, Types, WatcherType, Move
<1>2. watcher'[d] = w /\ \A c \in Containers : c # d => watcher'[c] = watcher[c]
  BY <1>1
<1>3. Subscribed'
  BY DEF ReportInv, Subscribed
<1>4. ASSUME NEW c \in Containers PROVE Tidy(c)'
  <2>1. Tidy(c)
    BY DEF ReportInv
  <2> QED BY <2>1, <1>2 DEF Tidy, HoldsStop
<1>5. ASSUME NEW c \in Containers, NEW i \in Interfaces, Watching, Reported(c, i) PROVE Reported(c, i)'
  <2>1. /\ \A v : Known(c, i, v) => Known(c, i, v)'
        /\ Wiped(c, i) => Wiped(c, i)'
    BY DEF Known, Wiped, HoldsStop
  <2>2. CASE c # d
    BY <2>1, <2>2, <1>2, <1>5, Frame
  <2>3. CASE c = d
    <3>1. ASSUME NEW k, Quiet(d, i, k) PROVE Quiet(d, i, k)'
      BY <2>1, <2>3, <3>1 DEF Quiet
    <3>2. Starting(d, i) => Starting(d, i)'
      BY <3>1 DEF Starting, NoStopAfter
    <3>3. Quiet(d, i, Len(feed) + 1) => Quiet(d, i, Len(feed) + 1)'
      BY <3>1 DEF Quiet
    <3>4. Running(d)' <=> Running(d)
      BY DEF Running
    <3> QED BY <2>3, <1>5, <3>2, <3>3, <3>4 DEF Reported
  <2> QED BY <2>2, <2>3
<1>6. Watching' => \A c \in Containers, i \in Interfaces : Reported(c, i)'
  BY <1>5 DEF ReportInv, Watching
<1> QED BY <1>3, <1>4, <1>6 DEF ReportInv

\* What is known before and after a step that neither sends nor prints.
LEMMA KnownSame ==
    ASSUME UNCHANGED <<eventCh, told>>, NEW c, NEW i, NEW v
    PROVE  Known(c, i, v)' <=> Known(c, i, v)
  BY DEF Known

\* A watcher that ends was not the one that follows the container, or the interfaces of
\* the container count as unseen.
LEMMA LeaveReports ==
    ASSUME EventInv, ReportInv, NEW c \in Containers, leave(c), ProcessUnchanged,
           UNCHANGED <<world, told, stale>>
    PROVE  ReportInv'
<1> DEFINE w == [watcher[c] EXCEPT !.pc = "remove", !.updates = <<>>]
<1>1. watcher[c] \in Watcher /\ <<>> \in Seq(Update) /\ Tidy(c)
  BY DEF EventInv, Types, WatcherType, ReportInv
<1>2. w \in Watcher /\ w.pc = "remove" /\ w.updates = <<>> /\ w.states = watcher[c].states
  BY <1>1 DEF Watcher
<1>3. Move(c, w) /\ unseen \subseteq unseen'
  BY DEF leave
<1>4. \A i \in Interfaces : w.states[i].attr = "absent" => ~ w.states[i].netem
  BY <1>1, <1>2 DEF Tidy
<1>5. ASSUME NEW i \in Interfaces, Watching, Running(c), <<c, i>> \notin unseen', Following(c, i)
      PROVE  FALSE
  <2>1. Missed(c)
    BY <1>5 DEF Missed, Watching, Following, AtWork
  <2> QED BY <1>5, <2>1 DEF leave
<1> HIDE DEF w
<1> QED BY <1>2, <1>3, <1>4, <1>5, WatcherReports

\* The watcher of the present start finds the namespace of the present start.
LEMMA ResolveReports ==
    ASSUME EventInv, ReportInv, NEW c \in Containers, waitForNamespacePath(c)
    PROVE  ReportInv'
<1>1. /\ watcher \in [Containers -> Watcher] /\ watcher[c].pc = "resolve" /\ gen[c] \in Nat
      /\ ProcessUnchanged /\ UNCHANGED <<world, told, stale>>
  BY DEF waitForNamespacePath, Idle, EventInv, Types, WatcherType, WorldType
<1>2. CASE leave(c)
  BY <1>1, <1>2, LeaveReports
<1>3. ASSUME NEW w, Move(c, w), UNCHANGED unseen,
             \/ Running(c) /\ w = [watcher[c] EXCEPT !.pc = "snapshot", !.gen = gen[c]]
             \/ w = [watcher[c] EXCEPT !.attempt = @ + 1]
      PROVE  ReportInv'
  <2>1. /\ w \in Watcher /\ w.updates = watcher[c].updates /\ w.states = watcher[c].states
        /\ w.cancelled = watcher[c].cancelled
        /\ \/ w.pc = "snapshot" /\ w.gen = gen[c]
           \/ w.pc = "resolve"
    <3>1. watcher[c] \in Watcher
      BY <1>1
    <3>2. watcher[c].attempt + 1 \in Nat
      BY <3>1 DEF Watcher
    <3> QED BY <1>1, <1>3, <3>1, <3>2 DEF Watcher
  <2>2. watcher'[c] = w
    BY <1>1, <1>3 DEF Move
  <2>3. w.updates = <<>> /\ \A i \in Interfaces : w.states[i].attr = "absent" => ~ w.states[i].netem
    BY <1>1, <2>1 DEF ReportInv, Tidy
  <2>4. ASSUME NEW i \in Interfaces, Following(c, i) PROVE Following(c, i)'
    <3>1. Known(c, i, Absent)'
      BY <1>1, <2>4, KnownSame DEF Following, ProcessUnchanged
    <3>2. AtWork(c)'
      BY <1>1, <2>1, <2>2, <2>4 DEF Following, AtWork, ProcessUnchanged, world
    <3> QED BY <3>1, <3>2, <1>1, <2>1, <2>2, <2>4 DEF Following, NoStopAfter, world
  <2> QED BY <1>1, <1>3, <2>1, <2>3, <2>4, WatcherReports
<1> QED BY <1>2, <1>3 DEF waitForNamespacePath

\* The subscription, or the end of the watcher.
LEMMA SubscribeReports ==
    ASSUME EventInv, ReportInv, NEW c \in Containers,
           runSubscribe(c) \/ watcherCancelled(c) \/ openFails(c) \/ updatesClosed(c)
    PROVE  ReportInv'
<1>1. /\ watcher \in [Containers -> Watcher] /\ watcher[c].out = <<>>
      /\ ProcessUnchanged /\ UNCHANGED <<world, told, stale>>
  BY DEF runSubscribe, watcherCancelled, openFails, updatesClosed, Idle, EventInv, Types, WatcherType
<1>0. PICK w : w = [watcher[c] EXCEPT !.pc = "loop"]
  OBVIOUS
<1>2. CASE leave(c)
  BY <1>1, <1>2, LeaveReports
<1>3. CASE watcher[c].pc = "subscribe" /\ Move(c, w) /\ UNCHANGED unseen
  <2>1. watcher[c] \in Watcher /\ Tidy(c)
    BY <1>1 DEF ReportInv
  <2>2. watcher'[c] = w
    BY <1>1, <1>3 DEF Move
  <2>3. /\ w.pc = "loop" /\ w.gen = watcher[c].gen /\ w.cancelled = watcher[c].cancelled
        /\ w.updates = watcher[c].updates /\ w.out = watcher[c].out /\ w.states = watcher[c].states
        /\ w \in Watcher
    BY <1>0, <2>1 DEF Watcher
  <2>4. \A i \in Interfaces : w.states[i].attr = "absent" => ~ w.states[i].netem
    BY <2>1, <2>3 DEF Tidy
  <2>5. ASSUME NEW i \in Interfaces, Following(c, i) PROVE Following(c, i)'
    <3>1. AtWork(c)' /\ NoStopAfter(c, 0)'
      BY <1>1, <1>3, <2>2, <2>3, <2>5 DEF Following, AtWork, NoStopAfter, ProcessUnchanged, world
    <3>2. AttrCurrent(c, i)'
      BY <1>1, <1>3, <2>2, <2>3, <2>5 DEF Following, AttrCurrent, world
    <3>3. KnownAfter(c, i, w.states[i])'
      <4> DEFINE v == watcher[c].states[i]
      <4>1. KnownAfter(c, i, v)
        BY <1>3, <2>5 DEF Following
      <4>2. v' = v
        BY <2>2, <2>3
      <4>3. KnownAfter(c, i, v)'
        BY <1>1, <2>2, <2>3, <4>1, <4>2 DEF KnownAfter, Ends, Known, Silent, LastSays, ProcessUnchanged
      <4> QED BY <4>2, <4>3, <2>2, <2>3
    <3> QED BY <2>2, <2>3, <3>1, <3>2, <3>3 DEF Following
  <2> QED BY <1>1, <1>3, <2>3, <2>4, <2>5, WatcherReports
<1> QED BY <1>0, <1>2, <1>3 DEF runSubscribe, watcherCancelled, openFails, updatesClosed, Idle

\* A step of a watcher in its loop: what it newly remembers of one interface it has
\* to send, and what the kernel told it about the others is not lost.
LEMMA LoopReports ==
    ASSUME EventInv, ReportInv, NEW c \in Containers, Idle(c, "loop"), NEW w \in Watcher, Move(c, w),
           ProcessUnchanged, UNCHANGED <<world, told, stale, unseen>>,
           w.pc = "loop", w.gen = watcher[c].gen, w.cancelled = watcher[c].cancelled,
           NEW i \in Interfaces, w.states[i].attr = "absent" => ~ w.states[i].netem,
           \A j \in Interfaces : j # i => w.states[j] = watcher[c].states[j],
           \/ w.out = <<>> /\ w.states[i] = watcher[c].states[i]
           \/ \E e \in WatcherEvent : /\ w.out = <<e>> /\ e.type = "interface" /\ e.c = c /\ e.i = i
                                      /\ e.action # "stats" /\ equal(Says(e), w.states[i]),
           Watching => \A j \in Interfaces : AttrCurrent(c, j) => AttrCurrent(c, j)'
    PROVE  ReportInv'
<1>1. /\ watcher \in [Containers -> Watcher] /\ watcher[c].pc = "loop" /\ watcher[c].out = <<>>
      /\ watcher'[c] = w
  BY DEF EventInv, Types, WatcherType, Move, Idle
<1>2. \A j \in Interfaces : w.states[j].attr = "absent" => ~ w.states[j].netem
  BY DEF ReportInv, Tidy
<1>3. ASSUME NEW j \in Interfaces, Watching, Following(c, j) PROVE Following(c, j)'
  <2>1. AtWork(c)' /\ NoStopAfter(c, 0)'
    BY <1>1, <1>3 DEF Following, AtWork, NoStopAfter, ProcessUnchanged, world
  <2>2. AttrCurrent(c, j)'
    BY <1>1, <1>3 DEF Following
  <2>3. KnownAfter(c, j, w.states[j])'
    <3> DEFINE v == w.states[j]
    <3>1. CASE w.states[j] = watcher[c].states[j] /\ Silent(w.out, c, j)
      <4>1. Known(c, j, v)
        BY <1>1, <1>3, <3>1 DEF Following, KnownAfter, Ends, LastSays
      <4>2. Known(c, j, v)'
        BY <4>1, KnownSame DEF ProcessUnchanged
      <4> QED BY <1>1, <3>1, <4>2 DEF KnownAfter, Ends, Silent
    <3>2. CASE j = i /\ \E e \in WatcherEvent : /\ w.out = <<e>> /\ e.type = "interface" /\ e.c = c
                                                /\ e.i = i /\ e.action # "stats" /\ equal(Says(e), w.states[i])
      <4>1. PICK e \in WatcherEvent : /\ w.out = <<e>> /\ Affects(e, c, j) /\ equal(Says(e), v)
        BY <3>2 DEF Affects
      <4>2. DOMAIN <<e>> = {1} /\ <<e>>[1] = e
        OBVIOUS
      <4>3. LastSays(<<e>>, c, j, v)
        BY <4>1, <4>2 DEF LastSays
      <4>4. LastSays(w.out, c, j, v)
        BY <4>1, <4>3
      <4>5. LastSays(watcher'[c].out, c, j, v)
        BY <4>4, <1>1
      <4> QED BY <4>5, <1>1 DEF KnownAfter, Ends, LastSays
    <3>3. w.out = <<>> => Silent(w.out, c, j)
      BY DEF Silent
    <3>4. ASSUME NEW e \in WatcherEvent, w.out = <<e>>, e.type = "interface", e.i = i, j # i
          PROVE  Silent(w.out, c, j)
      <4>1. DOMAIN <<e>> = {1} /\ <<e>>[1] = e
        OBVIOUS
      <4> QED BY <3>4, <4>1 DEF Silent, Affects
    <3> QED BY <3>1, <3>2, <3>3, <3>4
  <2> QED BY <2>1, <2>2, <2>3, <1>1 DEF Following
<1> QED BY <1>2, <1>3, WatcherReports

\* The event that reports a remembered state says that state.
LEMMA ReportSays ==
    ASSUME NEW c, NEW i, NEW w, NEW s, NEW a, a # "delete"
    PROVE  /\ equal(Says(interfaceEvent(c, i, a, w, s)), s)
           /\ interfaceEvent(c, i, a, w, s).action = a /\ interfaceEvent(c, i, a, w, s).i = i
           /\ interfaceEvent(c, i, a, w, s).type = "interface"
  BY DEF interfaceEvent, Says, equal, Absent

\* processUpdate takes over what the message says.
LEMMA UpdateReports ==
    ASSUME EventInv, ReportInv, NEW c \in Containers, processUpdate(c)
    PROVE  ReportInv'
<1>1. /\ watcher[c] \in Watcher /\ Idle(c, "loop") /\ watcher[c].updates # <<>>
      /\ link \in [Containers -> States] /\ ProcessUnchanged /\ UNCHANGED <<world, told, stale, unseen>>
      /\ watcher \in [Containers -> Watcher]
  BY DEF processUpdate, HistoryUnchanged, EventInv, Types, WatcherType, WorldType
<1> DEFINE w == [watcher[c] EXCEPT !.updates = Tail(@)]
           u == Head(watcher[c].updates)
           previous == w.states[u.i]
           exists == u.i \in Present(w.states)
           s(infos) == [u.s EXCEPT !.netem = infos[u.i]]
<1>2. PICK infos \in Query(c, watcher[c]) :
        Move(c, IF u.s.attr = "absent"
                THEN [w EXCEPT !.states[u.i] = Absent, !.samples[u.i] = NoSample,
                               !.out = <<interfaceEvent(c, u.i, "delete", w, previous)>>]
                ELSE IF exists /\ equal(s(infos), previous) THEN w
                ELSE [w EXCEPT !.states[u.i] = s(infos),
                               !.samples[u.i] = IF opts.stats THEN newStatsSample(s(infos)) ELSE @,
                               !.out = <<interfaceEvent(c, u.i, IF exists THEN "update" ELSE "create",
                                                        w, s(infos))>>])
  BY DEF processUpdate
<1>3. watcher[c].updates \in Seq(Update) /\ u.i \in Interfaces /\ u.s \in State
      /\ Tail(watcher[c].updates) \in Seq(Update)
  <2>1. watcher[c].updates \in Seq(Update)
    BY <1>1 DEF Watcher
  <2>2. u \in Update /\ Tail(watcher[c].updates) \in Seq(Update)
    BY <1>1, <2>1
  <2> HIDE DEF u
  <2> QED BY <2>1, <2>2 DEF Update
<1> DEFINE t == s(infos)
<1>4. t \in State /\ t.attr = u.s.attr
  <2>1. infos[u.i] \in BOOLEAN
    BY <1>1, <1>3, QueryType
  <2> QED BY <1>3, <2>1 DEF State
<1> HIDE DEF t, u
<1>5. /\ w \in Watcher /\ w.gen = watcher[c].gen /\ w.pc = "loop" /\ w.out = <<>>
      /\ w.states = watcher[c].states /\ w.samples = watcher[c].samples
      /\ w.cancelled = watcher[c].cancelled /\ w.updates = Tail(watcher[c].updates)
  BY <1>1, <1>3 DEF Watcher, Idle
<1>6. /\ previous \in State /\ w.samples[u.i] \in {NoSample} \cup 0..MaxRx
      /\ w.states \in States /\ w.samples \in Samples
  BY <1>3, <1>5 DEF Watcher, States, Samples
<1> HIDE DEF w, previous, exists
\* The attributes are current whatever the step made of the rest.
<1>7. ASSUME NEW x \in Watcher, Move(c, x), x.updates = w.updates, x.states[u.i].attr = u.s.attr,
             \A j \in Interfaces : j # u.i => x.states[j] = watcher[c].states[j],
             NEW j \in Interfaces, AttrCurrent(c, j)
      PROVE  AttrCurrent(c, j)'
  <2>1. watcher'[c] = x /\ link'[c][j].attr = link[c][j].attr
    BY <1>1, <1>7 DEF Move, world
  <2> DEFINE a == link[c][j].attr
  <2>2. /\ LastUpdate(watcher[c].updates, j, a) =>
             \/ LastUpdate(x.updates, j, a)
             \/ NoUpdate(x.updates, j) /\ u.i = j /\ u.s.attr = a
        /\ NoUpdate(watcher[c].updates, j) => NoUpdate(x.updates, j) /\ u.i # j
    BY <1>1, <1>3, <1>5, <1>7, UpdateTail DEF u
  <2>3. LastUpdate(x.updates, j, a) \/ (NoUpdate(x.updates, j) /\ x.states[j].attr = a)
    BY <2>2, <1>7 DEF AttrCurrent
  <2> QED BY <2>1, <2>3 DEF AttrCurrent
<1>8. ASSUME NEW r \in State, r.attr = u.s.attr, r.attr = "absent" => ~ r.netem,
             NEW x \in {NoSample} \cup 0..MaxRx, NEW e \in WatcherEvent,
             e.type = "interface", e.c = c, e.i = u.i, e.action # "stats", equal(Says(e), r),
             Move(c, [w EXCEPT !.states[u.i] = r, !.samples[u.i] = x, !.out = <<e>>])
      PROVE  ReportInv'
  <2> DEFINE v == [w EXCEPT !.states[u.i] = r, !.samples[u.i] = x, !.out = <<e>>]
  <2>1. [w.states EXCEPT ![u.i] = r] \in States /\ [w.samples EXCEPT ![u.i] = x] \in Samples
        /\ <<e>> \in Seq(WatcherEvent)
    BY <1>3, <1>6 DEF States, Samples
  <2>2. /\ v \in Watcher /\ v.pc = "loop" /\ v.gen = w.gen /\ v.cancelled = w.cancelled
        /\ v.updates = w.updates /\ v.out = <<e>> /\ v.states = [w.states EXCEPT ![u.i] = r]
    BY <2>1, <1>5 DEF Watcher
  <2>3. Move(c, v)
    BY <1>8
  <2> HIDE DEF v
  <2>4. /\ v.states[u.i] = r /\ \A j \in Interfaces : j # u.i => v.states[j] = watcher[c].states[j]
    BY <2>2, <1>3, <1>5, <1>6 DEF States
  <2>5. \A j \in Interfaces : AttrCurrent(c, j) => AttrCurrent(c, j)'
    BY <2>2, <2>3, <2>4, <1>7, <1>8
  <2>6. \E f \in WatcherEvent : /\ v.out = <<f>> /\ f.type = "interface" /\ f.c = c /\ f.i = u.i
                                /\ f.action # "stats" /\ equal(Says(f), v.states[u.i])
    BY <2>2, <2>4, <1>8
  <2>7. /\ v.gen = watcher[c].gen /\ v.cancelled = watcher[c].cancelled
        /\ v.states[u.i].attr = "absent" => ~ v.states[u.i].netem
    BY <2>2, <2>4, <1>5, <1>8
  <2> QED BY <2>2, <2>3, <2>4, <2>5, <2>6, <2>7, <1>1, <1>3, LoopReports
<1>9. CASE u.s.attr = "absent"
  <2> DEFINE e == interfaceEvent(c, u.i, "delete", w, previous)
  <2>1. e \in WatcherEvent /\ e.c = c
    BY <1>3, <1>5, <1>6, InterfaceEventType
  <2>2. e.type = "interface" /\ e.i = u.i /\ e.action = "delete"
    BY DEF interfaceEvent
  <2>3. Move(c, [w EXCEPT !.states[u.i] = Absent, !.samples[u.i] = NoSample, !.out = <<e>>])
    BY <1>2, <1>9 DEF w, u, previous
  <2> HIDE DEF e
  <2>4. equal(Says(e), Absent) /\ Absent \in State /\ Absent.attr = "absent" /\ ~ Absent.netem
    BY <2>2, Constants DEF Says, equal, Absent
  <2> QED BY <2>1, <2>2, <2>3, <2>4, <1>8, <1>9
<1>10. CASE u.s.attr # "absent" /\ exists /\ equal(t, previous)
  <2>1. Move(c, w)
    BY <1>2, <1>10 DEF w, u, previous, exists, t
  <2>2. w.states[u.i].attr = u.s.attr
    BY <1>4, <1>10 DEF equal, previous
  <2>3. \A j \in Interfaces : AttrCurrent(c, j) => AttrCurrent(c, j)'
    BY <2>1, <2>2, <1>5, <1>7
  <2> QED BY <2>1, <2>2, <2>3, <1>1, <1>3, <1>5, <1>10, LoopReports
<1>11. CASE u.s.attr # "absent" /\ ~(exists /\ equal(t, previous))
  <2> DEFINE a == IF exists THEN "update" ELSE "create"
             x == IF opts.stats THEN newStatsSample(t) ELSE w.samples[u.i]
             e == interfaceEvent(c, u.i, a, w, t)
  <2>1. a \in {"update", "create"}
    OBVIOUS
  <2>2. x \in {NoSample} \cup 0..MaxRx
    <3>1. newStatsSample(t) \in {NoSample} \cup 0..MaxRx
      BY <1>4, SampleType
    <3> QED BY <1>6, <3>1
  <2>3. Move(c, [w EXCEPT !.states[u.i] = t, !.samples[u.i] = x, !.out = <<e>>])
    BY <1>2, <1>11 DEF w, u, previous, exists, t
  <2> HIDE DEF a, x
  <2>4. e \in WatcherEvent /\ e.c = c /\ e.i = u.i /\ e.type = "interface" /\ e.action = a /\ equal(Says(e), t)
    BY <2>1, <1>3, <1>4, <1>5, InterfaceEventType, ReportSays
  <2> HIDE DEF e
  <2> QED BY <2>1, <2>2, <2>3, <2>4, <1>4, <1>8, <1>11
<1> QED BY <1>9, <1>10, <1>11

\* A tick that reads the impairments sends what it remembers; one that reads the counters
\* happens only with --interface-stats.
LEMMA TickReports ==
    ASSUME EventInv, ReportInv, NEW c \in Containers, Ticks(c)
    PROVE  ReportInv'
<1> DEFINE w == watcher[c]
<1>1. /\ w \in Watcher /\ Idle(c, "loop") /\ w.states \in States /\ w.samples \in Samples
      /\ link \in [Containers -> States] /\ ProcessUnchanged /\ UNCHANGED <<world, told, stale, unseen>>
      /\ watcher \in [Containers -> Watcher] /\ w.pc = "loop" /\ w.out = <<>>
  <2>1. w \in Watcher /\ link \in [Containers -> States] /\ watcher \in [Containers -> Watcher]
    BY DEF EventInv, Types, WatcherType, WorldType
  <2> QED BY <2>1 DEF Ticks, pollNetemChanges, collectAndEmitStats, HistoryUnchanged, Watcher, Idle
<1>2. CASE pollNetemChanges(c)
  <2>1. PICK infos \in Query(c, w), i \in Present(w.states) :
           Move(c, [w EXCEPT !.states[i] = [w.states[i] EXCEPT !.netem = infos[i]],
                             !.out = <<interfaceEvent(c, i, "update", w,
                                         [w.states[i] EXCEPT !.netem = infos[i]])>>])
    BY <1>2 DEF pollNetemChanges
  <2> DEFINE s == [w.states[i] EXCEPT !.netem = infos[i]]
             e == interfaceEvent(c, i, "update", w, s)
             v == [w EXCEPT !.states[i] = s, !.out = <<e>>]
  <2>2. i \in Interfaces /\ w.states[i] \in State /\ infos[i] \in BOOLEAN /\ w.states[i].attr # "absent"
    BY <1>1, QueryType DEF Present, States
  <2>3. s \in State /\ s.attr = w.states[i].attr
    BY <2>2 DEF State
  <2>4. Move(c, v)
    BY <2>1
  <2> HIDE DEF s
  <2>5. e \in WatcherEvent /\ e.c = c /\ e.i = i /\ e.type = "interface" /\ e.action = "update" /\ equal(Says(e), s)
    BY <1>1, <2>2, <2>3, InterfaceEventType, ReportSays
  <2> HIDE DEF e
  <2>6. [w.states EXCEPT ![i] = s] \in States /\ <<e>> \in Seq(WatcherEvent)
    BY <2>2, <2>3, <2>5, <1>1 DEF States
  <2>7. /\ v \in Watcher /\ v.pc = "loop" /\ v.gen = w.gen /\ v.cancelled = w.cancelled
        /\ v.updates = w.updates /\ v.out = <<e>> /\ v.states = [w.states EXCEPT ![i] = s]
    BY <2>6, <1>1 DEF Watcher
  <2> HIDE DEF v
  <2>8. /\ v.states[i] = s /\ \A j \in Interfaces : j # i => v.states[j] = w.states[j]
    BY <2>2, <2>7, <1>1 DEF States
  <2>9. ASSUME NEW j \in Interfaces, AttrCurrent(c, j) PROVE AttrCurrent(c, j)'
    <3>1. watcher'[c] = v /\ link' = link /\ v.states[j].attr = w.states[j].attr
      BY <1>1, <2>3, <2>4, <2>8 DEF Move, world
    <3> QED BY <3>1, <2>7, <2>9 DEF AttrCurrent
  <2>10. \E f \in WatcherEvent : /\ v.out = <<f>> /\ f.type = "interface" /\ f.c = c /\ f.i = i
                                 /\ f.action # "stats" /\ equal(Says(f), v.states[i])
    BY <2>5, <2>7, <2>8
  <2>11. v.states[i].attr = "absent" => ~ v.states[i].netem
    BY <2>2, <2>3, <2>8
  <2> QED BY <1>1, <2>2, <2>4, <2>7, <2>8, <2>9, <2>10, <2>11, LoopReports
<1>3. CASE collectAndEmitStats(c)
  <2> DEFINE s(i) == [snapshotInterfaces(c, w)[i] EXCEPT !.netem = w.states[i].netem]
  <2>1. PICK i \in Present(w.states) \cap Present(snapshotInterfaces(c, w)) :
           Move(c, [w EXCEPT !.states[i] = s(i), !.samples[i] = s(i).rx,
                             !.out = IF w.samples[i] = NoSample THEN <<>>
                                     ELSE <<interfaceStatsEvent(c, i, w, s(i))>>])
    BY <1>3 DEF collectAndEmitStats
  <2> DEFINE t == s(i)
             o == IF w.samples[i] = NoSample THEN <<>> ELSE <<interfaceStatsEvent(c, i, w, t)>>
             v == [w EXCEPT !.states[i] = t, !.samples[i] = t.rx, !.out = o]
  <2>2. /\ i \in Interfaces /\ w.states[i].netem \in BOOLEAN
        /\ snapshotInterfaces(c, w)[i] \in State /\ snapshotInterfaces(c, w)[i].attr # "absent"
    BY <1>1, SnapshotType DEF Present, States, State
  <2>3. t \in State /\ t.attr # "absent"
    BY <2>2 DEF State
  <2>4. Move(c, v)
    BY <2>1
  <2> HIDE DEF t, s
  <2>5. o \in Seq(WatcherEvent)
    <3>1. CASE w.samples[i] = NoSample
      BY <3>1
    <3>2. CASE w.samples[i] # NoSample
      <4> DEFINE e == interfaceStatsEvent(c, i, w, t)
      <4>1. e \in WatcherEvent
        BY <1>1, <2>2, <2>3, <3>2, StatsEventType
      <4>2. o = <<e>>
        BY <3>2
      <4> HIDE DEF e, o
      <4> QED BY <4>1, <4>2
    <3> QED BY <3>1, <3>2
  <2> HIDE DEF o
  <2>6. [w.states EXCEPT ![i] = t] \in States /\ [w.samples EXCEPT ![i] = t.rx] \in Samples
    BY <2>2, <2>3, <1>1 DEF States, Samples, State
  <2>7. v \in Watcher /\ v.pc = "loop" /\ v.states = [w.states EXCEPT ![i] = t]
    BY <2>5, <2>6, <1>1 DEF Watcher
  <2> HIDE DEF v
  <2>8. \A j \in Interfaces : v.states[j].attr = "absent" => ~ v.states[j].netem
    BY <2>2, <2>3, <2>7, <1>1 DEF ReportInv, Tidy, States
  <2>9. ~ Watching
    BY <1>3 DEF collectAndEmitStats, Watching
  <2> QED BY <1>1, <2>4, <2>7, <2>8, <2>9, WatcherReports
<1> QED BY <1>2, <1>3 DEF Ticks

\* SetToSeq lists every member once.
LEMMA SetToSeqOnce ==
    ASSUME NEW S, IsFiniteSet(S)
    PROVE  /\ SetToSeq(S) \in [1..Cardinality(S) -> S]
           /\ \A k, l \in 1..Cardinality(S) : SetToSeq(S)[k] = SetToSeq(S)[l] => k = l
           /\ \A x \in S : \E k \in 1..Cardinality(S) : SetToSeq(S)[k] = x
<1> DEFINE n == Cardinality(S)
           q == SetToSeq(S)
<1>1. n \in Nat /\ ExistsBijection(1..n, S)
  BY FS_CardinalityType
<1>2. \E f \in [1..n -> S] : IsInjective(f)
  BY <1>1 DEF ExistsBijection, Bijection, Injection, IsInjective
<1>3. q \in [1..n -> S] /\ IsInjective(q)
  BY <1>2 DEF SetToSeq
<1> HIDE DEF n, q
<1>4. \A k, l \in 1..n : q[k] = q[l] => k = l
  BY <1>3 DEF IsInjective
<1>5. q \in Surjection(1..n, S)
  <2>1. q \in Injection(1..n, S)
    BY <1>3, <1>4 DEF Injection, IsInjective
  <2>2. IsFiniteSet(1..n) /\ Cardinality(1..n) = n
    BY <1>1, FS_Interval
  <2> QED BY <2>1, <2>2, FS_Surjection, FS_Injection DEF n
<1>6. \A x \in S : \E k \in 1..n : q[k] = x
  BY <1>5 DEF Surjection
<1> QED BY <1>3, <1>4, <1>6 DEF n, q

\* The listing: the states it remembers are those of the kernel, and the announcements
\* say them; what is not announced was known to be absent.
LEMMA SnapshotReports ==
    ASSUME EventInv, ReportInv, NEW c \in Containers, runSnapshot(c)
    PROVE  ReportInv'
<1>1. /\ watcher[c] \in Watcher /\ watcher[c].pc = "snapshot" /\ watcher[c].out = <<>>
      /\ link \in [Containers -> States] /\ ProcessUnchanged /\ UNCHANGED <<world, told, stale>>
      /\ watcher \in [Containers -> Watcher]
  BY DEF runSnapshot, Idle, EventInv, Types, WatcherType, WorldType
<1>0. PICK Seen \in firstListing(c, watcher[c]) : \E infos \in Query(c, watcher[c]) :
         LET w == watcher[c]
             states == applyNetemToSnapshots(Seen, infos)
             announced == [k \in 1..Cardinality(Present(states)) |->
                             LET i == SetToSeq(Present(states))[k] IN
                               interfaceEvent(c, i, "snapshot", w, states[i])]
         IN  /\ Move(c, [w EXCEPT !.pc = "subscribe", !.states = states,
                          !.samples = [i \in Interfaces |-> IF opts.stats THEN newStatsSample(states[i])
                                                            ELSE NoSample],
                          !.out = IF opts.initial THEN announced ELSE <<>>])
             /\ unseen' = IF w.gen = gen[c] THEN unseen \cup ({c} \X (Present(link[c]) \ Present(Seen)))
                          ELSE unseen
  BY DEF runSnapshot
<1> DEFINE St(infos) == applyNetemToSnapshots(Seen, infos)
           Ann(states) == [k \in 1..Cardinality(Present(states)) |->
                             LET i == SetToSeq(Present(states))[k] IN
                               interfaceEvent(c, i, "snapshot", watcher[c], states[i])]
           Sam(states) == [i \in Interfaces |-> IF opts.stats THEN newStatsSample(states[i])
                                                ELSE NoSample]
           Out(states) == IF opts.initial THEN Ann(states) ELSE <<>>
<1>2. PICK infos \in Query(c, watcher[c]) :
         Move(c, [watcher[c] EXCEPT !.pc = "subscribe", !.states = St(infos),
                                    !.samples = Sam(St(infos)), !.out = Out(St(infos))])
  BY <1>0
<1>u. /\ unseen \subseteq unseen'
      /\ watcher[c].gen = gen[c] => {c} \X (Present(link[c]) \ Present(Seen)) \subseteq unseen'
  BY <1>0
<1>3. \A i \in Interfaces : infos[i] \in BOOLEAN
  BY <1>1, QueryType
<1> DEFINE st == St(infos)
           x == [watcher[c] EXCEPT !.pc = "subscribe", !.states = st,
                                   !.samples = Sam(st), !.out = Out(st)]
<1>4. st \in States /\ Seen \in States
  BY <1>1, <1>3, ListingType, NetemStates
<1>5. \A i \in Interfaces : /\ st[i].attr = Seen[i].attr
                            /\ st[i].attr = "absent" => ~ st[i].netem
  <2> SUFFICES ASSUME NEW i \in Interfaces
               PROVE  /\ st[i].attr = Seen[i].attr
                      /\ st[i].attr = "absent" => ~ st[i].netem
    OBVIOUS
  <2> DEFINE b == i \in Present(Seen) /\ infos[i]
  <2>1. st[i] = [Seen[i] EXCEPT !.netem = b] /\ Seen[i] \in State
    BY <1>4 DEF applyNetemToSnapshots, States
  <2>2. Seen[i].attr = "absent" => ~ b
    BY DEF Present
  <2> HIDE DEF b, st
  <2>3. st[i].attr = Seen[i].attr /\ st[i].netem = b
    BY <2>1 DEF State
  <2> QED BY <2>2, <2>3
<1>6. Move(c, x)
  BY <1>2
<1> HIDE DEF st, St
<1>7. Sam(st) \in Samples
  BY <1>4, SampleType DEF Samples, States
<1>8. IsFiniteSet(Present(st)) /\ Present(st) \subseteq Interfaces
  BY BoundsAssumption, FS_Subset DEF Present
<1>9. Cardinality(Present(st)) \in Nat
  BY <1>8, FS_CardinalityType
<1> DEFINE n == Cardinality(Present(st))
           q == SetToSeq(Present(st))
<1>10. /\ q \in [1..n -> Present(st)] /\ \A k, l \in 1..n : q[k] = q[l] => k = l
       /\ \A i \in Present(st) : \E k \in 1..n : q[k] = i
  BY <1>8, SetToSeqOnce
<1>11. DOMAIN Ann(st) = 1..n /\ \A k \in 1..n :
          Ann(st)[k] = interfaceEvent(c, q[k], "snapshot", watcher[c], st[q[k]])
  OBVIOUS
<1>12. Ann(st) = [k \in 1..n |-> Ann(st)[k]]
  OBVIOUS
<1> HIDE DEF Ann, q, n
<1>13. \A k \in 1..n : /\ Ann(st)[k] \in WatcherEvent /\ Ann(st)[k].c = c /\ Ann(st)[k].i = q[k]
                       /\ Ann(st)[k].type = "interface" /\ Ann(st)[k].action = "snapshot"
                       /\ equal(Says(Ann(st)[k]), st[q[k]])
  <2> SUFFICES ASSUME NEW k \in 1..n
               PROVE  /\ Ann(st)[k] \in WatcherEvent /\ Ann(st)[k].c = c /\ Ann(st)[k].i = q[k]
                      /\ Ann(st)[k].type = "interface" /\ Ann(st)[k].action = "snapshot"
                      /\ equal(Says(Ann(st)[k]), st[q[k]])
    OBVIOUS
  <2>1. q[k] \in Interfaces /\ st[q[k]] \in State
    BY <1>4, <1>8, <1>10 DEF States
  <2> QED BY <2>1, <1>1, <1>11, InterfaceEventType, ReportSays
<1>14. Ann(st) \in Seq(WatcherEvent)
  BY <1>9, <1>12, <1>13 DEF n
<1>15. Out(st) \in Seq(WatcherEvent) /\ (opts.initial => Out(st) = Ann(st))
  BY <1>14
<1> HIDE DEF Sam, Out
<1>16. /\ x \in Watcher /\ x.pc = "subscribe" /\ x.updates = watcher[c].updates /\ x.states = st
       /\ x.out = Out(st) /\ x.gen = watcher[c].gen /\ x.cancelled = watcher[c].cancelled
  BY <1>1, <1>4, <1>7, <1>15 DEF Watcher
<1> HIDE DEF x
<1>17. PICK y : y = x
  OBVIOUS
<1>18. watcher'[c] = y /\ watcher[c].updates = <<>> /\ Move(c, y)
  BY <1>1, <1>6, <1>17 DEF Move, ReportInv, Tidy
<1>19. ASSUME NEW j \in Interfaces, Watching, Running(c), <<c, j>> \notin unseen', Following(c, j) PROVE Following(c, j)'
  <2>1. AtWork(c)' /\ NoStopAfter(c, 0)'
    BY <1>1, <1>16, <1>17, <1>18, <1>19 DEF Following, AtWork, NoStopAfter, ProcessUnchanged, world
  <2>2. AttrCurrent(c, j)'
    <3>0. watcher[c].gen = gen[c]
      BY <1>1, <1>19 DEF Following, AtWork
    <3>1. Seen[j].attr = link[c][j].attr
      <4>1. CASE Seen = NoStates
        <5>1. j \notin Present(Seen)
          BY <4>1 DEF Present, NoStates, Absent
        <5>2. j \notin Present(link[c])
          BY <1>u, <1>19, <3>0, <5>1
        <5> QED BY <5>1, <5>2 DEF Present
      <4>2. CASE Seen = snapshotInterfaces(c, watcher[c])
        BY <1>19, <3>0, <4>2 DEF snapshotInterfaces
      <4> QED BY <1>0, <4>1, <4>2 DEF firstListing
    <3>2. NoUpdate(y.updates, j)
      BY <1>16, <1>17, <1>18 DEF NoUpdate
    <3> QED BY <3>1, <3>2, <1>1, <1>5, <1>16, <1>17, <1>18 DEF AttrCurrent, world
  <2>3. KnownAfter(c, j, y.states[j])'
    <3> DEFINE v == y.states[j]
    <3>1. y.out = Ann(st) /\ v = st[j]
      BY <1>15, <1>16, <1>17, <1>19 DEF Watching
    <3>2. CASE j \in Present(st)
      <4>1. PICK k \in 1..n : q[k] = j
        BY <1>10, <3>2
      <4>2. k \in DOMAIN Ann(st) /\ Affects(Ann(st)[k], c, j) /\ equal(Says(Ann(st)[k]), v)
        BY <3>1, <4>1, <1>11, <1>13 DEF Affects
      <4>3. \A l \in DOMAIN Ann(st) : l > k => ~ Affects(Ann(st)[l], c, j)
        <5> SUFFICES ASSUME NEW l \in 1..n, l > k PROVE q[l] # j
          BY <1>11, <1>13 DEF Affects
        <5>1. l # k
          BY <1>9 DEF n
        <5> QED BY <4>1, <5>1, <1>10
      <4>4. LastSays(y.out, c, j, v)
        BY <3>1, <4>2, <4>3 DEF LastSays
      <4> QED BY <4>4, <1>16, <1>17, <1>18 DEF KnownAfter, Ends, LastSays
    <3>3. CASE j \notin Present(st)
      <4>1. Silent(y.out, c, j)
        BY <3>1, <3>3, <1>10, <1>11, <1>13 DEF Silent, Affects
      <4>2. equal(Absent, v)
        <5>1. st[j].attr = "absent" /\ st[j].netem \in BOOLEAN
          BY <3>3, <1>4 DEF Present, States, State
        <5> QED BY <3>1, <5>1, <1>5 DEF equal, Absent
      <4>3. Known(c, j, Absent)
        BY <1>1, <1>19 DEF Following
      <4>4. Known(c, j, v)
        BY <4>2, <4>3 DEF Known, Ends, LastSays, equal
      <4>5. Known(c, j, v)'
        BY <4>4, <1>1, KnownSame DEF ProcessUnchanged
      <4> QED BY <4>1, <4>5, <1>16, <1>17, <1>18 DEF KnownAfter, Ends, Silent
    <3> QED BY <3>2, <3>3
  <2> QED BY <2>1, <2>2, <2>3, <1>16, <1>17, <1>18 DEF Following
<1> QED BY <1>1, <1>u, <1>5, <1>6, <1>16, <1>17, <1>18, <1>19, WatcherReports

\* A watcher that ends does not follow its container any more.
LEMMA RemoveReports ==
    ASSUME EventInv, ReportInv, NEW d \in Containers, remove(d)
    PROVE  ReportInv'
<1> USE DEF remove, world, HistoryUnchanged
<1>1. /\ watcher' = [watcher EXCEPT ![d] = NoWatcher] /\ watcher \in [Containers -> Watcher]
      /\ registry' = registry \ {d} /\ watcher[d].pc = "remove"
  BY DEF Move, EventInv, Types, WatcherType, Idle
<1>2. watcher'[d] = NoWatcher /\ \A c \in Containers : c # d => watcher'[c] = watcher[c]
  BY <1>1
<1>3. Subscribed'
  BY <1>1 DEF ReportInv, Subscribed
<1>4. ASSUME NEW c \in Containers PROVE Tidy(c)'
  <2>1. Tidy(c)
    BY DEF ReportInv
  <2>2. NoWatcher.updates = <<>> /\ \A i \in Interfaces : NoWatcher.states[i] = Absent
    BY DEF NoWatcher, NoStates
  <2> QED BY <2>1, <2>2, <1>1, <1>2 DEF Tidy, HoldsStop, Absent
<1>5. ASSUME NEW c \in Containers, NEW i \in Interfaces, Reported(c, i) PROVE Reported(c, i)'
  <2>1. /\ \A v : Known(c, i, v) => Known(c, i, v)'
        /\ Wiped(c, i) => Wiped(c, i)'
    BY DEF Known, Wiped, HoldsStop
  <2>2. CASE c # d
    BY <2>1, <2>2, <1>1, <1>2, <1>5, Frame
  <2>3. CASE c = d
    <3>1. ASSUME NEW k, Quiet(c, i, k) PROVE Quiet(c, i, k)'
      BY <2>1, <3>1, <1>1 DEF Quiet
    <3>2. Starting(c, i) => Starting(c, i)'
      BY <3>1 DEF Starting, NoStopAfter
    <3>3. Quiet(c, i, Len(feed) + 1) => Quiet(c, i, Len(feed) + 1)'
      BY <3>1 DEF Quiet
    <3>4. ~ Following(c, i) /\ (Running(c)' <=> Running(c))
      BY <2>3, <1>1 DEF Following, AtWork, Running
    <3> QED BY <1>5, <3>2, <3>3, <3>4 DEF Reported
  <2> QED BY <2>2, <2>3
<1>6. Watching' => \A c \in Containers, i \in Interfaces : Reported(c, i)'
  BY <1>5 DEF ReportInv, Watching
<1> QED BY <1>3, <1>4, <1>6 DEF ReportInv

\* A send of a watcher: the event leaves its buffer and enters the channel.
LEMMA EmitReports ==
    ASSUME EventInv, ReportInv, NEW d \in Containers, emitInterfaceEvent(d)
    PROVE  ReportInv'
<1> DEFINE w == watcher[d]
           e == Head(w.out)
<1>1. /\ watcher \in [Containers -> Watcher] /\ w.out \in Seq(WatcherEvent) /\ w.out # <<>>
      /\ Tail(w.out) \in Seq(WatcherEvent) /\ e \in WatcherEvent /\ e \in Event
      /\ UNCHANGED <<opts, phase, forwarder, registry, ctxDone, told, unseen, stale>>
      /\ UNCHANGED <<status, gen, link, feed, feedState>>
      /\ watcher' = [watcher EXCEPT ![d] = [w EXCEPT !.out = Tail(w.out)]]
  <2>1. watcher \in [Containers -> Watcher] /\ w.out # <<>>
    BY DEF EventInv, Types, WatcherType, emitInterfaceEvent
  <2>2. w.out \in Seq(WatcherEvent)
    BY <2>1 DEF Watcher
  <2>3. Tail(w.out) \in Seq(WatcherEvent) /\ e \in WatcherEvent
    BY <2>1, <2>2
  <2> QED BY <2>1, <2>2, <2>3 DEF emitInterfaceEvent, Event, HistoryUnchanged, world, Move
<1>2. e.c = d /\ w.pc \in {"subscribe", "loop"}
  BY <1>1 DEF EventInv, Order, OutIsOwn
<1>3. /\ \A c \in Containers : c # d => watcher'[c] = watcher[c]
      /\ watcher'[d].out = Tail(w.out) /\ watcher'[d].pc = w.pc /\ watcher'[d].gen = w.gen
      /\ watcher'[d].cancelled = w.cancelled /\ watcher'[d].states = w.states
      /\ watcher'[d].updates = w.updates
  BY <1>1 DEF Watcher
<1>4. Subscribed'
  <2>1. phase # "init"
    BY <1>1, <1>2 DEF ReportInv, Subscribed, EventInv, Order, StoppedFirst
  <2> QED BY <2>1, <1>1 DEF ReportInv, Subscribed
<1>5. ASSUME NEW c \in Containers PROVE Tidy(c)'
  BY <1>1, <1>3 DEF ReportInv, Tidy, HoldsStop
<1>6. ASSUME NEW c \in Containers, NEW i \in Interfaces, Watching, Reported(c, i) PROVE Reported(c, i)'
  <2>1. eventCh' = Append(eventCh, e)
    BY <1>6 DEF emitInterfaceEvent, Watching
  <2> HIDE DEF e
  <2>2. /\ ~ Affects(e, c, i) => \A v : Known(c, i, v) => Known(c, i, v)'
        /\ \A v : Affects(e, c, i) /\ equal(Says(e), v) => Known(c, i, v)'
    BY <2>1, <1>1, KnownSend
  <2>3. CASE c # d
    <3>1. ~ Affects(e, c, i)
      BY <2>3, <1>2 DEF Affects
    <3>2. Wiped(c, i) => Wiped(c, i)'
      BY <3>1, <2>2, <1>1 DEF Wiped, HoldsStop
    <3> QED BY <3>1, <3>2, <2>2, <2>3, <1>1, <1>3, <1>6, Frame
  <2>4. CASE c = d
    <3>1. d \notin registry => HoldsStop(d)
      BY <1>2 DEF EventInv, Order, StoppedFirst, HoldsStop, ReportInv, Subscribed
    <3>2. d \notin registry => Wiped(d, i)'
      BY <3>1, <1>1 DEF Wiped, HoldsStop
    <3>3. ASSUME NEW k, Quiet(d, i, k) PROVE Quiet(d, i, k)'
      BY <3>2, <3>3, <1>1 DEF Quiet
    <3>4. Starting(d, i) => Starting(d, i)'
      BY <3>3, <1>1 DEF Starting, NoStopAfter
    <3>5. Quiet(d, i, Len(feed) + 1) => Quiet(d, i, Len(feed) + 1)'
      BY <3>3, <1>1 DEF Quiet
    <3>6. ASSUME Following(d, i) PROVE Following(d, i)'
      <4>1. PICK v : v = w.states[i]
        OBVIOUS
      <4>2. Ends(w.out, d, i, Known(d, i, v), v) /\ AttrCurrent(d, i)
        BY <3>6, <4>1, <1>2 DEF Following, KnownAfter
      <4> DEFINE b == Known(d, i, v)
                 a == Known(d, i, v)'
      <4>3. /\ Affects(e, d, i) /\ equal(Says(e), v) => a
            /\ ~ Affects(e, d, i) /\ b => a
        BY <2>2, <2>4
      <4> HIDE DEF a, b
      <4>4. Ends(Tail(w.out), d, i, a, v)
        <5>1. Ends(w.out, d, i, b, v)
          BY <4>2 DEF b
        <5> QED BY <5>1, <4>3, <1>1, EndsTail DEF e
      <4>5. KnownAfter(d, i, v)'
        BY <4>4, <1>3 DEF a, KnownAfter, Ends, LastSays, Silent
      <4>6. AttrCurrent(d, i)'
        BY <4>2, <1>1, <1>3 DEF AttrCurrent
      <4>7. AtWork(d)' /\ NoStopAfter(d, 0)'
        BY <3>6, <1>1, <1>3 DEF Following, AtWork, NoStopAfter
      <4>8. watcher'[d].states[i] = v /\ watcher'[d].pc \notin {"resolve", "snapshot"}
        BY <4>1, <1>2, <1>3
      <4> QED BY <4>5, <4>6, <4>7, <4>8 DEF Following
    <3>7. Running(d)' <=> Running(d)
      BY <1>1 DEF Running
    <3> QED BY <2>4, <1>1, <1>6, <3>4, <3>5, <3>6, <3>7 DEF Reported
  <2> QED BY <2>3, <2>4
<1>7. Watching' => \A c \in Containers, i \in Interfaces : Reported(c, i)'
  BY <1>1, <1>6 DEF ReportInv, Watching
<1> QED BY <1>4, <1>5, <1>7 DEF ReportInv

\* The stop of a container that is sent to the channel wipes what was known.
LEMMA ForwardReports ==
    ASSUME EventInv, ReportInv, forwardRuntimeEvents
    PROVE  ReportInv'
<1> DEFINE e == aggregatedEventFromContainerEvent(forwarder.ev)
<1>1. /\ forwarder.pc = "sending" /\ forwarder.ev \in RuntimeEvent
      /\ UNCHANGED <<opts, phase, registry, watcher, ctxDone, told, unseen, stale>>
      /\ UNCHANGED <<status, gen, link, feed, feedState>>
      /\ forwarder' = [forwarder EXCEPT !.pc = "idle"] \/ forwarder' = [forwarder EXCEPT !.pc = "ended"]
  BY DEF forwardRuntimeEvents, world, HistoryUnchanged, EventInv, Types, ProcessType
<1>2. forwarder'.pc \in {"idle", "ended"}
  BY <1>1 DEF EventInv, Types, ProcessType
<1>3. e \in Event /\ e.type = "container" /\ e.c = forwarder.ev.c /\ e.action = forwarder.ev.action
  <2>1. selectContainerForEvent(forwarder.ev) \in Nat
    BY <1>1 DEF selectContainerForEvent, EventInv, Types, WorldType, RuntimeEvent
  <2> QED BY <2>1, <1>1 DEF aggregatedEventFromContainerEvent, ensureContainerAttributes, Event, RuntimeEvent
<1> HIDE DEF e
<1>4. Subscribed'
  <2>1. phase # "init"
    BY <1>1 DEF EventInv, Order, StoppedFirst
  <2> QED BY <2>1, <1>1, <1>2 DEF ReportInv, Subscribed
<1>5. ASSUME NEW c \in Containers PROVE Tidy(c)'
  BY <1>1, <1>2 DEF ReportInv, Tidy, HoldsStop
<1>6. ASSUME NEW c \in Containers, NEW i \in Interfaces, Watching, Reported(c, i) PROVE Reported(c, i)'
  <2>1. eventCh' = Append(eventCh, e)
    BY <1>6 DEF forwardRuntimeEvents, Watching, e
  <2>2. /\ ~ Affects(e, c, i) => \A v : Known(c, i, v) => Known(c, i, v)'
        /\ \A v : Affects(e, c, i) /\ equal(Says(e), v) => Known(c, i, v)'
    BY <2>1, <1>1, <1>3, KnownSend
  <2>3. Affects(e, c, i) <=> HoldsStop(c)
    BY <1>1, <1>3 DEF Affects, HoldsStop
  <2>4. Affects(e, c, i) => Known(c, i, Absent)'
    <3>1. equal(Says(e), Absent)
      BY <1>3 DEF Says, equal
    <3> QED BY <3>1, <2>2
  <2>5. Wiped(c, i) => Wiped(c, i)'
    BY <2>2, <2>3, <2>4 DEF Wiped
  <2>6. c \in registry => ~ HoldsStop(c)
    BY DEF ReportInv, Tidy
  <2> QED BY <2>2, <2>3, <2>5, <2>6, <1>1, <1>6, Frame
<1>7. Watching' => \A c \in Containers, i \in Interfaces : Reported(c, i)'
  BY <1>1, <1>6 DEF ReportInv, Watching
<1> QED BY <1>4, <1>5, <1>7 DEF ReportInv

\* What the feed says about a container when its first event is read: the stop in
\* hand takes the place of the stop in the feed.
LEMMA FeedShift ==
    ASSUME EventInv, ReportInv, HandleContainerEvent, NEW c \in Containers, NEW i \in Interfaces
    PROVE  /\ Len(feed') = Len(feed) - 1 /\ Len(feed) \in Nat \ {0}
           /\ \A k \in 2..(Len(feed) + 1) : Quiet(c, i, k) => Quiet(c, i, k - 1)'
           /\ \A k \in 1..Len(feed) : NoStopAfter(c, k) => NoStopAfter(c, k - 1)'
           /\ NoStopAfter(c, 0) => NoStopAfter(c, 0)'
<1> DEFINE e == Head(feed)
           n == Len(feed)
<1>1. /\ feed \in Seq(RuntimeEvent) /\ feed # <<>> /\ feed' = Tail(feed)
      /\ forwarder.pc = "idle" /\ UNCHANGED <<eventCh, told>>
  BY DEF HandleContainerEvent, HistoryUnchanged, EventInv, Types, WorldType
<1>2. /\ n \in Nat \ {0} /\ Len(feed') = n - 1 /\ DOMAIN feed = 1..n /\ DOMAIN feed' = 1..(n - 1)
      /\ \A k \in 1..(n - 1) : feed'[k] = feed[k + 1]
      /\ e = feed[1]
  BY <1>1
<1> HIDE DEF n
<1>3. /\ \/ e.action \in Starts /\ Start({e.c}) /\ forwarder' = [pc |-> "sending", ev |-> e]
         \/ /\ e.action \in Stops /\ registry' = registry \ {e.c}
            /\ forwarder' = [pc |-> IF e.c \in registry THEN "stopping" ELSE "sending", ev |-> e]
  BY DEF HandleContainerEvent
<1> HIDE DEF e
<1>4. ASSUME c \notin registry, ~(e.c = c /\ e.action \in Starts), Wiped(c, i)
      PROVE  c \notin registry' /\ Wiped(c, i)'
  <2>1. Known(c, i, Absent)'
    BY <1>1, <1>4, KnownSame DEF Wiped, HoldsStop
  <2> QED BY <2>1, <1>3, <1>4 DEF Start, Wiped
<1>5. ASSUME e.c = c, e.action \in Stops PROVE c \notin registry' /\ Wiped(c, i)'
  <2>1. e.action \notin Starts
    BY <1>5 DEF Starts, Stops
  <2> QED BY <2>1, <1>3, <1>5 DEF Wiped, HoldsStop
<1>6. ASSUME NEW k \in 2..(n + 1), Quiet(c, i, k) PROVE Quiet(c, i, k - 1)'
  <2>1. PICK j \in 0..(k - 1) :
          /\ IF j = 0 THEN c \notin registry /\ Wiped(c, i)
             ELSE feed[j].c = c /\ feed[j].action \in Stops
          /\ \A m \in (j + 1)..(k - 1) : feed[m].c = c => feed[m].action \notin Starts
    BY <1>6 DEF Quiet
  <2>2. \A m \in 1..(k - 2) : m \in 1..(n - 1) /\ feed'[m] = feed[m + 1]
    BY <1>2
  <2>3. CASE j \in {0, 1}
    <3>1. c \notin registry' /\ Wiped(c, i)'
      <4>1. CASE j = 0
        <5>1. 1 \in 1..(k - 1)
          BY <1>2
        <5> QED BY <4>1, <5>1, <2>1, <1>2, <1>4
      <4>2. CASE j = 1
        BY <4>2, <2>1, <1>2, <1>5
      <4> QED BY <2>3, <4>1, <4>2
    <3>2. \A m \in 1..(k - 2) : feed'[m].c = c => feed'[m].action \notin Starts
      <4> TAKE m \in 1..(k - 2)
      <4>1. m + 1 \in (j + 1)..(k - 1)
        BY <2>3, <1>2
      <4> QED BY <4>1, <2>1, <2>2
    <3>3. 0 \in 0..((k - 1) - 1) /\ (k - 1) - 1 = k - 2
      BY <1>2
    <3> QED BY <3>1, <3>2, <3>3 DEF Quiet
  <2>4. CASE j \notin {0, 1}
    <3>1. /\ j - 1 \in 0..((k - 1) - 1) /\ j - 1 # 0 /\ j - 1 \in 1..(k - 2) /\ (j - 1) + 1 = j
          /\ (k - 1) - 1 = k - 2
      BY <2>4, <1>2
    <3>2. feed'[j - 1] = feed[j]
      BY <3>1, <2>2
    <3>3. \A m \in ((j - 1) + 1)..(k - 2) : feed'[m].c = c => feed'[m].action \notin Starts
      <4> TAKE m \in ((j - 1) + 1)..(k - 2)
      <4>1. m + 1 \in (j + 1)..(k - 1) /\ m \in 1..(k - 2)
        BY <2>4, <1>2
      <4> QED BY <4>1, <2>1, <2>2
    <3>4. feed'[j - 1].c = c /\ feed'[j - 1].action \in Stops
      BY <2>1, <2>4, <3>2
    <3> QED BY <3>1, <3>3, <3>4 DEF Quiet
  <2> QED BY <2>3, <2>4
<1>7. ASSUME NEW k \in 1..n, NoStopAfter(c, k) PROVE NoStopAfter(c, k - 1)'
  <2> SUFFICES ASSUME NEW m \in DOMAIN feed', m > k - 1, feed'[m].c = c
               PROVE  feed'[m].action \notin Stops
    BY DEF NoStopAfter
  <2>1. m + 1 \in DOMAIN feed /\ m + 1 > k /\ feed'[m] = feed[m + 1]
    BY <1>2
  <2> QED BY <2>1, <1>7 DEF NoStopAfter
<1>8. ASSUME NoStopAfter(c, 0) PROVE NoStopAfter(c, 0)'
  <2> SUFFICES ASSUME NEW m \in DOMAIN feed', m > 0, feed'[m].c = c
               PROVE  feed'[m].action \notin Stops
    BY DEF NoStopAfter
  <2>1. m + 1 \in DOMAIN feed /\ m + 1 > 0 /\ feed'[m] = feed[m + 1]
    BY <1>2
  <2> QED BY <2>1, <1>8 DEF NoStopAfter
<1> QED BY <1>2, <1>6, <1>7, <1>8 DEF n

\* HandleContainerEvent: a start that follows a stop, with nothing known of the
\* interfaces, gives the container a new watcher.
LEMMA HandleReports ==
    ASSUME EventInv, ReportInv, HandleContainerEvent
    PROVE  ReportInv'
<1> DEFINE e == Head(feed)
<1>1. /\ feed \in Seq(RuntimeEvent) /\ feed # <<>> /\ e \in RuntimeEvent /\ e = feed[1]
      /\ feed' = Tail(feed) /\ forwarder.pc = "idle" /\ watcher \in [Containers -> Watcher]
      /\ UNCHANGED <<opts, phase, eventCh, ctxDone, told, unseen, stale>>
      /\ UNCHANGED <<status, gen, link, feedState>>
  <2>1. feed \in Seq(RuntimeEvent) /\ feed # <<>>
    BY DEF HandleContainerEvent, EventInv, Types, WorldType
  <2> QED BY <2>1 DEF HandleContainerEvent, HistoryUnchanged, EventInv, Types, WatcherType
<1>2. \/ /\ e.action \in Starts /\ Start({e.c}) /\ forwarder' = [pc |-> "sending", ev |-> e]
      \/ /\ e.action \in Stops /\ registry' = registry \ {e.c}
         /\ watcher' = [watcher EXCEPT ![e.c].cancelled = e.c \in registry \/ @]
         /\ forwarder' = [pc |-> IF e.c \in registry THEN "stopping" ELSE "sending", ev |-> e]
  BY DEF HandleContainerEvent
<1> HIDE DEF e
<1>3. e.c \in Containers /\ ~(e.action \in Starts /\ e.action \in Stops)
  BY <1>1 DEF RuntimeEvent, Starts, Stops
<1>4. ASSUME NEW c \in Containers
      PROVE  /\ e.action \in Starts /\ c = e.c /\ c \notin registry =>
                  watcher'[c] = newWatcher /\ c \in registry'
             /\ ~(c = e.c /\ (e.action \in Stops \/ c \notin registry)) => watcher'[c] = watcher[c]
             /\ ~(c = e.c /\ e.action \in Stops) /\ c \in registry => c \in registry'
             /\ ~(c = e.c /\ e.action \in Starts) /\ c \notin registry => c \notin registry'
             /\ watcher'[c] = newWatcher \/
                  /\ watcher'[c].pc = watcher[c].pc /\ watcher'[c].updates = watcher[c].updates
                  /\ watcher'[c].states = watcher[c].states
  <2>1. watcher[c] \in Watcher
    BY <1>1
  <2>2. CASE e.action \in Starts /\ Start({e.c})
    <3>1. /\ registry' = registry \cup {e.c}
          /\ watcher'[c] = IF c \in {e.c} \ registry THEN newWatcher ELSE watcher[c]
      BY <2>2 DEF Start
    <3> QED BY <2>2, <3>1, <1>3
  <2>3. CASE /\ e.action \in Stops /\ registry' = registry \ {e.c}
             /\ watcher' = [watcher EXCEPT ![e.c].cancelled = e.c \in registry \/ @]
    <3>1. c # e.c => watcher'[c] = watcher[c]
      BY <2>3, <1>1, <1>3
    <3>2. PICK b : c = e.c => watcher'[c] = [watcher[c] EXCEPT !.cancelled = b]
      BY <2>3, <1>1, <1>3
    <3>3. c = e.c => /\ watcher'[c].pc = watcher[c].pc /\ watcher'[c].updates = watcher[c].updates
                     /\ watcher'[c].states = watcher[c].states
      BY <3>2, <2>1 DEF Watcher
    <3> QED BY <2>3, <3>1, <3>3, <1>3
  <2> QED BY <2>2, <2>3, <1>2
<1>5. newWatcher.updates = <<>> /\ newWatcher.pc = "resolve" /\ ~ newWatcher.cancelled
      /\ \A i \in Interfaces : newWatcher.states[i] = Absent
  BY DEF newWatcher, NoWatcher, NoStates
<1>6. phase \notin {"init", "listed"}
  BY <1>1 DEF EventInv, Order, StoppedFirst
<1>7. Subscribed'
  <2>1. forwarder'.pc = "stopping" => forwarder'.ev.action \in Stops
    BY <1>2
  <2> QED BY <2>1, <1>1, <1>6 DEF ReportInv, Subscribed
<1>8. ASSUME NEW c \in Containers PROVE Tidy(c)'
  <2>1. HoldsStop(c)' => c \notin registry'
    BY <1>2, <1>3 DEF HoldsStop
  <2>2. Tidy(c)
    BY DEF ReportInv
  <2>3. CASE watcher'[c] = newWatcher
    BY <2>1, <2>2, <2>3, <1>1, <1>5 DEF Tidy, Absent
  <2>4. CASE watcher'[c] # newWatcher
    BY <2>1, <2>2, <2>4, <1>1, <1>4 DEF Tidy
  <2> QED BY <2>3, <2>4
<1>9. ASSUME NEW c \in Containers, NEW i \in Interfaces, Reported(c, i) PROVE Reported(c, i)'
  <2>0. PICK n : n = Len(feed)
    OBVIOUS
  <2>1. /\ Len(feed') = n - 1 /\ n \in Nat \ {0} /\ DOMAIN feed = 1..n
        /\ \A k \in 2..(n + 1) : Quiet(c, i, k) => Quiet(c, i, k - 1)'
        /\ \A k \in 1..n : NoStopAfter(c, k) => NoStopAfter(c, k - 1)'
        /\ NoStopAfter(c, 0) => NoStopAfter(c, 0)'
    BY <2>0, <1>1, FeedShift
  <2>2. DOMAIN feed' = 1..(n - 1) /\ \A k \in 1..(n - 1) : feed'[k] = feed[k + 1]
    BY <2>0, <1>1
  <2>3. Quiet(c, i, n + 1) => Quiet(c, i, Len(feed) + 1)'
    <3>1. n + 1 \in 2..(n + 1) /\ (n + 1) - 1 = Len(feed') + 1
      BY <2>1
    <3>2. Quiet(c, i, n + 1) => Quiet(c, i, (n + 1) - 1)'
      BY <3>1, <2>1
    <3> QED BY <3>1, <3>2 DEF Quiet
  <2>4. ASSUME Starting(c, i) PROVE Starting(c, i)' \/ Following(c, i)'
    <3>1. PICK k \in 1..n : /\ feed[k].c = c /\ feed[k].action \in Starts
                            /\ Quiet(c, i, k) /\ NoStopAfter(c, k)
      BY <2>1, <2>4 DEF Starting
    <3>2. NoStopAfter(c, k - 1)'
      BY <2>1, <3>1
    <3>3. CASE k = 1
      <4>1. c \notin registry /\ Known(c, i, Absent)
        BY <3>1, <3>3, <1>1 DEF Quiet, Wiped, HoldsStop
      <4>2. Known(c, i, Absent)'
        BY <4>1, <1>1, KnownSame
      <4>3. watcher'[c] = newWatcher /\ c \in registry'
        BY <3>1, <3>3, <4>1, <1>1, <1>4
      <4>4. NoStopAfter(c, 0)'
        BY <3>2, <3>3
      <4> QED BY <4>2, <4>3, <4>4, <1>5 DEF Following, AtWork
    <3>4. CASE k # 1
      <4>1. k - 1 \in 1..(n - 1) /\ k \in 2..(n + 1) /\ (k - 1) + 1 = k
        BY <3>4, <2>1
      <4>2. Quiet(c, i, k - 1)' /\ feed'[k - 1] = feed[k]
        BY <4>1, <3>1, <2>1, <2>2
      <4> QED BY <4>1, <4>2, <3>1, <3>2, <2>2 DEF Starting
    <3> QED BY <3>3, <3>4
  <2>5. ASSUME Following(c, i) PROVE Following(c, i)'
    <3>1. ~(e.c = c /\ e.action \in Stops)
      BY <2>1, <2>5, <1>1 DEF Following, NoStopAfter
    <3>2. c \in registry /\ watcher'[c] = watcher[c] /\ c \in registry'
      BY <2>5, <3>1, <1>4 DEF Following, AtWork
    <3>3. AtWork(c)' /\ NoStopAfter(c, 0)'
      BY <2>1, <2>5, <3>2, <1>1 DEF Following, AtWork
    <3>4. Known(c, i, Absent) => Known(c, i, Absent)'
      BY <1>1, KnownSame
    <3>5. KnownAfter(c, i, watcher[c].states[i]) => KnownAfter(c, i, watcher[c].states[i])'
      BY <3>2, <1>1 DEF KnownAfter, Known, Ends, LastSays, Silent
    <3>6. AttrCurrent(c, i) => AttrCurrent(c, i)'
      BY <3>2, <1>1 DEF AttrCurrent
    <3> QED BY <2>5, <3>2, <3>3, <3>4, <3>5, <3>6 DEF Following
  <2>6. Running(c)' <=> Running(c)
    BY <1>1 DEF Running
  <2> QED BY <1>1, <1>9, <2>0, <2>3, <2>4, <2>5, <2>6 DEF Reported
<1>10. Watching' => \A c \in Containers, i \in Interfaces : Reported(c, i)'
  BY <1>1, <1>9 DEF ReportInv, Watching
<1> QED BY <1>7, <1>8, <1>10 DEF ReportInv

\* A step that sends nothing, prints nothing and moves no watcher, and does not change
\* what the forwarder has in hand.
LEMMA CalmReports ==
    ASSUME EventInv, ReportInv, Subscribed',
           UNCHANGED <<status, gen, feed, opts, registry, watcher, told, unseen, stale>>,
           ~ ctxDone' => ~ ctxDone, phase # "init", phase' # "init",
           \A c \in Containers : HoldsStop(c)' <=> HoldsStop(c),
           \A c \in Containers, i \in Interfaces : \A v : Known(c, i, v) => Known(c, i, v)',
           \A c \in Containers, i \in Interfaces :
              /\ link'[c][i].attr = link[c][i].attr
              /\ link'[c][i].attr = "absent" => ~ link'[c][i].netem
    PROVE  ReportInv'
<1>1. ASSUME NEW c \in Containers PROVE Tidy(c)'
  BY DEF ReportInv, Tidy
<1>2. ASSUME NEW c \in Containers, NEW i \in Interfaces, Reported(c, i) PROVE Reported(c, i)'
  <2>1. Wiped(c, i) => Wiped(c, i)'
    BY DEF Wiped
  <2> QED BY <2>1, <1>2, Frame
<1>3. Watching' => \A c \in Containers, i \in Interfaces : Reported(c, i)'
  BY <1>2 DEF ReportInv, Watching
<1> QED BY <1>1, <1>3 DEF ReportInv

\* The other steps of the forwarder.
LEMMA ForwarderReports ==
    ASSUME EventInv, ReportInv, watcherStopped \/ runtimeErr \/ forwarderCancelled
    PROVE  ReportInv'
<1>1. /\ UNCHANGED <<status, gen, link, feed, opts, phase, eventCh, registry, watcher, ctxDone, told, unseen, stale>>
      /\ forwarder.pc \in {"stopping", "idle"} /\ feedState' \in {feedState, "over"}
  BY DEF watcherStopped, runtimeErr, forwarderCancelled, world, HistoryUnchanged
<1>2. forwarder \in [pc : {"none", "idle", "stopping", "sending", "ended"}, ev : RuntimeEvent \cup {<<>>}]
  BY DEF EventInv, Types, ProcessType
<1>3. \/ forwarder.pc = "stopping" /\ forwarder'.pc = "sending" /\ forwarder'.ev = forwarder.ev
      \/ forwarder.pc = "idle" /\ forwarder'.pc = "ended"
  BY <1>2 DEF watcherStopped, runtimeErr, forwarderCancelled
<1>4. phase \notin {"init", "listed"}
  BY <1>1 DEF EventInv, Order, StoppedFirst
<1>5. Subscribed'
  BY <1>1, <1>3, <1>4 DEF ReportInv, Subscribed
<1>6. \A c \in Containers : HoldsStop(c)' <=> HoldsStop(c)
  BY <1>3 DEF HoldsStop
<1>7. \A c \in Containers, i \in Interfaces : \A v : Known(c, i, v) => Known(c, i, v)'
  BY <1>1, KnownSame
<1>8. \A c \in Containers, i \in Interfaces : link[c][i].attr = "absent" => ~ link[c][i].netem
  BY DEF ReportInv, Tidy
<1> QED BY <1>1, <1>4, <1>5, <1>6, <1>7, <1>8, CalmReports

\* The listing gives every container that runs its watcher, with nothing known about it.
LEMMA ListReports ==
    ASSUME EventInv, ReportInv, listContainers
    PROVE  ReportInv'
<1>1. /\ phase = "init" /\ phase' = "listed" /\ Start({c \in Containers : Running(c)})
      /\ UNCHANGED <<status, gen, link, feed, feedState, opts, eventCh, forwarder, ctxDone, told, unseen, stale>>
  BY DEF listContainers, world, HistoryUnchanged
<1>2. /\ forwarder.pc = "none" /\ feedState = "closed" /\ feed = <<>> /\ registry = {} /\ eventCh = <<>>
      /\ told = [c \in Containers |-> NoStates] /\ told \in [Containers -> States]
  BY <1>1 DEF EventInv, Order, StoppedFirst, ReportInv, Subscribed
<1>3. \A c \in Containers : /\ c \in registry' <=> Running(c)
                            /\ watcher'[c] = IF Running(c) THEN newWatcher ELSE watcher[c]
  BY <1>1, <1>2 DEF Start
<1>4. newWatcher.updates = <<>> /\ newWatcher.pc = "resolve" /\ ~ newWatcher.cancelled
      /\ \A i \in Interfaces : newWatcher.states[i] = Absent
  BY DEF newWatcher, NoWatcher, NoStates
<1>5. Subscribed'
  BY <1>1, <1>2 DEF ReportInv, Subscribed
<1>6. ASSUME NEW c \in Containers PROVE Tidy(c)'
  <2>1. Tidy(c) /\ ~ HoldsStop(c)'
    BY <1>1, <1>2 DEF ReportInv, HoldsStop
  <2> QED BY <2>1, <1>1, <1>3, <1>4 DEF Tidy, Absent
<1>7. ASSUME NEW c \in Containers, NEW i \in Interfaces PROVE Reported(c, i)'
  <2>1. Known(c, i, Absent)'
    <3>1. told'[c][i] = Absent
      BY <1>1, <1>2 DEF NoStates
    <3>2. eventCh' = <<>>
      BY <1>1, <1>2
    <3> QED BY <3>1, <3>2 DEF Known, Ends, Silent, equal
  <2>2. DOMAIN feed' = {} /\ Len(feed') = 0
    BY <1>1, <1>2
  <2>3. NoStopAfter(c, 0)'
    BY <2>2 DEF NoStopAfter
  <2>4. Running(c) => Following(c, i)'
    BY <2>1, <2>3, <1>3, <1>4 DEF Following, AtWork
  <2>5. ~ Running(c) => Quiet(c, i, Len(feed) + 1)'
    BY <2>1, <2>2, <1>3 DEF Quiet, Wiped
  <2>6. Running(c)' <=> Running(c)
    BY <1>1 DEF Running
  <2> QED BY <2>4, <2>5, <2>6 DEF Reported
<1> QED BY <1>5, <1>6, <1>7 DEF ReportInv

\* The subscription, the announcements and the end of the main goroutine.
LEMMA MainReports ==
    ASSUME EventInv, ReportInv, StreamEvents \/ emitContainerSnapshots \/ streamReturns \/ interrupt
    PROVE  ReportInv'
<1>1. UNCHANGED <<status, gen, link, feed, opts, registry, watcher, told, unseen, stale>>
  BY DEF StreamEvents, emitContainerSnapshots, streamReturns, interrupt, world, HistoryUnchanged
<1>2. \A c \in Containers, i \in Interfaces : link[c][i].attr = "absent" => ~ link[c][i].netem
  BY DEF ReportInv, Tidy
<1>3. forwarder \in [pc : {"none", "idle", "stopping", "sending", "ended"}, ev : RuntimeEvent \cup {<<>>}]
  BY DEF EventInv, Types, ProcessType
<1>4. CASE StreamEvents
  <2>1. /\ phase = "listed" /\ phase' = "loop" /\ feedState' = "open"
        /\ forwarder' = [forwarder EXCEPT !.pc = "idle"] /\ UNCHANGED <<eventCh, ctxDone>>
    BY <1>4 DEF StreamEvents
  <2>2. forwarder.pc = "none" /\ forwarder'.pc = "idle"
    BY <2>1, <1>3 DEF EventInv, Order, StoppedFirst
  <2>3. Subscribed'
    BY <2>1, <2>2, <1>1 DEF ReportInv, Subscribed
  <2>4. \A c \in Containers : HoldsStop(c)' <=> HoldsStop(c)
    BY <2>2 DEF HoldsStop
  <2>5. \A c \in Containers, i \in Interfaces : \A v : Known(c, i, v) => Known(c, i, v)'
    BY <2>1, <1>1, KnownSame
  <2> QED BY <2>1, <2>3, <2>4, <2>5, <1>1, <1>2, CalmReports
<1>5. CASE emitContainerSnapshots
  <2>1. PICK e \in listed : eventCh' = Append(eventCh, e) \/ UNCHANGED eventCh
    BY <1>5 DEF emitContainerSnapshots
  <2>2. e \in ListedEvent /\ UNCHANGED <<phase, forwarder, ctxDone, feedState>>
    BY <1>5 DEF emitContainerSnapshots, EventInv, Types, ProcessType, world
  <2>3. e \in Event /\ \A c, i : ~ Affects(e, c, i)
    BY <2>2 DEF Event, ListedEvent, Affects, Stops
  <2>4. \A c \in Containers, i \in Interfaces : \A v : Known(c, i, v) => Known(c, i, v)'
    BY <2>1, <2>3, <1>1, KnownSend, KnownSame
  <2>5. \A c \in Containers : HoldsStop(c)' <=> HoldsStop(c)
    BY <2>2 DEF HoldsStop
  <2>6. phase # "init"
    BY <1>5 DEF emitContainerSnapshots, ReportInv, Subscribed
  <2>7. Subscribed'
    BY <2>2, <2>6, <1>1 DEF ReportInv, Subscribed
  <2> QED BY <2>2, <2>4, <2>5, <2>6, <2>7, <1>1, <1>2, CalmReports
<1>6. CASE streamReturns \/ interrupt
  <2>1. /\ phase = "loop" /\ ctxDone' = TRUE /\ UNCHANGED <<forwarder, feedState, eventCh>>
        /\ phase' \in {"loop", "returned"}
    BY <1>6 DEF streamReturns, interrupt, world
  <2>2. Subscribed'
    BY <2>1, <1>1 DEF ReportInv, Subscribed
  <2>3. \A c \in Containers, i \in Interfaces : \A v : Known(c, i, v) => Known(c, i, v)'
    BY <2>1, <1>1, KnownSame
  <2>4. \A c \in Containers : HoldsStop(c)' <=> HoldsStop(c)
    BY <2>1 DEF HoldsStop
  <2> QED BY <2>1, <2>2, <2>3, <2>4, <1>1, <1>2, CalmReports
<1> QED BY <1>4, <1>5, <1>6

(***************************************************************************)
(* The environment.                                                        *)
(***************************************************************************)

\* An event at the end of the feed: a stop ends what is reported of its container, any
\* other event does not touch it, except that a start has to be waited for.
LEMMA FeedAppend ==
    ASSUME feed \in Seq(RuntimeEvent), NEW e \in RuntimeEvent, feed' = Append(feed, e) \/ feed' = feed,
           NEW c \in Containers, NEW i \in Interfaces,
           UNCHANGED <<eventCh, told, registry, forwarder>>
    PROVE  /\ Len(feed) \in Nat
           /\ \A k \in 1..(Len(feed) + 1) : Quiet(c, i, k) => Quiet(c, i, k)'
           /\ ~(e.c = c /\ e.action \in Stops) =>
                /\ Starting(c, i) => Starting(c, i)'
                /\ \A k \in Nat : NoStopAfter(c, k) => NoStopAfter(c, k)'
           /\ ~(e.c = c /\ e.action \in Starts) /\ Quiet(c, i, Len(feed) + 1) => Quiet(c, i, Len(feed) + 1)'
           /\ feed' = Append(feed, e) /\ e.c = c /\ e.action \in Stops => Quiet(c, i, Len(feed) + 1)'
           /\ feed' = Append(feed, e) /\ e.c = c /\ e.action \in Starts /\ Quiet(c, i, Len(feed) + 1)
                => Starting(c, i)'
<1>1. PICK n \in Nat : n = Len(feed)
  OBVIOUS
<1>2. /\ DOMAIN feed = 1..n /\ \A k \in 1..n : feed'[k] = feed[k]
      /\ DOMAIN feed' = 1..Len(feed') /\ Len(feed') \in {n, n + 1}
      /\ feed' = Append(feed, e) => Len(feed') = n + 1
      /\ Len(feed') = n + 1 => feed'[n + 1] = e
  BY <1>1
<1>3. Wiped(c, i)' <=> Wiped(c, i)
  BY KnownSame DEF Wiped, HoldsStop
<1>4. ASSUME NEW k \in 1..(n + 1), Quiet(c, i, k) PROVE Quiet(c, i, k)'
  <2>1. PICK j \in 0..(k - 1) :
          /\ IF j = 0 THEN c \notin registry /\ Wiped(c, i)
             ELSE feed[j].c = c /\ feed[j].action \in Stops
          /\ \A m \in (j + 1)..(k - 1) : feed[m].c = c => feed[m].action \notin Starts
    BY <1>4 DEF Quiet
  <2>2. (j # 0 => j \in 1..n) /\ \A m \in (j + 1)..(k - 1) : m \in 1..n
    OBVIOUS
  <2>3. (j # 0 => feed'[j] = feed[j]) /\ \A m \in (j + 1)..(k - 1) : feed'[m] = feed[m]
    BY <2>2, <1>2, Zenon
  <2> QED BY <2>1, <2>3, <1>3 DEF Quiet
<1>5. ASSUME ~(e.c = c /\ e.action \in Stops), NEW k \in Nat, NoStopAfter(c, k) PROVE NoStopAfter(c, k)'
  <2> SUFFICES ASSUME NEW m \in DOMAIN feed', m > k, feed'[m].c = c PROVE feed'[m].action \notin Stops
    BY DEF NoStopAfter
  <2>1. CASE m \in 1..n
    BY <2>1, <1>2, <1>5 DEF NoStopAfter
  <2>2. CASE m \notin 1..n
    <3>1. m = n + 1 /\ Len(feed') = n + 1
      <4>1. m \in 1..Len(feed') /\ Len(feed') \in {n, n + 1}
        BY <1>2
      <4> QED BY <4>1, <2>2
    <3> QED BY <3>1, <1>2, <1>5
  <2> QED BY <2>1, <2>2
<1>6. ASSUME ~(e.c = c /\ e.action \in Stops), Starting(c, i) PROVE Starting(c, i)'
  <2>1. PICK k \in DOMAIN feed : /\ feed[k].c = c /\ feed[k].action \in Starts
                                 /\ Quiet(c, i, k) /\ NoStopAfter(c, k)
    BY <1>6 DEF Starting
  <2>2. k \in DOMAIN feed' /\ feed'[k] = feed[k] /\ k \in 1..(n + 1) /\ k \in Nat
    <3>1. k \in 1..n
      BY <2>1, <1>2, Zenon
    <3>2. k \in 1..(n + 1) /\ k \in Nat
      BY <3>1
    <3>3. CASE Len(feed') = n
      BY <3>1, <3>2, <3>3, <1>2, Zenon
    <3>4. CASE Len(feed') = n + 1
      BY <3>1, <3>2, <3>4, <1>2, Zenon
    <3> QED BY <3>3, <3>4, <1>2
  <2>3. Quiet(c, i, k)' /\ NoStopAfter(c, k)'
    BY <2>1, <2>2, <1>4, <1>5, <1>6
  <2> QED BY <2>1, <2>2, <2>3 DEF Starting
<1>7. ASSUME ~(e.c = c /\ e.action \in Starts), Quiet(c, i, n + 1) PROVE Quiet(c, i, Len(feed) + 1)'
  <2>1. PICK j \in 0..n :
          /\ IF j = 0 THEN c \notin registry /\ Wiped(c, i)
             ELSE feed[j].c = c /\ feed[j].action \in Stops
          /\ \A m \in (j + 1)..n : feed[m].c = c => feed[m].action \notin Starts
    <3>1. (n + 1) - 1 = n
      BY <1>1
    <3> QED BY <3>1, <1>7 DEF Quiet
  <2>2. j \in 0..((Len(feed') + 1) - 1) /\ (j # 0 => feed'[j] = feed[j])
    <3>1. j # 0 => j \in 1..n
      OBVIOUS
    <3>2. j # 0 => feed'[j] = feed[j]
      BY <3>1, <1>2, Zenon
    <3>3. Len(feed') \in {n, n + 1}
      BY <1>2
    <3> QED BY <3>2, <3>3
  <2>3. \A m \in (j + 1)..((Len(feed') + 1) - 1) : feed'[m].c = c => feed'[m].action \notin Starts
    <3> TAKE m \in (j + 1)..((Len(feed') + 1) - 1)
    <3>1. CASE m \in (j + 1)..n
      <4>1. m \in 1..n
        BY <3>1
      <4>2. feed'[m] = feed[m]
        BY <4>1, <1>2, Zenon
      <4> QED BY <3>1, <4>2, <2>1
    <3>2. CASE m \notin (j + 1)..n
      <4>1. Len(feed') \in {n, n + 1}
        BY <1>2
      <4>2. m = n + 1 /\ Len(feed') = n + 1
        BY <3>2, <4>1
      <4> QED BY <4>2, <1>2, <1>7, Zenon
    <3> QED BY <3>1, <3>2
  <2> QED BY <2>1, <2>2, <2>3, <1>3 DEF Quiet
<1>8. ASSUME feed' = Append(feed, e), e.c = c, e.action \in Stops PROVE Quiet(c, i, Len(feed) + 1)'
  <2>1. /\ n + 1 \in 0..((Len(feed') + 1) - 1) /\ n + 1 # 0 /\ feed'[n + 1] = e
        /\ \A m \in ((n + 1) + 1)..((Len(feed') + 1) - 1) : FALSE
    BY <1>1, <1>2, <1>8
  <2> QED BY <2>1, <1>8 DEF Quiet
<1>9. ASSUME feed' = Append(feed, e), e.c = c, e.action \in Starts, Quiet(c, i, n + 1)
      PROVE  Starting(c, i)'
  <2>1. n + 1 \in DOMAIN feed' /\ feed'[n + 1] = e /\ n + 1 \in 1..(n + 1)
        /\ \A m \in DOMAIN feed' : ~(m > n + 1)
    BY <1>1, <1>2, <1>9
  <2>2. Quiet(c, i, n + 1)' /\ NoStopAfter(c, n + 1)'
    BY <2>1, <1>4, <1>9 DEF NoStopAfter
  <2> QED BY <2>1, <2>2, <1>9 DEF Starting
<1> QED BY <1>1, <1>4, <1>5, <1>6, <1>7, <1>8, <1>9

\* What happens to container d is not about another container.
LEMMA OtherReports ==
    ASSUME EventInv, NEW e \in RuntimeEvent, feed' = Append(feed, e) \/ feed' = feed,
           NEW c \in Containers, NEW i \in Interfaces, Reported(c, i),
           ~(e.c = c /\ e.action \in Stops), e.c = c => Running(c),
           UNCHANGED <<phase, eventCh, told, registry, forwarder>>,
           status'[c] = status[c], gen'[c] = gen[c], watcher'[c] = watcher[c], link'[c] = link[c],
           c \in stale' <=> c \in stale, <<c, i>> \in unseen' <=> <<c, i>> \in unseen
    PROVE  Reported(c, i)'
<1>1. feed \in Seq(RuntimeEvent)
  BY DEF EventInv, Types, WorldType
<1>2. /\ Starting(c, i) => Starting(c, i)'
      /\ \A k \in Nat : NoStopAfter(c, k) => NoStopAfter(c, k)'
      /\ ~ Running(c) /\ Quiet(c, i, Len(feed) + 1) => Quiet(c, i, Len(feed) + 1)'
  BY <1>1, FeedAppend
<1>3. NoStopAfter(c, 0) => NoStopAfter(c, 0)'
  BY <1>2
<1>4. ASSUME Following(c, i) PROVE Following(c, i)'
  <2>1. AtWork(c)' /\ NoStopAfter(c, 0)'
    BY <1>3, <1>4 DEF Following, AtWork
  <2>2. Known(c, i, Absent) => Known(c, i, Absent)'
    BY KnownSame
  <2>3. KnownAfter(c, i, watcher[c].states[i]) => KnownAfter(c, i, watcher[c].states[i])'
    BY DEF KnownAfter, Known, Ends, LastSays, Silent
  <2>4. AttrCurrent(c, i) => AttrCurrent(c, i)'
    BY DEF AttrCurrent
  <2> QED BY <2>1, <2>2, <2>3, <2>4, <1>4 DEF Following
<1>5. Running(c)' <=> Running(c)
  BY DEF Running
<1> QED BY <1>2, <1>4, <1>5 DEF Reported

\* An event published about d is one of the runtime's, and it is missed only by nobody
\* or by those who are not subscribed.
LEMMA Published ==
    ASSUME EventInv, ReportInv, NEW d \in Containers, NEW a \in {"start", "die", "kill", "unpause"},
           NEW g \in Nat, Publish(d, a, g), ~ ctxDone
    PROVE  /\ containerEvent(d, a, g) \in RuntimeEvent
           /\ containerEvent(d, a, g).c = d /\ containerEvent(d, a, g).action = a
           /\ feed' = Append(feed, containerEvent(d, a, g)) \/ feed' = feed
           /\ feedState # "open" => feed' = feed
           /\ phase \in {"init", "listed"} => feed' = <<>>
           /\ phase # "init" =>
                feed' = Append(feed, containerEvent(d, a, g)) \/ Unnoticed(d) = {d} \X Interfaces
           /\ Unnoticed(d) = {} \/ (Unnoticed(d) = {d} \X Interfaces /\ phase # "init")
<1>1. /\ containerEvent(d, a, g) \in RuntimeEvent
      /\ containerEvent(d, a, g).c = d /\ containerEvent(d, a, g).action = a
  BY DEF containerEvent, RuntimeEvent
<1>2. /\ feed' = IF feedState = "open" THEN Append(feed, containerEvent(d, a, g)) ELSE feed
      /\ phase \in {"init", "listed"} => feedState = "closed" /\ feed = <<>>
      /\ phase \in {"init", "listed", "loop"}
      /\ phase = "loop" => feedState \in {"open", "error", "over"}
  BY DEF Publish, ReportInv, Subscribed
<1> QED BY <1>1, <1>2 DEF Unnoticed

\* A container that starts is waited for in the feed, or its interfaces count as unseen.
LEMMA StartReports ==
    ASSUME EventInv, ReportInv, NEW d \in Containers, containerStarts(d)
    PROVE  ReportInv'
<1> DEFINE e == containerEvent(d, "start", gen[d] + 1)
<1>1. /\ status \in [Containers -> {"running", "exited"}] /\ gen \in [Containers -> Nat]
      /\ ~ ctxDone /\ ~ Running(d) /\ Publish(d, "start", gen[d] + 1) /\ gen[d] + 1 \in Nat
      /\ status' = [status EXCEPT ![d] = "running"] /\ gen' = [gen EXCEPT ![d] = @ + 1]
      /\ unseen' = Unnoticed(d) \cup IF d \in stale THEN unseen ELSE unseen \ ({d} \X Interfaces)
      /\ UNCHANGED <<link, feedState, process, told, stale>>
  BY DEF containerStarts, Happens, EventInv, Types, WorldType
<1>2. UNCHANGED <<opts, phase, listed, eventCh, forwarder, registry, watcher, ctxDone>>
  BY <1>1 DEF process
<1>3. /\ e \in RuntimeEvent /\ e.c = d /\ e.action = "start"
      /\ feed' = Append(feed, e) \/ feed' = feed
      /\ feedState # "open" => feed' = feed
      /\ phase \in {"init", "listed"} => feed' = <<>>
      /\ phase # "init" => feed' = Append(feed, e) \/ Unnoticed(d) = {d} \X Interfaces
      /\ Unnoticed(d) = {} \/ (Unnoticed(d) = {d} \X Interfaces /\ phase # "init")
  BY <1>1, Published
<1> HIDE DEF e
<1>4. Subscribed'
  BY <1>1, <1>2, <1>3 DEF ReportInv, Subscribed
<1>5. \A c \in Containers, i \in Interfaces :
         c # d => (<<c, i>> \in unseen' <=> <<c, i>> \in unseen)
  BY <1>1, <1>3
<1>6. ASSUME NEW c \in Containers PROVE Tidy(c)'
  <2>1. Tidy(c) /\ \A i \in Interfaces : c \in stale => <<c, i>> \in unseen'
    BY <1>1 DEF ReportInv, Tidy
  <2> QED BY <2>1, <1>1, <1>2 DEF Tidy, HoldsStop
<1>7. ASSUME NEW c \in Containers, NEW i \in Interfaces, Reported(c, i) PROVE Reported(c, i)'
  <2>1. CASE c # d
    <3>1. status'[c] = status[c] /\ gen'[c] = gen[c]
      BY <2>1, <1>1
    <3> QED BY <2>1, <3>1, <1>1, <1>2, <1>3, <1>5, <1>7, OtherReports
  <2>2. CASE c = d /\ phase # "init" /\ <<d, i>> \notin unseen'
    <3>1. d \notin stale /\ feed' = Append(feed, e)
      BY <2>2, <1>1, <1>3 DEF ReportInv, Tidy
    <3>2. Quiet(d, i, Len(feed) + 1)
      BY <2>2, <3>1, <1>1, <1>7 DEF Reported
    <3>3. Starting(d, i)'
      <4>1. feed \in Seq(RuntimeEvent) /\ "start" \in Starts
        BY DEF EventInv, Types, WorldType, Starts
      <4> QED BY <3>1, <3>2, <4>1, <1>1, <1>2, <1>3, FeedAppend
    <3>4. Running(d)'
      BY <1>1 DEF Running
    <3> QED BY <2>2, <3>3, <3>4 DEF Reported
  <2>3. CASE c = d /\ (phase = "init" \/ <<d, i>> \in unseen')
    <3>1. Running(d)'
      BY <1>1 DEF Running
    <3> QED BY <2>3, <3>1, <1>2 DEF Reported
  <2> QED BY <2>1, <2>2, <2>3
<1>8. Watching' => \A c \in Containers, i \in Interfaces : Reported(c, i)'
  BY <1>2, <1>7 DEF ReportInv, Watching
<1> QED BY <1>4, <1>6, <1>8 DEF ReportInv

\* The end of a container is published, or its interfaces count as unseen.
LEMMA ExitReports ==
    ASSUME EventInv, ReportInv, NEW d \in Containers, containerExits(d)
    PROVE  ReportInv'
<1> DEFINE e == containerEvent(d, "die", gen[d])
<1>1. /\ status \in [Containers -> {"running", "exited"}] /\ gen[d] \in Nat
      /\ link \in [Containers -> States]
      /\ ~ ctxDone /\ Running(d) /\ Publish(d, "die", gen[d])
      /\ status' = [status EXCEPT ![d] = "exited"] /\ link' = [link EXCEPT ![d] = NoStates]
      /\ unseen' = unseen \cup Unnoticed(d)
      /\ stale' = IF Unnoticed(d) # {} THEN stale \cup {d} ELSE stale \ {d}
      /\ UNCHANGED <<gen, feedState, process, told>>
  BY DEF containerExits, Happens, EventInv, Types, WorldType
<1>2. UNCHANGED <<opts, phase, listed, eventCh, forwarder, registry, watcher, ctxDone>>
  BY <1>1 DEF process
<1>3. /\ e \in RuntimeEvent /\ e.c = d /\ e.action = "die"
      /\ feed' = Append(feed, e) \/ feed' = feed
      /\ feedState # "open" => feed' = feed
      /\ phase \in {"init", "listed"} => feed' = <<>>
      /\ phase # "init" => feed' = Append(feed, e) \/ Unnoticed(d) = {d} \X Interfaces
      /\ Unnoticed(d) = {} \/ (Unnoticed(d) = {d} \X Interfaces /\ phase # "init")
  BY <1>1, Published
<1> HIDE DEF e
<1>4. Subscribed'
  BY <1>1, <1>2, <1>3 DEF ReportInv, Subscribed
<1>5. \A c \in Containers, i \in Interfaces :
         c # d => (<<c, i>> \in unseen' <=> <<c, i>> \in unseen)
  BY <1>1, <1>3
<1>6. /\ \A c \in Containers : c # d => link'[c] = link[c]
      /\ \A i \in Interfaces : link'[d][i] = Absent
  BY <1>1 DEF NoStates
<1>7. ASSUME NEW c \in Containers PROVE Tidy(c)'
  <2>1. Tidy(c)
    BY DEF ReportInv
  <2>2. \A i \in Interfaces : c \in stale' => <<c, i>> \in unseen'
    BY <2>1, <1>1, <1>3 DEF Tidy
  <2>3. \A i \in Interfaces : link'[c][i].attr = "absent" => ~ link'[c][i].netem
    <3>1. CASE c = d
      BY <3>1, <1>6 DEF Absent
    <3>2. CASE c # d
      BY <3>2, <2>1, <1>6 DEF Tidy
    <3> QED BY <3>1, <3>2
  <2> QED BY <2>1, <2>2, <2>3, <1>2 DEF Tidy, HoldsStop
<1>8. ASSUME NEW c \in Containers, NEW i \in Interfaces, Reported(c, i) PROVE Reported(c, i)'
  <2>1. CASE c # d
    <3>1. status'[c] = status[c] /\ gen'[c] = gen[c] /\ (c \in stale' <=> c \in stale)
      BY <2>1, <1>1
    <3> QED BY <2>1, <3>1, <1>1, <1>2, <1>3, <1>5, <1>6, <1>8, OtherReports
  <2>2. CASE c = d /\ phase # "init" /\ d \notin stale'
    <3>1. Unnoticed(d) = {} /\ {d} \X Interfaces # {}
      <4>1. <<d, i>> \in {d} \X Interfaces
        OBVIOUS
      <4>2. Unnoticed(d) = {}
        BY <2>2, <1>1
      <4> QED BY <4>1, <4>2
    <3>2. feed' = Append(feed, e)
      BY <2>2, <3>1, <1>3
    <3>3. Quiet(d, i, Len(feed) + 1)'
      <4>1. feed \in Seq(RuntimeEvent) /\ "die" \in Stops
        BY DEF EventInv, Types, WorldType, Stops
      <4> QED BY <3>2, <4>1, <1>1, <1>2, <1>3, FeedAppend
    <3>4. ~ Running(d)'
      BY <1>1 DEF Running
    <3> QED BY <2>2, <3>3, <3>4 DEF Reported
  <2>3. CASE c = d /\ (phase = "init" \/ d \in stale')
    <3>1. ~ Running(d)'
      BY <1>1 DEF Running
    <3> QED BY <2>3, <3>1, <1>2 DEF Reported
  <2> QED BY <2>1, <2>2, <2>3
<1>9. Watching' => \A c \in Containers, i \in Interfaces : Reported(c, i)'
  BY <1>2, <1>8 DEF ReportInv, Watching
<1> QED BY <1>4, <1>7, <1>9 DEF ReportInv

\* A signal makes the interfaces count as unseen; the end of a pause starts nothing.
LEMMA SignalReports ==
    ASSUME EventInv, ReportInv, NEW d \in Containers, containerSignalled(d) \/ containerUnpaused(d)
    PROVE  ReportInv'
<1>1. PICK a \in {"kill", "unpause"} :
        /\ Publish(d, a, gen[d])
        /\ unseen' = IF a = "kill" THEN unseen \cup ({d} \X Interfaces) ELSE unseen
  BY DEF containerSignalled, containerUnpaused
<1> DEFINE e == containerEvent(d, a, gen[d])
<1>2. /\ gen[d] \in Nat /\ ~ ctxDone /\ Running(d)
      /\ UNCHANGED <<status, gen, link, feedState, process, told, stale>>
  BY DEF containerSignalled, containerUnpaused, Happens, EventInv, Types, WorldType
<1>3. UNCHANGED <<opts, phase, listed, eventCh, forwarder, registry, watcher, ctxDone>>
  BY <1>2 DEF process
<1>4. /\ e \in RuntimeEvent /\ e.c = d /\ e.action = a
      /\ feed' = Append(feed, e) \/ feed' = feed
      /\ feedState # "open" => feed' = feed
      /\ phase \in {"init", "listed"} => feed' = <<>>
  BY <1>1, <1>2, Published
<1> HIDE DEF e
<1>5. Subscribed'
  BY <1>2, <1>3, <1>4 DEF ReportInv, Subscribed
<1>6. ASSUME NEW c \in Containers PROVE Tidy(c)'
  BY <1>1, <1>2, <1>3 DEF ReportInv, Tidy, HoldsStop
<1>7. ASSUME NEW c \in Containers, NEW i \in Interfaces, Reported(c, i) PROVE Reported(c, i)'
  <2>1. CASE c # d \/ a = "unpause"
    <3>1. <<c, i>> \in unseen' <=> <<c, i>> \in unseen
      BY <2>1, <1>1
    <3>2. ~(e.c = c /\ e.action \in Stops) /\ (e.c = c => Running(c))
      BY <2>1, <1>2, <1>4 DEF Stops
    <3> QED BY <3>1, <3>2, <1>2, <1>3, <1>4, <1>7, OtherReports
  <2>2. CASE c = d /\ a = "kill"
    <3>1. <<d, i>> \in unseen' /\ Running(d)'
      BY <2>2, <1>1, <1>2 DEF Running
    <3> QED BY <2>2, <3>1 DEF Reported
  <2> QED BY <2>1, <2>2
<1>8. Watching' => \A c \in Containers, i \in Interfaces : Reported(c, i)'
  BY <1>3, <1>7 DEF ReportInv, Watching
<1> QED BY <1>5, <1>6, <1>8 DEF ReportInv

\* The kernel tells the watcher of every change of an attribute, unless it changed
\* between the listing and the subscription.
LEMMA LinkReports ==
    ASSUME EventInv, ReportInv, NEW d \in Containers, NEW f \in Interfaces,
           NEW a \in Attrs \cup {"absent"}, linkChanges(d, f, a)
    PROVE  ReportInv'
<1> DEFINE w == watcher[d]
           s == IF a = "absent" THEN Absent ELSE [link[d][f] EXCEPT !.attr = a]
           u == [i |-> f, s |-> s]
           hears == w.pc = "loop" /\ w.gen = gen[d]
<1>1. /\ watcher \in [Containers -> Watcher] /\ link \in [Containers -> States] /\ w \in Watcher
      /\ w.updates \in Seq(Update)
  <2>1. watcher \in [Containers -> Watcher] /\ link \in [Containers -> States]
    BY DEF EventInv, Types, WatcherType, WorldType
  <2> QED BY <2>1 DEF Watcher
<1>2. /\ link' = [link EXCEPT ![d][f] = s]
      /\ watcher' = IF hears THEN [watcher EXCEPT ![d].updates = Append(@, u)] ELSE watcher
      /\ unseen' = IF w.pc = "subscribe" /\ w.gen = gen[d] THEN unseen \cup {<<d, f>>} ELSE unseen
      /\ UNCHANGED <<status, gen, feed, feedState, told, stale>>
      /\ UNCHANGED <<opts, phase, listed, eventCh, forwarder, registry, ctxDone>>
      /\ ~ ctxDone
  BY DEF linkChanges, Happens
<1>3. s \in State /\ s.attr = a /\ (s.attr = "absent" => ~ s.netem) /\ u \in Update /\ u.i = f /\ u.s = s
  <2>1. link[d][f] \in State
    BY <1>1 DEF States
  <2>2. s \in State /\ s.attr = a /\ (s.attr = "absent" => ~ s.netem)
    BY <2>1, Constants DEF State, Absent
  <2> HIDE DEF s
  <2> QED BY <2>2 DEF Update
<1> HIDE DEF s, u
<1>4. /\ \A c \in Containers, i \in Interfaces :
           link'[c][i] = IF c = d /\ i = f THEN s ELSE link[c][i]
  BY <1>1, <1>2 DEF States
<1>5. /\ \A c \in Containers : c # d => watcher'[c] = watcher[c]
      /\ watcher'[d].out = w.out /\ watcher'[d].pc = w.pc /\ watcher'[d].gen = w.gen
      /\ watcher'[d].cancelled = w.cancelled /\ watcher'[d].states = w.states
      /\ hears => watcher'[d].updates = Append(w.updates, u)
      /\ ~ hears => watcher'[d].updates = w.updates
  <2>1. CASE hears
    <3>1. watcher'[d] = [w EXCEPT !.updates = Append(w.updates, u)]
      BY <2>1, <1>1, <1>2
    <3>2. \A c \in Containers : c # d => watcher'[c] = watcher[c]
      BY <2>1, <1>1, <1>2
    <3> QED BY <2>1, <3>1, <3>2, <1>1 DEF Watcher
  <2>2. CASE ~ hears
    BY <2>2, <1>2
  <2> QED BY <2>1, <2>2
<1>6. Subscribed'
  BY <1>2 DEF ReportInv, Subscribed
<1>7. ASSUME NEW c \in Containers PROVE Tidy(c)'
  <2>1. Tidy(c)
    BY DEF ReportInv
  <2>2. \A i \in Interfaces : link'[c][i].attr = "absent" => ~ link'[c][i].netem
    BY <2>1, <1>3, <1>4 DEF Tidy
  <2>3. \A i \in Interfaces : c \in stale' => <<c, i>> \in unseen'
    BY <2>1, <1>2 DEF Tidy
  <2>4. watcher'[c].pc = watcher[c].pc /\ watcher'[c].states = watcher[c].states
        /\ (watcher[c].pc # "loop" => watcher'[c].updates = watcher[c].updates)
    BY <1>5
  <2> QED BY <2>1, <2>2, <2>3, <2>4, <1>2 DEF Tidy, HoldsStop
<1>8. ASSUME NEW c \in Containers, NEW i \in Interfaces, Reported(c, i) PROVE Reported(c, i)'
  <2>1. /\ \A v : Known(c, i, v) => Known(c, i, v)'
        /\ Wiped(c, i) => Wiped(c, i)'
    BY <1>2 DEF Known, Wiped, HoldsStop
  <2>2. CASE c # d
    <3>1. watcher'[c] = watcher[c] /\ link'[c][i].attr = link[c][i].attr
          /\ (<<c, i>> \in unseen => <<c, i>> \in unseen')
      BY <2>2, <1>2, <1>4, <1>5
    <3> QED BY <2>1, <3>1, <1>2, <1>8, Frame
  <2>3. CASE c = d
    <3>1. ASSUME NEW k, Quiet(d, i, k) PROVE Quiet(d, i, k)'
      BY <2>1, <2>3, <3>1, <1>2 DEF Quiet
    <3>2. Starting(d, i) => Starting(d, i)'
      BY <3>1, <1>2 DEF Starting, NoStopAfter
    <3>3. Quiet(d, i, Len(feed) + 1) => Quiet(d, i, Len(feed) + 1)'
      BY <3>1, <1>2 DEF Quiet
    <3>4. ASSUME Following(d, i), <<d, i>> \notin unseen' PROVE Following(d, i)'
      <4>1. AtWork(d)' /\ NoStopAfter(d, 0)'
        BY <3>4, <1>2, <1>5 DEF Following, AtWork, NoStopAfter
      <4>2. CASE w.pc \in {"resolve", "snapshot"}
        <5>1. Known(d, i, Absent)'
          BY <2>1, <2>3, <3>4, <4>2 DEF Following
        <5> QED BY <4>1, <4>2, <5>1, <1>5 DEF Following
      <4>3. CASE w.pc \notin {"resolve", "snapshot"}
        <5>1. KnownAfter(d, i, w.states[i]) /\ AttrCurrent(d, i) /\ w.gen = gen[d]
          BY <3>4, <4>3 DEF Following, AtWork
        <5>2. PICK v : v = w.states[i]
          OBVIOUS
        <5>3. KnownAfter(d, i, v)'
          BY <5>1, <5>2, <1>2, <1>5 DEF KnownAfter, Known, Ends, LastSays, Silent
        <5>4. AttrCurrent(d, i)'
          <6>0. /\ u.i = i /\ u.s.attr = a => LastUpdate(Append(w.updates, u), i, a)
                /\ u.i # i /\ LastUpdate(w.updates, i, link[d][i].attr) =>
                     LastUpdate(Append(w.updates, u), i, link[d][i].attr)
                /\ u.i # i /\ NoUpdate(w.updates, i) => NoUpdate(Append(w.updates, u), i)
            <7>1. \A b : /\ u.i = i /\ u.s.attr = b => LastUpdate(Append(w.updates, u), i, b)
                         /\ u.i # i /\ LastUpdate(w.updates, i, b) => LastUpdate(Append(w.updates, u), i, b)
                         /\ u.i # i /\ NoUpdate(w.updates, i) => NoUpdate(Append(w.updates, u), i)
              <8> TAKE b
              <8> HIDE DEF w
              <8>1. w.updates \in Seq(Update) /\ u \in Update
                BY <1>1, <1>3
              <8> QED BY <8>1, UpdateAppend
            <7> QED BY <7>1
          <6>1. CASE i # f
            <7>1. link'[d][i] = link[d][i]
              BY <6>1, <1>4
            <7>2. /\ LastUpdate(w.updates, i, link[d][i].attr) =>
                       LastUpdate(watcher'[d].updates, i, link[d][i].attr)
                  /\ NoUpdate(w.updates, i) => NoUpdate(watcher'[d].updates, i)
              BY <6>0, <6>1, <1>3, <1>5
            <7> QED BY <5>1, <7>1, <7>2, <1>5 DEF AttrCurrent
          <6>2. CASE i = f
            <7>1. hears
              BY <5>1, <6>2, <3>4, <4>3, <1>2 DEF Following, AtWork
            <7>2. LastUpdate(watcher'[d].updates, i, a)
              BY <6>0, <6>2, <7>1, <1>3, <1>5
            <7>3. link'[d][i].attr = a
              BY <6>2, <1>3, <1>4
            <7> QED BY <7>2, <7>3 DEF AttrCurrent
          <6> QED BY <6>1, <6>2
        <5>5. watcher'[d].states[i] = v /\ watcher'[d].pc \notin {"resolve", "snapshot"}
          BY <4>3, <5>2, <1>5
        <5> QED BY <4>1, <5>3, <5>4, <5>5 DEF Following
      <4> QED BY <4>2, <4>3
    <3>5. Running(d)' <=> Running(d)
      BY <1>2 DEF Running
    <3>6. <<d, i>> \in unseen => <<d, i>> \in unseen'
      BY <1>2
    <3> QED BY <2>3, <1>2, <1>8, <3>2, <3>3, <3>4, <3>5, <3>6 DEF Reported
  <2> QED BY <2>2, <2>3
<1>9. Watching' => \A c \in Containers, i \in Interfaces : Reported(c, i)'
  BY <1>2, <1>8 DEF ReportInv, Watching
<1> QED BY <1>6, <1>7, <1>9 DEF ReportInv

\* Impairments, counters and the end of the feed change no attribute.
LEMMA WorldReports ==
    ASSUME EventInv, ReportInv,
           feedBreaks \/ \E c \in Containers, i \in Interfaces : netemChanges(c, i) \/ traffic(c, i)
    PROVE  ReportInv'
<1>1. /\ UNCHANGED <<status, gen, feed, process, told, unseen, stale>> /\ link \in [Containers -> States]
      /\ feedState' = feedState \/ (feedState = "open" /\ feedState' = "error")
  BY DEF feedBreaks, netemChanges, traffic, EventInv, Types, WorldType
<1>2. UNCHANGED <<opts, phase, listed, eventCh, forwarder, registry, watcher, ctxDone>>
  BY <1>1 DEF process
<1>3. \A c \in Containers, i \in Interfaces : /\ link'[c][i].attr = link[c][i].attr
                                              /\ link'[c][i].attr = "absent" => ~ link'[c][i].netem
  <2> SUFFICES ASSUME NEW c \in Containers, NEW i \in Interfaces
               PROVE  /\ link'[c][i].attr = link[c][i].attr
                      /\ link'[c][i].attr = "absent" => ~ link'[c][i].netem
    OBVIOUS
  <2>1. link[c][i].attr = "absent" => ~ link[c][i].netem
    BY DEF ReportInv, Tidy
  <2>2. CASE feedBreaks
    BY <2>1, <2>2 DEF feedBreaks
  <2>3. ASSUME NEW d \in Containers, NEW f \in Interfaces, netemChanges(d, f) \/ traffic(d, f)
        PROVE  /\ link'[c][i].attr = link[c][i].attr
               /\ link'[c][i].attr = "absent" => ~ link'[c][i].netem
    <3>1. link[d][f] \in State /\ link[d][f].attr # "absent"
      BY <2>3, <1>1 DEF netemChanges, traffic, Present, States
    <3>2. PICK s : link' = [link EXCEPT ![d][f] = s] /\ s.attr = link[d][f].attr
      <4>1. CASE netemChanges(d, f)
        <5> DEFINE s == [link[d][f] EXCEPT !.netem = ~ @]
        <5>1. s.attr = link[d][f].attr
          BY <3>1 DEF State
        <5>2. link' = [link EXCEPT ![d][f] = s]
          BY <4>1, <1>1 DEF netemChanges, States
        <5> QED BY <5>1, <5>2
      <4>2. CASE traffic(d, f)
        <5> DEFINE s == [link[d][f] EXCEPT !.rx = (@ + 1) % (MaxRx + 1)]
        <5>1. s.attr = link[d][f].attr
          BY <3>1 DEF State
        <5>2. link' = [link EXCEPT ![d][f] = s]
          BY <4>2, <1>1 DEF traffic, States
        <5> QED BY <5>1, <5>2
      <4> QED BY <2>3, <4>1, <4>2
    <3>3. link'[c][i] = IF c = d /\ i = f THEN s ELSE link[c][i]
      BY <3>2, <1>1 DEF States
    <3> QED BY <2>1, <3>1, <3>2, <3>3
  <2> QED BY <2>2, <2>3
<1>4. Subscribed'
  BY <1>1, <1>2 DEF ReportInv, Subscribed
<1>5. \A c \in Containers, i \in Interfaces : \A v : Known(c, i, v) => Known(c, i, v)'
  BY <1>1, <1>2, KnownSame
<1>6. ASSUME NEW c \in Containers PROVE Tidy(c)'
  BY <1>1, <1>2, <1>3 DEF ReportInv, Tidy, HoldsStop
<1>7. ASSUME NEW c \in Containers, NEW i \in Interfaces, Reported(c, i) PROVE Reported(c, i)'
  <2>1. Wiped(c, i) => Wiped(c, i)'
    BY <1>2, <1>5 DEF Wiped, HoldsStop
  <2> QED BY <2>1, <1>1, <1>2, <1>3, <1>5, <1>7, Frame
<1>8. Watching' => \A c \in Containers, i \in Interfaces : Reported(c, i)'
  BY <1>2, <1>7 DEF ReportInv, Watching
<1> QED BY <1>4, <1>6, <1>8 DEF ReportInv

(***************************************************************************)
(* What is printed is what the kernel holds.                               *)
(***************************************************************************)

\* Nothing was reported and nothing has happened.
LEMMA ReportInit == Init => ReportInv
<1> SUFFICES ASSUME Init PROVE ReportInv
  OBVIOUS
<1>1. /\ forwarder.pc = "none" /\ phase = "init" /\ feedState = "closed" /\ feed = <<>> /\ registry = {}
      /\ listed = {} /\ eventCh = <<>> /\ stale = {} /\ told = [c \in Containers |-> NoStates]
      /\ \A c \in Containers : watcher[c] = NoWatcher /\ link[c] = NoStates
  BY DEF Init
<1>2. Subscribed
  BY <1>1, Constants DEF Subscribed
<1>3. ASSUME NEW c \in Containers PROVE Tidy(c)
  <2>1. NoWatcher.updates = <<>> /\ NoWatcher.states = NoStates
    BY DEF NoWatcher
  <2>2. \A i \in Interfaces : NoStates[i] = Absent
    BY DEF NoStates
  <2> QED BY <1>1, <2>1, <2>2 DEF Tidy, HoldsStop, Absent
<1> QED BY <1>1, <1>2, <1>3 DEF ReportInv, Reported

\* A step in which nothing happens.
LEMMA StutterReports ==
    ASSUME ReportInv, UNCHANGED vars
    PROVE  ReportInv'
<1> USE DEF vars, world, process
<1>1. Subscribed' /\ (Watching' <=> Watching) /\ \A c \in Containers : Tidy(c)'
  BY DEF ReportInv, Subscribed, Watching, Tidy, HoldsStop
<1>2. ASSUME NEW c \in Containers, NEW i \in Interfaces, Reported(c, i) PROVE Reported(c, i)'
  <2>1. \A v : Known(c, i, v) => Known(c, i, v)'
    BY KnownSame
  <2>2. Wiped(c, i) => Wiped(c, i)'
    BY <2>1 DEF Wiped, HoldsStop
  <2> QED BY <2>1, <2>2, <1>2, Frame
<1> QED BY <1>1, <1>2 DEF ReportInv

\* Every step keeps the reports.
LEMMA ReportNext == EventInv /\ ReportInv /\ [Next]_vars => ReportInv'
<1> SUFFICES ASSUME EventInv, ReportInv, [Next]_vars PROVE ReportInv'
  OBVIOUS
<1>1. ASSUME NEW c \in Containers, WatcherStep(c) PROVE ReportInv'
  BY <1>1, ResolveReports, SnapshotReports, SubscribeReports, UpdateReports, RemoveReports, EmitReports
     DEF WatcherStep
<1>2. ASSUME NEW c \in Containers, Ticks(c) PROVE ReportInv'
  BY <1>2, TickReports
<1>3. CASE ForwarderStep
  BY <1>3, HandleReports, ForwarderReports, ForwardReports DEF ForwarderStep
<1>4. CASE MainStep \/ emitContainerSnapshots
  BY <1>4, ListReports, MainReports, PrintReports DEF MainStep
<1>5. CASE Environment
  <2>1. ASSUME NEW c \in Containers,
               containerStarts(c) \/ containerExits(c) \/ containerSignalled(c) \/ containerUnpaused(c)
        PROVE  ReportInv'
    BY <2>1, StartReports, ExitReports, SignalReports
  <2>2. ASSUME NEW c \in Containers, NEW i \in Interfaces, NEW a \in Attrs \cup {"absent"}, linkChanges(c, i, a)
        PROVE  ReportInv'
    BY <2>2, LinkReports
  <2> QED BY <1>5, <2>1, <2>2, MainReports, WorldReports, SubscribeReports DEF Environment
<1>6. CASE UNCHANGED vars
  BY <1>6, StutterReports
<1> QED BY <1>1, <1>2, <1>3, <1>4, <1>5, <1>6 DEF Next

\* The output and the goroutines together always account for every interface: what is
\* queued, buffered or still to be read adds up to what the kernel holds.
THEOREM ReportInvHolds == Spec => []ReportInv
<1>1. Init => EventInv /\ ReportInv
  BY EventInit, ReportInit
<1>2. EventInv /\ ReportInv /\ [Next]_vars => (EventInv /\ ReportInv)'
  BY EventNext, ReportNext
<1> QED BY <1>1, <1>2, PTL DEF Spec

\* Nothing is lost: once everything has settled, what the notifications told about an
\* interface of a running container is what the kernel holds, unless it changed while
\* nobody was subscribed.  This for every number of containers and interfaces, every
\* length of the channel, and every order in which containers exit and start again,
\* watchers are stopped and replaced, and events wait in the feed, in the forwarder, in
\* the buffer of a watcher or in the channel.
THEOREM NothingLostTheorem == Spec => []NothingLost
<1>1. EventInv /\ ReportInv => NothingLost
  <2> SUFFICES ASSUME EventInv, ReportInv, ~ opts.stats, NEW c \in Containers, NEW i \in Interfaces,
                      <<c, i>> \notin unseen, Settled(c), Running(c), opts.initial
               PROVE  equal(told[c][i], link[c][i])
    BY DEF NothingLost, ToldWhatIs
  <2>1. /\ phase = "loop" /\ ~ ctxDone /\ feed = <<>> /\ eventCh = <<>>
        /\ watcher[c].pc \in {"loop", "done"} /\ watcher[c].out = <<>> /\ watcher[c].updates = <<>>
        /\ watcher[c].pc = "loop" =>
             \A j \in Present(watcher[c].states) : watcher[c].states[j].netem = link[c][j].netem
    BY DEF Settled
  <2>2. Following(c, i)
    <3>1. Starting(c, i) \/ Following(c, i)
      BY <2>1 DEF ReportInv, Watching, Reported
    <3>2. ~ Starting(c, i)
      BY <2>1 DEF Starting
    <3> QED BY <3>1, <3>2
  <2>3. watcher[c].pc = "loop"
    BY <2>1, <2>2 DEF Following, AtWork
  <2>4. equal(told[c][i], watcher[c].states[i])
    <3>1. KnownAfter(c, i, watcher[c].states[i])
      BY <2>2, <2>3 DEF Following
    <3> QED BY <3>1, <2>1 DEF KnownAfter, Known, Ends, LastSays
  <2>5. watcher[c].states[i].attr = link[c][i].attr
    <3>1. AttrCurrent(c, i)
      BY <2>2, <2>3 DEF Following
    <3> QED BY <3>1, <2>1 DEF AttrCurrent, LastUpdate
  <2>6. watcher[c].states[i].netem = link[c][i].netem
    <3>1. CASE i \in Present(watcher[c].states)
      BY <3>1, <2>1, <2>3
    <3>2. CASE i \notin Present(watcher[c].states)
      <4>1. watcher[c].states[i].netem \in BOOLEAN /\ link[c][i].netem \in BOOLEAN
        <5>1. watcher[c] \in Watcher /\ link[c] \in States
          BY DEF EventInv, Types, WatcherType, WorldType
        <5> QED BY <5>1 DEF Watcher, States, State
      <4>2. ~ watcher[c].states[i].netem /\ ~ link[c][i].netem
        BY <3>2, <2>5 DEF Present, ReportInv, Tidy
      <4> QED BY <4>1, <4>2
    <3> QED BY <3>1, <3>2
  <2> QED BY <2>4, <2>5, <2>6 DEF equal
<1> QED BY <1>1, EventInvHolds, ReportInvHolds, PTL

=============================================================================
