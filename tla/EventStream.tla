---------------------------- MODULE EventStream ----------------------------
(***************************************************************************)
(* containerlab events: one goroutine forwards the events of the container *)
(* runtime and keeps a registry with one netlink watcher per running       *)
(* container, one announces the containers that exist at the start, and    *)
(* all of them send to one bounded channel that the main loop prints.      *)
(* The containers, their network namespaces and the runtime are the        *)
(* environment: containers exit, are started again and are signalled, and  *)
(* interfaces come, change and go at any moment.                           *)
(***************************************************************************)
EXTENDS Integers, Sequences, FiniteSets, SequencesExt

CONSTANTS
    Containers,         \* containers of labs on this host
    Interfaces,         \* interface indexes inside a container
    Attrs,              \* what the attributes of an interface tell apart
    Capacity,           \* length of the event channel (128 in the code)
    Attempts,           \* attempts to find a network namespace (5 in the code)
    MaxRx,              \* a packet counter wraps to zero after this value
    MaxChanges,         \* bound on the steps of the environment
    World,              \* the kinds of steps the environment takes
    Flags               \* the sets of flags the command may be given

ASSUME BoundsAssumption ==
    /\ Capacity \in Nat \ {0} /\ Attempts \in Nat \ {0}
    /\ MaxRx \in Nat /\ MaxChanges \in Nat
    /\ IsFiniteSet(Interfaces)
    /\ Flags \subseteq SUBSET {"initial-state", "interface-stats"}
    /\ World \subseteq {"start", "exit", "signal", "unpause", "link", "netem",
                        "traffic", "feed", "tc", "subscribe", "ns", "list", "updates"}

VARIABLES
    status,     \* container -> "running", "exited"
    gen,        \* container -> how often it was started (its namespace)
    link,       \* container -> interface -> what the kernel holds
    feed,       \* events of the runtime that nobody has read
    feedState,  \* "closed" before the subscription, "open", "error", "over"
    changes     \* steps the environment has taken

VARIABLES
    opts,       \* the options of the command
    phase,      \* the main goroutine: "init", "listed", "loop", "returned"
    listed,     \* containers to announce, as the first listing saw them
    eventCh,    \* the channel of aggregated events
    forwarder,  \* the goroutine of forwardRuntimeEvents
    errCh,      \* what it reports: "none", "error", "closed"
    registry,   \* containers with an entry in the registry
    watcher,    \* container -> its watcher
    ctxDone     \* the context of the command is cancelled

VARIABLES
    told,       \* history: what the notifications told about each interface
    unseen,     \* history: <<container, interface>> that changed or existed in a
                \* window in which nobody was listening
    stale,      \* history: containers whose last exit was not published
    dead        \* history: container -> last generation reported dead

world == <<status, gen, link, feed, feedState, changes>>
process == <<opts, phase, listed, eventCh, forwarder, errCh, registry, watcher, ctxDone>>
vars == <<world, process, told, unseen, stale, dead>>

Absent == [attr |-> "absent", netem |-> FALSE, rx |-> 0]
NoStates == [i \in Interfaces |-> Absent]
Present(s) == {i \in Interfaces : s[i].attr # "absent"}

(* The part of an interface that ifaceSnapshot.equal compares: everything   *)
(* but the counters.                                                        *)
equal(s, t) == s.attr = t.attr /\ s.netem = t.netem

(* A counter that went backwards was reset: deltaCounter.                   *)
\* Seeded fault: the difference of two unsigned counters.
deltaUnsigned(previous, current) == (current - previous) % (4 * (MaxRx + 1))
deltaCounter(previous, current) ==
    IF current >= previous THEN current - previous ELSE current

NoSample == -1
newStatsSample(s) == IF s.attr # "absent" THEN s.rx ELSE NoSample

containerEvent(c, action, g) ==
    [type |-> "container", c |-> c, action |-> action, gen |-> g, seen |-> 0]

interfaceEvent(c, i, action, w, s) ==
    [type |-> "interface", c |-> c, i |-> i, action |-> action, gen |-> w.gen,
     attr |-> s.attr, netem |-> s.netem, delta |-> 0]

(* emitInterfaceStatsEvent attaches the difference of two counter samples.  *)
interfaceStatsEvent(c, i, w, s) ==
    [interfaceEvent(c, i, "stats", w, s) EXCEPT !.delta = deltaCounter(w.samples[i], s.rx)]

----------------------------------------------------------------------------
(* The watcher of one container.                                            *)

NoWatcher ==
    [pc |-> "done", gen |-> 0, attempt |-> 0, cancelled |-> FALSE, states |-> NoStates,
     samples |-> [i \in Interfaces |-> NoSample], updates |-> <<>>, out |-> <<>>]

newWatcher == [NoWatcher EXCEPT !.pc = "resolve"]

Running(c) == status[c] = "running"

(* Query reads the impairments of the namespace; if it fails twice it       *)
(* returns an empty map, which looks like no impairment at all.             *)
Query(c, w) ==
    {[i \in Interfaces |-> w.gen = gen[c] /\ link[c][i].netem]}
        \cup {[i \in Interfaces |-> FALSE] : t \in World \cap {"tc"}}

(* The kernel's view of the namespace a watcher has opened; a namespace     *)
(* that outlives its container only because of the watcher is empty.        *)
snapshotInterfaces(c, w) ==
    IF w.gen = gen[c] /\ Running(c) THEN link[c] ELSE NoStates

(* What the first listing finds; if it fails the watcher goes on with none. *)
firstListing(c, w) == {snapshotInterfaces(c, w)} \cup {NoStates : t \in World \cap {"list"}}

applyNetemToSnapshots(states, infos) ==
    [i \in Interfaces |-> [states[i] EXCEPT !.netem = i \in Present(states) /\ infos[i]]]

Idle(c, pc) == watcher[c].pc = pc /\ watcher[c].out = <<>>

Move(c, w) == watcher' = [watcher EXCEPT ![c] = w]

ProcessUnchanged == UNCHANGED <<opts, phase, listed, eventCh, forwarder, errCh, registry, ctxDone>>
HistoryUnchanged == UNCHANGED <<told, unseen, stale, dead>>

(* The watcher of the present start of a running container is about to end. *)
Missed(c) ==
    /\ Running(c) /\ ~ctxDone /\ ~watcher[c].cancelled
    /\ watcher[c].pc = "resolve" \/ watcher[c].gen = gen[c]

(* run returns: what happens in the container from now on is told by nobody.*)
leave(c) ==
    /\ Move(c, [watcher[c] EXCEPT !.pc = "remove", !.updates = <<>>])
    /\ unseen' = IF Missed(c) THEN unseen \cup ({c} \X Interfaces) ELSE unseen

(* One attempt of waitForNamespacePath.  GetNSPath fails without a process, *)
(* with a cancelled context, or by an error of the runtime.                 *)
waitForNamespacePath(c) ==
    LET w == watcher[c]
        fails == ~Running(c) \/ w.cancelled \/ ctxDone \/ "ns" \in World
    IN
    /\ Idle(c, "resolve")
    /\ \/ /\ Running(c)
          /\ Move(c, [w EXCEPT !.pc = "snapshot", !.gen = gen[c]])
          /\ UNCHANGED unseen
       \/ /\ fails /\ ~w.cancelled /\ w.attempt + 1 < Attempts
          /\ Move(c, [w EXCEPT !.attempt = @ + 1])
          /\ UNCHANGED unseen
       \/ fails /\ (w.cancelled \/ ctxDone \/ w.attempt + 1 = Attempts) /\ leave(c)
    /\ ProcessUnchanged /\ UNCHANGED <<told, stale, dead, world>>

(* GetFromPath or NewHandleAt fails: the process is gone, or the kernel     *)
(* refuses.                                                                 *)
openFails(c) ==
    /\ Idle(c, "snapshot")
    /\ watcher[c].gen # gen[c] \/ ~Running(c) \/ "ns" \in World
    /\ leave(c)
    /\ ProcessUnchanged /\ UNCHANGED <<told, stale, dead, world>>

(* The first listing of the interfaces, with their impairments and counters;*)
(* with --initial-state each one is announced.                              *)
runSnapshot(c) ==
    /\ Idle(c, "snapshot")
    /\ \E seen \in firstListing(c, watcher[c]), infos \in Query(c, watcher[c]) :
         LET w == watcher[c]
             states == applyNetemToSnapshots(seen, infos)
             announced == [k \in 1..Cardinality(Present(states)) |->
                             LET i == SetToSeq(Present(states))[k] IN
                               interfaceEvent(c, i, "snapshot", w, states[i])]
         IN  /\ Move(c, [w EXCEPT !.pc = "subscribe", !.states = states,
                          !.samples = [i \in Interfaces |-> IF opts.stats THEN newStatsSample(states[i])
                                                            ELSE NoSample],
                          !.out = IF opts.initial THEN announced ELSE <<>>])
             /\ unseen' = IF w.gen = gen[c] THEN unseen \cup ({c} \X (Present(link[c]) \ Present(seen)))
                          ELSE unseen
    /\ ProcessUnchanged /\ UNCHANGED <<told, stale, dead, world>>

runSubscribe(c) ==
    /\ Idle(c, "subscribe")
    /\ \/ Move(c, [watcher[c] EXCEPT !.pc = "loop"]) /\ UNCHANGED unseen
       \/ "subscribe" \in World /\ leave(c)
    /\ ProcessUnchanged /\ UNCHANGED <<told, stale, dead, world>>

(* processUpdate: one message of the kernel.  The impairments are those at  *)
(* the time of processing, the other attributes those of the message.       *)
\* Seeded fault: a new interface is reported but not remembered.
processUpdateForgets(c) ==
    /\ Idle(c, "loop") /\ watcher[c].updates # <<>>
    /\ \E infos \in Query(c, watcher[c]) :
         LET w == [watcher[c] EXCEPT !.updates = Tail(@)]
             u == Head(watcher[c].updates)
             s == [u.s EXCEPT !.netem = infos[u.i]]
         IN  Move(c, [w EXCEPT !.out = <<interfaceEvent(c, u.i, "create", w, s)>>])
    /\ ProcessUnchanged /\ HistoryUnchanged /\ UNCHANGED world
processUpdate(c) ==
    /\ Idle(c, "loop") /\ watcher[c].updates # <<>>
    /\ \E infos \in Query(c, watcher[c]) :
         LET w == [watcher[c] EXCEPT !.updates = Tail(@)]
             u == Head(watcher[c].updates)
             previous == w.states[u.i]
             exists == u.i \in Present(w.states)
             s == [u.s EXCEPT !.netem = infos[u.i]]
         IN  Move(c,
               IF u.s.attr = "absent"
               THEN [w EXCEPT !.states[u.i] = Absent, !.samples[u.i] = NoSample,
                              !.out = <<interfaceEvent(c, u.i, "delete", w, previous)>>]
               ELSE IF exists /\ equal(s, previous) THEN w
               ELSE [w EXCEPT !.states[u.i] = s,
                              !.samples[u.i] = IF opts.stats THEN newStatsSample(s) ELSE @,
                              !.out = <<interfaceEvent(c, u.i, IF exists THEN "update" ELSE "create", w, s)>>])
    /\ ProcessUnchanged /\ HistoryUnchanged /\ UNCHANGED world

(* pollNetemChanges, at every tick: what differs is remembered and reported.*)
pollNetemChanges(c) ==
    /\ Idle(c, "loop") /\ ~watcher[c].cancelled
    /\ \E infos \in Query(c, watcher[c]), i \in Present(watcher[c].states) :
         LET w == watcher[c]
             s == [w.states[i] EXCEPT !.netem = infos[i]]
         IN  /\ ~equal(s, w.states[i])
             /\ Move(c, [w EXCEPT !.states[i] = s, !.out = <<interfaceEvent(c, i, "update", w, s)>>])
    /\ ProcessUnchanged /\ HistoryUnchanged /\ UNCHANGED world

(* collectAndEmitStats, at every tick, for one known interface that still   *)
(* exists: the remembered attributes are replaced without a notification,   *)
(* and a second sample is reported with its difference to the first.        *)
collectAndEmitStats(c) ==
    /\ Idle(c, "loop") /\ opts.stats /\ ~watcher[c].cancelled
    /\ \E i \in Present(watcher[c].states) \cap Present(snapshotInterfaces(c, watcher[c])) :
         LET w == watcher[c]
             current == snapshotInterfaces(c, w)[i]
             s == [current EXCEPT !.netem = w.states[i].netem]
         IN  Move(c, [w EXCEPT !.states[i] = s, !.samples[i] = s.rx,
                               !.out = IF w.samples[i] = NoSample THEN <<>>
                                       ELSE <<interfaceStatsEvent(c, i, w, s)>>])
    /\ ProcessUnchanged /\ HistoryUnchanged /\ UNCHANGED world

(* A cancelled watcher leaves its loop between two events.                  *)
watcherCancelled(c) ==
    /\ Idle(c, "loop") /\ (watcher[c].cancelled \/ ctxDone)
    /\ leave(c)
    /\ ProcessUnchanged /\ UNCHANGED <<told, stale, dead, world>>

(* The subscription breaks, which closes updates; what it had not delivered *)
(* is lost.                                                                 *)
updatesClosed(c) ==
    /\ Idle(c, "loop") /\ "updates" \in World
    /\ leave(c)
    /\ ProcessUnchanged /\ UNCHANGED <<told, stale, dead, world>>

(* The deferred remove, then the closing of done.                           *)
remove(c) ==
    /\ Idle(c, "remove")
    /\ registry' = registry \ {c}
    /\ Move(c, NoWatcher)
    /\ UNCHANGED <<opts, phase, listed, eventCh, forwarder, errCh, ctxDone>>
    /\ HistoryUnchanged /\ UNCHANGED world

(* emitInterfaceEvent blocks until the channel has room or the whole        *)
(* command is cancelled; the cancellation of the watcher does not free it.  *)
\* Seeded fault: the send does not look at the context.
emitBlocking(c) ==
    /\ watcher[c].out # <<>> /\ Len(eventCh) < Capacity
    /\ eventCh' = Append(eventCh, Head(watcher[c].out))
    /\ Move(c, [watcher[c] EXCEPT !.out = Tail(@)])
    /\ UNCHANGED <<opts, phase, listed, forwarder, errCh, registry, ctxDone>>
    /\ HistoryUnchanged /\ UNCHANGED world
emitInterfaceEvent(c) ==
    /\ watcher[c].out # <<>>
    /\ \/ Len(eventCh) < Capacity /\ eventCh' = Append(eventCh, Head(watcher[c].out))
       \/ ctxDone /\ UNCHANGED eventCh
    /\ Move(c, [watcher[c] EXCEPT !.out = Tail(@)])
    /\ UNCHANGED <<opts, phase, listed, forwarder, errCh, registry, ctxDone>>
    /\ HistoryUnchanged /\ UNCHANGED world

----------------------------------------------------------------------------
(* The registry and the goroutine that forwards the events of the runtime.  *)

(* registry.Start for a set of containers: nothing happens for one that has *)
(* an entry.                                                                *)
Start(cs) ==
    /\ registry' = registry \cup cs
    /\ watcher' = [c \in Containers |-> IF c \in cs \ registry THEN newWatcher ELSE watcher[c]]

Starts == {"start", "unpause", "restart"}
Stops == {"die", "stop", "destroy", "kill"}

(* HandleContainerEvent: start or stop the watcher.  Stop removes the entry,*)
(* cancels the watcher and waits for its end before the event is forwarded. *)
\* Seeded fault: Stop does not wait for the end of the watcher.
handleWithoutWaiting ==
    /\ forwarder.pc = "idle" /\ ~ctxDone /\ feed # <<>>
    /\ LET ev == Head(feed) IN
         /\ forwarder' = [pc |-> "sending", ev |-> ev]
         /\ IF ev.action \in Starts THEN Start({ev.c})
            ELSE registry' = registry \ {ev.c}
                 /\ watcher' = [watcher EXCEPT ![ev.c].cancelled = ev.c \in registry \/ @]
    /\ feed' = Tail(feed)
    /\ UNCHANGED <<status, gen, link, feedState, changes, opts, phase, listed, eventCh, errCh, ctxDone>>
    /\ HistoryUnchanged
HandleContainerEvent ==
    /\ forwarder.pc = "idle" /\ ~ctxDone /\ feed # <<>>
    /\ LET ev == Head(feed) IN
         \/ /\ ev.action \in Starts
            /\ Start({ev.c})
            /\ forwarder' = [pc |-> "sending", ev |-> ev]
         \/ /\ ev.action \in Stops
            /\ registry' = registry \ {ev.c}
            /\ watcher' = [watcher EXCEPT ![ev.c].cancelled = ev.c \in registry \/ @]
            /\ forwarder' = [pc |-> IF ev.c \in registry THEN "stopping" ELSE "sending", ev |-> ev]
    /\ feed' = Tail(feed)
    /\ UNCHANGED <<status, gen, link, feedState, changes, opts, phase, listed, eventCh, errCh, ctxDone>>
    /\ HistoryUnchanged

watcherStopped ==
    /\ forwarder.pc = "stopping" /\ watcher[forwarder.ev.c].pc = "done"
    /\ forwarder' = [forwarder EXCEPT !.pc = "sending"]
    /\ UNCHANGED <<world, opts, phase, listed, eventCh, errCh, registry, watcher, ctxDone>>
    /\ HistoryUnchanged

(* selectContainerForEvent: the container is looked up again when the event *)
(* is forwarded, so the attributes are those of its present start.          *)
selectContainerForEvent(ev) == IF Running(ev.c) THEN gen[ev.c] ELSE 0

ensureContainerAttributes(ev) == [ev EXCEPT !.seen = selectContainerForEvent(ev)]

aggregatedEventFromContainerEvent(ev) == ensureContainerAttributes(ev)

forwardRuntimeEvents ==
    /\ forwarder.pc = "sending"
    /\ \/ /\ Len(eventCh) < Capacity
          /\ eventCh' = Append(eventCh, aggregatedEventFromContainerEvent(forwarder.ev))
          /\ forwarder' = [forwarder EXCEPT !.pc = "idle"]
          /\ UNCHANGED errCh
       \/ ctxDone /\ forwarder' = [forwarder EXCEPT !.pc = "ended"] /\ errCh' = "closed" /\ UNCHANGED eventCh
    /\ UNCHANGED <<world, opts, phase, listed, registry, watcher, ctxDone>>
    /\ HistoryUnchanged

(* The runtime's stream broke: its error and the closing of its events are  *)
(* both ready, and the select takes either.  A closed channel of events     *)
(* ends the goroutine without a report.                                     *)
runtimeErr ==
    /\ forwarder.pc = "idle" /\ ~ctxDone /\ feedState = "error"
    /\ \/ errCh' = "error"
       \/ feed = <<>> /\ errCh' = "closed"
    /\ feedState' = "over"
    /\ forwarder' = [forwarder EXCEPT !.pc = "ended"]
    /\ UNCHANGED <<status, gen, link, feed, changes, opts, phase, listed, eventCh, registry, watcher, ctxDone>>
    /\ HistoryUnchanged

forwarderCancelled ==
    /\ forwarder.pc = "idle" /\ ctxDone
    /\ forwarder' = [forwarder EXCEPT !.pc = "ended"]
    /\ errCh' = "closed"
    /\ UNCHANGED <<world, opts, phase, listed, eventCh, registry, watcher, ctxDone>>
    /\ HistoryUnchanged

----------------------------------------------------------------------------
(* The main goroutine.                                                      *)

Init ==
    /\ status \in [Containers -> {"running", "exited"}]
    /\ gen = [c \in Containers |-> IF status[c] = "running" THEN 1 ELSE 0]
    /\ link = [c \in Containers |-> NoStates]
    /\ feed = <<>> /\ feedState = "closed" /\ changes = 0
    /\ \E f \in Flags : opts = [initial |-> "initial-state" \in f, stats |-> "interface-stats" \in f]
    /\ phase = "init" /\ listed = {} /\ eventCh = <<>>
    /\ forwarder = [pc |-> "none", ev |-> <<>>] /\ errCh = "none"
    /\ registry = {} /\ watcher = [c \in Containers |-> NoWatcher]
    /\ ctxDone = FALSE
    /\ told = [c \in Containers |-> NoStates]
    /\ unseen = {} /\ stale = {}
    /\ dead = [c \in Containers |-> 0]

(* ListContainers, the announcement of what it saw and the first watchers.  *)
listContainers ==
    /\ phase = "init"
    /\ phase' = "listed"
    /\ listed' = IF opts.initial THEN {containerEvent(c, status[c], gen[c]) : c \in Containers} ELSE {}
    /\ Start({c \in Containers : Running(c)})
    /\ UNCHANGED <<world, opts, eventCh, forwarder, errCh, ctxDone>>
    /\ HistoryUnchanged

(* StreamEvents subscribes to the runtime, then the loop starts.            *)
StreamEvents ==
    /\ phase = "listed"
    /\ phase' = "loop"
    /\ feedState' = "open"
    /\ forwarder' = [forwarder EXCEPT !.pc = "idle"]
    /\ UNCHANGED <<status, gen, link, feed, changes, opts, listed, eventCh, errCh, registry, watcher, ctxDone>>
    /\ HistoryUnchanged

emitContainerSnapshots ==
    /\ \E ev \in listed :
         \/ Len(eventCh) < Capacity /\ eventCh' = Append(eventCh, ev) /\ listed' = listed \ {ev}
         \/ ctxDone /\ listed' = {} /\ UNCHANGED eventCh
    /\ UNCHANGED <<world, opts, phase, forwarder, errCh, registry, watcher, ctxDone>>
    /\ HistoryUnchanged

(* The reader of the output: a notification replaces what is known about an *)
(* interface, the end of a container ends its interfaces.                   *)
formatter(ev) ==
    CASE ev.type = "interface" /\ ev.action # "stats" ->
           [told EXCEPT ![ev.c][ev.i] =
              IF ev.action = "delete" THEN Absent ELSE [Absent EXCEPT !.attr = ev.attr, !.netem = ev.netem]]
      [] ev.action \in Stops -> [told EXCEPT ![ev.c] = NoStates]
      [] OTHER -> told

print ==
    /\ phase = "loop" /\ eventCh # <<>>
    /\ LET ev == Head(eventCh) IN
         /\ told' = formatter(ev)
         /\ dead' = IF ev.action = "die" THEN [dead EXCEPT ![ev.c] = ev.gen] ELSE dead
    /\ eventCh' = Tail(eventCh)
    /\ UNCHANGED <<world, opts, phase, listed, forwarder, errCh, registry, watcher, ctxDone, unseen, stale>>

(* An error of the runtime ends the command, which cancels its context; so  *)
(* does an interrupt.                                                       *)
streamReturns ==
    /\ phase = "loop" /\ (errCh = "error" \/ ctxDone)
    /\ phase' = "returned"
    /\ ctxDone' = TRUE
    /\ UNCHANGED <<world, opts, listed, eventCh, forwarder, errCh, registry, watcher>>
    /\ HistoryUnchanged

interrupt ==
    /\ phase = "loop" /\ ~ctxDone
    /\ ctxDone' = TRUE
    /\ UNCHANGED <<world, opts, phase, listed, eventCh, forwarder, errCh, registry, watcher>>
    /\ HistoryUnchanged

----------------------------------------------------------------------------
(* The environment.                                                         *)

(* The environment moves until the command is cancelled.                    *)
Happens(kind) == kind \in World /\ ~ctxDone /\ changes < MaxChanges /\ changes' = changes + 1

(* The runtime publishes an event if somebody has subscribed.               *)
Publish(c, action, g) ==
    feed' = IF feedState = "open" THEN Append(feed, containerEvent(c, action, g)) ELSE feed

(* Containers that come or go after the listing and before the subscription *)
(* are missed, and so are those after the end of the subscription.          *)
Unnoticed(c) == IF phase = "listed" \/ feedState \in {"error", "over"} THEN {c} \X Interfaces ELSE {}

containerStarts(c) ==
    /\ Happens("start") /\ ~Running(c)
    /\ status' = [status EXCEPT ![c] = "running"]
    /\ gen' = [gen EXCEPT ![c] = @ + 1]
    /\ Publish(c, "start", gen[c] + 1)
    /\ unseen' = Unnoticed(c) \cup IF c \in stale THEN unseen ELSE unseen \ ({c} \X Interfaces)
    /\ UNCHANGED <<link, feedState, process, told, stale, dead>>

(* The interfaces of a namespace go away with its container.                *)
containerExits(c) ==
    /\ Happens("exit") /\ Running(c)
    /\ status' = [status EXCEPT ![c] = "exited"]
    /\ link' = [link EXCEPT ![c] = NoStates]
    /\ Publish(c, "die", gen[c])
    /\ unseen' = unseen \cup Unnoticed(c)
    /\ stale' = IF Unnoticed(c) # {} THEN stale \cup {c} ELSE stale \ {c}
    /\ UNCHANGED <<gen, feedState, process, told, dead>>

(* A signal that does not end the container is published as well, and so is *)
(* the end of a pause.                                                      *)
containerSignalled(c) ==
    /\ Happens("signal") /\ Running(c)
    /\ Publish(c, "kill", gen[c])
    /\ unseen' = unseen \cup ({c} \X Interfaces)
    /\ UNCHANGED <<status, gen, link, feedState, process, told, stale, dead>>

containerUnpaused(c) ==
    /\ Happens("unpause") /\ Running(c)
    /\ Publish(c, "unpause", gen[c])
    /\ UNCHANGED <<status, gen, link, feedState, process, told, unseen, stale, dead>>

(* The kernel tells a subscribed watcher about a change.  A change after the*)
(* first listing and before the subscription reaches nobody.                *)
linkChanges(c, i, a) ==
    /\ Happens("link") /\ Running(c) /\ a # link[c][i].attr
    /\ LET s == IF a = "absent" THEN Absent ELSE [link[c][i] EXCEPT !.attr = a]
           w == watcher[c]
       IN  /\ link' = [link EXCEPT ![c][i] = s]
           /\ watcher' = IF w.pc = "loop" /\ w.gen = gen[c]
                         THEN [watcher EXCEPT ![c].updates = Append(@, [i |-> i, s |-> s])]
                         ELSE watcher
           /\ unseen' = IF w.pc = "subscribe" /\ w.gen = gen[c] THEN unseen \cup {<<c, i>>} ELSE unseen
    /\ UNCHANGED <<status, gen, feed, feedState, told, stale, dead>>
    /\ UNCHANGED <<opts, phase, listed, eventCh, forwarder, errCh, registry, ctxDone>>

netemChanges(c, i) ==
    /\ Happens("netem") /\ Running(c) /\ i \in Present(link[c])
    /\ link' = [link EXCEPT ![c][i].netem = ~@]
    /\ UNCHANGED <<status, gen, feed, feedState, process, told, unseen, stale, dead>>

traffic(c, i) ==
    /\ Happens("traffic") /\ i \in Present(link[c])
    /\ link' = [link EXCEPT ![c][i].rx = (@ + 1) % (MaxRx + 1)]
    /\ UNCHANGED <<status, gen, feed, feedState, process, told, unseen, stale, dead>>

feedBreaks ==
    /\ Happens("feed") /\ feedState = "open"
    /\ feedState' = "error"
    /\ UNCHANGED <<status, gen, link, feed, process, told, unseen, stale, dead>>

----------------------------------------------------------------------------
WatcherStep(c) ==
    \/ waitForNamespacePath(c) \/ openFails(c) \/ runSnapshot(c) \/ runSubscribe(c) \/ processUpdate(c)
    \/ watcherCancelled(c) \/ remove(c) \/ emitInterfaceEvent(c)

Ticks(c) == pollNetemChanges(c) \/ collectAndEmitStats(c)

ForwarderStep ==
    \/ HandleContainerEvent \/ watcherStopped \/ forwardRuntimeEvents
    \/ runtimeErr \/ forwarderCancelled

MainStep == listContainers \/ StreamEvents \/ print \/ streamReturns

Environment ==
    \/ interrupt \/ feedBreaks
    \/ \E c \in Containers :
         \/ containerStarts(c) \/ containerExits(c) \/ containerSignalled(c) \/ containerUnpaused(c)
         \/ updatesClosed(c)
         \/ \E i \in Interfaces : netemChanges(c, i) \/ traffic(c, i)
         \/ \E i \in Interfaces, a \in Attrs \cup {"absent"} : linkChanges(c, i, a)

Next ==
    \/ \E c \in Containers : WatcherStep(c) \/ Ticks(c)
    \/ ForwarderStep \/ MainStep \/ emitContainerSnapshots \/ Environment

(* Goroutines run, and a select takes a case that stays ready sooner or     *)
(* later; the environment need not do anything and tickers need not tick.   *)
Fairness ==
    /\ \A c \in Containers : WF_vars(WatcherStep(c)) /\ SF_vars(watcherCancelled(c))
    /\ WF_vars(ForwarderStep) /\ WF_vars(MainStep) /\ WF_vars(emitContainerSnapshots)
    /\ WF_vars(streamReturns)

Spec == Init /\ [][Next]_vars /\ Fairness

----------------------------------------------------------------------------
(* Once the end of a container was printed, no event of a watcher of that   *)
(* start is printed any more: Stop waits for the watcher before the event   *)
(* of the runtime is forwarded.                                             *)
NothingAfterDie ==
    \A k \in DOMAIN eventCh :
        eventCh[k].type = "interface" => eventCh[k].gen > dead[eventCh[k].c]

(* The attributes a container event is enriched with are never older than   *)
(* the event itself.                                                        *)
AttributesAreFresh ==
    \A k \in DOMAIN eventCh :
        eventCh[k].type = "container" => eventCh[k].seen = 0 \/ eventCh[k].seen >= eventCh[k].gen

(* Events in the channel are current: both of the above.                    *)
EventsAreCurrent == NothingAfterDie /\ AttributesAreFresh

(* A reported difference never exceeds what the counter can have counted,   *)
(* although the counter may have been reset between the samples.            *)
DeltasArePossible ==
    \A k \in DOMAIN eventCh :
        eventCh[k].type = "interface" => eventCh[k].delta <= MaxRx

(* Everything that was published or queued has been dealt with, and no poll *)
(* would find anything new.                                                 *)
Settled(c) ==
    /\ phase = "loop" /\ ~ctxDone /\ feed = <<>> /\ eventCh = <<>> /\ forwarder.pc = "idle"
    /\ watcher[c].pc \in {"loop", "done"} /\ watcher[c].out = <<>> /\ watcher[c].updates = <<>>
    /\ ~watcher[c].cancelled
    /\ watcher[c].pc = "loop" =>
         \A i \in Present(watcher[c].states) : watcher[c].states[i].netem = link[c][i].netem

(* The output is complete: with --initial-state and without statistics, once*)
(* everything has settled, what the notifications told about an interface   *)
(* of a running container is what the kernel holds, unless it changed while *)
(* nobody was subscribed (between the first listing and the subscription of *)
(* a watcher, or of the command), its container got a harmless signal, the  *)
(* watcher of its container gave up, or it was there when the first listing *)
(* failed.                                                                  *)
ToldWhatIs(c, i) ==
    Settled(c) /\ Running(c) /\ opts.initial => equal(told[c][i], link[c][i])

(* Nothing is lost that the watchers could see: ToldWhatIs for every        *)
(* interface whose changes were observable.                                 *)
NothingLost ==
    ~opts.stats => \A c \in Containers, i \in Interfaces : <<c, i>> \in unseen \/ ToldWhatIs(c, i)

(* The same with statistics: "Interface notifications are emitted when a    *)
(* link appears, disappears, or when its relevant properties change".       *)
ChangesAreNotified ==
    \A c \in Containers, i \in Interfaces : <<c, i>> \in unseen \/ ToldWhatIs(c, i)

(* Whoever blocks on the channel is released: once the context of the       *)
(* command is cancelled every goroutine ends.                               *)
AllEnd ==
    ctxDone ~> /\ phase = "returned" /\ forwarder.pc = "ended" /\ listed = {}
               /\ \A c \in Containers : watcher[c].pc = "done"

=============================================================================
