----------------------------- MODULE EventQueue -----------------------------
(***************************************************************************)
(* The event loop (event_queue/EventQueue.hpp): the posting functions, and *)
(* runEventCycle with start, stop and pumpEvents around it.                *)
(*                                                                         *)
(* One loop thread runs the cycles and, inside the actions it calls, posts *)
(* to the queue itself.  Other threads post while the cycle runs: a post   *)
(* first reads _activeThreadId and then pushes, to the thread's own        *)
(* producer queue when the loop was active and otherwise, without any      *)
(* lock, to the structures of the loop thread.                             *)
(*                                                                         *)
(* An action is a number, in the order of the posts.  Payloads are in      *)
(* PayloadStore, the table of producer queues is in ProducerRegistry: here *)
(* every producer finds an entry.                                          *)
(***************************************************************************)
EXTENDS Integers, Sequences, FiniteSets

CONSTANTS
    Producers,      \* the threads that post, except the loop thread
    Workloads,      \* bound: the kinds of the actions that are posted, in order
    Capacity,       \* MaxProducerQueueSize
    MaxPosts,       \* bound: how many actions are posted in a behaviour
    MaxTime,        \* bound: the last tick of the clock
    PollCounts,     \* what the endpoint poll manager may return
    LoopThread,     \* the thread that starts and pumps the loop
    NoPost,         \* a producer that is not posting
    NoEvent         \* no timed event is running

AllKinds == {"plain", "async", "precision", "idle"}
Ids == 1 .. MaxPosts
Times == 0 .. MaxTime

ASSUME EventQueueAssumption ==
    /\ IsFiniteSet(Producers) /\ LoopThread \notin Producers
    /\ Capacity \in Nat \ {0} /\ MaxPosts \in Nat /\ MaxTime \in Nat
    /\ Workloads \subseteq UNION {[1 .. n -> AllKinds] : n \in 0 .. MaxPosts}
    /\ PollCounts \subseteq Nat
    /\ NoPost \notin [entry : [id : Ids, op : AllKinds, time : Times], external : BOOLEAN]

VARIABLES
    active,             \* _activeThreadId holds a value
    stage,              \* where the loop thread is in runEventCycle
    dispatchedEvents,   \* of the current cycle
    localQueue,         \* _localEventQueue
    registered,         \* the used entries of _externalProducerQueue, in order
    producerQueue,      \* the single producer queue of each producer
    queueIndex,         \* the entry of registered that is looked at
    precisionEvents,    \* _precisionTimedEvents
    idleEvents,         \* _idleTimedEvents
    running,            \* the timed event whose action is running
    clock,
    posting,            \* the post a producer is in the middle of
    posts,              \* how many actions have been posted
    finished,           \* history: how often each action has run to its end
    origin,             \* history: what was posted, by whom and on which way
    busy,               \* history: the cycle has dispatched something
    passed,             \* history: what overtook a waiting producer
    raced               \* an unlocked access collided with the loop thread

loopVars == <<active, stage, dispatchedEvents, queueIndex, running>>
queueVars == <<localQueue, registered, producerQueue>>
timedVars == <<precisionEvents, idleEvents>>
postVars == <<posting, posts, origin>>
historyVars == <<finished, busy, passed>>
vars == <<loopVars, queueVars, timedVars, postVars, historyVars, clock, raced>>

Stages == {"stopped", "precision", "runPrecision", "poll", "local", "runLocal",
           "external", "runExternal", "idle", "runIdle"}
(* The stages in which actions or endpoint callbacks run on the loop thread. *)
CallbackStages == {"runPrecision", "poll", "runLocal", "runExternal", "runIdle"}

(* A PostEntry: op says what its action does.  "plain" and "async" run what  *)
(* was posted, "precision" and "idle" forward a timed event to its queue.    *)
Entries == [id : Ids, op : AllKinds, time : Times]
(* A PrioritizedCallable; via tells the two copies of an idle action apart.  *)
Events == [id : Ids, time : Times, via : {"heap", "queue"}]
Event(e, via) == [id |-> e.id, time |-> e.time, via |-> via]
Forwarding(e) == e.op \in {"precision", "idle"}

Init ==
    /\ active = FALSE /\ stage = "stopped" /\ dispatchedEvents = 0
    /\ localQueue = <<>> /\ registered = <<>>
    /\ producerQueue = [p \in Producers |-> <<>>]
    /\ queueIndex = 1
    /\ precisionEvents = {} /\ idleEvents = {} /\ running = NoEvent
    /\ clock = 0
    /\ posting = [p \in Producers |-> NoPost]
    /\ posts = 0
    /\ finished = [i \in Ids |-> 0]
    /\ busy = FALSE
    /\ origin = [i \in Ids |-> NoPost]
    /\ passed = [p \in Producers |-> 0]
    /\ raced = FALSE

-----------------------------------------------------------------------------
(* Posting from the loop thread, or from any thread while no loop runs.     *)

(* Mutated: an entry is put in front of the local queue. *)
M_StoreLocally(e) ==
    /\ precisionEvents' = IF e.op = "precision"
                            THEN precisionEvents \union {Event(e, "heap")} ELSE precisionEvents
    /\ idleEvents' = IF e.op = "idle" THEN idleEvents \union {Event(e, "heap")} ELSE idleEvents
    /\ localQueue' = IF e.op = "precision" THEN localQueue ELSE <<e>> \o localQueue

(* The queues after e has been posted to them directly.  A timed idle       *)
(* action is put into the heap and then also posted as a forwarding action: *)
(* the branch has no return.                                                *)
StoreLocally(e) ==
    /\ precisionEvents' = IF e.op = "precision"
                            THEN precisionEvents \union {Event(e, "heap")} ELSE precisionEvents
    /\ idleEvents' = IF e.op = "idle" THEN idleEvents \union {Event(e, "heap")} ELSE idleEvents
    /\ localQueue' = IF e.op = "precision" THEN localQueue ELSE Append(localQueue, e)

(* An action that can be posted now: a timed one is refused once expired.   *)
Postable(e) ==
    /\ \E w \in Workloads : Len(w) >= e.id /\ w[e.id] = e.op
                           /\ \A i \in 1 .. posts : w[i] = origin[i].op
    /\ IF Forwarding(e) THEN clock <= e.time ELSE e.time = 0

(* A post by the loop thread, in an action, in an endpoint callback, or     *)
(* between two runs of the loop.                                            *)
PostFromLoop(op, time) ==
    LET e == [id |-> posts + 1, op |-> op, time |-> time]
    IN  /\ posts < MaxPosts
        /\ stage \in CallbackStages \union {"stopped"}
        /\ Postable(e)
        /\ posts' = posts + 1
        /\ StoreLocally(e)
        /\ origin' = [origin EXCEPT ![e.id] = [op |-> op, by |-> LoopThread, external |-> FALSE]]
        /\ UNCHANGED <<loopVars, registered, producerQueue, posting, historyVars, clock, raced>>

(* A producer reads the clock and then _activeThreadId, which decides where *)
(* it pushes.  Its first post to an active loop takes a table entry.        *)
Post(p, op, time) ==
    LET e == [id |-> posts + 1, op |-> op, time |-> time]
    IN  /\ posting[p] = NoPost /\ posts < MaxPosts
        /\ Postable(e)
        /\ posts' = posts + 1
        /\ posting' = [posting EXCEPT ![p] = [entry |-> e, external |-> active]]
        /\ registered' = IF active /\ \A i \in DOMAIN registered : registered[i] # p
                           THEN Append(registered, p) ELSE registered
        /\ origin' = [origin EXCEPT ![e.id] = [op |-> op, by |-> p, external |-> active]]
        /\ UNCHANGED <<loopVars, localQueue, producerQueue, timedVars, historyVars, clock, raced>>

PushesLocally(p) == posting[p] # NoPost /\ ~posting[p].external

(* The push to the producer queue, which spins while the queue is full.     *)
PushExternal(p) ==
    /\ posting[p] # NoPost /\ posting[p].external
    /\ Len(producerQueue[p]) < Capacity
    /\ producerQueue' = [producerQueue EXCEPT ![p] = Append(@, posting[p].entry)]
    /\ posting' = [posting EXCEPT ![p] = NoPost]
    /\ UNCHANGED <<loopVars, localQueue, registered, timedVars, posts, origin, historyVars, clock, raced>>

(* The push of a producer that saw no active loop.                          *)
PushLocal(p) ==
    /\ PushesLocally(p)
    /\ stage = "stopped"
    /\ StoreLocally(posting[p].entry)
    /\ posting' = [posting EXCEPT ![p] = NoPost]
    /\ UNCHANGED <<loopVars, registered, producerQueue, posts, origin, historyVars, clock, raced>>

(* The same push while the loop thread runs a cycle, or while another       *)
(* producer does the same: a data race on the containers, after which       *)
(* nothing can be said of the queue.                                        *)
RacingPush(p) ==
    /\ PushesLocally(p)
    /\ stage # "stopped" \/ \E other \in Producers \ {p} : PushesLocally(other)
    /\ raced' = TRUE
    /\ UNCHANGED <<loopVars, queueVars, timedVars, postVars, historyVars, clock>>

-----------------------------------------------------------------------------
(* Control of the loop. *)

BeginCycle == stage' = "precision" /\ dispatchedEvents' = 0 /\ busy' = FALSE

Start ==
    /\ stage = "stopped" /\ ~active
    /\ active' = TRUE
    /\ BeginCycle
    /\ UNCHANGED <<queueIndex, running, queueVars, timedVars, postVars, finished, passed, clock, raced>>

PumpEvents ==
    /\ stage = "stopped" /\ ~active
    /\ BeginCycle
    /\ UNCHANGED <<active, queueIndex, running, queueVars, timedVars, postVars, finished, passed, clock, raced>>

(* Called from any thread, at any time. *)
Stop ==
    /\ active
    /\ active' = FALSE
    /\ UNCHANGED <<stage, dispatchedEvents, queueIndex, running, queueVars, timedVars, postVars, historyVars, clock, raced>>

(* Mutated: start() runs cycles until an action fails. *)
M_EndCycle ==
    /\ stage' = "precision"
    /\ dispatchedEvents' = 0
    /\ busy' = FALSE
    /\ UNCHANGED passed

(* The cycle is over: start() runs the next one if the loop is still        *)
(* active, and returns otherwise, as does pumpEvents().                     *)
EndCycle ==
    /\ stage' = IF active THEN "precision" ELSE "stopped"
    /\ dispatchedEvents' = 0
    /\ busy' = FALSE
    /\ passed' = IF active THEN passed ELSE [p \in Producers |-> 0]

(* An action failed: start() and pumpEvents() return at once.  The thread   *)
(* id stays set, so a loop that was active still takes posts.               *)
Fail ==
    /\ stage' = "stopped"
    /\ dispatchedEvents' = 0
    /\ busy' = FALSE
    /\ passed' = [p \in Producers |-> 0]

(* An action returned ok and the cycle goes on. *)
Continue(next) ==
    /\ stage' = next
    /\ dispatchedEvents' = dispatchedEvents + 1
    /\ UNCHANGED <<busy, passed>>

-----------------------------------------------------------------------------
(* Timed events. *)

Earliest(events) == {e \in events : \A f \in events : e.time <= f.time}
Due(events) == {e \in Earliest(events) : e.time <= clock}

(* pop() after the action has run: it removes the top, which is the event   *)
(* that ran unless the action has pushed an earlier one.                    *)
Tops(events) == IF running \in Earliest(events) THEN {running} ELSE Earliest(events)

FirePrecision ==
    /\ stage = "precision"
    /\ \E e \in Due(precisionEvents) : running' = e
    /\ stage' = "runPrecision"
    /\ busy' = TRUE
    /\ UNCHANGED <<active, dispatchedEvents, queueIndex, queueVars, timedVars, postVars, finished, passed, clock, raced>>

EndPrecision ==
    /\ stage = "runPrecision"
    /\ \E top \in Tops(precisionEvents) : precisionEvents' = precisionEvents \ {top}
    /\ finished' = [finished EXCEPT ![running.id] = @ + 1]
    /\ running' = NoEvent
    /\ Continue("precision") \/ Fail
    /\ UNCHANGED <<active, queueIndex, queueVars, idleEvents, postVars, clock, raced>>

PrecisionDone ==
    /\ stage = "precision"
    /\ Due(precisionEvents) = {}
    /\ stage' = "poll"
    /\ UNCHANGED <<active, dispatchedEvents, queueIndex, running, queueVars, timedVars, postVars, historyVars, clock, raced>>

(* Reached only by a cycle that dispatched nothing before. *)
FireIdle ==
    /\ stage = "idle"
    /\ \E e \in Due(idleEvents) : running' = e
    /\ stage' = "runIdle"
    /\ UNCHANGED <<active, dispatchedEvents, queueIndex, queueVars, timedVars, postVars, historyVars, clock, raced>>

EndIdle ==
    /\ stage = "runIdle"
    /\ \E top \in Tops(idleEvents) : idleEvents' = idleEvents \ {top}
    /\ finished' = [finished EXCEPT ![running.id] = @ + 1]
    /\ running' = NoEvent
    /\ Continue("idle") \/ Fail
    /\ UNCHANGED <<active, queueIndex, queueVars, precisionEvents, postVars, clock, raced>>

IdleDone ==
    /\ stage = "idle"
    /\ Due(idleEvents) = {}
    /\ EndCycle
    /\ UNCHANGED <<active, queueIndex, running, queueVars, timedVars, postVars, finished, clock, raced>>

-----------------------------------------------------------------------------
(* pollAndDispatchEndpointsEvents: the endpoints' callbacks run, and post,  *)
(* in stage "poll".                                                         *)
Poll ==
    /\ stage = "poll"
    /\ \/ \E n \in PollCounts :
            /\ stage' = "local"
            /\ dispatchedEvents' = dispatchedEvents + n
            /\ busy' = (busy \/ n > 0)
            /\ UNCHANGED passed
       \/ Fail
    /\ UNCHANGED <<active, queueIndex, running, queueVars, timedVars, postVars, finished, clock, raced>>

(* What the action of an entry leaves behind when it has run: queue is the  *)
(* local queue without the entry.  An async action that has not finished is *)
(* posted again to the local queue; a forwarding action pushes its event.   *)
Complete(e, queue, next) ==
    \/ /\ e.op = "async"
       /\ localQueue' = Append(queue, e)
       /\ Continue(next)
       /\ UNCHANGED <<finished, timedVars>>
    \/ /\ ~Forwarding(e)
       /\ localQueue' = queue
       /\ finished' = [finished EXCEPT ![e.id] = @ + 1]
       /\ Continue(next) \/ Fail
       /\ UNCHANGED timedVars
    \/ /\ e.op = "precision"
       /\ localQueue' = queue
       /\ precisionEvents' = precisionEvents \union {Event(e, "queue")}
       /\ Continue(next)
       /\ UNCHANGED <<idleEvents, finished>>
    \/ /\ e.op = "idle"
       /\ localQueue' = queue
       /\ idleEvents' = idleEvents \union {Event(e, "queue")}
       /\ Continue(next)
       /\ UNCHANGED <<precisionEvents, finished>>

(* One entry of the local queue per cycle. *)
RunLocal ==
    /\ stage = "local"
    /\ localQueue # <<>>
    /\ stage' = "runLocal"
    /\ busy' = TRUE
    /\ UNCHANGED <<active, dispatchedEvents, queueIndex, running, queueVars, timedVars, postVars, finished, passed, clock, raced>>

(* Mutated: the producers are polled only when the local queue is empty. *)
M_EndLocal ==
    /\ stage = "runLocal"
    /\ Complete(Head(localQueue), Tail(localQueue), "idle")
    /\ queueIndex' = 1
    /\ UNCHANGED <<active, running, registered, producerQueue, postVars, clock, raced>>

EndLocal ==
    /\ stage = "runLocal"
    /\ Complete(Head(localQueue), Tail(localQueue), "external")
    /\ queueIndex' = 1
    /\ UNCHANGED <<active, running, registered, producerQueue, postVars, clock, raced>>

LocalEmpty ==
    /\ stage = "local"
    /\ localQueue = <<>>
    /\ stage' = "external"
    /\ queueIndex' = 1
    /\ UNCHANGED <<active, dispatchedEvents, running, queueVars, timedVars, postVars, historyVars, clock, raced>>

(* One entry of every producer queue per cycle.  The others that are        *)
(* waiting see an action pass.                                              *)
Current == registered[queueIndex]
RunExternal ==
    /\ stage = "external" /\ queueIndex <= Len(registered)
    /\ producerQueue[Current] # <<>>
    /\ stage' = "runExternal"
    /\ busy' = TRUE
    /\ passed' = [p \in Producers |->
                    IF p = Current \/ producerQueue[p] = <<>> THEN 0 ELSE passed[p] + 1]
    /\ UNCHANGED <<active, dispatchedEvents, queueIndex, running, queueVars, timedVars, postVars, finished, clock, raced>>

(* Mutated: a failed action is not removed. *)
M_EndExternal ==
    /\ stage = "runExternal"
    /\ Complete(Head(producerQueue[Current]), localQueue, "external")
    /\ producerQueue' = IF stage' = "stopped" THEN producerQueue
                          ELSE [producerQueue EXCEPT ![Current] = Tail(@)]
    /\ queueIndex' = queueIndex + 1
    /\ UNCHANGED <<active, running, registered, postVars, clock, raced>>

(* Mutated: a producer queue is drained before the next one is looked at. *)
M_EndExternalDrain ==
    /\ stage = "runExternal"
    /\ Complete(Head(producerQueue[Current]), localQueue, "external")
    /\ producerQueue' = [producerQueue EXCEPT ![Current] = Tail(@)]
    /\ UNCHANGED <<active, queueIndex, running, registered, postVars, clock, raced>>

EndExternal ==
    /\ stage = "runExternal"
    /\ Complete(Head(producerQueue[Current]), localQueue, "external")
    /\ producerQueue' = [producerQueue EXCEPT ![Current] = Tail(@)]
    /\ queueIndex' = queueIndex + 1
    /\ UNCHANGED <<active, running, registered, postVars, clock, raced>>

ExternalEmpty ==
    /\ stage = "external" /\ queueIndex <= Len(registered)
    /\ producerQueue[Current] = <<>>
    /\ queueIndex' = queueIndex + 1
    /\ UNCHANGED <<active, stage, dispatchedEvents, running, queueVars, timedVars, postVars, historyVars, clock, raced>>

(* Mutated: idle events are fired whatever the cycle has dispatched. *)
M_ExternalDone ==
    /\ stage = "external" /\ queueIndex > Len(registered)
    /\ stage' = "idle"
    /\ UNCHANGED <<active, dispatchedEvents, queueIndex, running, queueVars, timedVars, postVars, historyVars, clock, raced>>

ExternalDone ==
    /\ stage = "external" /\ queueIndex > Len(registered)
    /\ \/ /\ dispatchedEvents = 0
          /\ stage' = "idle"
          /\ UNCHANGED <<dispatchedEvents, busy, passed>>
       \/ /\ dispatchedEvents # 0
          /\ EndCycle
    /\ UNCHANGED <<active, queueIndex, running, queueVars, timedVars, postVars, finished, clock, raced>>

Tick ==
    /\ clock < MaxTime
    /\ clock' = clock + 1
    /\ UNCHANGED <<loopVars, queueVars, timedVars, postVars, historyVars, raced>>

-----------------------------------------------------------------------------
(* The steps of the loop thread in a cycle. *)
LoopStep ==
    \/ FirePrecision \/ EndPrecision \/ PrecisionDone
    \/ Poll
    \/ RunLocal \/ EndLocal \/ LocalEmpty
    \/ RunExternal \/ EndExternal \/ ExternalEmpty \/ ExternalDone
    \/ FireIdle \/ EndIdle \/ IdleDone

Next ==
    \/ /\ ~raced
       /\ \/ LoopStep
          \/ Start \/ PumpEvents \/ Stop
          \/ Tick
          \/ \E op \in AllKinds, time \in Times : PostFromLoop(op, time)
          \/ \E p \in Producers :
               \/ \E op \in AllKinds, time \in Times : Post(p, op, time)
               \/ PushExternal(p) \/ PushLocal(p) \/ RacingPush(p)
    \/ raced /\ UNCHANGED vars

Spec == Init /\ [][Next]_vars

(* The loop thread never rests inside a cycle and the actions it calls      *)
(* return; a spinning producer keeps trying; time goes on.  Nobody has to   *)
(* start the loop or to post.                                               *)
Fairness ==
    /\ WF_vars(~raced /\ LoopStep)
    /\ WF_vars(~raced /\ Tick)
    /\ \A p \in Producers : WF_vars(~raced /\ PushExternal(p))

FairSpec == Spec /\ Fairness

-----------------------------------------------------------------------------
TypeOK ==
    /\ active \in BOOLEAN /\ stage \in Stages
    /\ dispatchedEvents \in Nat /\ queueIndex \in 1 .. (Cardinality(Producers) + 1)
    /\ localQueue \in Seq(Entries)
    /\ registered \in Seq(Producers)
    /\ producerQueue \in [Producers -> Seq(Entries)]
    /\ precisionEvents \subseteq Events /\ idleEvents \subseteq Events
    /\ running \in Events \union {NoEvent}
    /\ clock \in Times /\ posts \in 0 .. MaxPosts
    /\ posting \in [Producers -> [entry : Entries, external : BOOLEAN] \union {NoPost}]
    /\ finished \in [Ids -> Nat] /\ passed \in [Producers -> Nat]
    /\ busy \in BOOLEAN /\ raced \in BOOLEAN
    /\ origin \in [Ids -> {NoPost} \union
                       [op : AllKinds, by : Producers \union {LoopThread}, external : BOOLEAN]]

InQueue(queue, i) == {n \in DOMAIN queue : queue[n].id = i}
InHeap(events, i) == {e \in events : e.id = i}

Posting(i) == {p \in Producers : posting[p] # NoPost /\ posting[p].entry.id = i}

(* How many copies of action i there are: in a post under way, in a queue   *)
(* or in a heap.  An action stays where it is while it runs.                *)
Copies(i) ==
    Cardinality(InQueue(localQueue, i))
    + Cardinality({pn \in Producers \X (1 .. Capacity) : pn[2] \in InQueue(producerQueue[pn[1]], i)})
    + Cardinality(Posting(i))
    + Cardinality(InHeap(precisionEvents, i)) + Cardinality(InHeap(idleEvents, i))

(* The idle actions that were put into the heap and posted as well. *)
StoredTwice(i) == origin[i].op = "idle" /\ ~origin[i].external /\ Posting(i) = {}

(* Nothing that was posted is lost, and nothing runs to its end twice (but  *)
(* idle actions posted on the loop thread, each of whose two copies runs    *)
(* once): through retries, forwarding, failures, stops and restarts, and    *)
(* although pop() removes whatever is on top after the action has run.      *)
Conservation ==
    \A i \in 1 .. posts : Copies(i) + finished[i] = IF StoredTwice(i) THEN 2 ELSE 1

(* An idle event fires only in a cycle that has dispatched no endpoint      *)
(* event, no precision event and no posted action ("only if there is no     *)
(* other activity").                                                        *)
IdleOnlyWhenQuiet == stage = "runIdle" => ~busy

(* No producer's queue is served twice while another producer waits, as     *)
(* long as the loop runs without a stop or a failure.                       *)
ServedInTurn == \A p \in Producers : passed[p] < Cardinality(Producers)

(* The untimed actions that one thread posts on one way end in the order of *)
(* the posts, whatever the loop does and however often it is restarted.     *)
PostOrder ==
    \A i, j \in 1 .. posts :
        i < j /\ origin[i] = origin[j] /\ origin[i].op = "plain" /\ finished[j] > 0
            => finished[i] > 0

-----------------------------------------------------------------------------
Halted == stage = "stopped" \/ raced

(* What waits in a producer queue is dispatched while the loop runs,        *)
(* although async actions may be retried forever: once nothing more is      *)
(* posted the queue runs empty.                                             *)
ProducerServed ==
    \A p \in Producers : producerQueue[p] # <<>> ~> producerQueue[p] = <<>> \/ Halted

(* stop() makes the current cycle the last one. *)
StopReturns == ~active ~> Halted
=============================================================================
