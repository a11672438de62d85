--------------------------- MODULE TimedContexts ---------------------------
(***************************************************************************)
(* Timers (timers/ManualTimer.hpp, EndpointTimer.hpp, TimerFactory.hpp) on *)
(* the event loops of an application's contexts                            *)
(* (application/IPAppRunContext.hpp, AppRunContextManager.hpp).  Of an     *)
(* event queue, which module EventQueue takes apart, the two heaps of      *)
(* timed events and the stages of a cycle are here, and of a context's     *)
(* endpoints the one whose timers follow it                                *)
(* (sockets/IPEndpointHandlerCapture.hpp).                                 *)
(*                                                                         *)
(* A timed event is the time it has left.  The application calls timers    *)
(* while it configures, from actions of their context's loop, and from     *)
(* their own action.  It keeps a timer as long as its context, since an    *)
(* event that is pending points to it.                                     *)
(***************************************************************************)
EXTENDS Naturals, FiniteSetsExt

CONSTANTS
    Contexts,       \* the contexts of the manager
    Timers,
    EndpointTimers, \* those made for the endpoint of their context
    ContextOf,      \* the context of each timer
    TypeOf,         \* its TimerType
    Duration,       \* its _duration, in ticks of the clock
    MaxCalls,       \* bound: calls of the application, without resume
    MaxPending      \* bound: how many events each timer may have

(* The clock moves less than a duration between two readings, so no event  *)
(* is refused as expired.                                                  *)
ASSUME TimerAssumption ==
    /\ EndpointTimers \subseteq Timers /\ ContextOf \in [Timers -> Contexts]
    /\ TypeOf \in [Timers -> {"Precision", "Idle"}] /\ Duration \in [Timers -> Nat \ {0}]
    /\ MaxCalls \in Nat /\ MaxPending \in [Timers -> Nat]

VARIABLES
    configured,     \* contexts in _contextLookup
    main,           \* where the thread that called startAllThreads is
    thread,         \* the thread of each context
    activeThread,   \* whether _activeThreadId of its event queue is set
    stage,          \* what the loop is doing
    dispatched,     \* whether dispatchedEvents of the cycle is above 0
    stopping,       \* contexts that stopAllThreads still has to stop
    stopped,        \* whether stopAllThreads was called
    endpoint,       \* the endpoint of each context
    closing,        \* how many close actions of it are posted
    registered,     \* _registeredTimers of the endpoints
    active,         \* _active of each timer
    paused,         \* _paused
    heap,           \* its pending events: how many have each time left
    forwards,       \* those that actions posted to the loop are still to store
    since,          \* history: time since an active one's start or last run, up to its duration
    doubled,        \* history: timers started while an event of theirs was pending
    own,            \* history: timers the application has started itself
    astray,         \* history: timers the endpoint runs though it has no connection
    refused,        \* history: timers the event queue has refused the event of
    early,          \* history: the timer that ran last, if too early and not doubled
    ignored,        \* history: contexts whose loop was stopped before it was active
    calls

threadVars == <<main, thread, activeThread, stage, dispatched>>
stopVars == <<stopping, stopped, ignored>>
endpointVars == <<endpoint, closing, registered>>
eventVars == <<heap, forwards, since, refused>>
timerVars == <<active, paused, eventVars, doubled, own, astray, early>>
vars == <<configured, threadVars, stopVars, endpointVars, timerVars, calls>>

Init ==
    /\ configured = {} /\ main = "configuring" /\ thread = [c \in Contexts |-> "none"]
    /\ activeThread = [c \in Contexts |-> FALSE] /\ stage = [c \in Contexts |-> "precision"]
    /\ dispatched = [c \in Contexts |-> FALSE]
    /\ stopping = {} /\ stopped = FALSE /\ ignored = {}
    /\ endpoint = [c \in Contexts |-> "off"] /\ closing = [c \in Contexts |-> 0]
    /\ registered = {}
    /\ active = [t \in Timers |-> FALSE] /\ paused = [t \in Timers |-> FALSE]
    /\ heap = [t \in Timers |-> [d \in 0 .. Duration[t] |-> 0]]
    /\ forwards = heap /\ since = [t \in Timers |-> 0]
    /\ doubled = {} /\ own = {} /\ astray = {} /\ refused = {} /\ early = {} /\ calls = 0

-----------------------------------------------------------------------------
(* The event queue, as far as timed events go.                              *)

Count(events) == MapThenSumSet(LAMBDA d : events[d], DOMAIN events)
Pending(t) == Count(heap[t]) + Count(forwards[t])
Due(t) == heap[t][0] > 0
HasEvent(t) == \E d \in 0 .. Duration[t] : heap[t][d] > 0 \/ forwards[t][d] > 0

(* An event is stored with its timer's whole duration to go.  From the      *)
(* loop's own thread postIdleTimedAction stores it and posts an action that *)
(* stores it again.  The event of `taken' is removed from its heap, and the *)
(* interval of `begun' begins.                                              *)
Schedule(times, taken, begun) ==
    /\ heap' = [t \in Timers |-> [d \in 0 .. Duration[t] |->
          heap[t][d] + (IF d = Duration[t] THEN times[t] ELSE 0)
                     - (IF d = 0 /\ t \in taken THEN 1 ELSE 0)]]
    /\ forwards' = [t \in Timers |->
          IF TypeOf[t] = "Precision" THEN forwards[t]
          ELSE [forwards[t] EXCEPT ![Duration[t]] = @ + times[t]]]
    /\ since' = [t \in Timers |-> IF t \in begun THEN 0 ELSE since[t]]

Room(t, times, taken) ==
    Pending(t) + (IF TypeOf[t] = "Idle" THEN 2 ELSE 1) * times - taken <= MaxPending[t]

-----------------------------------------------------------------------------
(* Timers.                                                                  *)

(* Mutated: start does not look whether the timer is active. *)
M_ToPost(ts) == ts

(* Mutated: what is posted before the loop is active is lost. *)
M_LosesEarly(ts) == {t \in ts : ~active[t] /\ activeThread[ContextOf[t]]}

(* start: an active timer has its event already. *)
ToPost(ts) == {t \in ts : ~active[t]}

(* The result of the post is not looked at.  postPrecisionTimedAction       *)
(* refuses when a payload is prepared, and drops that.                      *)
Accepted(ts) == {ts} \union {ts \ {t} : t \in {x \in ts : TypeOf[x] = "Precision"}}

StartTimers(ts) ==
    /\ \A t \in ToPost(ts) : Room(t, 1, 0)
    /\ active' = [t \in Timers |-> active[t] \/ t \in ts]
    /\ \E posted \in Accepted(ToPost(ts)) :
          /\ Schedule([t \in Timers |-> IF t \in posted THEN 1 ELSE 0], {}, ToPost(ts))
          /\ refused' = refused \union (ToPost(ts) \ posted)
    /\ doubled' = {t \in Timers : IF t \in ts /\ ~active[t] THEN HasEvent(t) ELSE t \in doubled}
    /\ UNCHANGED <<paused, early>>

(* Mutated: a timer that is paused can be started. *)
M_Startable(ts) == ts

(* EndpointTimer::start. *)
Startable(ts) == {t \in ts : ~paused[t]}

(* stop leaves the event where it is. *)
StopTimers(ts) ==
    /\ active' = [t \in Timers |-> active[t] /\ t \notin ts]
    /\ own' = own \ ts /\ astray' = astray \ ts
    /\ since' = [t \in Timers |-> IF t \in ts THEN 0 ELSE since[t]]
    /\ refused' = refused \ ts
    /\ UNCHANGED <<heap, forwards, doubled, early>>

(* The application calls from an action of its loop, or before there are    *)
(* loops.                                                                   *)
Running(c) == thread[c] = "active" /\ stage[c] = "tasks"
Dispatches(c) ==
    /\ dispatched' = [dispatched EXCEPT ![c] = Running(c)]
    /\ UNCHANGED <<configured, main, thread, activeThread, stage, stopVars>>
MayCall(c) ==
    /\ c \in configured /\ (main = "configuring" \/ Running(c))
    /\ Dispatches(c)
CallsFrom(c) == MayCall(c) /\ calls < MaxCalls /\ calls' = calls + 1

Start(t) ==
    /\ CallsFrom(ContextOf[t]) /\ t \notin EndpointTimers \ registered
    /\ StartTimers(Startable({t})) /\ own' = own \union Startable({t})
    /\ UNCHANGED <<endpointVars, astray>>

Stop(t) ==
    /\ CallsFrom(ContextOf[t]) /\ active[t]
    /\ StopTimers({t})
    /\ UNCHANGED <<endpointVars, paused>>

Pause(t) ==
    /\ CallsFrom(ContextOf[t]) /\ t \in registered
    /\ StopTimers({t}) /\ paused' = [paused EXCEPT ![t] = TRUE]
    /\ UNCHANGED endpointVars

(* resume does not start the timer again. *)
Resume(t) ==
    /\ MayCall(ContextOf[t]) /\ paused[t]
    /\ paused' = [paused EXCEPT ![t] = FALSE]
    /\ UNCHANGED <<endpointVars, active, eventVars, doubled, own, astray, early, calls>>

(* isActive of the endpoint, which is still so when its handlers have been  *)
(* told that it was closed or has lost its connection ("ended").            *)
isActive(c) == endpoint[c] # "off"

CreateEndpointTimer(t) ==
    LET c == ContextOf[t]  started == IF isActive(c) THEN Startable({t}) ELSE {} IN
    /\ CallsFrom(c) /\ t \in EndpointTimers \ registered
    /\ StartTimers(started)
    /\ registered' = registered \union {t}
    /\ astray' = IF endpoint[c] = "ended" THEN astray \union started ELSE astray
    /\ UNCHANGED <<endpoint, closing, own>>

Registered(c) == {t \in registered : ContextOf[t] = c}

(* onActive of the endpoint, in the dispatch of its events. *)
OnActive(c) ==
    /\ Running(c) /\ Dispatches(c) /\ ~isActive(c)
    /\ endpoint' = [endpoint EXCEPT ![c] = "on"]
    /\ StartTimers(Startable(Registered(c)))
    /\ astray' = astray \ Registered(c)
    /\ UNCHANGED <<closing, registered, own, calls>>

(* closeEndpoint calls onCloseEndpoint and posts the close action; a close  *)
(* handler that fails keeps it from that.                                   *)
CloseEndpoint(c) ==
    /\ CallsFrom(c) /\ Running(c)
    /\ endpoint[c] = "on" \/ (endpoint[c] = "ended" /\ closing[c] > 0)
    /\ endpoint' = [endpoint EXCEPT ![c] = "ended"]
    /\ \/ closing' = [closing EXCEPT ![c] = @ + 1]
       \/ UNCHANGED closing
    /\ StopTimers(Registered(c))
    /\ UNCHANGED <<registered, paused>>

(* The action may find the next connection, and calls no handler.  After an *)
(* SSL error the endpoint stays active.                                     *)
CloseAction(c) ==
    /\ Running(c) /\ Dispatches(c) /\ closing[c] > 0
    /\ closing' = [closing EXCEPT ![c] = @ - 1]
    /\ \E state \in IF isActive(c) THEN {"off", "ended"} ELSE {"off"} :
          endpoint' = [endpoint EXCEPT ![c] = state]
    /\ astray' = IF endpoint[c] = "on" THEN astray \union Registered(c) ELSE astray
    /\ UNCHANGED <<registered, active, paused, eventVars, doubled, own, early, calls>>

(* onDisconnected is called after a hangup or a failed read or write, which *)
(* leave the endpoint active, a read of no bytes, which does not, a         *)
(* handshake that fails, and a send beyond the back pressure limit, open or *)
(* not.  It fails when the endpoint has no handler for it, and the loop     *)
(* ends.                                                                    *)
OnDisconnected(c) ==
    /\ Running(c)
    /\ \E state \in IF isActive(c) THEN {"off", "ended"} ELSE {"off"} :
          endpoint' = [endpoint EXCEPT ![c] = state]
    /\ StopTimers(Registered(c))
    /\ dispatched' = [dispatched EXCEPT ![c] = TRUE]
    /\ \/ thread' = thread
       \/ thread' = [thread EXCEPT ![c] = "returned"]
    /\ UNCHANGED <<configured, main, activeThread, stage, stopVars, closing, registered, paused,
                   calls>>

(* What the action of a timer does to its own timer, and the events posted: *)
(* a stop and a start in it post one, and what follows it another.          *)
Outcomes(t) == {"runs", "stops", "restarts", "fails"}
Posts(outcome) ==
    CASE outcome = "runs" -> 1 [] outcome = "restarts" -> 2 [] OTHER -> 0

(* The action of an active timer runs. *)
Runs(t, outcome) ==
    /\ Room(t, Posts(outcome), 1)
    /\ \E posted \in IF TypeOf[t] = "Precision" THEN 0 .. Posts(outcome) ELSE {Posts(outcome)} :
          /\ Schedule([x \in Timers |-> IF x = t THEN posted ELSE 0], {t}, {t})
          /\ refused' = IF posted = 0 /\ Posts(outcome) > 0 THEN refused \union {t}
                        ELSE refused \ {t}
    /\ active' = [active EXCEPT ![t] = outcome \in {"runs", "restarts"}]
    /\ thread' = [thread EXCEPT ![ContextOf[t]] = IF outcome = "fails" THEN "returned" ELSE @]
    /\ own' = CASE outcome = "runs" -> own
               [] outcome = "restarts" -> own \union {t}
               [] OTHER -> own \ {t}
    /\ astray' = IF outcome = "runs" THEN astray ELSE astray \ {t}
    /\ doubled' = IF outcome = "restarts" THEN doubled \union {t} ELSE doubled
    /\ early' = IF since[t] < Duration[t] /\ t \notin doubled THEN {t} ELSE {}

Drops(t) ==
    /\ Schedule([x \in Timers |-> 0], {t}, {})
    /\ UNCHANGED <<active, thread, own, astray, refused, doubled, early>>

(* runAndRePost, when the event queue applies the event. *)
StageOf(t) == IF TypeOf[t] = "Precision" THEN "precision" ELSE "idle"
RunAndRePost(t) ==
    LET c == ContextOf[t] IN
    /\ thread[c] = "active" /\ stage[c] = StageOf(t) /\ Due(t)
    /\ dispatched' = [dispatched EXCEPT ![c] = TRUE]
    /\ \/ active[t] /\ \E outcome \in Outcomes(t) : Runs(t, outcome)
       \/ ~active[t] /\ Drops(t)
    /\ UNCHANGED <<configured, paused, main, activeThread, stage, stopVars, endpointVars, calls>>

-----------------------------------------------------------------------------
(* The stages of a cycle.                                                   *)

TimedContext(c) == \E t \in Timers : ContextOf[t] = c
Of(c, type) == {t \in Timers : ContextOf[t] = c /\ TypeOf[t] = type}

At(c, which) ==
    /\ thread[c] = "active" /\ stage[c] = which
    /\ UNCHANGED <<configured, main, activeThread, stopVars, endpointVars, active, paused, since,
                   refused, doubled, own, astray, early, calls>>

(* The loop of EventQueue::start goes on while the queue is active. *)
NextCycle(c) ==
    /\ dispatched' = [dispatched EXCEPT ![c] = FALSE]
    /\ stage' = [stage EXCEPT ![c] = "precision"]
    /\ thread' = IF activeThread[c] THEN thread ELSE [thread EXCEPT ![c] = "returned"]

EndPrecision(c) ==
    /\ TimedContext(c) /\ At(c, "precision") /\ \A t \in Of(c, "Precision") : ~Due(t)
    /\ stage' = [stage EXCEPT ![c] = "tasks"]
    /\ UNCHANGED <<thread, dispatched, heap, forwards>>

(* One action of the local queue is taken in a cycle: the oldest event of a *)
(* timer is stored.                                                         *)
Stores(t) ==
    \E d \in 0 .. Duration[t] :
        /\ forwards[t][d] > 0 /\ \A e \in 0 .. d - 1 : forwards[t][e] = 0
        /\ forwards' = [forwards EXCEPT ![t][d] = @ - 1]
        /\ heap' = [heap EXCEPT ![t][d] = @ + 1]

Waiting(c) == {t \in Of(c, "Idle") : Count(forwards[t]) > 0}

EndTasks(c) ==
    /\ At(c, "tasks")
    /\ \/ \E t \in Waiting(c) : Stores(t) /\ NextCycle(c)
       \/ /\ Waiting(c) = {} /\ UNCHANGED <<heap, forwards>>
          /\ IF dispatched[c] THEN NextCycle(c)
             ELSE stage' = [stage EXCEPT ![c] = "idle"] /\ UNCHANGED <<thread, dispatched>>

EndIdle(c) ==
    /\ At(c, "idle") /\ \A t \in Of(c, "Idle") : ~Due(t)
    /\ NextCycle(c)
    /\ UNCHANGED <<heap, forwards>>

(* A cycle of a loop that has no timers. *)
BareCycle(c) ==
    /\ ~TimedContext(c) /\ At(c, "precision") /\ NextCycle(c)
    /\ UNCHANGED <<heap, forwards>>

-----------------------------------------------------------------------------
(* The threads of the manager.                                              *)

ThreadStep == UNCHANGED <<configured, endpointVars, timerVars, calls, dispatched>>

(* configureContexts makes one context after the other until it fails, and  *)
(* keeps those it has made.                                                 *)
ConfigureContext(c) ==
    /\ main = "configuring" /\ configured' = configured \union {c}
    /\ UNCHANGED <<threadVars, stopVars, endpointVars, timerVars, calls>>

StartAllThreads ==
    /\ main = "configuring" /\ main' = "starting"
    /\ UNCHANGED <<thread, activeThread, stage, stopVars>> /\ ThreadStep

(* A thread is made for each context; its settings are left out.            *)
CreateThread(c) ==
    /\ main = "starting" /\ c \in configured /\ thread[c] = "none"
    /\ thread' = [thread EXCEPT ![c] = "created"]
    /\ UNCHANGED <<main, activeThread, stage, stopVars>> /\ ThreadStep

(* IPAppRunContext::start: the poll manager is initialised, which may fail, *)
(* and the event queue starts.                                              *)
ContextStarts(c) ==
    /\ thread[c] = "created"
    /\ \/ /\ thread' = [thread EXCEPT ![c] = "active"]
          /\ activeThread' = [activeThread EXCEPT ![c] = TRUE]
       \/ thread' = [thread EXCEPT ![c] = "returned"] /\ UNCHANGED activeThread
    /\ UNCHANGED <<main, stage, stopVars>> /\ ThreadStep

Join ==
    /\ main = "starting" /\ \A c \in configured : thread[c] = "returned"
    /\ main' = "returned"
    /\ UNCHANGED <<thread, activeThread, stage, stopVars>> /\ ThreadStep

(* Some thread, once, when the contexts are configured. *)
StopAllThreads ==
    /\ main # "configuring" /\ ~stopped /\ stopped' = TRUE /\ stopping' = configured
    /\ UNCHANGED <<configured, threadVars, ignored, endpointVars, timerVars, calls>>

(* Mutated: the first context that is stopped is the last. *)
M_StillToStop(c) == {}

StillToStop(c) == stopping \ {c}

(* EventQueue::stop refuses when the queue is not active, and               *)
(* stopAllThreads does not look.                                            *)
StopContext(c) ==
    /\ c \in stopping /\ stopping' = StillToStop(c)
    /\ activeThread' = [activeThread EXCEPT ![c] = FALSE]
    /\ ignored' = IF thread[c] \in {"none", "created"} THEN ignored \union {c} ELSE ignored
    /\ UNCHANGED <<main, thread, stage, stopped>> /\ ThreadStep

-----------------------------------------------------------------------------
(* What is due stays due. *)
Sooner(events, d) ==
    (IF d + 1 \in DOMAIN events THEN events[d + 1] ELSE 0) + (IF d = 0 THEN events[0] ELSE 0)

(* A loop runs the timers that are due within a tick. *)
Tick ==
    /\ \A t \in Timers : Due(t) => thread[ContextOf[t]] # "active" \/ stage[ContextOf[t]] # StageOf(t)
    /\ heap' = [t \in Timers |-> [d \in 0 .. Duration[t] |-> Sooner(heap[t], d)]]
    /\ forwards' = [t \in Timers |-> [d \in 0 .. Duration[t] |-> Sooner(forwards[t], d)]]
    /\ since' = [t \in Timers |-> IF active[t] /\ since[t] < Duration[t] THEN since[t] + 1 ELSE since[t]]
    /\ UNCHANGED <<configured, threadVars, stopVars, endpointVars, active, paused, refused, doubled,
                   own, astray, early, calls>>

Call(t) == Start(t) \/ Stop(t) \/ Pause(t) \/ Resume(t) \/ CreateEndpointTimer(t)
Endpoint(c) == OnActive(c) \/ CloseEndpoint(c) \/ CloseAction(c) \/ OnDisconnected(c)
Thread(c) == CreateThread(c) \/ ContextStarts(c) \/ StopContext(c)

Next ==
    \/ StartAllThreads \/ Join \/ StopAllThreads \/ Tick
    \/ \E t \in Timers : Call(t) \/ RunAndRePost(t)
    \/ \E c \in Contexts :
          ConfigureContext(c) \/ Thread(c) \/ EndPrecision(c) \/ EndTasks(c) \/ EndIdle(c) \/ BareCycle(c)
    \/ \E t \in EndpointTimers : Endpoint(ContextOf[t])

Spec == Init /\ [][Next]_vars

(* Threads run and time passes.  A loop that finds again and again that no  *)
(* timer is due does not always find that one is at its next reading.       *)
FairSpec ==
    /\ Spec /\ WF_vars(Tick) /\ WF_vars(Join \/ \E c \in Contexts : Thread(c))
    /\ \A t \in Timers : WF_vars(RunAndRePost(t))
    /\ \A c \in Contexts :
          /\ SF_vars(EndPrecision(c)) /\ WF_vars(EndTasks(c)) /\ SF_vars(EndIdle(c))
          /\ WF_vars(BareCycle(c))

-----------------------------------------------------------------------------
TypeOK ==
    /\ configured \subseteq Contexts
    /\ main \in {"configuring", "starting", "returned"}
    /\ thread \in [Contexts -> {"none", "created", "active", "returned"}]
    /\ activeThread \in [Contexts -> BOOLEAN] /\ dispatched \in [Contexts -> BOOLEAN]
    /\ stage \in [Contexts -> {"precision", "tasks", "idle"}]
    /\ stopping \subseteq Contexts /\ stopped \in BOOLEAN /\ ignored \subseteq Contexts
    /\ endpoint \in [Contexts -> {"off", "on", "ended"}] /\ closing \in [Contexts -> Nat]
    /\ registered \subseteq EndpointTimers
    /\ active \in [Timers -> BOOLEAN] /\ paused \in [Timers -> BOOLEAN]
    /\ \A t \in Timers : heap[t] \in [0 .. Duration[t] -> Nat] /\ forwards[t] \in [0 .. Duration[t] -> Nat]
    /\ since \in [Timers -> Nat]
    /\ doubled \subseteq Timers /\ own \subseteq Timers /\ early \subseteq Timers
    /\ astray \subseteq Timers /\ refused \subseteq Timers
    /\ calls \in Nat

(* The action of an active precision timer runs a whole duration or more    *)
(* after the timer was started and after its last run, however starts and   *)
(* stops, changes of the endpoint and runs follow each other, unless it was *)
(* started again before the event of an earlier start was gone              *)
(* (ManualTimer.hpp:17-29, 33-54).                                          *)
NotEarly == \A t \in early : TypeOf[t] # "Precision"

(* The same of idle timers, which interfaces.hpp:18 promises: "Fire after   *)
(* designated time only if there is no other activity".  The code does not  *)
(* keep it (EventQueue.hpp:310-317).                                        *)
IdleNotEarly == \A t \in early : TypeOf[t] # "Idle"

(* A timer that belongs to an endpoint is active only while the endpoint    *)
(* is, that is between its onActive and the next onCloseEndpoint or         *)
(* onDisconnected, or because the application has started it itself, and    *)
(* never while it is paused, whoever starts it (EndpointTimer.hpp:19-33,    *)
(* IPEndpointHandlerCapture.hpp:38-80).  There are two exceptions, which    *)
(* the code makes: a timer that is created after these calls, while         *)
(* isActive still says yes (TimerFactory.hpp:34), and a connection that the *)
(* close action of an earlier one has ended without a call.                 *)
FollowsEndpoint ==
    \A t \in registered : active[t] =>
        /\ ~paused[t]
        /\ endpoint[ContextOf[t]] = "on" \/ t \in own \/ t \in astray

(* A precision timer keeps running: once its duration is over it runs, or   *)
(* is stopped, or its loop has ended (ManualTimer.hpp:33-54,                *)
(* EventQueue.hpp:363-375), unless the event queue has refused its event,   *)
(* which the timer does not look at (ManualTimer.hpp:23, 47).               *)
KeepsRunning ==
    \A t \in {x \in Timers : TypeOf[x] = "Precision"} :
        thread[ContextOf[t]] = "active" /\ active[t] /\ since[t] = Duration[t]
            ~> \/ since[t] < Duration[t] \/ ~active[t] \/ thread[ContextOf[t]] = "returned"
               \/ t \in refused

(* When all contexts are told to stop, startAllThreads returns, unless one  *)
(* was told before its loop was active, which EventQueue.hpp:336-340 and    *)
(* AppRunContextManager.hpp:193-197 ignore.                                 *)
JoinReturns == stopped ~> main = "returned" \/ ignored # {}
=============================================================================
