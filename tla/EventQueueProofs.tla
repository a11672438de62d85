-------------------------- MODULE EventQueueProofs --------------------------
(***************************************************************************)
(* Proofs about the event loop, for any producers, queue sizes, workloads  *)
(* and numbers of posts.                                                   *)
(***************************************************************************)
EXTENDS EventQueue, FiniteSetTheorems, SequenceTheorems, TLAPS

(* Types, but for the length of the table, which needs that it is injective.*)
Typed ==
    /\ active \in BOOLEAN /\ stage \in Stages
    /\ dispatchedEvents \in Nat /\ queueIndex \in 1 .. (Len(registered) + 1)
    /\ localQueue \in Seq(Entries)
    /\ registered \in Seq(Producers)
    /\ producerQueue \in [Producers -> Seq(Entries)]
    /\ precisionEvents \subseteq Events /\ idleEvents \subseteq Events
    /\ running \in Events \union {NoEvent}
    /\ clock \in Times /\ posts \in 0 .. MaxPosts
    /\ posting \in [Producers -> [entry : Entries, external : BOOLEAN] \union {NoPost}]
    /\ finished \in [Ids -> Nat] /\ passed \in [Producers -> Nat]
    /\ busy \in BOOLEAN /\ raced \in BOOLEAN
    /\ origin \in [Ids -> {NoPost} \union
                       [op : AllKinds, by : Producers \union {LoopThread}, external : BOOLEAN]]

(* What the loop thread relies on when an action returns.                   *)
Control ==
    /\ stage = "runLocal" => localQueue # <<>>
    /\ stage = "runExternal" =>
          queueIndex \in DOMAIN registered /\ producerQueue[registered[queueIndex]] # <<>>
    /\ stage = "runPrecision" => running \in precisionEvents
    /\ stage = "runIdle" => running \in idleEvents

(* A producer takes one entry of the table.                                 *)
Injective == \A i, j \in DOMAIN registered : registered[i] = registered[j] => i = j

LoopInv == Typed /\ Control /\ Injective

-----------------------------------------------------------------------------
LEMMA StoreTypes ==
    ASSUME LoopInv, NEW e \in Entries, StoreLocally(e)
    PROVE  /\ localQueue' \in Seq(Entries)
           /\ precisionEvents' \subseteq Events /\ idleEvents' \subseteq Events
           /\ precisionEvents \subseteq precisionEvents' /\ idleEvents \subseteq idleEvents'
           /\ localQueue # <<>> => localQueue' # <<>>
<1>1. Event(e, "heap") \in Events
  BY DEF Event, Events, Entries
<1>2. localQueue' \in Seq(Entries) /\ (localQueue # <<>> => localQueue' # <<>>)
  <2>1. localQueue' = localQueue \/ localQueue' = Append(localQueue, e)
    BY DEF StoreLocally
  <2>2. localQueue \in Seq(Entries)
    BY DEF LoopInv, Typed
  <2> QED BY <2>1, <2>2, AppendProperties, EmptySeq
<1> QED BY <1>1, <1>2 DEF StoreLocally, LoopInv, Typed

LEMMA PostTypes ==
    ASSUME LoopInv, NEW op \in AllKinds, NEW time \in Times, posts < MaxPosts
    PROVE  /\ posts + 1 \in Ids /\ posts + 1 \in 0 .. MaxPosts
           /\ [id |-> posts + 1, op |-> op, time |-> time] \in Entries
BY EventQueueAssumption DEF LoopInv, Typed, Entries, Ids

LEMMA PostFromLoopStep ==
    ASSUME LoopInv, NEW op \in AllKinds, NEW time \in Times, PostFromLoop(op, time)
    PROVE  LoopInv'
<1> DEFINE e == [id |-> posts + 1, op |-> op, time |-> time]
<1>1. posts < MaxPosts
  BY DEF PostFromLoop
<1>2. posts + 1 \in Ids /\ posts + 1 \in 0 .. MaxPosts /\ e \in Entries
  BY <1>1, PostTypes
<1>3. StoreLocally(e) /\ posts' = posts + 1 /\ e.id = posts + 1
  BY DEF PostFromLoop
<1>4. /\ origin' = [origin EXCEPT ![posts + 1] = [op |-> op, by |-> LoopThread, external |-> FALSE]]
      /\ UNCHANGED <<loopVars, registered, producerQueue, posting, historyVars, clock, raced>>
  BY DEF PostFromLoop
<1> HIDE DEF e
<1>5. Typed'
  BY <1>2, <1>3, <1>4, StoreTypes DEF LoopInv, Typed, loopVars, historyVars
<1>6. Control' /\ Injective'
  BY <1>2, <1>3, <1>4, StoreTypes DEF LoopInv, Control, Injective, loopVars
<1> QED BY <1>5, <1>6 DEF LoopInv

LEMMA PostStep ==
    ASSUME LoopInv, NEW p \in Producers, NEW op \in AllKinds, NEW time \in Times, Post(p, op, time)
    PROVE  LoopInv'
<1> DEFINE e == [id |-> posts + 1, op |-> op, time |-> time]
<1>1. posts + 1 \in Ids /\ posts + 1 \in 0 .. MaxPosts /\ e \in Entries
  BY PostTypes DEF Post
<1>2. /\ registered' \in Seq(Producers) /\ Len(registered') >= Len(registered)
      /\ \A i \in DOMAIN registered : i \in DOMAIN registered' /\ registered'[i] = registered[i]
      /\ Injective'
  <2>1. CASE active /\ \A i \in DOMAIN registered : registered[i] # p
    <3>1. registered' = Append(registered, p) /\ registered \in Seq(Producers)
      BY <2>1 DEF Post, LoopInv, Typed
    <3>2. /\ registered' \in Seq(Producers) /\ Len(registered') = Len(registered) + 1
          /\ \A i \in 1 .. Len(registered) : registered'[i] = registered[i]
          /\ registered'[Len(registered) + 1] = p
      BY <3>1, AppendProperties
    <3> QED BY <2>1, <3>1, <3>2 DEF LoopInv, Injective
  <2>2. CASE ~(active /\ \A i \in DOMAIN registered : registered[i] # p)
    BY <2>2 DEF Post, LoopInv, Typed, Injective
  <2> QED BY <2>1, <2>2
<1>3. /\ posts' = posts + 1 /\ posting' = [posting EXCEPT ![p] = [entry |-> e, external |-> active]]
      /\ origin' = [origin EXCEPT ![posts + 1] = [op |-> op, by |-> p, external |-> active]]
      /\ UNCHANGED <<loopVars, localQueue, producerQueue, timedVars, historyVars, clock, raced>>
  BY DEF Post
<1> HIDE DEF e
<1>4. Typed'
  BY <1>1, <1>2, <1>3, SMTT(30) DEF LoopInv, Typed, loopVars, timedVars, historyVars
<1>5. Control'
  BY <1>2, <1>3 DEF LoopInv, Control, loopVars, timedVars
<1> QED BY <1>2, <1>4, <1>5 DEF LoopInv

LEMMA PushStep ==
    ASSUME LoopInv, NEW p \in Producers, PushExternal(p) \/ PushLocal(p) \/ RacingPush(p)
    PROVE  LoopInv'
<1>1. ASSUME posting[p] # NoPost PROVE posting[p].entry \in Entries
  BY <1>1 DEF LoopInv, Typed
<1>2. CASE PushExternal(p)
  <2>1. producerQueue' = [producerQueue EXCEPT ![p] = Append(producerQueue[p], posting[p].entry)]
    BY <1>2 DEF PushExternal
  <2>2. /\ producerQueue' \in [Producers -> Seq(Entries)]
        /\ \A q \in Producers : producerQueue[q] # <<>> => producerQueue'[q] # <<>>
    BY <1>1, <1>2, <2>1 DEF PushExternal, LoopInv, Typed
  <2>3. Typed'
    BY <1>2, <2>2 DEF PushExternal, LoopInv, Typed, loopVars, timedVars, historyVars
  <2>4. Control'
    <3>1. \A i \in DOMAIN registered : registered[i] \in Producers
      BY DEF LoopInv, Typed
    <3> QED BY <1>2, <2>2, <3>1 DEF PushExternal, LoopInv, Control, loopVars, timedVars
  <2> QED BY <1>2, <2>3, <2>4 DEF PushExternal, LoopInv, Injective
<1>3. CASE PushLocal(p)
  <2>1. StoreLocally(posting[p].entry) /\ posting[p].entry \in Entries
    BY <1>1, <1>3 DEF PushLocal, PushesLocally
  <2>2. Typed'
    BY <1>3, <2>1, StoreTypes DEF PushLocal, LoopInv, Typed, loopVars, historyVars
  <2>3. Control' /\ Injective'
    BY <1>3, <2>1, StoreTypes DEF PushLocal, LoopInv, Control, Injective, loopVars
  <2> QED BY <2>2, <2>3 DEF LoopInv
<1>4. CASE RacingPush(p)
  BY <1>4 DEF RacingPush, LoopInv, Typed, Control, Injective, loopVars, queueVars, timedVars,
              postVars, historyVars
<1> QED BY <1>2, <1>3, <1>4

-----------------------------------------------------------------------------
LEMMA ControlStep ==
    ASSUME LoopInv, Start \/ PumpEvents \/ Stop \/ Tick
    PROVE  LoopInv'
<1>1. CASE Start \/ PumpEvents \/ Stop
  <2>1. /\ active' \in BOOLEAN /\ stage' \in Stages /\ dispatchedEvents' \in Nat /\ busy' \in BOOLEAN
        /\ stage' \in {stage, "precision"}
    <3>1. /\ active \in BOOLEAN /\ stage \in Stages /\ dispatchedEvents \in Nat /\ busy \in BOOLEAN
          /\ "precision" \in Stages
      BY DEF LoopInv, Typed, Stages
    <3>2. CASE Start
      BY <3>1, <3>2 DEF Start, BeginCycle
    <3>3. CASE PumpEvents
      BY <3>1, <3>3 DEF PumpEvents, BeginCycle
    <3>4. CASE Stop
      BY <3>1, <3>4 DEF Stop, historyVars
    <3> QED BY <1>1, <3>2, <3>3, <3>4
  <2>2. UNCHANGED <<queueIndex, running, queueVars, timedVars, postVars, finished, passed, clock, raced>>
    BY <1>1 DEF Start, PumpEvents, Stop, historyVars
  <2> QED BY <2>1, <2>2 DEF LoopInv, Typed, Control, Injective, queueVars, timedVars, postVars
<1>2. CASE Tick
  BY <1>2, EventQueueAssumption DEF Tick, LoopInv, Typed, Control, Injective, Times, loopVars, queueVars, timedVars, postVars,
              historyVars
<1> QED BY <1>1, <1>2

(* The ends of an action and of a cycle.                                    *)
LEMMA AfterAction ==
    ASSUME LoopInv, NEW next \in Stages, Continue(next) \/ Fail
    PROVE  /\ stage' \in {next, "stopped"} /\ dispatchedEvents' \in Nat /\ busy' \in BOOLEAN
           /\ passed' \in [Producers -> Nat]
<1>1. dispatchedEvents \in Nat /\ busy \in BOOLEAN /\ passed \in [Producers -> Nat]
  BY DEF LoopInv, Typed
<1>2. CASE Continue(next)
  BY <1>1, <1>2 DEF Continue
<1>3. CASE Fail
  BY <1>3 DEF Fail
<1> QED BY <1>2, <1>3

LEMMA AfterCycle ==
    ASSUME LoopInv, EndCycle
    PROVE  /\ stage' \in {"precision", "stopped"} /\ dispatchedEvents' \in Nat /\ busy' \in BOOLEAN
           /\ passed' \in [Producers -> Nat]
BY DEF EndCycle, LoopInv, Typed

LEMMA TimedStep ==
    ASSUME LoopInv, FirePrecision \/ EndPrecision \/ PrecisionDone \/ FireIdle \/ EndIdle \/ IdleDone
    PROVE  LoopInv'
<1>1. CASE FirePrecision \/ FireIdle
  BY <1>1 DEF FirePrecision, FireIdle, Due, Earliest, LoopInv, Typed, Control, Injective, Stages,
              queueVars, timedVars, postVars, historyVars
<1>2. CASE EndPrecision \/ EndIdle
  <2>1. /\ stage' \in {"precision", "idle", "stopped"} /\ dispatchedEvents' \in Nat
        /\ busy' \in BOOLEAN /\ passed' \in [Producers -> Nat]
    BY <1>2, AfterAction DEF EndPrecision, EndIdle, Stages
  <2>2. finished' \in [Ids -> Nat] /\ running' = NoEvent
    <3>1. running.id \in Ids
      BY <1>2 DEF EndPrecision, EndIdle, LoopInv, Typed, Control, Events
    <3>2. finished \in [Ids -> Nat]
      BY DEF LoopInv, Typed
    <3> QED BY <1>2, <3>1, <3>2 DEF EndPrecision, EndIdle
  <2>3. precisionEvents' \subseteq Events /\ idleEvents' \subseteq Events
    BY <1>2 DEF EndPrecision, EndIdle, LoopInv, Typed
  <2> QED BY <1>2, <2>1, <2>2, <2>3 DEF EndPrecision, EndIdle, LoopInv, Typed, Control, Injective,
             Stages, queueVars, postVars
<1>3. CASE PrecisionDone
  BY <1>3 DEF PrecisionDone, LoopInv, Typed, Control, Injective, Stages, queueVars, timedVars,
              postVars, historyVars
<1>4. CASE IdleDone
  BY <1>4, AfterCycle DEF IdleDone, LoopInv, Typed, Control, Injective, Stages, queueVars,
              timedVars, postVars
<1> QED BY <1>1, <1>2, <1>3, <1>4

LEMMA PollStep ==
    ASSUME LoopInv, Poll
    PROVE  LoopInv'
<1>1. /\ stage' \in {"local", "stopped"} /\ dispatchedEvents' \in Nat /\ busy' \in BOOLEAN
      /\ passed' \in [Producers -> Nat]
  <2>1. /\ dispatchedEvents \in Nat /\ busy \in BOOLEAN /\ passed \in [Producers -> Nat]
        /\ \A n \in PollCounts : n \in Nat
    BY EventQueueAssumption DEF LoopInv, Typed
  <2>2. CASE Fail
    BY <2>2 DEF Fail
  <2>3. ASSUME NEW n \in PollCounts,
               stage' = "local", dispatchedEvents' = dispatchedEvents + n,
               busy' = (busy \/ n > 0), UNCHANGED passed
        PROVE  /\ stage' \in {"local", "stopped"} /\ dispatchedEvents' \in Nat /\ busy' \in BOOLEAN
               /\ passed' \in [Producers -> Nat]
    BY <2>1, <2>3
  <2> QED BY <2>2, <2>3 DEF Poll
<1> QED BY <1>1 DEF Poll, LoopInv, Typed, Control, Injective, Stages, queueVars, timedVars, postVars

(* The queues after the action of an entry.                                 *)
LEMMA CompleteTypes ==
    ASSUME LoopInv, NEW e \in Entries, NEW queue \in Seq(Entries), NEW next \in Stages,
           Complete(e, queue, next)
    PROVE  /\ stage' \in {next, "stopped"} /\ dispatchedEvents' \in Nat /\ busy' \in BOOLEAN
           /\ passed' \in [Producers -> Nat] /\ finished' \in [Ids -> Nat]
           /\ localQueue' \in Seq(Entries)
           /\ precisionEvents' \subseteq Events /\ idleEvents' \subseteq Events
<1>1. /\ stage' \in {next, "stopped"} /\ dispatchedEvents' \in Nat /\ busy' \in BOOLEAN
      /\ passed' \in [Producers -> Nat]
  BY AfterAction DEF Complete
<1>2. Event(e, "queue") \in Events
  BY DEF Event, Events, Entries
<1>3. Append(queue, e) \in Seq(Entries)
  BY AppendProperties
<1>4. [finished EXCEPT ![e.id] = @ + 1] \in [Ids -> Nat]
  BY DEF LoopInv, Typed, Entries
<1> QED BY <1>1, <1>2, <1>3, <1>4 DEF Complete, timedVars, LoopInv, Typed

LEMMA LocalStep ==
    ASSUME LoopInv, RunLocal \/ EndLocal \/ LocalEmpty
    PROVE  LoopInv'
<1>1. CASE RunLocal
  BY <1>1 DEF RunLocal, LoopInv, Typed, Control, Injective, Stages, queueVars, timedVars, postVars
<1>2. CASE LocalEmpty
  <2>1. 1 \in 1 .. (Len(registered) + 1)
    BY DEF LoopInv, Typed
  <2> QED BY <1>2, <2>1 DEF LocalEmpty, LoopInv, Typed, Control, Injective, Stages, queueVars,
             timedVars, postVars, historyVars
<1>3. CASE EndLocal
  <2>1. localQueue \in Seq(Entries) /\ localQueue # <<>>
    BY <1>3 DEF EndLocal, LoopInv, Typed, Control
  <2>2. Head(localQueue) \in Entries /\ Tail(localQueue) \in Seq(Entries)
    BY <2>1, HeadTailProperties
  <2>3. Complete(Head(localQueue), Tail(localQueue), "external") /\ "external" \in Stages
    BY <1>3 DEF EndLocal, Stages
  <2>4. /\ stage' \in {"external", "stopped"} /\ dispatchedEvents' \in Nat /\ busy' \in BOOLEAN
        /\ passed' \in [Producers -> Nat] /\ finished' \in [Ids -> Nat]
        /\ localQueue' \in Seq(Entries)
        /\ precisionEvents' \subseteq Events /\ idleEvents' \subseteq Events
    BY <2>2, <2>3, CompleteTypes
  <2>5. 1 \in 1 .. (Len(registered) + 1)
    BY DEF LoopInv, Typed
  <2> QED BY <1>3, <2>4, <2>5 DEF EndLocal, LoopInv, Typed, Control, Injective, Stages, postVars
<1> QED BY <1>1, <1>2, <1>3

LEMMA ExternalStep ==
    ASSUME LoopInv, RunExternal \/ EndExternal \/ ExternalEmpty \/ ExternalDone
    PROVE  LoopInv'
<1>1. CASE RunExternal
  <2>1. passed' \in [Producers -> Nat]
    BY <1>1, SMTT(30) DEF RunExternal, LoopInv, Typed
  <2>2. queueIndex \in DOMAIN registered
    BY <1>1 DEF RunExternal, LoopInv, Typed
  <2> QED BY <1>1, <2>1, <2>2 DEF RunExternal, Current, LoopInv, Typed, Control, Injective, Stages,
             queueVars, timedVars, postVars
<1>2. CASE EndExternal
  <2>1. /\ queueIndex \in 1 .. Len(registered) /\ Current \in Producers
        /\ producerQueue[Current] \in Seq(Entries) /\ producerQueue[Current] # <<>>
    BY <1>2 DEF EndExternal, Current, LoopInv, Typed, Control
  <2>2. Head(producerQueue[Current]) \in Entries /\ Tail(producerQueue[Current]) \in Seq(Entries)
    BY <2>1, HeadTailProperties
  <2>3. Complete(Head(producerQueue[Current]), localQueue, "external") /\ "external" \in Stages
    BY <1>2 DEF EndExternal, Stages
  <2>4. /\ stage' \in {"external", "stopped"} /\ dispatchedEvents' \in Nat /\ busy' \in BOOLEAN
        /\ passed' \in [Producers -> Nat] /\ finished' \in [Ids -> Nat]
        /\ localQueue' \in Seq(Entries)
        /\ precisionEvents' \subseteq Events /\ idleEvents' \subseteq Events
    BY <2>2, <2>3, CompleteTypes DEF LoopInv, Typed
  <2>5. producerQueue' \in [Producers -> Seq(Entries)] /\ queueIndex' \in 1 .. (Len(registered) + 1)
    <3>1. producerQueue \in [Producers -> Seq(Entries)] /\ Len(registered) \in Nat
      BY DEF LoopInv, Typed
    <3> QED BY <1>2, <2>1, <2>2, <3>1 DEF EndExternal
  <2> QED BY <1>2, <2>4, <2>5 DEF EndExternal, LoopInv, Typed, Control, Injective, Stages, postVars
<1>3. CASE ExternalEmpty
  BY <1>3, SMTT(30) DEF ExternalEmpty, LoopInv, Typed, Control, Injective, Stages, queueVars, timedVars,
              postVars, historyVars
<1>4. CASE ExternalDone
  <2>1. /\ stage' \in {"idle", "precision", "stopped"} /\ dispatchedEvents' \in Nat
        /\ busy' \in BOOLEAN /\ passed' \in [Producers -> Nat]
    BY <1>4, AfterCycle DEF ExternalDone, LoopInv, Typed
  <2> QED BY <1>4, <2>1 DEF ExternalDone, LoopInv, Typed, Control, Injective, Stages, queueVars,
             timedVars, postVars
<1> QED BY <1>1, <1>2, <1>3, <1>4

LEMMA LoopInit == Init => LoopInv
<1> SUFFICES ASSUME Init PROVE LoopInv
  OBVIOUS
<1>1. /\ localQueue \in Seq(Entries) /\ registered \in Seq(Producers) /\ Len(registered) = 0
      /\ producerQueue \in [Producers -> Seq(Entries)]
  BY EmptySeq DEF Init
<1>2. 0 \in Times /\ 0 \in 0 .. MaxPosts /\ queueIndex \in 1 .. (Len(registered) + 1)
  BY <1>1, EventQueueAssumption DEF Init, Times
<1>3. Typed
  BY <1>1, <1>2 DEF Init, Typed, Stages
<1>4. Control /\ Injective
  BY DEF Init, Control, Injective
<1> QED BY <1>3, <1>4 DEF LoopInv

LEMMA LoopInvStep == LoopInv /\ [Next]_vars => LoopInv'
<1> SUFFICES ASSUME LoopInv, [Next]_vars PROVE LoopInv'
  OBVIOUS
<1>1. CASE LoopStep
  BY <1>1, TimedStep, PollStep, LocalStep, ExternalStep DEF LoopStep
<1>2. CASE Start \/ PumpEvents \/ Stop \/ Tick
  BY <1>2, ControlStep
<1>3. ASSUME NEW op \in AllKinds, NEW time \in Times, PostFromLoop(op, time) PROVE LoopInv'
  BY <1>3, PostFromLoopStep
<1>4. ASSUME NEW p \in Producers, NEW op \in AllKinds, NEW time \in Times, Post(p, op, time)
      PROVE  LoopInv'
  BY <1>4, PostStep
<1>5. ASSUME NEW p \in Producers, PushExternal(p) \/ PushLocal(p) \/ RacingPush(p) PROVE LoopInv'
  BY <1>5, PushStep
<1>6. CASE UNCHANGED vars
  BY <1>6 DEF vars, loopVars, queueVars, timedVars, postVars, historyVars, LoopInv, Typed, Control,
              Injective
<1> QED BY <1>1, <1>2, <1>3, <1>4, <1>5, <1>6 DEF Next

(* No more entries than producers, since each takes one.                    *)
LEMMA TableFits ==
    ASSUME LoopInv
    PROVE  Cardinality(Producers) \in Nat /\ Len(registered) <= Cardinality(Producers)
<1>1. registered \in Seq(Producers) /\ Len(registered) \in Nat
  BY DEF LoopInv, Typed
<1>2. registered \in [1 .. Len(registered) -> Producers]
  BY <1>1, LenProperties
<1>3. registered \in Injection(1 .. Len(registered), Producers)
  BY <1>1, <1>2 DEF LoopInv, Injective, Injection, IsInjective
<1>4. Cardinality(1 .. Len(registered)) <= Cardinality(Producers)
  BY <1>3, FS_Injection, EventQueueAssumption
<1>5. Cardinality(1 .. Len(registered)) = Len(registered)
  <2> DEFINE n == Len(registered)
  <2>1. n \in Nat
    BY <1>1
  <2> HIDE DEF n
  <2>2. Cardinality(1 .. n) = IF 1 > n THEN 0 ELSE n - 1 + 1
    BY <2>1, FS_Interval
  <2>3. Cardinality(1 .. n) = n
    BY <2>1, <2>2
  <2> QED BY <2>3 DEF n
<1>6. Cardinality(Producers) \in Nat
  BY EventQueueAssumption, FS_CardinalityType
<1> QED BY <1>4, <1>5, <1>6

(* Queues, heaps and control of the loop keep their types, and the loop     *)
(* thread never looks beyond the entries of the table.                      *)
THEOREM QueueTypeCorrect == Spec => []TypeOK
<1>1. ASSUME LoopInv PROVE TypeOK
  <2>1. queueIndex \in 1 .. (Cardinality(Producers) + 1)
    BY <1>1, TableFits DEF LoopInv, Typed
  <2> QED BY <1>1, <2>1 DEF LoopInv, Typed, TypeOK
<1> QED BY LoopInit, LoopInvStep, <1>1, PTL DEF Spec

-----------------------------------------------------------------------------
(* Idle events. *)

(* A cycle that has dispatched something has counted it, and one that       *)
(* fires idle events has not dispatched anything else.                      *)
Counted ==
    /\ stage \in {"idle", "runIdle"} => ~busy
    /\ stage \in {"precision", "poll", "local", "external"} /\ busy => dispatchedEvents > 0

LEMMA CountedStep == LoopInv /\ Counted /\ [Next]_vars => Counted'
<1> SUFFICES ASSUME LoopInv, Counted, [Next]_vars PROVE Counted'
  OBVIOUS
<1> USE DEF Counted
<1>1. dispatchedEvents \in Nat /\ busy \in BOOLEAN /\ stage \in Stages
  BY DEF LoopInv, Typed
<1>2. ASSUME UNCHANGED <<stage, dispatchedEvents, busy>> PROVE Counted'
  BY <1>2
<1>3. CASE FirePrecision \/ PrecisionDone \/ RunLocal \/ LocalEmpty \/ RunExternal \/ ExternalEmpty
  BY <1>3 DEF FirePrecision, PrecisionDone, RunLocal, LocalEmpty, RunExternal, ExternalEmpty,
              historyVars
<1>4. ASSUME NEW next \in Stages \ {"idle", "runIdle"}, Continue(next) PROVE Counted'
  BY <1>1, <1>4 DEF Continue
<1>5. ASSUME Fail \/ EndCycle PROVE Counted'
  BY <1>5 DEF Fail, EndCycle
<1>6. CASE EndPrecision
  BY <1>4, <1>5, <1>6 DEF EndPrecision, Stages
<1>7. CASE Poll
  <2>1. ASSUME NEW n \in PollCounts, stage = "poll", stage' = "local",
               dispatchedEvents' = dispatchedEvents + n, busy' = (busy \/ n > 0)
        PROVE  Counted'
    BY <1>1, <2>1, EventQueueAssumption
  <2> QED BY <1>5, <1>7, <2>1 DEF Poll
<1>8. CASE EndLocal \/ EndExternal
  BY <1>4, <1>5, <1>8 DEF EndLocal, EndExternal, Complete, Stages
<1>9. CASE ExternalDone
  BY <1>1, <1>5, <1>9 DEF ExternalDone
<1>10. CASE FireIdle
  BY <1>10 DEF FireIdle, historyVars
<1>11. CASE EndIdle
  <2>1. ASSUME Continue("idle") PROVE Counted'
    BY <1>11, <2>1 DEF EndIdle, Continue
  <2> QED BY <1>5, <1>11, <2>1 DEF EndIdle
<1>12. CASE IdleDone
  BY <1>5, <1>12 DEF IdleDone
<1>13. CASE Start \/ PumpEvents
  BY <1>13 DEF Start, PumpEvents, BeginCycle
<1>14. CASE Stop \/ Tick
  BY <1>2, <1>14 DEF Stop, Tick, loopVars, historyVars
<1>15. ASSUME NEW op \in AllKinds, NEW time \in Times, PostFromLoop(op, time) PROVE Counted'
  BY <1>2, <1>15 DEF PostFromLoop, loopVars, historyVars
<1>16. ASSUME NEW p \in Producers,
              \/ \E op \in AllKinds, time \in Times : Post(p, op, time)
              \/ PushExternal(p) \/ PushLocal(p) \/ RacingPush(p)
       PROVE  Counted'
  BY <1>2, <1>16 DEF Post, PushExternal, PushLocal, RacingPush, loopVars, historyVars
<1>17. CASE UNCHANGED vars
  BY <1>2, <1>17 DEF vars, loopVars, historyVars
<1> QED BY <1>3, <1>6, <1>7, <1>8, <1>9, <1>10, <1>11, <1>12, <1>13, <1>14, <1>15, <1>16, <1>17
       DEF Next, LoopStep

(* An idle event runs only in a cycle that has dispatched nothing else.     *)
THEOREM IdleEventsWait == Spec => []IdleOnlyWhenQuiet
<1>1. Init => LoopInv /\ Counted
  BY LoopInit DEF Init, Counted
<1>2. LoopInv /\ Counted /\ [Next]_vars => (LoopInv /\ Counted)'
  BY LoopInvStep, CountedStep
<1>3. LoopInv /\ Counted => IdleOnlyWhenQuiet
  BY DEF Counted, IdleOnlyWhenQuiet
<1> QED BY <1>1, <1>2, <1>3, PTL DEF Spec

-----------------------------------------------------------------------------
(* Turns. *)

Known(p) == \E i \in DOMAIN registered : registered[i] = p

(* How many entries have been served at most since the k-th one was, or     *)
(* since it began to wait.                                                  *)
Behind(k) ==
    IF stage = "external"
      THEN IF k < queueIndex THEN queueIndex - k - 1 ELSE Len(registered) - k + queueIndex - 1
      ELSE IF stage = "runExternal"
        THEN IF k <= queueIndex THEN queueIndex - k ELSE Len(registered) - k + queueIndex
        ELSE Len(registered) - k

Turns ==
    /\ \A p \in Producers : posting[p] # NoPost /\ posting[p].external => Known(p)
    /\ \A p \in Producers : producerQueue[p] # <<>> => Known(p)
    /\ \A p \in Producers : producerQueue[p] = <<>> => passed[p] = 0
    /\ \A k \in DOMAIN registered : passed[registered[k]] <= Behind(k)

(* What the arithmetic of the turns needs of the types. *)
TableTypes ==
    /\ Len(registered) \in Nat
    /\ DOMAIN registered = 1 .. Len(registered)
    /\ queueIndex \in 1 .. (Len(registered) + 1)
    /\ stage = "runExternal" => queueIndex <= Len(registered)
    /\ passed \in [Producers -> Nat]
    /\ \A k \in DOMAIN registered : registered[k] \in Producers

LEMMA TableTyped == LoopInv => TableTypes
<1>1. ASSUME LoopInv PROVE TableTypes
  <2>1. registered \in Seq(Producers)
    BY <1>1 DEF LoopInv, Typed
  <2>2. /\ Len(registered) \in Nat /\ DOMAIN registered = 1 .. Len(registered)
        /\ \A k \in DOMAIN registered : registered[k] \in Producers
    BY <2>1
  <2> QED BY <1>1, <2>2 DEF LoopInv, Typed, Control, TableTypes
<1> QED BY <1>1

LEMMA BehindBounds ==
    ASSUME TableTypes, NEW k \in DOMAIN registered
    PROVE  Behind(k) \in 0 .. (Len(registered) - 1)
<1>1. k \in 1 .. Len(registered) /\ Len(registered) \in Nat /\ queueIndex \in 1 .. (Len(registered) + 1)
  BY DEF TableTypes
<1> DEFINE n == Len(registered)
<1> HIDE DEF n
<1> QED BY <1>1, SMTT(30) DEF TableTypes, Behind, n

(* Where no producer has waited. *)
LEMMA NobodyPassed ==
    ASSUME LoopInv', Turns, passed' = [p \in Producers |-> 0],
           registered' = registered, posting' = posting,
           \A p \in Producers : producerQueue'[p] # <<>> => producerQueue[p] # <<>>
    PROVE  Turns'
<1>1. TableTypes'
  BY TableTyped, PTL
<1>2. ASSUME NEW k \in DOMAIN registered' PROVE Behind(k)' >= 0 /\ registered'[k] \in Producers
  <2>1. k \in 1 .. Len(registered') /\ Len(registered') \in Nat
    BY <1>1 DEF TableTypes
  <2> DEFINE n == Len(registered')
  <2> HIDE DEF n
  <2> QED BY <1>1, <2>1 DEF TableTypes, Behind, n
<1> QED BY <1>2 DEF Turns, Known

(* Where only the position of the loop thread changes. *)
LEMMA MovesOn ==
    ASSUME LoopInv, LoopInv', Turns,
           UNCHANGED <<registered, producerQueue, posting, passed>>,
           \A k \in DOMAIN registered : passed[registered[k]] <= Behind(k)'
    PROVE  Turns'
BY DEF Turns, Known

(* Where the queue a producer is served from shrinks, or grows by a post    *)
(* that found the producer in the table.                                    *)
LEMMA EndCycleTurns ==
    ASSUME LoopInv, LoopInv', Turns, EndCycle, UNCHANGED <<registered, producerQueue, posting, queueIndex>>,
           stage = "idle" \/ (stage = "external" /\ queueIndex > Len(registered))
    PROVE  Turns'
<1>1. CASE active
  <2>1. ASSUME NEW k \in DOMAIN registered PROVE Behind(k)' >= Behind(k)
    <3>1. TableTypes
      BY TableTyped
    <3> QED BY <1>1, <2>1, <3>1 DEF EndCycle, Behind, TableTypes
  <2>2. passed' = passed
    BY <1>1 DEF EndCycle
  <2>3. ASSUME NEW k \in DOMAIN registered PROVE passed[registered[k]] <= Behind(k)'
    <3>1. TableTypes /\ passed[registered[k]] <= Behind(k) /\ Behind(k) \in Int
      BY TableTyped, BehindBounds DEF Turns
    <3>2. passed[registered[k]] \in Int /\ Behind(k)' \in Int
      BY <3>1, <1>1 DEF TableTypes, Behind, EndCycle
    <3> QED BY <2>1, <3>1, <3>2
  <2> QED BY <2>2, <2>3, MovesOn
<1>2. CASE ~active
  BY <1>2, NobodyPassed DEF EndCycle
<1> QED BY <1>1, <1>2

LEMMA PostTurns ==
    ASSUME LoopInv, LoopInv', Turns, NEW p \in Producers, NEW op \in AllKinds, NEW time \in Times,
           Post(p, op, time)
    PROVE  Turns'
<1>1. TableTypes /\ TableTypes'
  BY TableTyped, PTL
<1>2. registered \in Seq(Producers)
  BY DEF LoopInv, Typed
<1>3. /\ posting' = [posting EXCEPT ![p] = [entry |-> [id |-> posts + 1, op |-> op, time |-> time],
                                           external |-> active]]
      /\ UNCHANGED <<producerQueue, passed, stage, queueIndex>>
  BY DEF Post, loopVars, historyVars
<1>4. CASE active /\ ~Known(p)
  <2>1. registered' = Append(registered, p)
    BY <1>4 DEF Post, Known
  <2>2. /\ Len(registered') = Len(registered) + 1
        /\ \A k \in 1 .. Len(registered) : registered'[k] = registered[k]
        /\ registered'[Len(registered) + 1] = p
    BY <1>2, <2>1, AppendProperties
  <2>3. \A q \in Producers : Known(q) \/ q = p => Known(q)'
    BY <1>1, <2>2 DEF Known, TableTypes
  <2>4. passed[p] = 0
    BY <1>4 DEF Turns
  <2>5. ASSUME NEW k \in DOMAIN registered' PROVE passed'[registered'[k]] <= Behind(k)'
    <3>1. CASE k = Len(registered) + 1
      <4>1. Behind(k)' >= 0
        BY <1>1, <1>3, <2>2, <3>1 DEF TableTypes, Behind
      <4> QED BY <1>3, <2>2, <2>4, <3>1, <4>1
    <3>2. CASE k \in DOMAIN registered
      <4>1. passed[registered[k]] <= Behind(k) /\ passed[registered[k]] \in Nat
        BY <1>1, <3>2 DEF Turns, TableTypes
      <4>2. Behind(k) \in Int /\ Behind(k)' \in Int /\ Behind(k) <= Behind(k)'
        <5>1. /\ k \in 1 .. Len(registered) /\ Len(registered) \in Nat
              /\ Len(registered') = Len(registered) + 1
              /\ queueIndex \in 1 .. (Len(registered) + 1)
              /\ stage' = stage /\ queueIndex' = queueIndex
          BY <1>1, <1>3, <2>2, <3>2 DEF TableTypes
        <5>2. CASE stage = "external"
          BY <5>1, <5>2 DEF Behind
        <5>3. CASE stage = "runExternal"
          BY <5>1, <5>3 DEF Behind
        <5>4. CASE stage \notin {"external", "runExternal"}
          BY <5>1, <5>4 DEF Behind
        <5> QED BY <5>2, <5>3, <5>4
      <4> QED BY <1>1, <1>3, <2>2, <3>2, <4>1, <4>2 DEF TableTypes
    <3> QED BY <1>1, <2>2, <3>1, <3>2, SMTT(30) DEF TableTypes
  <2>6. \A q \in Producers : posting'[q] # NoPost /\ posting'[q].external => Known(q)'
    BY <1>3, <2>3 DEF Turns, LoopInv, Typed
  <2> QED BY <1>3, <2>3, <2>5, <2>6 DEF Turns
<1>5. CASE ~active \/ Known(p)
  <2>1. registered' = registered
    BY <1>5 DEF Post, Known
  <2>2. \A q \in Producers : posting'[q] # NoPost /\ posting'[q].external => Known(q)
    BY <1>3, <1>5 DEF Turns, LoopInv, Typed
  <2> QED BY <1>3, <2>1, <2>2 DEF Turns, Known, Behind
<1> QED BY <1>4, <1>5

LEMMA PushTurns ==
    ASSUME LoopInv, LoopInv', Turns, NEW p \in Producers,
           PushExternal(p) \/ PushLocal(p) \/ RacingPush(p)
    PROVE  Turns'
<1>1. CASE PushExternal(p)
  <2>1. /\ producerQueue' = [producerQueue EXCEPT ![p] = Append(producerQueue[p], posting[p].entry)]
        /\ posting' = [posting EXCEPT ![p] = NoPost]
        /\ posting[p] # NoPost /\ posting[p].external
        /\ UNCHANGED <<registered, passed, stage, queueIndex>>
    BY <1>1 DEF PushExternal, loopVars, historyVars
  <2>2. producerQueue \in [Producers -> Seq(Entries)] /\ posting[p].entry \in Entries
        /\ DOMAIN posting = Producers
    BY <2>1 DEF LoopInv, Typed
  <2>3. producerQueue'[p] # <<>> /\ \A q \in Producers \ {p} : producerQueue'[q] = producerQueue[q]
    <3>1. Append(producerQueue[p], posting[p].entry) # <<>>
      BY <2>2, AppendProperties
    <3> QED BY <2>1, <2>2, <3>1
  <2> QED BY <2>1, <2>2, <2>3 DEF Turns, Known, Behind
<1>2. CASE PushLocal(p)
  <2>1. /\ posting' = [posting EXCEPT ![p] = NoPost]
        /\ UNCHANGED <<registered, producerQueue, passed, stage, queueIndex>>
        /\ DOMAIN posting = Producers
    BY <1>2 DEF PushLocal, loopVars, historyVars, LoopInv, Typed
  <2> QED BY <2>1 DEF Turns, Known, Behind
<1>3. CASE RacingPush(p)
  BY <1>3 DEF RacingPush, loopVars, queueVars, postVars, historyVars, Turns, Known, Behind
<1> QED BY <1>1, <1>2, <1>3

(* The round over the producers. *)
LEMMA RoundTurns ==
    ASSUME LoopInv, LoopInv', Turns,
           LocalEmpty \/ EndLocal \/ RunExternal \/ EndExternal \/ ExternalEmpty \/ ExternalDone
    PROVE  Turns'
<1>1. TableTypes /\ TableTypes'
  BY TableTyped, PTL
<1>2. \A k \in DOMAIN registered : k \in 1 .. Len(registered) /\ passed[registered[k]] \in Nat
  BY <1>1 DEF TableTypes
<1>3. \A k \in DOMAIN registered : passed[registered[k]] <= Behind(k)
  BY DEF Turns
<1>4. Len(registered) \in Nat /\ queueIndex \in 1 .. (Len(registered) + 1)
  BY <1>1 DEF TableTypes
<1> DEFINE n == Len(registered)
<1> HIDE DEF n
<1>5. CASE LocalEmpty \/ (EndLocal /\ ~Fail)
  <2>1. /\ stage' = "external" /\ queueIndex' = 1 /\ stage \in {"local", "runLocal"}
        /\ UNCHANGED <<registered, producerQueue, posting, passed>>
    BY <1>5 DEF LocalEmpty, EndLocal, Complete, Continue, queueVars, postVars, historyVars
  <2>2. \A k \in DOMAIN registered : passed[registered[k]] <= Behind(k)'
    BY <1>2, <1>3, <1>4, <2>1 DEF Behind, n
  <2> QED BY <2>1, <2>2, MovesOn
<1>6. CASE Fail /\ (EndLocal \/ EndExternal)
  <2>1. /\ registered' = registered /\ posting' = posting
        /\ passed' = [p \in Producers |-> 0]
    BY <1>6 DEF EndLocal, EndExternal, Fail, postVars
  <2>2. \A p \in Producers : producerQueue'[p] # <<>> => producerQueue[p] # <<>>
    <3>1. producerQueue \in [Producers -> Seq(Entries)]
      BY DEF LoopInv, Typed
    <3>2. CASE EndLocal
      BY <3>2 DEF EndLocal
    <3>3. CASE EndExternal
      <4>1. producerQueue' = [producerQueue EXCEPT ![Current] = Tail(producerQueue[Current])]
            /\ producerQueue[Current] # <<>>
        BY <3>3 DEF EndExternal, LoopInv, Control, Current
      <4> QED BY <3>1, <4>1
    <3> QED BY <1>6, <3>2, <3>3
  <2> QED BY <2>1, <2>2, NobodyPassed
<1>7. CASE RunExternal
  <2>1. /\ stage = "external" /\ stage' = "runExternal" /\ queueIndex' = queueIndex
        /\ queueIndex \in DOMAIN registered
        /\ UNCHANGED <<registered, producerQueue, posting>>
        /\ passed' = [p \in Producers |->
                        IF p = registered[queueIndex] \/ producerQueue[p] = <<>>
                          THEN 0 ELSE passed[p] + 1]
    BY <1>1, <1>4, <1>7 DEF RunExternal, Current, queueVars, postVars, TableTypes
  <2>2. ASSUME NEW k \in DOMAIN registered PROVE passed'[registered[k]] <= Behind(k)'
    <3>1. /\ k = queueIndex => passed'[registered[k]] = 0
          /\ passed'[registered[k]] \in {0, passed[registered[k]] + 1}
          /\ registered[k] \in Producers
      BY <1>1, <2>1 DEF TableTypes
    <3> DEFINE was == passed[registered[k]]
               now == passed'[registered[k]]
    <3>2. was \in Nat /\ now \in {0, was + 1} /\ (k = queueIndex => now = 0) /\ was <= Behind(k)
          /\ k \in 1 .. Len(registered)
      BY <1>2, <1>3, <3>1
    <3> HIDE DEF was, now
    <3>3. now <= Behind(k)'
      BY <1>4, <2>1, <3>2 DEF Behind, n
    <3> QED BY <3>3 DEF now
  <2>3. \A p \in Producers : producerQueue'[p] = <<>> => passed'[p] = 0
    BY <2>1
  <2> QED BY <2>1, <2>2, <2>3 DEF Turns, Known
<1>8. CASE EndExternal /\ ~Fail
  <2>1. /\ stage = "runExternal" /\ stage' = "external" /\ queueIndex' = queueIndex + 1
        /\ UNCHANGED <<registered, posting, passed>>
        /\ producerQueue' = [producerQueue EXCEPT ![Current] = Tail(producerQueue[Current])]
    BY <1>8 DEF EndExternal, Complete, Continue, postVars
  <2>2. \A k \in DOMAIN registered : passed[registered[k]] <= Behind(k)'
    BY <1>1, <1>2, <1>3, <1>4, <2>1 DEF Behind, n, TableTypes
  <2>3. /\ producerQueue[Current] # <<>> /\ passed[Current] = 0 /\ Current \in Producers
        /\ producerQueue \in [Producers -> Seq(Entries)]
    <3>1. queueIndex \in DOMAIN registered /\ producerQueue[Current] # <<>> /\ Current \in Producers
      BY <1>1, <2>1 DEF LoopInv, Control, Current, TableTypes
    <3>2. Behind(queueIndex) = 0
      BY <1>4, <2>1 DEF Behind
    <3>3. passed[Current] \in Nat /\ passed[Current] <= 0
      BY <1>2, <1>3, <3>1, <3>2 DEF Current
    <3> QED BY <3>1, <3>3, SMTT(30) DEF LoopInv, Typed
  <2>4. \A p \in Producers : producerQueue'[p] = <<>> => passed[p] = 0
    BY <2>1, <2>3 DEF Turns
  <2>5. \A p \in Producers : producerQueue'[p] # <<>> => producerQueue[p] # <<>>
    BY <2>1, <2>3
  <2> QED BY <2>1, <2>2, <2>4, <2>5 DEF Turns, Known
<1>9. CASE ExternalEmpty
  <2>1. /\ stage = "external" /\ stage' = "external" /\ queueIndex' = queueIndex + 1
        /\ queueIndex \in DOMAIN registered
        /\ UNCHANGED <<registered, producerQueue, posting, passed>>
        /\ passed[registered[queueIndex]] = 0
    BY <1>1, <1>4, <1>9 DEF ExternalEmpty, Current, queueVars, postVars, historyVars, TableTypes, Turns
  <2>2. ASSUME NEW k \in DOMAIN registered PROVE passed[registered[k]] <= Behind(k)'
    <3> DEFINE was == passed[registered[k]]
    <3>1. was \in Nat /\ (k = queueIndex => was = 0) /\ was <= Behind(k) /\ k \in 1 .. Len(registered)
      BY <1>2, <1>3, <2>1
    <3> HIDE DEF was
    <3>2. was <= Behind(k)'
      BY <1>4, <2>1, <3>1 DEF Behind, n
    <3> QED BY <3>2 DEF was
  <2> QED BY <2>1, <2>2, MovesOn
<1>10. CASE ExternalDone
  <2>1. CASE EndCycle
    BY <1>10, <2>1, EndCycleTurns DEF ExternalDone, queueVars, postVars
  <2>2. CASE ~EndCycle
    <3>1. /\ stage = "external" /\ stage' = "idle" /\ queueIndex' = queueIndex
          /\ queueIndex > Len(registered)
          /\ UNCHANGED <<registered, producerQueue, posting, passed>>
      BY <1>10, <2>2 DEF ExternalDone, queueVars, postVars
    <3>2. \A k \in DOMAIN registered : passed[registered[k]] <= Behind(k)'
      BY <1>2, <1>3, <1>4, <3>1 DEF Behind, n
    <3> QED BY <3>1, <3>2, MovesOn
  <2> QED BY <2>1, <2>2
<1> QED BY <1>5, <1>6, <1>7, <1>8, <1>9, <1>10

LEMMA TurnsStep == LoopInv /\ LoopInv' /\ Turns /\ [Next]_vars => Turns'
<1> SUFFICES ASSUME LoopInv, LoopInv', Turns, [Next]_vars PROVE Turns'
  OBVIOUS
<1>1. ASSUME UNCHANGED <<registered, producerQueue, posting, passed, queueIndex>>,
             stage' = stage \/ {stage, stage'} \cap {"external", "runExternal"} = {}
      PROVE  Turns'
  <2>1. \A k \in DOMAIN registered : Behind(k)' = Behind(k)
    BY <1>1 DEF Behind
  <2> QED BY <1>1, <2>1, MovesOn DEF Turns
<1>2. ASSUME Fail, UNCHANGED <<registered, producerQueue, posting>> PROVE Turns'
  BY <1>2, NobodyPassed DEF Fail
<1>3. CASE FirePrecision \/ PrecisionDone \/ FireIdle \/ RunLocal
  BY <1>1, <1>3 DEF FirePrecision, PrecisionDone, FireIdle, RunLocal, queueVars, postVars, historyVars
<1>4. CASE EndPrecision \/ EndIdle
  <2>1. CASE Fail
    BY <1>2, <1>4, <2>1 DEF EndPrecision, EndIdle, queueVars, postVars
  <2>2. CASE ~Fail
    BY <1>1, <1>4, <2>2 DEF EndPrecision, EndIdle, Continue, queueVars, postVars
  <2> QED BY <2>1, <2>2
<1>5. CASE Poll
  <2>1. CASE Fail
    BY <1>2, <1>5, <2>1 DEF Poll, queueVars, postVars
  <2>2. CASE ~Fail
    BY <1>1, <1>5, <2>2 DEF Poll, queueVars, postVars
  <2> QED BY <2>1, <2>2
<1>6. CASE LocalEmpty \/ EndLocal \/ RunExternal \/ EndExternal \/ ExternalEmpty \/ ExternalDone
  BY <1>6, RoundTurns
<1>7. CASE IdleDone
  BY <1>7, EndCycleTurns DEF IdleDone, queueVars, postVars
<1>8. CASE Start \/ PumpEvents
  BY <1>1, <1>8 DEF Start, PumpEvents, BeginCycle, queueVars, postVars
<1>9. CASE Stop \/ Tick
  BY <1>1, <1>9 DEF Stop, Tick, loopVars, queueVars, postVars, historyVars
<1>10. ASSUME NEW op \in AllKinds, NEW time \in Times, PostFromLoop(op, time) PROVE Turns'
  BY <1>1, <1>10 DEF PostFromLoop, loopVars, historyVars
<1>11. ASSUME NEW p \in Producers, NEW op \in AllKinds, NEW time \in Times, Post(p, op, time)
       PROVE  Turns'
  BY <1>11, PostTurns
<1>12. ASSUME NEW p \in Producers, PushExternal(p) \/ PushLocal(p) \/ RacingPush(p) PROVE Turns'
  BY <1>12, PushTurns
<1>13. CASE UNCHANGED vars
  BY <1>1, <1>13 DEF vars, loopVars, queueVars, postVars, historyVars
<1> QED BY <1>3, <1>4, <1>5, <1>6, <1>7, <1>8, <1>9, <1>10, <1>11, <1>12, <1>13 DEF Next, LoopStep

LEMMA TurnsInit == Init => Turns
<1> SUFFICES ASSUME Init PROVE Turns
  OBVIOUS
<1>1. DOMAIN registered = {}
  BY EmptySeq DEF Init
<1> QED BY <1>1 DEF Init, Turns

(* While the loop runs, no producer's queue is served twice while another   *)
(* producer waits: fewer actions pass it than there are producers.          *)
THEOREM EveryoneInTurn == Spec => []ServedInTurn
<1>1. Init => LoopInv /\ Turns
  BY LoopInit, TurnsInit
<1>2. LoopInv /\ Turns /\ [Next]_vars => (LoopInv /\ Turns)'
  BY LoopInvStep, TurnsStep
<1>3. ASSUME LoopInv, Turns PROVE ServedInTurn
  <2>1. SUFFICES ASSUME NEW p \in Producers PROVE passed[p] < Cardinality(Producers)
    BY DEF ServedInTurn
  <2>2. Cardinality(Producers) \in Nat /\ Len(registered) <= Cardinality(Producers)
    BY <1>3, TableFits
  <2>3. TableTypes
    BY <1>3, TableTyped
  <2>4. CASE Known(p)
    <3>1. PICK k \in DOMAIN registered : registered[k] = p
      BY <2>4 DEF Known
    <3>2. passed[p] <= Behind(k) /\ Behind(k) \in 0 .. (Len(registered) - 1)
      BY <1>3, <2>3, <3>1, BehindBounds DEF Turns
    <3>3. passed[p] \in Nat /\ Len(registered) \in Nat
      BY <2>3 DEF TableTypes
    <3> QED BY <2>2, <3>2, <3>3
  <2>5. CASE ~Known(p)
    <3>1. passed[p] = 0
      BY <1>3, <2>5 DEF Turns
    <3>2. Cardinality(Producers) # 0
      BY FS_EmptySet, EventQueueAssumption
    <3> QED BY <2>2, <3>1, <3>2
  <2> QED BY <2>4, <2>5
<1> QED BY <1>1, <1>2, <1>3, PTL DEF Spec

-----------------------------------------------------------------------------
(***************************************************************************)
(* The actions of one thread end in the order of its posts.                *)
(***************************************************************************)

(* Where an untimed action can be queued tells how it was posted. *)
LocalOrigins == [op : AllKinds, by : Producers \union {LoopThread}, external : {FALSE}]
QueueOrigins(p) == [op : AllKinds, by : {p}, external : {TRUE}]

(* Queue q holds entries of the first k posts, and the plain ones among     *)
(* them that have one origin are in the order of the posts.                 *)
Kept(q, owners, k, org) ==
    /\ \A n \in DOMAIN q :
          /\ q[n].id \in 1 .. k /\ org[q[n].id].op = q[n].op
          /\ q[n].op = "plain" => org[q[n].id] \in owners
    /\ \A m, n \in DOMAIN q :
          m < n /\ q[m].op = "plain" /\ q[n].op = "plain" /\ org[q[m].id] = org[q[n].id]
              => q[m].id < q[n].id

(* Action i was posted after the plain ones in q that have its origin. *)
Newer(i, q, org) ==
    \A n \in DOMAIN q : q[n].op = "plain" /\ org[q[n].id] = org[i] => q[n].id < i

Holds(q, i) == \E n \in DOMAIN q : q[n].id = i

Queues ==
    /\ Kept(localQueue, LocalOrigins, posts, origin)
    /\ \A p \in Producers : Kept(producerQueue[p], QueueOrigins(p), posts, origin)

PostsUnderWay ==
    \A p \in Producers : posting[p] # NoPost =>
        /\ posting[p].entry.id \in 1 .. posts
        /\ origin[posting[p].entry.id] =
              [op |-> posting[p].entry.op, by |-> p, external |-> posting[p].external]
        /\ Newer(posting[p].entry.id, localQueue, origin)
        /\ Newer(posting[p].entry.id, producerQueue[p], origin)

TimedOnly == \A e \in precisionEvents \union idleEvents :
                 e.id \in 1 .. posts /\ origin[e.id].op # "plain"

(* A plain action that has not run to its end is somewhere. *)
Placed(i) ==
    \/ \E p \in Producers : posting[p] # NoPost /\ posting[p].entry.id = i
    \/ Holds(localQueue, i)
    \/ \E p \in Producers : Holds(producerQueue[p], i)

NothingLost ==
    /\ \A i \in Ids : i > posts => finished[i] = 0
    /\ \A i \in 1 .. posts : origin[i].op = "plain" /\ finished[i] = 0 => Placed(i)

OrderInv == Queues /\ PostsUnderWay /\ TimedOnly /\ NothingLost /\ PostOrder

-----------------------------------------------------------------------------
(* Queues that grow and shrink. *)

LEMMA KeptAppend ==
    ASSUME NEW q \in Seq(Entries), NEW e \in Entries, NEW owners, NEW k \in Nat, NEW org,
           Kept(q, owners, k, org),
           e.id \in 1 .. k, org[e.id].op = e.op, e.op = "plain" => org[e.id] \in owners,
           e.op = "plain" => Newer(e.id, q, org)
    PROVE  Kept(Append(q, e), owners, k, org)
<1>1. /\ Len(Append(q, e)) = Len(q) + 1 /\ Len(q) \in Nat
      /\ \A n \in 1 .. Len(q) : Append(q, e)[n] = q[n]
      /\ Append(q, e)[Len(q) + 1] = e
      /\ DOMAIN q = 1 .. Len(q) /\ DOMAIN Append(q, e) = 1 .. (Len(q) + 1)
  BY AppendProperties
<1> DEFINE r == Append(q, e)
<1> HIDE DEF r
<1>2. \A n \in DOMAIN r : (n \in DOMAIN q /\ r[n] = q[n]) \/ (n = Len(q) + 1 /\ r[n] = e)
  BY <1>1 DEF r
<1>3. \A n \in DOMAIN r : /\ r[n].id \in 1 .. k /\ org[r[n].id].op = r[n].op
                          /\ r[n].op = "plain" => org[r[n].id] \in owners
  BY <1>2 DEF Kept
<1>4. ASSUME NEW m \in DOMAIN r, NEW n \in DOMAIN r,
             m < n, r[m].op = "plain", r[n].op = "plain", org[r[m].id] = org[r[n].id]
      PROVE  r[m].id < r[n].id
  <2>1. m \in DOMAIN q /\ r[m] = q[m]
    BY <1>1, <1>2, <1>4 DEF r
  <2>2. CASE n \in DOMAIN q /\ r[n] = q[n]
    BY <1>4, <2>1, <2>2 DEF Kept
  <2>3. CASE n = Len(q) + 1 /\ r[n] = e
    BY <1>4, <2>1, <2>3 DEF Newer
  <2> QED BY <1>2, <2>2, <2>3
<1> QED BY <1>3, <1>4 DEF Kept, r

LEMMA TailParts ==
    ASSUME NEW q \in Seq(Entries), q # <<>>
    PROVE  /\ Tail(q) \in Seq(Entries) /\ Head(q) = q[1] /\ 1 \in DOMAIN q
           /\ \A n \in DOMAIN Tail(q) : n + 1 \in DOMAIN q /\ Tail(q)[n] = q[n + 1] /\ n \in Nat
           /\ \A n \in DOMAIN q : n = 1 \/ (n - 1 \in DOMAIN Tail(q) /\ Tail(q)[n - 1] = q[n])
           /\ DOMAIN q \subseteq Nat \ {0}
<1>1. /\ Tail(q) \in Seq(Entries) /\ Len(Tail(q)) = Len(q) - 1
      /\ \A n \in 1 .. Len(Tail(q)) : Tail(q)[n] = q[n + 1]
  BY HeadTailProperties
<1>2. /\ Len(q) \in Nat \ {0} /\ DOMAIN q = 1 .. Len(q)
      /\ DOMAIN Tail(q) = 1 .. (Len(q) - 1) /\ Head(q) = q[1]
  BY <1>1, EmptySeq
<1> QED BY <1>1, <1>2

LEMMA KeptTail ==
    ASSUME NEW q \in Seq(Entries), q # <<>>, NEW owners, NEW k \in Nat, NEW org,
           Kept(q, owners, k, org)
    PROVE  Kept(Tail(q), owners, k, org)
<1> DEFINE r == Tail(q)
<1>1. \A n \in DOMAIN r : n + 1 \in DOMAIN q /\ r[n] = q[n + 1] /\ n \in Nat
  BY TailParts
<1> HIDE DEF r
<1>2. \A m, n \in DOMAIN r : m < n => m + 1 < n + 1
  BY <1>1
<1>3. Kept(r, owners, k, org)
  BY <1>1, <1>2 DEF Kept
<1> QED BY <1>3 DEF r

LEMMA NewerTail ==
    ASSUME NEW q \in Seq(Entries), q # <<>>, NEW i, NEW org, Newer(i, q, org)
    PROVE  Newer(i, Tail(q), org)
BY TailParts DEF Newer

LEMMA HoldsTail ==
    ASSUME NEW q \in Seq(Entries), q # <<>>, NEW i, Holds(q, i), i # Head(q).id
    PROVE  Holds(Tail(q), i)
<1>1. PICK n \in DOMAIN q : q[n].id = i
  BY DEF Holds
<1>2. n # 1
  BY <1>1, TailParts
<1>3. n - 1 \in DOMAIN Tail(q) /\ Tail(q)[n - 1] = q[n]
  BY <1>2, TailParts
<1> QED BY <1>1, <1>3 DEF Holds

LEMMA AppendParts ==
    ASSUME NEW q \in Seq(Entries), NEW e \in Entries
    PROVE  /\ \A i : Holds(q, i) \/ i = e.id => Holds(Append(q, e), i)
           /\ \A i, org : Newer(i, q, org) /\ (e.op = "plain" => org[e.id] # org[i])
                              => Newer(i, Append(q, e), org)
<1>1. /\ \A n \in DOMAIN q : n \in DOMAIN Append(q, e) /\ Append(q, e)[n] = q[n]
      /\ Len(q) + 1 \in DOMAIN Append(q, e) /\ Append(q, e)[Len(q) + 1] = e
      /\ \A n \in DOMAIN Append(q, e) : n \in DOMAIN q \/ n = Len(q) + 1
  BY AppendProperties
<1>2. \A i : Holds(q, i) \/ i = e.id => Holds(Append(q, e), i)
  BY <1>1 DEF Holds
<1>3. ASSUME NEW i, NEW org, Newer(i, q, org), e.op = "plain" => org[e.id] # org[i]
      PROVE  Newer(i, Append(q, e), org)
  <2>1. SUFFICES ASSUME NEW n \in DOMAIN Append(q, e), Append(q, e)[n].op = "plain",
                        org[Append(q, e)[n].id] = org[i]
                 PROVE  Append(q, e)[n].id < i
    BY DEF Newer
  <2>2. CASE n \in DOMAIN q
    BY <1>1, <1>3, <2>1, <2>2 DEF Newer
  <2>3. CASE n = Len(q) + 1
    BY <1>1, <1>3, <2>1, <2>3
  <2> QED BY <1>1, <2>2, <2>3
<1> QED BY <1>2, <1>3

(* A new post changes nothing for the entries that are queued. *)
LEMMA KeptPost ==
    ASSUME NEW q \in Seq(Entries), NEW owners, NEW k \in Nat, NEW org, NEW new,
           Kept(q, owners, k, org), \A i \in 1 .. k : new[i] = org[i]
    PROVE  /\ Kept(q, owners, k + 1, new) /\ Newer(k + 1, q, new)
           /\ \A i \in 1 .. k : Newer(i, q, org) => Newer(i, q, new)
<1>1. \A n \in DOMAIN q : q[n].id \in 1 .. k /\ new[q[n].id] = org[q[n].id]
  BY DEF Kept
<1>2. \A i \in 1 .. k : i \in 1 .. (k + 1) /\ i < k + 1
  OBVIOUS
<1>3. Kept(q, owners, k + 1, new)
  BY <1>1, <1>2 DEF Kept
<1>4. Newer(k + 1, q, new)
  BY <1>1, <1>2 DEF Newer
<1>5. \A i \in 1 .. k : Newer(i, q, org) => Newer(i, q, new)
  BY <1>1 DEF Newer
<1> QED BY <1>3, <1>4, <1>5

-----------------------------------------------------------------------------
(* Posting. *)

LEMMA Recent ==
    ASSUME LoopInv
    PROVE  /\ posts \in Nat /\ 1 .. posts \subseteq Ids
           /\ localQueue \in Seq(Entries) /\ \A p \in Producers : producerQueue[p] \in Seq(Entries)
           /\ \A p \in Producers : posting[p] # NoPost =>
                 posting[p] \in [entry : Entries, external : BOOLEAN]
           /\ finished \in [Ids -> Nat]
           /\ DOMAIN origin = Ids
BY EventQueueAssumption DEF LoopInv, Typed, Ids

(* Storing an entry of the last post, or of a post that ends. *)
LEMMA StoreOrder ==
    ASSUME NEW q \in Seq(Entries), NEW e \in Entries, NEW k \in Nat, NEW org,
           q = localQueue, StoreLocally(e), Kept(q, LocalOrigins, k, org),
           e.id \in 1 .. k, org[e.id].op = e.op, e.op = "plain" => org[e.id] \in LocalOrigins,
           e.op = "plain" => Newer(e.id, q, org),
           \A x \in precisionEvents \union idleEvents : x.id \in 1 .. k /\ org[x.id].op # "plain"
    PROVE  /\ Kept(localQueue', LocalOrigins, k, org)
           /\ \A i : Holds(localQueue, i) \/ (e.op = "plain" /\ i = e.id) => Holds(localQueue', i)
           /\ \A i : Newer(i, localQueue, org) /\ (e.op = "plain" => org[e.id] # org[i])
                        => Newer(i, localQueue', org)
           /\ \A x \in (precisionEvents \union idleEvents)' : x.id \in 1 .. k /\ org[x.id].op # "plain"
<1>1. \A x \in (precisionEvents \union idleEvents)' : x.id \in 1 .. k /\ org[x.id].op # "plain"
  <2>1. ASSUME NEW x \in (precisionEvents \union idleEvents)'
        PROVE  x \in precisionEvents \union idleEvents \/ (x.id = e.id /\ e.op # "plain")
    BY DEF StoreLocally, Event
  <2> QED BY <2>1
<1>2. CASE e.op = "precision"
  BY <1>1, <1>2 DEF StoreLocally
<1>3. CASE e.op # "precision"
  <2>1. localQueue' = Append(q, e)
    BY <1>3 DEF StoreLocally
  <2> QED BY <1>1, <2>1, KeptAppend, AppendParts
<1> QED BY <1>2, <1>3

LEMMA PostFromLoopOrder ==
    ASSUME LoopInv, OrderInv, NEW op \in AllKinds, NEW time \in Times, PostFromLoop(op, time)
    PROVE  OrderInv'
<1> DEFINE e == [id |-> posts + 1, op |-> op, time |-> time]
           k == posts
<1>1. posts + 1 \in Ids /\ e \in Entries /\ k \in Nat
  BY PostTypes, Recent DEF PostFromLoop
<1>2. /\ e.id = k + 1 /\ e.op = op /\ posts' = k + 1 /\ StoreLocally(e)
      /\ origin' = [origin EXCEPT ![k + 1] = [op |-> op, by |-> LoopThread, external |-> FALSE]]
      /\ UNCHANGED <<producerQueue, posting, finished>>
  BY DEF PostFromLoop, historyVars
<1>3. /\ \A i \in 1 .. k : origin'[i] = origin[i] /\ i \in 1 .. (k + 1) /\ i # k + 1
      /\ origin'[k + 1] = [op |-> op, by |-> LoopThread, external |-> FALSE]
      /\ \A i \in 1 .. (k + 1) : i \in 1 .. k \/ i = k + 1
      /\ k + 1 \in 1 .. (k + 1)
  BY <1>1, <1>2, Recent
<1> HIDE DEF e, k
<1>4. /\ Kept(localQueue, LocalOrigins, k + 1, origin') /\ Newer(k + 1, localQueue, origin')
      /\ \A i \in 1 .. k : Newer(i, localQueue, origin) => Newer(i, localQueue, origin')
  BY <1>1, <1>3, Recent, KeptPost DEF OrderInv, Queues, k
<1>5. \A p \in Producers :
         /\ Kept(producerQueue[p], QueueOrigins(p), k + 1, origin')
         /\ \A i \in 1 .. k : Newer(i, producerQueue[p], origin) => Newer(i, producerQueue[p], origin')
  BY <1>1, <1>3, Recent, KeptPost DEF OrderInv, Queues, k
<1>6. \A x \in precisionEvents \union idleEvents : x.id \in 1 .. (k + 1) /\ origin'[x.id].op # "plain"
  BY <1>3 DEF OrderInv, TimedOnly, k
<1>7. origin'[e.id] \in LocalOrigins /\ origin'[e.id].op = e.op
  <2>1. origin'[e.id] = [op |-> op, by |-> LoopThread, external |-> FALSE]
    BY <1>2, <1>3
  <2>2. [op |-> op, by |-> LoopThread, external |-> FALSE] \in LocalOrigins
    BY DEF LocalOrigins
  <2> QED BY <1>2, <2>1, <2>2
<1>8. /\ Kept(localQueue', LocalOrigins, k + 1, origin')
      /\ \A i : Holds(localQueue, i) \/ (e.op = "plain" /\ i = e.id) => Holds(localQueue', i)
      /\ \A i : Newer(i, localQueue, origin') /\ (e.op = "plain" => origin'[e.id] # origin'[i])
                   => Newer(i, localQueue', origin')
      /\ \A x \in (precisionEvents \union idleEvents)' :
            x.id \in 1 .. (k + 1) /\ origin'[x.id].op # "plain"
  <2>1. /\ k + 1 \in Nat /\ localQueue \in Seq(Entries) /\ e \in Entries /\ e.id \in 1 .. (k + 1)
        /\ Newer(e.id, localQueue, origin') /\ StoreLocally(e)
    BY <1>1, <1>2, <1>3, <1>4, Recent
  <2> QED BY <1>4, <1>6, <1>7, <2>1, StoreOrder
<1>9. Queues'
  BY <1>2, <1>5, <1>8 DEF Queues
<1>10. PostsUnderWay'
  <2>1. SUFFICES ASSUME NEW p \in Producers, posting[p] # NoPost
        PROVE  /\ posting[p].entry.id \in 1 .. (k + 1)
               /\ origin'[posting[p].entry.id] =
                     [op |-> posting[p].entry.op, by |-> p, external |-> posting[p].external]
               /\ Newer(posting[p].entry.id, localQueue', origin')
               /\ Newer(posting[p].entry.id, producerQueue[p], origin')
    BY <1>2 DEF PostsUnderWay
  <2> DEFINE i == posting[p].entry.id
  <2>2. /\ i \in 1 .. k /\ Newer(i, localQueue, origin) /\ Newer(i, producerQueue[p], origin)
        /\ origin[i] = [op |-> posting[p].entry.op, by |-> p, external |-> posting[p].external]
    BY <2>1 DEF OrderInv, PostsUnderWay, k
  <2> HIDE DEF i
  <2>3. origin'[i] = origin[i] /\ origin'[i].by = p
    BY <1>3, <2>2
  <2>4. origin'[e.id] # origin'[i]
    BY <1>2, <1>3, <2>3, EventQueueAssumption
  <2>5. Newer(i, localQueue', origin') /\ Newer(i, producerQueue[p], origin')
    BY <1>4, <1>5, <1>8, <2>2, <2>4
  <2> QED BY <1>3, <2>2, <2>3, <2>5 DEF i
<1>11. TimedOnly'
  BY <1>2, <1>8 DEF TimedOnly
<1>12. NothingLost'
  <2>1. \A i \in Ids : i > posts' => finished'[i] = 0
    BY <1>1, <1>2 DEF OrderInv, NothingLost, k, Ids
  <2>2. ASSUME NEW i \in 1 .. (k + 1), origin'[i].op = "plain", finished[i] = 0 PROVE Placed(i)'
    <3>1. CASE i = k + 1
      BY <1>2, <1>3, <1>8, <2>2, <3>1 DEF Placed
    <3>2. CASE i \in 1 .. k
      <4>1. Placed(i)
        BY <1>3, <2>2, <3>2 DEF OrderInv, NothingLost, k
      <4> QED BY <1>2, <1>8, <4>1 DEF Placed
    <3> QED BY <1>3, <3>1, <3>2
  <2> QED BY <1>2, <2>1, <2>2 DEF NothingLost
<1>13. PostOrder'
  <2>1. finished[k + 1] = 0
    BY <1>1 DEF OrderInv, NothingLost, k
  <2>2. ASSUME NEW i \in 1 .. (k + 1), NEW j \in 1 .. (k + 1),
               i < j, origin'[i] = origin'[j], origin'[i].op = "plain", finished[j] > 0
        PROVE  finished[i] > 0
    <3>1. j \in 1 .. k /\ i \in 1 .. k
      BY <1>1, <1>3, <2>1, <2>2
    <3> QED BY <1>3, <2>2, <3>1 DEF OrderInv, PostOrder, k
  <2> QED BY <1>2, <2>2 DEF PostOrder
<1> QED BY <1>9, <1>10, <1>11, <1>12, <1>13 DEF OrderInv

LEMMA PostOrderStep ==
    ASSUME LoopInv, OrderInv, NEW p \in Producers, NEW op \in AllKinds, NEW time \in Times,
           Post(p, op, time)
    PROVE  OrderInv'
<1> DEFINE e == [id |-> posts + 1, op |-> op, time |-> time]
           k == posts
           o == [op |-> op, by |-> p, external |-> active]
<1>1. posts + 1 \in Ids /\ e \in Entries /\ k \in Nat
  BY PostTypes, Recent DEF Post
<1>2. /\ e.id = k + 1 /\ e.op = op /\ posts' = k + 1
      /\ posting' = [posting EXCEPT ![p] = [entry |-> e, external |-> active]]
      /\ origin' = [origin EXCEPT ![k + 1] = o] /\ o.op = op
      /\ posting[p] = NoPost
      /\ UNCHANGED <<localQueue, producerQueue, finished, precisionEvents, idleEvents>>
  BY DEF Post, historyVars, timedVars
<1>3. /\ \A i \in 1 .. k : origin'[i] = origin[i] /\ i \in 1 .. (k + 1) /\ i # k + 1
      /\ origin'[k + 1] = o
      /\ \A i \in 1 .. (k + 1) : i \in 1 .. k \/ i = k + 1
      /\ k + 1 \in 1 .. (k + 1)
  BY <1>1, <1>2, Recent
<1>4. /\ posting'[p] = [entry |-> e, external |-> active]
      /\ \A q \in Producers : q # p => posting'[q] = posting[q]
      /\ [entry |-> e, external |-> active] # NoPost
  <2>1. DOMAIN posting = Producers /\ active \in BOOLEAN
    BY DEF LoopInv, Typed
  <2>2. [entry |-> e, external |-> active] \in [entry : Entries, external : BOOLEAN]
    BY <1>1, <2>1
  <2> QED BY <1>2, <2>1, <2>2, EventQueueAssumption DEF Entries
<1> DEFINE new == [entry |-> e, external |-> active]
<1>5. new.entry = e /\ new.external = active
  OBVIOUS
<1> HIDE DEF e, k, new
<1>6. /\ Kept(localQueue, LocalOrigins, k + 1, origin') /\ Newer(k + 1, localQueue, origin')
      /\ \A i \in 1 .. k : Newer(i, localQueue, origin) => Newer(i, localQueue, origin')
  BY <1>1, <1>3, Recent, KeptPost DEF OrderInv, Queues, k
<1>7. \A q \in Producers :
         /\ Kept(producerQueue[q], QueueOrigins(q), k + 1, origin')
         /\ Newer(k + 1, producerQueue[q], origin')
         /\ \A i \in 1 .. k : Newer(i, producerQueue[q], origin) => Newer(i, producerQueue[q], origin')
  BY <1>1, <1>3, Recent, KeptPost DEF OrderInv, Queues, k
<1>8. Queues'
  BY <1>2, <1>6, <1>7 DEF Queues
<1>9. PostsUnderWay'
  <2>1. ASSUME NEW q \in Producers, posting'[q] # NoPost
        PROVE  /\ posting'[q].entry.id \in 1 .. (k + 1)
               /\ origin'[posting'[q].entry.id] =
                     [op |-> posting'[q].entry.op, by |-> q, external |-> posting'[q].external]
               /\ Newer(posting'[q].entry.id, localQueue, origin')
               /\ Newer(posting'[q].entry.id, producerQueue[q], origin')
    <3>1. CASE q = p
      <4>1. posting'[q] = new
        BY <1>4, <3>1 DEF new
      <4>2. posting'[q].entry.id = k + 1 /\ posting'[q].entry.op = op /\ posting'[q].external = active
        BY <1>2, <1>5, <4>1
      <4>3. Newer(k + 1, localQueue, origin') /\ Newer(k + 1, producerQueue[q], origin')
        BY <1>6, <1>7
      <4>4. k + 1 \in 1 .. (k + 1) /\ origin'[k + 1] = [op |-> op, by |-> q, external |-> active]
        BY <1>3, <3>1
      <4> HIDE DEF o
      <4> QED BY <4>2, <4>3, <4>4
    <3>2. CASE q # p
      <4> DEFINE i == posting[q].entry.id
      <4>1. posting'[q] = posting[q]
        BY <1>4, <3>2
      <4>2. /\ i \in 1 .. k /\ Newer(i, localQueue, origin) /\ Newer(i, producerQueue[q], origin)
            /\ origin[i] = [op |-> posting[q].entry.op, by |-> q, external |-> posting[q].external]
        BY <2>1, <4>1 DEF OrderInv, PostsUnderWay, k
      <4> HIDE DEF i
      <4>3. i \in 1 .. (k + 1) /\ origin'[i] = origin[i]
            /\ Newer(i, localQueue, origin') /\ Newer(i, producerQueue[q], origin')
        BY <1>3, <1>6, <1>7, <4>2
      <4> QED BY <4>1, <4>2, <4>3 DEF i
    <3> QED BY <3>1, <3>2
  <2> QED BY <1>2, <2>1 DEF PostsUnderWay
<1>10. TimedOnly'
  <2>1. \A x \in precisionEvents \union idleEvents : x.id \in 1 .. k /\ origin[x.id].op # "plain"
    BY DEF OrderInv, TimedOnly, k
  <2> QED BY <1>2, <1>3, <2>1 DEF TimedOnly
<1>11. NothingLost'
  <2>1. \A i \in Ids : i > posts' => finished'[i] = 0
    BY <1>1, <1>2 DEF OrderInv, NothingLost, k, Ids
  <2>2. ASSUME NEW i \in 1 .. (k + 1), origin'[i].op = "plain", finished[i] = 0 PROVE Placed(i)'
    <3>1. CASE i = k + 1
      <4>1. posting'[p] = new /\ new # NoPost /\ new.entry.id = i
        BY <1>2, <1>4, <1>5, <3>1 DEF new
      <4> QED BY <4>1 DEF Placed
    <3>2. CASE i \in 1 .. k
      <4>1. Placed(i)
        BY <1>3, <2>2, <3>2 DEF OrderInv, NothingLost, k
      <4>2. \A q \in Producers : posting[q] # NoPost => posting'[q] = posting[q]
        BY <1>2, <1>4
      <4> QED BY <1>2, <4>1, <4>2 DEF Placed
    <3> QED BY <1>3, <3>1, <3>2
  <2> QED BY <1>2, <2>1, <2>2 DEF NothingLost
<1>12. PostOrder'
  <2>1. finished[k + 1] = 0
    BY <1>1 DEF OrderInv, NothingLost, k
  <2>2. ASSUME NEW i \in 1 .. (k + 1), NEW j \in 1 .. (k + 1),
               i < j, origin'[i] = origin'[j], origin'[i].op = "plain", finished[j] > 0
        PROVE  finished[i] > 0
    <3>1. j \in 1 .. k /\ i \in 1 .. k
      BY <1>1, <1>3, <2>1, <2>2
    <3> QED BY <1>3, <2>2, <3>1 DEF OrderInv, PostOrder, k
  <2> QED BY <1>2, <2>2 DEF PostOrder
<1> QED BY <1>8, <1>9, <1>10, <1>11, <1>12 DEF OrderInv

(* The entry of a post under way. *)
LEMMA Underway ==
    ASSUME LoopInv, OrderInv, NEW p \in Producers, posting[p] # NoPost
    PROVE  /\ posting[p].entry \in Entries /\ posting[p].external \in BOOLEAN
           /\ posting[p].entry.id \in 1 .. posts
           /\ origin[posting[p].entry.id] =
                 [op |-> posting[p].entry.op, by |-> p, external |-> posting[p].external]
           /\ Newer(posting[p].entry.id, localQueue, origin)
           /\ Newer(posting[p].entry.id, producerQueue[p], origin)
BY Recent DEF OrderInv, PostsUnderWay

LEMMA PushExternalOrder ==
    ASSUME LoopInv, OrderInv, NEW p \in Producers, PushExternal(p)
    PROVE  OrderInv'
<1> DEFINE e == posting[p].entry
<1>1. /\ e \in Entries /\ e.id \in 1 .. posts
      /\ origin[e.id] = [op |-> e.op, by |-> p, external |-> TRUE]
      /\ Newer(e.id, producerQueue[p], origin)
  BY Underway DEF PushExternal
<1>2. /\ producerQueue' = [producerQueue EXCEPT ![p] = Append(producerQueue[p], e)]
      /\ posting' = [posting EXCEPT ![p] = NoPost]
      /\ UNCHANGED <<localQueue, posts, origin, finished, precisionEvents, idleEvents>>
  BY DEF PushExternal, timedVars, historyVars
<1> HIDE DEF e
<1>3. /\ producerQueue'[p] = Append(producerQueue[p], e) /\ posting'[p] = NoPost
      /\ \A q \in Producers \ {p} : producerQueue'[q] = producerQueue[q] /\ posting'[q] = posting[q]
  <2>1. DOMAIN producerQueue = Producers /\ DOMAIN posting = Producers
    BY DEF LoopInv, Typed
  <2> QED BY <1>2, <2>1
<1>4. Queues'
  <2>1. origin[e.id] \in QueueOrigins(p)
    BY <1>1 DEF QueueOrigins, Entries
  <2>2. Kept(Append(producerQueue[p], e), QueueOrigins(p), posts, origin)
    BY <1>1, <2>1, Recent, KeptAppend DEF OrderInv, Queues
  <2> QED BY <1>2, <1>3, <2>2 DEF OrderInv, Queues
<1>5. PostsUnderWay'
  BY <1>2, <1>3 DEF OrderInv, PostsUnderWay
<1>6. TimedOnly' /\ PostOrder'
  BY <1>2 DEF OrderInv, TimedOnly, PostOrder
<1>7. NothingLost'
  <2>1. \A i : Holds(producerQueue[p], i) \/ i = e.id => Holds(producerQueue'[p], i)
    BY <1>1, <1>3, Recent, AppendParts
  <2>2. \A i : Placed(i) => Placed(i)'
    BY <1>2, <1>3, <2>1 DEF Placed, e
  <2> QED BY <1>2, <2>2 DEF OrderInv, NothingLost
<1> QED BY <1>4, <1>5, <1>6, <1>7 DEF OrderInv

LEMMA PushLocalOrder ==
    ASSUME LoopInv, OrderInv, NEW p \in Producers, PushLocal(p)
    PROVE  OrderInv'
<1> DEFINE e == posting[p].entry
<1>1. /\ e \in Entries /\ e.id \in 1 .. posts
      /\ origin[e.id] = [op |-> e.op, by |-> p, external |-> FALSE]
      /\ Newer(e.id, localQueue, origin)
  BY Underway DEF PushLocal, PushesLocally
<1>2. /\ StoreLocally(e)
      /\ posting' = [posting EXCEPT ![p] = NoPost]
      /\ UNCHANGED <<producerQueue, posts, origin, finished>>
  BY DEF PushLocal, historyVars
<1> HIDE DEF e
<1>3. posting'[p] = NoPost /\ \A q \in Producers \ {p} : posting'[q] = posting[q]
  BY <1>2 DEF LoopInv, Typed
<1>4. /\ Kept(localQueue', LocalOrigins, posts, origin)
      /\ \A i : Holds(localQueue, i) \/ (e.op = "plain" /\ i = e.id) => Holds(localQueue', i)
      /\ \A i : Newer(i, localQueue, origin) /\ (e.op = "plain" => origin[e.id] # origin[i])
                   => Newer(i, localQueue', origin)
      /\ \A x \in (precisionEvents \union idleEvents)' : x.id \in 1 .. posts /\ origin[x.id].op # "plain"
  <2>1. origin[e.id] \in LocalOrigins /\ origin[e.id].op = e.op
    BY <1>1 DEF LocalOrigins, Entries
  <2>2. posts \in Nat /\ localQueue \in Seq(Entries) /\ Kept(localQueue, LocalOrigins, posts, origin)
    BY Recent DEF OrderInv, Queues
  <2>3. \A x \in precisionEvents \union idleEvents : x.id \in 1 .. posts /\ origin[x.id].op # "plain"
    BY DEF OrderInv, TimedOnly
  <2> QED BY <1>1, <1>2, <2>1, <2>2, <2>3, StoreOrder
<1>5. Queues'
  BY <1>2, <1>4 DEF OrderInv, Queues
<1>6. PostsUnderWay'
  <2>1. SUFFICES ASSUME NEW q \in Producers, posting'[q] # NoPost
        PROVE  /\ posting[q].entry.id \in 1 .. posts
               /\ origin[posting[q].entry.id] =
                     [op |-> posting[q].entry.op, by |-> q, external |-> posting[q].external]
               /\ Newer(posting[q].entry.id, localQueue', origin)
               /\ Newer(posting[q].entry.id, producerQueue[q], origin)
    BY <1>2, <1>3 DEF PostsUnderWay
  <2>2. q # p /\ posting[q] # NoPost
    BY <1>3, <2>1
  <2> DEFINE i == posting[q].entry.id
  <2>3. /\ i \in 1 .. posts
        /\ origin[i] = [op |-> posting[q].entry.op, by |-> q, external |-> posting[q].external]
        /\ Newer(i, localQueue, origin) /\ Newer(i, producerQueue[q], origin)
    BY <2>2, Underway
  <2> HIDE DEF i
  <2>4. origin[e.id] # origin[i]
    BY <1>1, <2>2, <2>3
  <2>5. Newer(i, localQueue', origin)
    BY <1>4, <2>3, <2>4
  <2> QED BY <2>3, <2>5 DEF i
<1>7. TimedOnly' /\ PostOrder'
  BY <1>2, <1>4 DEF OrderInv, TimedOnly, PostOrder
<1>8. NothingLost'
  <2>1. \A i : origin[i].op = "plain" /\ Placed(i) => Placed(i)'
    <3>1. SUFFICES ASSUME NEW i, origin[i].op = "plain", Placed(i) PROVE Placed(i)'
      OBVIOUS
    <3>2. CASE i = e.id
      <4>1. e.op = "plain"
        BY <1>1, <3>1, <3>2
      <4> QED BY <1>4, <3>2, <4>1 DEF Placed
    <3>3. CASE i # e.id
      BY <1>2, <1>3, <1>4, <3>1, <3>3 DEF Placed, e
    <3> QED BY <3>2, <3>3
  <2> QED BY <1>2, <2>1 DEF OrderInv, NothingLost
<1> QED BY <1>5, <1>6, <1>7, <1>8 DEF OrderInv

-----------------------------------------------------------------------------
(* Running. *)

(* A plain action at the front of a queue is the oldest of its origin. *)
LEMMA OldestLocal ==
    ASSUME LoopInv, OrderInv, localQueue # <<>>, NEW i \in 1 .. posts,
           origin[i].op = "plain", origin[i] = origin[Head(localQueue).id], i < Head(localQueue).id
    PROVE  finished[i] > 0
<1>1. finished[i] \in Nat /\ localQueue \in Seq(Entries)
  BY Recent
<1>2. /\ Head(localQueue) = localQueue[1] /\ 1 \in DOMAIN localQueue
      /\ \A n \in DOMAIN localQueue : n \in Nat \ {0}
  BY <1>1, TailParts
<1>3. Kept(localQueue, LocalOrigins, posts, origin)
  BY DEF OrderInv, Queues
<1> DEFINE j == localQueue[1].id
<1>4. j \in 1 .. posts /\ localQueue[1].op = "plain" /\ origin[j].external = FALSE
  <2>1. /\ localQueue[1].id \in 1 .. posts /\ origin[localQueue[1].id].op = localQueue[1].op
        /\ localQueue[1].op = "plain" => origin[localQueue[1].id] \in LocalOrigins
    BY <1>2, <1>3 DEF Kept
  <2>2. localQueue[1].op = "plain"
    BY <1>2, <2>1
  <2> QED BY <2>1, <2>2 DEF LocalOrigins
<1>5. ASSUME NEW p \in Producers, posting[p] # NoPost, posting[p].entry.id = i PROVE FALSE
  <2>1. j < i
    BY <1>2, <1>4, <1>5 DEF OrderInv, PostsUnderWay, Newer
  <2> QED BY <1>2, <1>4, <2>1
<1>6. ASSUME Holds(localQueue, i) PROVE FALSE
  <2>1. PICK n \in DOMAIN localQueue : localQueue[n].id = i
    BY <1>6 DEF Holds
  <2>2. localQueue[n].op = "plain" /\ n # 1 /\ n > 1
    BY <1>2, <1>3, <1>4, <2>1 DEF Kept
  <2>3. j < i
    BY <1>2, <1>3, <1>4, <2>1, <2>2 DEF Kept
  <2> QED BY <1>2, <1>4, <2>3
<1>7. ASSUME NEW p \in Producers, Holds(producerQueue[p], i) PROVE FALSE
  <2>1. Kept(producerQueue[p], QueueOrigins(p), posts, origin)
    BY DEF OrderInv, Queues
  <2>2. origin[i].external = TRUE
    BY <1>7, <2>1 DEF Kept, Holds, QueueOrigins
  <2> QED BY <1>2, <1>4, <2>2
<1>8. ~Placed(i)
  BY <1>5, <1>6, <1>7 DEF Placed
<1> QED BY <1>1, <1>8 DEF OrderInv, NothingLost

LEMMA OldestExternal ==
    ASSUME LoopInv, OrderInv, NEW p \in Producers, producerQueue[p] # <<>>, NEW i \in 1 .. posts,
           origin[i].op = "plain", origin[i] = origin[Head(producerQueue[p]).id],
           i < Head(producerQueue[p]).id
    PROVE  finished[i] > 0
<1> DEFINE queue == producerQueue[p]
<1>1. finished[i] \in Nat /\ queue \in Seq(Entries)
  BY Recent
<1>2. /\ Head(queue) = queue[1] /\ 1 \in DOMAIN queue
      /\ \A n \in DOMAIN queue : n \in Nat \ {0}
  BY <1>1, TailParts
<1>3. Kept(queue, QueueOrigins(p), posts, origin)
  BY DEF OrderInv, Queues
<1> DEFINE j == queue[1].id
<1>4. /\ j \in 1 .. posts /\ queue[1].op = "plain"
      /\ origin[j].external = TRUE /\ origin[j].by = p
  <2>1. /\ queue[1].id \in 1 .. posts /\ origin[queue[1].id].op = queue[1].op
        /\ queue[1].op = "plain" => origin[queue[1].id] \in QueueOrigins(p)
    BY <1>2, <1>3 DEF Kept
  <2>2. queue[1].op = "plain"
    BY <1>2, <2>1
  <2> QED BY <2>1, <2>2 DEF QueueOrigins
<1>5. ASSUME NEW q \in Producers, posting[q] # NoPost, posting[q].entry.id = i PROVE FALSE
  <2>1. origin[i].by = q /\ Newer(i, producerQueue[q], origin) /\ origin[i] = origin[j]
    <3>1. origin[i] = [op |-> posting[q].entry.op, by |-> q, external |-> posting[q].external]
      BY <1>5, Underway
    <3>2. Newer(i, producerQueue[q], origin)
      BY <1>5, Underway
    <3>3. origin[i] = origin[j]
      BY <1>2
    <3> QED BY <3>1, <3>2, <3>3
  <2>2. Newer(i, queue, origin)
    BY <1>4, <2>1
  <2>3. j < i
    BY <1>2, <1>4, <2>1, <2>2 DEF Newer
  <2> QED BY <1>2, <1>4, <2>3
<1>6. ASSUME NEW q \in Producers, Holds(producerQueue[q], i) PROVE FALSE
  <2>1. Kept(producerQueue[q], QueueOrigins(q), posts, origin)
    BY DEF OrderInv, Queues
  <2>2. PICK n \in DOMAIN producerQueue[q] : producerQueue[q][n].id = i
    BY <1>6 DEF Holds
  <2>3. producerQueue[q][n].op = "plain" /\ origin[i].by = q
    BY <2>1, <2>2 DEF Kept, QueueOrigins
  <2>4. q = p /\ n \in DOMAIN queue /\ queue[n].id = i /\ n # 1 /\ n > 1
    BY <1>2, <1>4, <2>2, <2>3
  <2>5. j < i
    BY <1>2, <1>3, <1>4, <2>3, <2>4 DEF Kept
  <2> QED BY <1>2, <1>4, <2>5
<1>7. ASSUME Holds(localQueue, i) PROVE FALSE
  <2>1. Kept(localQueue, LocalOrigins, posts, origin)
    BY DEF OrderInv, Queues
  <2>2. origin[i].external = FALSE
    BY <1>7, <2>1 DEF Kept, Holds, LocalOrigins
  <2> QED BY <1>2, <1>4, <2>2
<1>8. ~Placed(i)
  BY <1>5, <1>6, <1>7 DEF Placed
<1> QED BY <1>1, <1>8 DEF OrderInv, NothingLost

(* What running an entry leaves of the invariant, for a local queue that    *)
(* has lost the entry or had none. *)
LEMMA CompleteOrder ==
    ASSUME LoopInv, OrderInv, NEW e \in Entries, NEW queue \in Seq(Entries), NEW next,
           Complete(e, queue, next),
           Kept(queue, LocalOrigins, posts, origin), e.id \in 1 .. posts, origin[e.id].op = e.op
    PROVE  /\ Kept(localQueue', LocalOrigins, posts, origin)
           /\ \A i : Newer(i, queue, origin) => Newer(i, localQueue', origin)
           /\ \A i : Holds(queue, i) => Holds(localQueue', i)
           /\ \A x \in (precisionEvents \union idleEvents)' : x.id \in 1 .. posts /\ origin[x.id].op # "plain"
           /\ finished' = finished \/ finished' = [finished EXCEPT ![e.id] = finished[e.id] + 1]
           /\ e.op = "plain" => finished' = [finished EXCEPT ![e.id] = finished[e.id] + 1]
<1>1. \A x \in precisionEvents \union idleEvents : x.id \in 1 .. posts /\ origin[x.id].op # "plain"
  BY DEF OrderInv, TimedOnly
<1>2. posts \in Nat
  BY Recent
<1>3. CASE /\ e.op = "async" /\ localQueue' = Append(queue, e)
           /\ UNCHANGED <<finished, timedVars>>
  <2>1. Kept(Append(queue, e), LocalOrigins, posts, origin)
    BY <1>2, <1>3, KeptAppend
  <2>2. /\ \A i : Newer(i, queue, origin) => Newer(i, Append(queue, e), origin)
        /\ \A i : Holds(queue, i) => Holds(Append(queue, e), i)
    BY <1>3, AppendParts
  <2> QED BY <1>1, <1>3, <2>1, <2>2 DEF timedVars
<1>4. CASE /\ ~Forwarding(e) /\ localQueue' = queue
           /\ finished' = [finished EXCEPT ![e.id] = finished[e.id] + 1] /\ UNCHANGED timedVars
  BY <1>1, <1>4 DEF timedVars
<1>5. CASE /\ e.op \in {"precision", "idle"} /\ localQueue' = queue /\ UNCHANGED finished
           /\ (precisionEvents \union idleEvents)' = precisionEvents \union idleEvents \union {Event(e, "queue")}
  <2>1. Event(e, "queue").id = e.id
    BY DEF Event
  <2> QED BY <1>1, <1>5, <2>1
<1> QED BY <1>3, <1>4, <1>5 DEF Complete

(* An entry that has run to its end was the oldest of its origin, and every *)
(* other plain action is where it was. *)
LEMMA FinishedInOrder ==
    ASSUME LoopInv, OrderInv, NEW k \in 1 .. posts, UNCHANGED <<posts, origin>>,
           \/ finished' = finished /\ origin[k].op # "plain"
           \/ finished' = [finished EXCEPT ![k] = finished[k] + 1],
           \A i \in 1 .. posts :
               origin[i].op = "plain" /\ origin[i] = origin[k] /\ i < k => finished[i] > 0,
           \A i \in 1 .. posts : origin[i].op = "plain" /\ Placed(i) /\ i # k => Placed(i)'
    PROVE  NothingLost' /\ PostOrder'
<1>1. finished \in [Ids -> Nat] /\ 1 .. posts \subseteq Ids /\ posts \in Nat
  BY Recent
<1>2. /\ \A i \in Ids : i # k => finished'[i] = finished[i]
      /\ \A i \in Ids : finished[i] > 0 => finished'[i] > 0
      /\ origin[k].op = "plain" => finished'[k] > 0
  BY <1>1
<1>3. NothingLost'
  <2>1. \A i \in Ids : i > posts => i # k
    BY <1>1
  <2>2. \A i \in Ids : i > posts => finished'[i] = 0
    BY <1>2, <2>1 DEF OrderInv, NothingLost
  <2>3. ASSUME NEW i \in 1 .. posts, origin[i].op = "plain", finished'[i] = 0 PROVE Placed(i)'
    <3>1. i # k
      BY <1>2, <2>3
    <3>2. Placed(i)
      BY <1>1, <1>2, <2>3, <3>1 DEF OrderInv, NothingLost
    <3> QED BY <2>3, <3>1, <3>2
  <2> QED BY <2>2, <2>3 DEF NothingLost
<1>4. PostOrder'
  <2>1. SUFFICES ASSUME NEW i \in 1 .. posts, NEW j \in 1 .. posts,
                        i < j, origin[i] = origin[j], origin[i].op = "plain", finished'[j] > 0
                 PROVE  finished'[i] > 0
    BY DEF PostOrder
  <2>2. CASE j = k
    BY <1>1, <1>2, <2>1, <2>2
  <2>3. CASE j # k
    BY <1>1, <1>2, <2>1, <2>3 DEF OrderInv, PostOrder
  <2> QED BY <2>2, <2>3
<1> QED BY <1>3, <1>4

LEMMA EndLocalOrder ==
    ASSUME LoopInv, OrderInv, EndLocal
    PROVE  OrderInv'
<1> DEFINE e == Head(localQueue)
           rest == Tail(localQueue)
<1>1. localQueue \in Seq(Entries) /\ localQueue # <<>>
  BY Recent DEF EndLocal, LoopInv, Control
<1>2. /\ e \in Entries /\ rest \in Seq(Entries) /\ e = localQueue[1] /\ 1 \in DOMAIN localQueue
  BY <1>1, TailParts, HeadTailProperties
<1>3. Kept(localQueue, LocalOrigins, posts, origin) /\ posts \in Nat
  BY Recent DEF OrderInv, Queues
<1>4. Kept(rest, LocalOrigins, posts, origin) /\ e.id \in 1 .. posts /\ origin[e.id].op = e.op
  <2>1. Kept(rest, LocalOrigins, posts, origin)
    BY <1>1, <1>3, KeptTail
  <2> QED BY <1>2, <1>3, <2>1 DEF Kept
<1>5. /\ \A i : Newer(i, localQueue, origin) => Newer(i, rest, origin)
      /\ \A i : Holds(localQueue, i) /\ i # e.id => Holds(rest, i)
  BY <1>1, NewerTail, HoldsTail
<1>6. Complete(e, rest, "external") /\ UNCHANGED <<producerQueue, posting, posts, origin>>
  BY DEF EndLocal, postVars
<1>7. \A i \in 1 .. posts :
          origin[i].op = "plain" /\ origin[i] = origin[e.id] /\ i < e.id => finished[i] > 0
  BY <1>1, OldestLocal
<1> HIDE DEF e, rest
<1>8. /\ Kept(localQueue', LocalOrigins, posts, origin)
      /\ \A i : Newer(i, rest, origin) => Newer(i, localQueue', origin)
      /\ \A i : Holds(rest, i) => Holds(localQueue', i)
      /\ \A x \in (precisionEvents \union idleEvents)' : x.id \in 1 .. posts /\ origin[x.id].op # "plain"
      /\ finished' = finished \/ finished' = [finished EXCEPT ![e.id] = finished[e.id] + 1]
      /\ e.op = "plain" => finished' = [finished EXCEPT ![e.id] = finished[e.id] + 1]
  BY <1>2, <1>4, <1>6, CompleteOrder
<1>9. Queues' /\ PostsUnderWay' /\ TimedOnly'
  BY <1>5, <1>6, <1>8 DEF OrderInv, Queues, PostsUnderWay, TimedOnly
<1>10. \A i \in 1 .. posts : Placed(i) /\ i # e.id => Placed(i)'
  BY <1>5, <1>6, <1>8 DEF Placed
<1>11. NothingLost' /\ PostOrder'
  BY <1>4, <1>6, <1>7, <1>8, <1>10, FinishedInOrder
<1> QED BY <1>9, <1>11 DEF OrderInv

LEMMA EndExternalOrder ==
    ASSUME LoopInv, OrderInv, EndExternal
    PROVE  OrderInv'
<1> DEFINE c == Current
           queue == producerQueue[c]
           e == Head(queue)
           rest == Tail(queue)
<1>1. c \in Producers /\ queue \in Seq(Entries) /\ queue # <<>>
  <2>1. c \in Producers /\ queue # <<>>
    BY DEF EndExternal, LoopInv, Typed, Control, Current
  <2> QED BY <2>1, Recent
<1>2. /\ e \in Entries /\ rest \in Seq(Entries) /\ e = queue[1] /\ 1 \in DOMAIN queue
  BY <1>1, TailParts, HeadTailProperties
<1>3. /\ Kept(queue, QueueOrigins(c), posts, origin) /\ Kept(localQueue, LocalOrigins, posts, origin)
      /\ posts \in Nat /\ localQueue \in Seq(Entries)
  BY <1>1, Recent DEF OrderInv, Queues
<1>4. Kept(rest, QueueOrigins(c), posts, origin) /\ e.id \in 1 .. posts /\ origin[e.id].op = e.op
  <2>1. Kept(rest, QueueOrigins(c), posts, origin)
    BY <1>1, <1>3, KeptTail
  <2> QED BY <1>2, <1>3, <2>1 DEF Kept
<1>5. /\ \A i : Newer(i, queue, origin) => Newer(i, rest, origin)
      /\ \A i : Holds(queue, i) /\ i # e.id => Holds(rest, i)
  BY <1>1, NewerTail, HoldsTail
<1>6. /\ Complete(e, localQueue, "external") /\ UNCHANGED <<posting, posts, origin>>
      /\ producerQueue' = [producerQueue EXCEPT ![c] = rest]
  BY DEF EndExternal, postVars
<1>7. \A i \in 1 .. posts :
          origin[i].op = "plain" /\ origin[i] = origin[e.id] /\ i < e.id => finished[i] > 0
  BY <1>1, OldestExternal
<1>8. producerQueue'[c] = rest /\ \A p \in Producers \ {c} : producerQueue'[p] = producerQueue[p]
  <2>1. DOMAIN producerQueue = Producers
    BY DEF LoopInv, Typed
  <2> QED BY <1>1, <1>6, <2>1
<1> HIDE DEF e, rest, c
<1>9. /\ Kept(localQueue', LocalOrigins, posts, origin)
      /\ \A i : Newer(i, localQueue, origin) => Newer(i, localQueue', origin)
      /\ \A i : Holds(localQueue, i) => Holds(localQueue', i)
      /\ \A x \in (precisionEvents \union idleEvents)' : x.id \in 1 .. posts /\ origin[x.id].op # "plain"
      /\ finished' = finished \/ finished' = [finished EXCEPT ![e.id] = finished[e.id] + 1]
      /\ e.op = "plain" => finished' = [finished EXCEPT ![e.id] = finished[e.id] + 1]
  BY <1>2, <1>3, <1>4, <1>6, CompleteOrder
<1>10. Queues' /\ TimedOnly'
  BY <1>4, <1>6, <1>8, <1>9 DEF OrderInv, Queues, TimedOnly
<1>11. PostsUnderWay'
  <2>1. \A p \in Producers : \A i : Newer(i, producerQueue[p], origin) => Newer(i, producerQueue'[p], origin)
    BY <1>5, <1>8
  <2> QED BY <1>6, <1>9, <2>1 DEF OrderInv, PostsUnderWay
<1>12. \A i \in 1 .. posts : Placed(i) /\ i # e.id => Placed(i)'
  <2>1. \A p \in Producers : \A i : Holds(producerQueue[p], i) /\ i # e.id => Holds(producerQueue'[p], i)
    BY <1>5, <1>8
  <2> QED BY <1>6, <1>9, <2>1 DEF Placed
<1>13. NothingLost' /\ PostOrder'
  BY <1>4, <1>6, <1>7, <1>9, <1>12, FinishedInOrder
<1> QED BY <1>10, <1>11, <1>13 DEF OrderInv

(* Timed events end in the order of their times, and say nothing of the     *)
(* order of the posts. *)
LEMMA TimedOrder ==
    ASSUME LoopInv, OrderInv, EndPrecision \/ EndIdle
    PROVE  OrderInv'
<1>1. /\ UNCHANGED <<localQueue, producerQueue, posting, posts, origin>>
      /\ (precisionEvents \union idleEvents)' \subseteq precisionEvents \union idleEvents
      /\ finished' = [finished EXCEPT ![running.id] = finished[running.id] + 1]
      /\ running \in precisionEvents \union idleEvents
  BY DEF EndPrecision, EndIdle, LoopInv, Control, queueVars, postVars
<1>2. running.id \in 1 .. posts /\ origin[running.id].op # "plain"
  BY <1>1 DEF OrderInv, TimedOnly
<1>3. \A i : Placed(i) => Placed(i)'
  BY <1>1 DEF Placed
<1>4. \A i \in 1 .. posts : origin[i].op = "plain" => origin[i] # origin[running.id]
  BY <1>2
<1>5. NothingLost' /\ PostOrder'
  BY <1>1, <1>2, <1>3, <1>4, FinishedInOrder
<1> QED BY <1>1, <1>5 DEF OrderInv, Queues, PostsUnderWay, TimedOnly

LEMMA OrderStep == LoopInv /\ OrderInv /\ [Next]_vars => OrderInv'
<1> SUFFICES ASSUME LoopInv, OrderInv, [Next]_vars PROVE OrderInv'
  OBVIOUS
<1>1. ASSUME UNCHANGED <<localQueue, producerQueue, posting, posts, origin, finished,
                         precisionEvents, idleEvents>>
      PROVE  OrderInv'
  BY <1>1 DEF OrderInv, Queues, PostsUnderWay, TimedOnly, NothingLost, PostOrder, Placed
<1>2. CASE FirePrecision \/ PrecisionDone \/ FireIdle \/ IdleDone
  BY <1>1, <1>2 DEF FirePrecision, PrecisionDone, FireIdle, IdleDone, queueVars, timedVars, postVars,
                    historyVars
<1>3. CASE Poll
  BY <1>1, <1>3 DEF Poll, queueVars, timedVars, postVars
<1>4. CASE RunLocal \/ LocalEmpty \/ RunExternal \/ ExternalEmpty \/ ExternalDone
  BY <1>1, <1>4 DEF RunLocal, LocalEmpty, RunExternal, ExternalEmpty, ExternalDone, queueVars,
                    timedVars, postVars, historyVars
<1>5. CASE EndPrecision \/ EndIdle
  BY <1>5, TimedOrder
<1>6. CASE EndLocal
  BY <1>6, EndLocalOrder
<1>7. CASE EndExternal
  BY <1>7, EndExternalOrder
<1>8. CASE Start \/ PumpEvents \/ Stop \/ Tick
  BY <1>1, <1>8 DEF Start, PumpEvents, Stop, Tick, loopVars, queueVars, timedVars, postVars,
                    historyVars
<1>9. ASSUME NEW op \in AllKinds, NEW time \in Times, PostFromLoop(op, time) PROVE OrderInv'
  BY <1>9, PostFromLoopOrder
<1>10. ASSUME NEW p \in Producers, NEW op \in AllKinds, NEW time \in Times, Post(p, op, time)
       PROVE  OrderInv'
  BY <1>10, PostOrderStep
<1>11. ASSUME NEW p \in Producers, PushExternal(p) PROVE OrderInv'
  BY <1>11, PushExternalOrder
<1>12. ASSUME NEW p \in Producers, PushLocal(p) PROVE OrderInv'
  BY <1>12, PushLocalOrder
<1>13. ASSUME NEW p \in Producers, RacingPush(p) PROVE OrderInv'
  BY <1>1, <1>13 DEF RacingPush, queueVars, timedVars, postVars, historyVars
<1>14. CASE UNCHANGED vars
  BY <1>1, <1>14 DEF vars, queueVars, timedVars, postVars, historyVars
<1> QED BY <1>2, <1>3, <1>4, <1>5, <1>6, <1>7, <1>8, <1>9, <1>10, <1>11, <1>12, <1>13, <1>14
       DEF Next, LoopStep

LEMMA OrderInit == Init => OrderInv
<1> SUFFICES ASSUME Init PROVE OrderInv
  OBVIOUS
<1>1. DOMAIN localQueue = {} /\ \A p \in Producers : DOMAIN producerQueue[p] = {}
  BY EmptySeq DEF Init
<1>2. 1 .. posts = {}
  BY DEF Init
<1>3. Queues /\ PostsUnderWay /\ TimedOnly
  BY <1>1 DEF Init, Queues, Kept, PostsUnderWay, TimedOnly
<1>4. NothingLost /\ PostOrder
  BY <1>2 DEF Init, NothingLost, PostOrder
<1> QED BY <1>3, <1>4 DEF OrderInv

(* The untimed actions that a thread posts in one way end in the order in   *)
(* which it posted them, whatever happens in between.                       *)
THEOREM EndsInPostOrder == Spec => []PostOrder
<1>1. Init => LoopInv /\ OrderInv
  BY LoopInit, OrderInit
<1>2. LoopInv /\ OrderInv /\ [Next]_vars => (LoopInv /\ OrderInv)'
  BY LoopInvStep, OrderStep
<1>3. OrderInv => PostOrder
  BY DEF OrderInv
<1> QED BY <1>1, <1>2, <1>3, PTL DEF Spec

-----------------------------------------------------------------------------
(***************************************************************************)
(* The event loop neither loses an action nor runs one twice.              *)
(***************************************************************************)

Is(j, i) == IF j = i THEN 1 ELSE 0

(* The copies of action i, place by place. *)
External(i) == {pn \in Producers \X (1 .. Capacity) : pn[2] \in InQueue(producerQueue[pn[1]], i)}
Local(i) == Cardinality(InQueue(localQueue, i))
Queued(i) == Cardinality(External(i))
UnderWay(i) == Cardinality(Posting(i))
Precise(i) == Cardinality(InHeap(precisionEvents, i))
Late(i) == Cardinality(InHeap(idleEvents, i))

-----------------------------------------------------------------------------
(* Counting in queues. *)

LEMMA CountNew ==
    ASSUME NEW S, IsFiniteSet(S), NEW x, x \notin S
    PROVE  /\ IsFiniteSet(S \union {x}) /\ Cardinality(S \union {x}) = Cardinality(S) + 1
           /\ Cardinality(S) \in Nat
BY FS_AddElement, FS_CardinalityType

LEMMA QueueFinite ==
    ASSUME NEW q \in Seq(Entries), NEW i
    PROVE  IsFiniteSet(InQueue(q, i)) /\ Cardinality(InQueue(q, i)) \in Nat
<1>1. Len(q) \in Nat /\ DOMAIN q = 1 .. Len(q)
  OBVIOUS
<1>2. IsFiniteSet(1 .. Len(q))
  BY <1>1, FS_Interval
<1>3. InQueue(q, i) \in SUBSET (1 .. Len(q))
  BY <1>1 DEF InQueue
<1> QED BY <1>2, <1>3, FS_Subset, FS_CardinalityType

LEMMA CountAppend ==
    ASSUME NEW q \in Seq(Entries), NEW e \in Entries, NEW i
    PROVE  Cardinality(InQueue(Append(q, e), i)) = Cardinality(InQueue(q, i)) + Is(e.id, i)
<1>1. /\ Len(q) \in Nat /\ DOMAIN q = 1 .. Len(q)
      /\ DOMAIN Append(q, e) = 1 .. (Len(q) + 1)
      /\ \A n \in 1 .. Len(q) : Append(q, e)[n] = q[n]
      /\ Append(q, e)[Len(q) + 1] = e
  BY AppendProperties
<1>2. /\ Len(q) + 1 \notin 1 .. Len(q)
      /\ \A n : n \in 1 .. (Len(q) + 1) <=> n \in 1 .. Len(q) \/ n = Len(q) + 1
  BY <1>1
<1>3. CASE e.id = i
  <2>1. InQueue(Append(q, e), i) = InQueue(q, i) \union {Len(q) + 1} /\ Len(q) + 1 \notin InQueue(q, i)
    BY <1>1, <1>2, <1>3 DEF InQueue
  <2>2. IsFiniteSet(InQueue(q, i))
    BY QueueFinite
  <2>3. Cardinality(InQueue(Append(q, e), i)) = Cardinality(InQueue(q, i)) + 1
    BY <2>1, <2>2, CountNew
  <2> QED BY <1>3, <2>3 DEF Is
<1>4. CASE e.id # i
  <2>1. InQueue(Append(q, e), i) = InQueue(q, i)
    BY <1>1, <1>2, <1>4 DEF InQueue
  <2> QED BY <1>4, <2>1, QueueFinite DEF Is
<1> QED BY <1>3, <1>4

LEMMA CountTail ==
    ASSUME NEW q \in Seq(Entries), q # <<>>, NEW i
    PROVE  Cardinality(InQueue(q, i)) = Cardinality(InQueue(Tail(q), i)) + Is(Head(q).id, i)
<1> DEFINE r == Tail(q)
           S == InQueue(q, i) \ {1}
           T == InQueue(r, i)
           f == [n \in S |-> n - 1]
<1>1. /\ r \in Seq(Entries) /\ Head(q) = q[1] /\ 1 \in DOMAIN q
      /\ \A n \in DOMAIN r : n + 1 \in DOMAIN q /\ r[n] = q[n + 1] /\ n \in Nat
      /\ \A n \in DOMAIN q : n = 1 \/ (n - 1 \in DOMAIN r /\ r[n - 1] = q[n])
      /\ DOMAIN q \subseteq Nat \ {0}
  BY TailParts
<1> HIDE DEF r
<1>2. \A n \in S : n - 1 \in T /\ n \in Nat
  BY <1>1 DEF InQueue
<1>3. \A n \in T : n + 1 \in S /\ n \in Nat /\ (n + 1) - 1 = n
  <2>1. \A n \in DOMAIN r : n # 0
    <3>1. r \in Seq(Entries)
      BY <1>1
    <3> QED BY <3>1
  <2>2. \A n \in Nat : n # 0 => n + 1 # 1
    OBVIOUS
  <2> QED BY <1>1, <2>1, <2>2 DEF InQueue
<1>4. f \in [S -> T] /\ \A n \in S : f[n] = n - 1
  BY <1>2
<1>5. \A a, b \in S : f[a] = f[b] => a = b
  BY <1>2, <1>4
<1>6. \A t \in T : \E s \in S : f[s] = t
  BY <1>3, <1>4
<1> HIDE DEF f
<1>7. f \in Bijection(S, T)
  BY <1>4, <1>5, <1>6, Zenon DEF Bijection, Injection, Surjection, IsInjective
<1>8. IsFiniteSet(InQueue(q, i)) /\ Cardinality(InQueue(q, i)) \in Nat /\ Cardinality(T) \in Nat
  BY <1>1, QueueFinite
<1>9. IsFiniteSet(S) /\ Cardinality(S) = Cardinality(InQueue(q, i)) - (IF 1 \in InQueue(q, i) THEN 1 ELSE 0)
  BY <1>8, FS_RemoveElement DEF Is
<1>10. Cardinality(S) = Cardinality(T)
  BY <1>7, <1>9, FS_Bijection DEF ExistsBijection
<1>11. 1 \in InQueue(q, i) <=> Head(q).id = i
  BY <1>1 DEF InQueue
<1> QED BY <1>8, <1>9, <1>10, <1>11 DEF Is, r

(* Counting in the producer queues, which hold at most Capacity entries. *)
Bounded == \A p \in Producers : Len(producerQueue[p]) <= Capacity

LEMMA ExternalFinite ==
    ASSUME NEW i
    PROVE  IsFiniteSet(External(i)) /\ Queued(i) \in Nat
<1>1. IsFiniteSet(1 .. Capacity)
  BY FS_Interval, EventQueueAssumption
<1>2. IsFiniteSet(Producers \X (1 .. Capacity))
  BY <1>1, FS_Product, EventQueueAssumption
<1>3. External(i) \in SUBSET (Producers \X (1 .. Capacity))
  BY DEF External
<1> QED BY <1>2, <1>3, FS_Subset, FS_CardinalityType DEF Queued

QueuedCounted == \A i : Queued(i) \in Nat
LEMMA QueuedType == QueuedCounted
BY ExternalFinite DEF QueuedCounted

LEMMA ExternalAppend ==
    ASSUME LoopInv, NEW p \in Producers, NEW e \in Entries, Len(producerQueue[p]) < Capacity,
           producerQueue' = [producerQueue EXCEPT ![p] = Append(producerQueue[p], e)], NEW i
    PROVE  Queued(i)' = Queued(i) + Is(e.id, i)
<1> DEFINE q == producerQueue[p]
           n == Len(q) + 1
<1>1. producerQueue \in [Producers -> Seq(Entries)] /\ q \in Seq(Entries)
  BY DEF LoopInv, Typed
<1>2. n \in 1 .. Capacity /\ n \notin DOMAIN q
  BY <1>1, EventQueueAssumption
<1>3. /\ \A o \in Producers \ {p} : producerQueue'[o] = producerQueue[o]
      /\ producerQueue'[p] = Append(q, e)
  BY <1>1
<1>4. /\ \A m : m \in DOMAIN Append(q, e) <=> m \in DOMAIN q \/ m = n
      /\ \A m \in DOMAIN q : Append(q, e)[m] = q[m]
      /\ Append(q, e)[n] = e
  BY <1>1, AppendProperties
<1> HIDE DEF n, q
<1>5. \A m : m \in InQueue(Append(q, e), i) <=> m \in InQueue(q, i) \/ (m = n /\ e.id = i)
  BY <1>4 DEF InQueue
<1>6. CASE e.id = i
  <2>1. External(i)' = External(i) \union {<<p, n>>}
    BY <1>2, <1>3, <1>5, <1>6 DEF External, q
  <2>2. <<p, n>> \notin External(i)
    BY <1>2 DEF External, InQueue, q
  <2> QED BY <1>6, <2>1, <2>2, ExternalFinite, FS_AddElement DEF Is, Queued
<1>7. CASE e.id # i
  <2>1. External(i)' = External(i)
    BY <1>3, <1>5, <1>7 DEF External, q
  <2> QED BY <1>7, <2>1, ExternalFinite DEF Is, Queued
<1> QED BY <1>6, <1>7

LEMMA ExternalTail ==
    ASSUME LoopInv, Bounded, NEW p \in Producers, producerQueue[p] # <<>>,
           producerQueue' = [producerQueue EXCEPT ![p] = Tail(producerQueue[p])], NEW i
    PROVE  Queued(i) = Queued(i)' + Is(Head(producerQueue[p]).id, i)
<1> DEFINE q == producerQueue[p]
           S == External(i) \ {<<p, 1>>}
           T == External(i)'
           f == [s \in S |-> IF s[1] = p THEN <<p, s[2] - 1>> ELSE s]
<1>1. producerQueue \in [Producers -> Seq(Entries)] /\ q \in Seq(Entries) /\ Len(q) <= Capacity
  BY DEF LoopInv, Typed, Bounded
<1>2. /\ \A o \in Producers \ {p} : producerQueue'[o] = producerQueue[o]
      /\ producerQueue'[p] = Tail(q)
  BY <1>1
<1> DEFINE r == Tail(q)
<1>3. /\ r \in Seq(Entries) /\ Head(q) = q[1] /\ 1 \in DOMAIN q
      /\ \A n \in DOMAIN r : n + 1 \in DOMAIN q /\ r[n] = q[n + 1] /\ n \in Nat
      /\ \A n \in DOMAIN q : n = 1 \/ (n - 1 \in DOMAIN r /\ r[n - 1] = q[n])
      /\ DOMAIN q \subseteq 1 .. Capacity /\ DOMAIN r \subseteq 1 .. Capacity
  <2>1. /\ r \in Seq(Entries) /\ Head(q) = q[1] /\ 1 \in DOMAIN q
        /\ \A n \in DOMAIN r : n + 1 \in DOMAIN q /\ r[n] = q[n + 1] /\ n \in Nat
        /\ \A n \in DOMAIN q : n = 1 \/ (n - 1 \in DOMAIN r /\ r[n - 1] = q[n])
    BY <1>1, TailParts
  <2>2. DOMAIN q \subseteq 1 .. Capacity
    BY <1>1, EventQueueAssumption
  <2>3. DOMAIN r \subseteq 1 .. Capacity
    <3>1. Len(r) = Len(q) - 1 /\ Len(r) \in Nat /\ DOMAIN r = 1 .. Len(r)
      BY <1>1, HeadTailProperties
    <3> QED BY <1>1, <3>1, EventQueueAssumption
  <2> QED BY <2>1, <2>2, <2>3
<1> HIDE DEF q, r
<1>4. /\ \A s \in S : s = <<s[1], s[2]>> /\ s[1] \in Producers /\ s[2] \in 1 .. Capacity
                      /\ s[2] \in InQueue(producerQueue[s[1]], i) /\ (s[1] = p => s[2] # 1)
      /\ \A o \in Producers, n \in 1 .. Capacity :
            n \in InQueue(producerQueue[o], i) /\ ~(o = p /\ n = 1) => <<o, n>> \in S
      /\ \A t \in T : t = <<t[1], t[2]>> /\ t[1] \in Producers /\ t[2] \in 1 .. Capacity
                      /\ t[2] \in InQueue(producerQueue'[t[1]], i)
      /\ \A o \in Producers, n \in 1 .. Capacity :
            n \in InQueue(producerQueue'[o], i) => <<o, n>> \in T
  BY DEF External
<1>5. /\ \A n \in InQueue(q, i) : n # 1 => n - 1 \in InQueue(r, i) /\ n - 1 \in 1 .. Capacity
      /\ \A n \in InQueue(r, i) : n + 1 \in InQueue(q, i) /\ n + 1 \in 1 .. Capacity /\ n + 1 # 1
                                  /\ (n + 1) - 1 = n
  BY <1>3 DEF InQueue
<1> HIDE DEF S, T
<1>6. \A s \in S : f[s] \in T
  <2>1. SUFFICES ASSUME NEW s \in S PROVE f[s] \in T
    OBVIOUS
  <2>2. CASE s[1] = p
    <3>1. f[s] = <<p, s[2] - 1>>
      BY <2>2
    <3>2. s[2] - 1 \in InQueue(r, i) /\ s[2] - 1 \in 1 .. Capacity
      BY <1>4, <1>5, <2>2 DEF q
    <3> QED BY <1>2, <1>4, <3>1, <3>2 DEF r
  <2>3. CASE s[1] # p
    <3>1. f[s] = <<s[1], s[2]>>
      BY <1>4, <2>3
    <3> QED BY <1>2, <1>4, <2>3, <3>1
  <2> QED BY <2>2, <2>3
<1>7. \A a, b \in S : f[a] = f[b] => a = b
  <2>1. SUFFICES ASSUME NEW a \in S, NEW b \in S, f[a] = f[b] PROVE a = b
    OBVIOUS
  <2>2. a = <<a[1], a[2]>> /\ b = <<b[1], b[2]>> /\ a[2] \in Int /\ b[2] \in Int
    BY <1>4, EventQueueAssumption
  <2>3. f[a][1] = a[1] /\ f[b][1] = b[1]
    BY <2>2
  <2>4. CASE a[1] = p
    <3>1. f[a] = <<p, a[2] - 1>> /\ f[b] = <<p, b[2] - 1>>
      BY <2>1, <2>3, <2>4
    <3>2. a[2] - 1 = b[2] - 1
      BY <2>1, <3>1
    <3> QED BY <2>1, <2>2, <2>3, <2>4, <3>2
  <2>5. CASE a[1] # p
    BY <2>1, <2>3, <2>5
  <2> QED BY <2>4, <2>5
<1>8. \A t \in T : \E s \in S : f[s] = t
  <2>1. SUFFICES ASSUME NEW t \in T PROVE \E s \in S : f[s] = t
    OBVIOUS
  <2>2. CASE t[1] = p
    <3>1. /\ t[2] + 1 \in InQueue(q, i) /\ t[2] + 1 \in 1 .. Capacity /\ t[2] + 1 # 1
          /\ (t[2] + 1) - 1 = t[2]
      BY <1>2, <1>4, <1>5, <2>2 DEF r
    <3>2. <<p, t[2] + 1>> \in S
      BY <1>4, <3>1 DEF q
    <3>3. f[<<p, t[2] + 1>>] = <<p, t[2]>>
      BY <3>1, <3>2
    <3> QED BY <1>4, <2>2, <3>2, <3>3
  <2>3. CASE t[1] # p
    <3>1. <<t[1], t[2]>> \in S
      BY <1>2, <1>4, <2>3
    <3> QED BY <1>4, <2>3, <3>1
  <2> QED BY <2>2, <2>3
<1>9. f \in [S -> T]
  BY <1>6
<1> HIDE DEF f
<1>10. f \in Bijection(S, T)
  BY <1>7, <1>8, <1>9, Zenon DEF Bijection, Injection, Surjection, IsInjective
<1>11. IsFiniteSet(S) /\ Cardinality(S) = Queued(i) - (IF <<p, 1>> \in External(i) THEN 1 ELSE 0)
  <2> DEFINE E == External(i)
             x == <<p, 1>>
  <2>1. IsFiniteSet(E)
    BY ExternalFinite
  <2> HIDE DEF E, x
  <2>2. IsFiniteSet(E \ {x})
        /\ Cardinality(E \ {x}) = IF x \in E THEN Cardinality(E) - 1 ELSE Cardinality(E)
    BY <2>1, FS_RemoveElement
  <2>3. Cardinality(E) \in Nat
    BY <2>1, FS_CardinalityType
  <2>4. Cardinality(E \ {x}) = Cardinality(E) - (IF x \in E THEN 1 ELSE 0)
    BY <2>2, <2>3 DEF Is
  <2> QED BY <2>2, <2>4 DEF Queued, S, E, x
<1>12. Cardinality(S) = Queued(i)'
  BY <1>10, <1>11, FS_Bijection DEF ExistsBijection, Queued, T
<1>13. <<p, 1>> \in External(i) <=> Head(q).id = i
  BY <1>3 DEF External, InQueue, q
<1>14. Queued(i) \in Nat
  BY ExternalFinite
<1> QED BY <1>11, <1>12, <1>13, <1>14 DEF Is, q

-----------------------------------------------------------------------------
(* Counting in heaps and posts. *)

LEMMA HeapAdd ==
    ASSUME NEW S, IsFiniteSet(S), NEW x, x \notin S, NEW i
    PROVE  /\ IsFiniteSet(S \union {x})
           /\ Cardinality(InHeap(S \union {x}, i)) = Cardinality(InHeap(S, i)) + Is(x.id, i)
           /\ Cardinality(InHeap(S, i)) \in Nat
<1>1. IsFiniteSet(InHeap(S, i)) /\ Cardinality(InHeap(S, i)) \in Nat
  <2>1. InHeap(S, i) \in SUBSET S
    BY DEF InHeap
  <2> QED BY <2>1, FS_Subset, FS_CardinalityType
<1>2. IsFiniteSet(S \union {x})
  BY FS_AddElement
<1>3. CASE x.id = i
  <2>1. InHeap(S \union {x}, i) = InHeap(S, i) \union {x} /\ x \notin InHeap(S, i)
    BY <1>3 DEF InHeap
  <2>2. Cardinality(InHeap(S \union {x}, i)) = Cardinality(InHeap(S, i)) + 1
    BY <1>1, <2>1, CountNew
  <2> QED BY <1>1, <1>2, <1>3, <2>2 DEF Is
<1>4. CASE x.id # i
  <2>1. InHeap(S \union {x}, i) = InHeap(S, i)
    BY <1>4 DEF InHeap
  <2> QED BY <1>1, <1>2, <1>4, <2>1 DEF Is
<1> QED BY <1>3, <1>4

LEMMA HeapRemove ==
    ASSUME NEW S, IsFiniteSet(S), NEW x \in S, NEW i
    PROVE  /\ IsFiniteSet(S \ {x})
           /\ Cardinality(InHeap(S, i)) = Cardinality(InHeap(S \ {x}, i)) + Is(x.id, i)
           /\ Cardinality(InHeap(S \ {x}, i)) \in Nat
<1> DEFINE R == S \ {x}
<1>1. IsFiniteSet(R) /\ x \notin R
  BY FS_RemoveElement
<1>2. R \union {x} = S
  OBVIOUS
<1> HIDE DEF R
<1>3. /\ Cardinality(InHeap(R \union {x}, i)) = Cardinality(InHeap(R, i)) + Is(x.id, i)
      /\ Cardinality(InHeap(R, i)) \in Nat
  BY <1>1, HeapAdd
<1>4. Cardinality(InHeap(S, i)) = Cardinality(InHeap(R, i)) + Is(x.id, i)
  BY <1>2, <1>3
<1> QED BY <1>1, <1>3, <1>4 DEF R

LEMMA PostingCount ==
    ASSUME LoopInv, NEW i
    PROVE  IsFiniteSet(Posting(i)) /\ UnderWay(i) \in Nat /\ (UnderWay(i) = 0 <=> Posting(i) = {})
<1>1. Posting(i) \in SUBSET Producers
  BY DEF Posting
<1>2. IsFiniteSet(Posting(i))
  BY <1>1, FS_Subset, EventQueueAssumption
<1> QED BY <1>2, FS_CardinalityType, FS_EmptySet DEF UnderWay

PostsCounted == \A i : UnderWay(i) = 0 => Posting(i) = {}
LEMMA PostsAreCounted == LoopInv => PostsCounted
BY PostingCount DEF PostsCounted

LEMMA PostingEnds ==
    ASSUME LoopInv, NEW p \in Producers, posting[p] # NoPost,
           posting' = [posting EXCEPT ![p] = NoPost], NEW i
    PROVE  /\ Posting(i)' = Posting(i) \ {p}
           /\ UnderWay(i) = UnderWay(i)' + Is(posting[p].entry.id, i)
           /\ UnderWay(i)' \in Nat
<1>1. posting'[p] = NoPost /\ \A o \in Producers \ {p} : posting'[o] = posting[o]
  BY DEF LoopInv, Typed
<1>2. Posting(i)' = Posting(i) \ {p}
  BY <1>1 DEF Posting
<1>3. p \in Posting(i) <=> posting[p].entry.id = i
  BY DEF Posting
<1> DEFINE P == Posting(i)
<1>4. IsFiniteSet(P) /\ Cardinality(P) \in Nat
  BY PostingCount DEF UnderWay
<1> HIDE DEF P
<1>5. Cardinality(P \ {p}) = (IF p \in P THEN Cardinality(P) - 1 ELSE Cardinality(P))
      /\ Cardinality(P \ {p}) \in Nat
  BY <1>4, FS_RemoveElement, FS_CardinalityType
<1>6. Cardinality(P) = Cardinality(P \ {p}) + (IF p \in P THEN 1 ELSE 0)
  BY <1>4, <1>5 DEF Is
<1> QED BY <1>2, <1>3, <1>5, <1>6 DEF UnderWay, P, Is

-----------------------------------------------------------------------------
(* The invariant. *)

(* The heaps are finite, and the event that runs is the first to be due.    *)
Heaps ==
    /\ IsFiniteSet(precisionEvents) /\ IsFiniteSet(idleEvents)
    /\ stage = "runPrecision" => running.time <= clock /\ running \in Earliest(precisionEvents)
    /\ stage = "runIdle" => running.time <= clock /\ running \in Earliest(idleEvents)

Waiting(i) == Local(i) + Queued(i) + UnderWay(i)
Timed(i, via) == \E x \in precisionEvents \union idleEvents : x.id = i /\ x.via = via

(* One entry at most can still forward action i, and its event was not      *)
(* stored before.                                                           *)
Tally(i) ==
    /\ Waiting(i) <= 1
    /\ Timed(i, "queue") => Waiting(i) = 0
    /\ UnderWay(i) > 0 => ~Timed(i, "heap")
    /\ Copies(i) + finished[i] = IF StoredTwice(i) THEN 2 ELSE 1

CopiesInv == Bounded /\ Heaps /\ \A i \in 1 .. posts : Tally(i)

Counts ==
    \A i : /\ Local(i) \in Nat /\ Queued(i) \in Nat /\ UnderWay(i) \in Nat
           /\ Precise(i) \in Nat /\ Late(i) \in Nat
           /\ Copies(i) = Waiting(i) + Precise(i) + Late(i)

LEMMA CountTypes == LoopInv /\ Heaps => Counts
<1> SUFFICES ASSUME LoopInv, Heaps, NEW i
             PROVE  /\ Local(i) \in Nat /\ Queued(i) \in Nat /\ UnderWay(i) \in Nat
                    /\ Precise(i) \in Nat /\ Late(i) \in Nat
                    /\ Copies(i) = Waiting(i) + Precise(i) + Late(i)
  BY DEF Counts
<1>1. Local(i) \in Nat
  BY QueueFinite, Recent DEF Local
<1>2. Queued(i) \in Nat /\ UnderWay(i) \in Nat
  BY ExternalFinite, PostingCount
<1>3. Precise(i) \in Nat /\ Late(i) \in Nat
  <2>1. InHeap(precisionEvents, i) \in SUBSET precisionEvents /\ InHeap(idleEvents, i) \in SUBSET idleEvents
    BY DEF InHeap
  <2>2. IsFiniteSet(InHeap(precisionEvents, i)) /\ IsFiniteSet(InHeap(idleEvents, i))
    BY <2>1, FS_Subset DEF Heaps
  <2> QED BY <2>2, FS_CardinalityType DEF Precise, Late
<1>4. Copies(i) = Local(i) + Queued(i) + UnderWay(i) + Precise(i) + Late(i)
  BY DEF Copies, Local, Queued, External, UnderWay, Precise, Late
<1> QED BY <1>1, <1>2, <1>3, <1>4 DEF Waiting

(* Of an action that has not been posted there is no copy. *)
LEMMA Fresh ==
    ASSUME LoopInv, OrderInv, Heaps, NEW i \in Ids, i > posts
    PROVE  /\ Local(i) = 0 /\ Queued(i) = 0 /\ UnderWay(i) = 0 /\ Precise(i) = 0 /\ Late(i) = 0
           /\ finished[i] = 0 /\ Posting(i) = {}
           /\ \A x \in precisionEvents \union idleEvents : x.id # i
<1>1. i \notin 1 .. posts
  BY Recent DEF Ids
<1>2. Kept(localQueue, LocalOrigins, posts, origin)
      /\ \A p \in Producers : Kept(producerQueue[p], QueueOrigins(p), posts, origin)
  BY DEF OrderInv, Queues
<1>3. InQueue(localQueue, i) = {}
  BY <1>1, <1>2 DEF Kept, InQueue
<1>4. External(i) = {}
  BY <1>1, <1>2 DEF Kept, InQueue, External
<1>5. Posting(i) = {}
  BY <1>1 DEF OrderInv, PostsUnderWay, Posting
<1>6. \A x \in precisionEvents \union idleEvents : x.id # i
  BY <1>1 DEF OrderInv, TimedOnly
<1>7. InHeap(precisionEvents, i) = {} /\ InHeap(idleEvents, i) = {}
  BY <1>6 DEF InHeap
<1>8. finished[i] = 0
  BY DEF OrderInv, NothingLost
<1> QED BY <1>3, <1>4, <1>5, <1>6, <1>7, <1>8, FS_EmptySet DEF Local, Queued, UnderWay, Precise, Late

(* Storing an entry whose event is not stored yet. *)
LEMMA StoreCopies ==
    ASSUME LoopInv, Heaps, NEW e \in Entries, StoreLocally(e), NEW i,
           ~Timed(e.id, "heap")
    PROVE  /\ IsFiniteSet(precisionEvents') /\ IsFiniteSet(idleEvents')
           /\ Local(i)' = Local(i) + (IF e.op = "precision" THEN 0 ELSE Is(e.id, i))
           /\ Precise(i)' = Precise(i) + (IF e.op = "precision" THEN Is(e.id, i) ELSE 0)
           /\ Late(i)' = Late(i) + (IF e.op = "idle" THEN Is(e.id, i) ELSE 0)
           /\ Timed(i, "queue")' <=> Timed(i, "queue")
           /\ i # e.id => (Timed(i, "heap")' <=> Timed(i, "heap"))
<1> DEFINE x == Event(e, "heap")
<1>1. /\ x.id = e.id /\ x.via = "heap" /\ x \notin precisionEvents \union idleEvents
  BY DEF Event, Timed
<1>2. /\ IsFiniteSet(precisionEvents) /\ IsFiniteSet(idleEvents) /\ localQueue \in Seq(Entries)
  BY Recent DEF Heaps
<1>3. /\ Local(i) \in Nat /\ Precise(i) \in Nat /\ Late(i) \in Nat
  BY CountTypes DEF Counts
<1>4. /\ precisionEvents' = IF e.op = "precision" THEN precisionEvents \union {x} ELSE precisionEvents
      /\ idleEvents' = IF e.op = "idle" THEN idleEvents \union {x} ELSE idleEvents
      /\ localQueue' = IF e.op = "precision" THEN localQueue ELSE Append(localQueue, e)
  BY DEF StoreLocally
<1> HIDE DEF x
<1>5. /\ Timed(i, "queue")' <=> Timed(i, "queue")
      /\ i # e.id => (Timed(i, "heap")' <=> Timed(i, "heap"))
  BY <1>1, <1>4 DEF Timed
<1>6. Local(i)' = Local(i) + (IF e.op = "precision" THEN 0 ELSE Is(e.id, i))
  <2>1. Cardinality(InQueue(Append(localQueue, e), i)) = Cardinality(InQueue(localQueue, i)) + Is(e.id, i)
    BY <1>2, CountAppend
  <2> QED BY <1>3, <1>4, <2>1 DEF Local
<1>7. /\ IsFiniteSet(precisionEvents')
      /\ Precise(i)' = Precise(i) + (IF e.op = "precision" THEN Is(e.id, i) ELSE 0)
  <2>1. /\ IsFiniteSet(precisionEvents \union {x})
        /\ Cardinality(InHeap(precisionEvents \union {x}, i))
             = Cardinality(InHeap(precisionEvents, i)) + Is(x.id, i)
    BY <1>1, <1>2, HeapAdd, ZenonT(40)
  <2> QED BY <1>1, <1>2, <1>3, <1>4, <2>1 DEF Precise
<1>8. /\ IsFiniteSet(idleEvents')
      /\ Late(i)' = Late(i) + (IF e.op = "idle" THEN Is(e.id, i) ELSE 0)
  <2>1. /\ IsFiniteSet(idleEvents \union {x})
        /\ Cardinality(InHeap(idleEvents \union {x}, i)) = Cardinality(InHeap(idleEvents, i)) + Is(x.id, i)
    BY <1>1, <1>2, HeapAdd, SMTT(30)
  <2> QED BY <1>1, <1>2, <1>3, <1>4, <2>1 DEF Late
<1> QED BY <1>5, <1>6, <1>7, <1>8

(* The event that runs stays the first: what is posted meanwhile is later.  *)
LEMMA StoreHeaps ==
    ASSUME LoopInv, Heaps, NEW e \in Entries, StoreLocally(e),
           IsFiniteSet(precisionEvents'), IsFiniteSet(idleEvents'),
           stage' = stage, running' = running, clock' = clock,
           stage \in {"runPrecision", "runIdle"} /\ e.op \in {"precision", "idle"} => clock <= e.time
    PROVE  Heaps'
<1>1. clock \in Nat /\ \A x \in Events : x.time \in Nat
  BY EventQueueAssumption DEF LoopInv, Typed, Times, Events
<1>2. /\ precisionEvents \subseteq Events /\ idleEvents \subseteq Events
      /\ Event(e, "heap") \in Events /\ Event(e, "heap").time = e.time
  BY DEF LoopInv, Typed, Event, Events, Entries
<1>3. ASSUME stage = "runPrecision" PROVE running \in Earliest(precisionEvents')
  <2>1. running \in precisionEvents /\ running.time <= clock
        /\ \A f \in precisionEvents : running.time <= f.time
    BY <1>3 DEF Heaps, Earliest
  <2>2. running \in precisionEvents'
    BY <2>1 DEF StoreLocally
  <2>3. ASSUME NEW y \in precisionEvents' PROVE running.time <= y.time
    <3>1. CASE y \in precisionEvents
      BY <2>1, <3>1
    <3>2. CASE y = Event(e, "heap") /\ e.op = "precision"
      <4>1. clock <= e.time
        BY <1>3, <3>2
      <4>2. y.time = e.time /\ y.time \in Nat /\ running.time \in Nat
        BY <1>1, <1>2, <2>1, <3>2
      <4> QED BY <1>1, <2>1, <4>1, <4>2
    <3> QED BY <3>1, <3>2 DEF StoreLocally
  <2> QED BY <2>2, <2>3 DEF Earliest
<1>4. ASSUME stage = "runIdle" PROVE running \in Earliest(idleEvents')
  <2>1. running \in idleEvents /\ running.time <= clock
        /\ \A f \in idleEvents : running.time <= f.time
    BY <1>4 DEF Heaps, Earliest
  <2>2. running \in idleEvents'
    BY <2>1 DEF StoreLocally
  <2>3. ASSUME NEW y \in idleEvents' PROVE running.time <= y.time
    <3>1. CASE y \in idleEvents
      BY <2>1, <3>1
    <3>2. CASE y = Event(e, "heap") /\ e.op = "idle"
      <4>1. clock <= e.time
        BY <1>4, <3>2
      <4>2. y.time = e.time /\ y.time \in Nat /\ running.time \in Nat
        BY <1>1, <1>2, <2>1, <3>2
      <4> QED BY <1>1, <2>1, <4>1, <4>2
    <3> QED BY <3>1, <3>2 DEF StoreLocally
  <2> QED BY <2>2, <2>3 DEF Earliest
<1> QED BY <1>3, <1>4 DEF Heaps, Earliest

(* A step that neither adds nor removes a copy keeps the tally. *)
LEMMA KeepsTally ==
    ASSUME LoopInv, LoopInv', Heaps, Heaps', NEW i \in Ids, Tally(i),
           Waiting(i)' + Precise(i)' + Late(i)' + finished'[i]
             = Waiting(i) + Precise(i) + Late(i) + finished[i],
           Waiting(i)' <= Waiting(i),
           UnderWay(i)' > 0 => UnderWay(i) > 0,
           Timed(i, "queue")' => Timed(i, "queue") \/ Waiting(i)' = 0,
           Timed(i, "heap")' => Timed(i, "heap"),
           StoredTwice(i)' <=> StoredTwice(i)
    PROVE  Tally(i)'
<1>1. Counts /\ Counts'
  BY CountTypes, PTL
<1>2. /\ UnderWay(i) \in Nat /\ Precise(i) \in Nat /\ Late(i) \in Nat /\ Waiting(i) \in Nat
      /\ Copies(i) = Waiting(i) + Precise(i) + Late(i)
  BY <1>1 DEF Counts, Waiting
<1>3. /\ UnderWay(i)' \in Nat /\ Precise(i)' \in Nat /\ Late(i)' \in Nat /\ Waiting(i)' \in Nat
      /\ Copies(i)' = Waiting(i)' + Precise(i)' + Late(i)'
  BY <1>1 DEF Counts, Waiting
<1>4. Copies(i)' + finished'[i] = Copies(i) + finished[i]
  BY <1>2, <1>3
<1>5. Waiting(i)' <= 1 /\ (Timed(i, "queue")' => Waiting(i)' = 0)
  BY <1>2, <1>3 DEF Tally
<1>6. Copies(i)' + finished'[i] = IF StoredTwice(i)' THEN 2 ELSE 1
  BY <1>4, Zenon DEF Tally
<1> QED BY <1>5, <1>6 DEF Tally

(* What running an entry leaves, for a local queue without the entry. *)
LEMMA CompleteCopies ==
    ASSUME LoopInv, Heaps, NEW e \in Entries, NEW queue \in Seq(Entries), NEW next,
           Complete(e, queue, next), ~Timed(e.id, "queue"), NEW i \in Ids
    PROVE  /\ IsFiniteSet(precisionEvents') /\ IsFiniteSet(idleEvents')
           /\ Timed(i, "heap")' <=> Timed(i, "heap")
           /\ \E kept \in {0, Is(e.id, i)} :
                 /\ Local(i)' = Cardinality(InQueue(queue, i)) + kept
                 /\ Precise(i)' + Late(i)' + finished'[i]
                      = Precise(i) + Late(i) + finished[i] + (Is(e.id, i) - kept)
                 /\ Timed(i, "queue")' => Timed(i, "queue") \/ (i = e.id /\ kept = 0)
<1> DEFINE x == Event(e, "queue")
<1>1. /\ x.id = e.id /\ x.via = "queue" /\ x \notin precisionEvents \union idleEvents
  BY DEF Event, Timed
<1>2. /\ IsFiniteSet(precisionEvents) /\ IsFiniteSet(idleEvents)
      /\ Cardinality(InQueue(queue, i)) \in Nat
  BY QueueFinite DEF Heaps
<1>3. /\ Precise(i) \in Nat /\ Late(i) \in Nat /\ finished \in [Ids -> Nat]
      /\ Is(e.id, i) \in {0, 1} /\ e.id \in Ids
  BY CountTypes, Recent DEF Counts, Is, Entries
<1>4. CASE /\ e.op = "async" /\ localQueue' = Append(queue, e)
           /\ UNCHANGED <<finished, timedVars>>
  <2>1. Local(i)' = Cardinality(InQueue(queue, i)) + Is(e.id, i)
    BY <1>4, CountAppend DEF Local
  <2>2. UNCHANGED <<precisionEvents, idleEvents, finished>>
    BY <1>4 DEF timedVars
  <2>3. Precise(i)' = Precise(i) /\ Late(i)' = Late(i)
    BY <2>2 DEF Precise, Late
  <2>4. /\ Timed(i, "heap")' <=> Timed(i, "heap")
        /\ Timed(i, "queue")' <=> Timed(i, "queue")
    BY <2>2 DEF Timed
  <2> QED BY <1>2, <1>3, <2>1, <2>2, <2>3, <2>4
<1>5. CASE /\ ~Forwarding(e) /\ localQueue' = queue
           /\ finished' = [finished EXCEPT ![e.id] = finished[e.id] + 1] /\ UNCHANGED timedVars
  <2>1. Local(i)' = Cardinality(InQueue(queue, i))
    BY <1>5 DEF Local
  <2>2. UNCHANGED <<precisionEvents, idleEvents>>
    BY <1>5 DEF timedVars
  <2>3. Precise(i)' = Precise(i) /\ Late(i)' = Late(i)
    BY <2>2 DEF Precise, Late
  <2>4. /\ Timed(i, "heap")' <=> Timed(i, "heap")
        /\ Timed(i, "queue")' <=> Timed(i, "queue")
    BY <2>2 DEF Timed
  <2>5. finished'[i] = finished[i] + Is(e.id, i)
    BY <1>3, <1>5 DEF Is
  <2> QED BY <1>2, <1>3, <2>1, <2>2, <2>3, <2>4, <2>5
<1>6. ASSUME e.op = "precision" \/ e.op = "idle", localQueue' = queue, UNCHANGED finished,
             \/ precisionEvents' = precisionEvents \union {x} /\ UNCHANGED idleEvents
             \/ idleEvents' = idleEvents \union {x} /\ UNCHANGED precisionEvents
      PROVE  /\ IsFiniteSet(precisionEvents') /\ IsFiniteSet(idleEvents')
             /\ Timed(i, "heap")' <=> Timed(i, "heap")
             /\ Local(i)' = Cardinality(InQueue(queue, i))
             /\ Precise(i)' + Late(i)' + finished'[i] = Precise(i) + Late(i) + finished[i] + Is(e.id, i)
             /\ Timed(i, "queue")' => Timed(i, "queue") \/ i = e.id
  <2> HIDE DEF x
  <2>1. Local(i)' = Cardinality(InQueue(queue, i))
    BY <1>6 DEF Local
  <2>2. /\ Timed(i, "heap")' <=> Timed(i, "heap")
        /\ Timed(i, "queue")' => Timed(i, "queue") \/ i = e.id
    BY <1>1, <1>6 DEF Timed
  <2>3. CASE precisionEvents' = precisionEvents \union {x} /\ UNCHANGED idleEvents
    <3>1. /\ IsFiniteSet(precisionEvents \union {x})
          /\ Cardinality(InHeap(precisionEvents \union {x}, i))
               = Cardinality(InHeap(precisionEvents, i)) + Is(x.id, i)
      BY <1>1, <1>2, HeapAdd
    <3>2. Precise(i)' = Precise(i) + Is(e.id, i) /\ Late(i)' = Late(i)
      BY <1>1, <2>3, <3>1 DEF Precise, Late
    <3> QED BY <1>2, <1>3, <1>6, <2>1, <2>2, <2>3, <3>1, <3>2
  <2>4. CASE idleEvents' = idleEvents \union {x} /\ UNCHANGED precisionEvents
    <3>1. /\ IsFiniteSet(idleEvents \union {x})
          /\ Cardinality(InHeap(idleEvents \union {x}, i))
               = Cardinality(InHeap(idleEvents, i)) + Is(x.id, i)
      BY <1>1, <1>2, HeapAdd
    <3>2. Late(i)' = Late(i) + Is(e.id, i) /\ Precise(i)' = Precise(i)
      BY <1>1, <2>4, <3>1 DEF Precise, Late
    <3> QED BY <1>2, <1>3, <1>6, <2>1, <2>2, <2>4, <3>1, <3>2
  <2> QED BY <1>6, <2>3, <2>4
<1>7. CASE \/ /\ e.op = "precision" /\ localQueue' = queue /\ UNCHANGED <<idleEvents, finished>>
              /\ precisionEvents' = precisionEvents \union {x}
           \/ /\ e.op = "idle" /\ localQueue' = queue /\ UNCHANGED <<precisionEvents, finished>>
              /\ idleEvents' = idleEvents \union {x}
  <2> HIDE DEF x
  <2> QED BY <1>2, <1>3, <1>6, <1>7
<1> QED BY <1>4, <1>5, <1>7 DEF Complete
-----------------------------------------------------------------------------
(* The end of an action of a queue. *)

LEMMA EndLocalCopies ==
    ASSUME LoopInv, LoopInv', OrderInv, CopiesInv, EndLocal
    PROVE  CopiesInv'
<1> DEFINE e == Head(localQueue)
           rest == Tail(localQueue)
<1>1. localQueue \in Seq(Entries) /\ localQueue # <<>>
  BY Recent DEF EndLocal, LoopInv, Control
<1>2. /\ e \in Entries /\ rest \in Seq(Entries) /\ e = localQueue[1] /\ 1 \in DOMAIN localQueue
  BY <1>1, TailParts, HeadTailProperties
<1>3. e.id \in 1 .. posts /\ e.id \in Ids
  BY <1>2, Recent DEF OrderInv, Queues, Kept
<1>4. /\ Complete(e, rest, "external") /\ UNCHANGED <<producerQueue, posting, posts, origin>>
      /\ stage' \in {"external", "stopped"}
  <2>1. Complete(e, rest, "external") /\ UNCHANGED <<producerQueue, posting, posts, origin>>
    BY DEF EndLocal, postVars
  <2>2. "external" \in Stages
    BY DEF Stages
  <2> QED BY <1>2, <2>1, <2>2, CompleteTypes
<1>5. \A i \in Ids : Local(i) = Cardinality(InQueue(rest, i)) + Is(e.id, i)
                     /\ Cardinality(InQueue(rest, i)) \in Nat
  BY <1>1, <1>2, CountTail, QueueFinite DEF Local
<1> HIDE DEF e, rest
<1>6. Counts
  BY CountTypes DEF CopiesInv
<1>7. ~Timed(e.id, "queue")
  <2>1. Waiting(e.id) >= 1
    <3>1. /\ Local(e.id) = Cardinality(InQueue(rest, e.id)) + 1 /\ Cardinality(InQueue(rest, e.id)) \in Nat
      BY <1>3, <1>5 DEF Is
    <3>2. Queued(e.id) \in Nat /\ UnderWay(e.id) \in Nat
      BY <1>6 DEF Counts
    <3> QED BY <3>1, <3>2 DEF Waiting
  <2> QED BY <1>3, <2>1 DEF CopiesInv, Tally
<1>8. \A i \in Ids :
        /\ IsFiniteSet(precisionEvents') /\ IsFiniteSet(idleEvents')
        /\ Timed(i, "heap")' <=> Timed(i, "heap")
        /\ \E kept \in {0, Is(e.id, i)} :
              /\ Local(i)' = Cardinality(InQueue(rest, i)) + kept
              /\ Precise(i)' + Late(i)' + finished'[i]
                   = Precise(i) + Late(i) + finished[i] + (Is(e.id, i) - kept)
              /\ Timed(i, "queue")' => Timed(i, "queue") \/ (i = e.id /\ kept = 0)
  BY <1>2, <1>4, <1>7, CompleteCopies DEF CopiesInv
<1>9. Heaps'
  BY <1>3, <1>4, <1>8 DEF Heaps
<1>10. ASSUME NEW i \in 1 .. posts PROVE Tally(i)'
  <2>1. i \in Ids /\ Tally(i)
    BY Recent DEF CopiesInv
  <2>2. PICK kept \in {0, Is(e.id, i)} :
              /\ Local(i)' = Cardinality(InQueue(rest, i)) + kept
              /\ Precise(i)' + Late(i)' + finished'[i]
                   = Precise(i) + Late(i) + finished[i] + (Is(e.id, i) - kept)
              /\ Timed(i, "queue")' => Timed(i, "queue") \/ (i = e.id /\ kept = 0)
    BY <1>8, <2>1
  <2>3. Queued(i)' = Queued(i) /\ UnderWay(i)' = UnderWay(i) /\ (StoredTwice(i)' <=> StoredTwice(i))
    BY <1>4 DEF Queued, External, UnderWay, Posting, StoredTwice
  <2>4. /\ Local(i) = Cardinality(InQueue(rest, i)) + Is(e.id, i) /\ Cardinality(InQueue(rest, i)) \in Nat
        /\ Queued(i) \in Nat /\ UnderWay(i) \in Nat /\ Precise(i) \in Nat /\ Late(i) \in Nat
        /\ Is(e.id, i) = (IF i = e.id THEN 1 ELSE 0) /\ finished[i] \in Nat
    BY <1>5, <1>6, <2>1, Recent DEF Counts, Is
  <2>5. Waiting(i)' <= Waiting(i)
    BY <2>2, <2>3, <2>4 DEF Waiting
  <2>6. Waiting(i)' + Precise(i)' + Late(i)' + finished'[i]
          = Waiting(i) + Precise(i) + Late(i) + finished[i]
    <3> DEFINE after == Precise(i)' + Late(i)' + finished'[i]
    <3>1. Waiting(i)' = Waiting(i) - Is(e.id, i) + kept
      BY <2>2, <2>3, <2>4 DEF Waiting
    <3>2. Precise(i)' \in Nat /\ Late(i)' \in Nat /\ finished'[i] \in Nat /\ Waiting(i) \in Nat
      <4>1. Counts'
        BY <1>9, CountTypes, PTL
      <4>2. finished'[i] \in Nat
        BY <2>1 DEF LoopInv, Typed
      <4> QED BY <2>4, <4>1, <4>2 DEF Counts, Waiting
    <3> QED BY <2>2, <2>4, <3>1, <3>2
  <2>7. Timed(i, "queue")' => Timed(i, "queue") \/ Waiting(i)' = 0
    <3>1. ASSUME i = e.id, kept = 0 PROVE Waiting(i)' = 0
      <4>1. Waiting(i)' = Waiting(i) - 1 /\ Waiting(i) \in Nat
        BY <2>2, <2>3, <2>4, <3>1 DEF Waiting
      <4>2. Waiting(i) <= 1 /\ Waiting(i)' \in Nat
        BY <2>1, <2>2, <2>3, <2>4, <3>1 DEF Tally, Waiting
      <4> QED BY <4>1, <4>2
    <3> QED BY <2>2, <3>1
  <2>8. Timed(i, "heap")' => Timed(i, "heap")
    BY <1>8, <2>1
  <2> QED BY <1>9, <2>1, <2>3, <2>5, <2>6, <2>7, <2>8, KeepsTally DEF CopiesInv
<1> QED BY <1>4, <1>9, <1>10 DEF CopiesInv, Bounded

LEMMA EndExternalCopies ==
    ASSUME LoopInv, LoopInv', OrderInv, CopiesInv, EndExternal
    PROVE  CopiesInv'
<1> DEFINE c == Current
           e == Head(producerQueue[c])
<1>1. c \in Producers /\ producerQueue[c] \in Seq(Entries) /\ producerQueue[c] # <<>>
  <2>1. c \in Producers /\ producerQueue[c] # <<>>
    BY DEF EndExternal, LoopInv, Typed, Control, Current
  <2> QED BY <2>1, Recent
<1>2. e \in Entries /\ e = producerQueue[c][1] /\ 1 \in DOMAIN producerQueue[c]
  BY <1>1, TailParts, HeadTailProperties
<1>3. e.id \in 1 .. posts /\ e.id \in Ids
  BY <1>1, <1>2, Recent DEF OrderInv, Queues, Kept
<1>4. /\ Complete(e, localQueue, "external") /\ UNCHANGED <<posting, posts, origin>>
      /\ stage' \in {"external", "stopped"} /\ localQueue \in Seq(Entries)
      /\ producerQueue' = [producerQueue EXCEPT ![c] = Tail(producerQueue[c])]
  <2>1. /\ Complete(e, localQueue, "external") /\ UNCHANGED <<posting, posts, origin>>
        /\ producerQueue' = [producerQueue EXCEPT ![c] = Tail(producerQueue[c])]
    BY DEF EndExternal, postVars
  <2>2. "external" \in Stages /\ localQueue \in Seq(Entries)
    BY Recent DEF Stages
  <2> QED BY <1>2, <2>1, <2>2, CompleteTypes
<1>5. \A i \in Ids : Queued(i) = Queued(i)' + Is(e.id, i) /\ Queued(i)' \in Nat
  <2>1. ASSUME NEW i \in Ids PROVE Queued(i) = Queued(i)' + Is(e.id, i)
    BY <1>1, <1>4, ExternalTail DEF CopiesInv
  <2>2. QueuedCounted'
    BY QueuedType, PTL
  <2> QED BY <2>1, <2>2 DEF QueuedCounted
<1>6. Bounded'
  <2>1. \A o \in Producers \ {c} : producerQueue'[o] = producerQueue[o]
    BY <1>1, <1>4 DEF LoopInv, Typed
  <2>2. producerQueue'[c] = Tail(producerQueue[c])
    BY <1>1, <1>4 DEF LoopInv, Typed
  <2>3. Len(Tail(producerQueue[c])) = Len(producerQueue[c]) - 1 /\ Len(producerQueue[c]) \in Nat
    BY <1>1, HeadTailProperties
  <2>4. Len(producerQueue[c]) <= Capacity /\ Capacity \in Nat
    BY <1>1, EventQueueAssumption DEF CopiesInv, Bounded
  <2>5. Len(producerQueue'[c]) <= Capacity
    BY <2>2, <2>3, <2>4
  <2> QED BY <2>1, <2>5 DEF CopiesInv, Bounded
<1> HIDE DEF e, c
<1>7. Counts
  BY CountTypes DEF CopiesInv
<1>8. ~Timed(e.id, "queue")
  <2>1. SUFFICES ASSUME NEW k \in Ids, k = e.id PROVE ~Timed(k, "queue")
    BY <1>3
  <2>2. Waiting(k) >= 1
    <3>1. Queued(k) = Queued(k)' + 1 /\ Queued(k)' \in Nat
      BY <1>5, <2>1 DEF Is
    <3>2. Local(k) \in Nat /\ UnderWay(k) \in Nat
      BY <1>7 DEF Counts
    <3> QED BY <3>1, <3>2 DEF Waiting
  <2> QED BY <1>3, <2>1, <2>2 DEF CopiesInv, Tally
<1>9. \A i \in Ids :
        /\ IsFiniteSet(precisionEvents') /\ IsFiniteSet(idleEvents')
        /\ Timed(i, "heap")' <=> Timed(i, "heap")
        /\ \E kept \in {0, Is(e.id, i)} :
              /\ Local(i)' = Cardinality(InQueue(localQueue, i)) + kept
              /\ Precise(i)' + Late(i)' + finished'[i]
                   = Precise(i) + Late(i) + finished[i] + (Is(e.id, i) - kept)
              /\ Timed(i, "queue")' => Timed(i, "queue") \/ (i = e.id /\ kept = 0)
  BY <1>2, <1>4, <1>8, CompleteCopies DEF CopiesInv
<1>10. Heaps'
  BY <1>3, <1>4, <1>9 DEF Heaps
<1>11. ASSUME NEW i \in 1 .. posts PROVE Tally(i)'
  <2>1. i \in Ids /\ Tally(i)
    BY Recent DEF CopiesInv
  <2>2. PICK kept \in {0, Is(e.id, i)} :
              /\ Local(i)' = Local(i) + kept
              /\ Precise(i)' + Late(i)' + finished'[i]
                   = Precise(i) + Late(i) + finished[i] + (Is(e.id, i) - kept)
              /\ Timed(i, "queue")' => Timed(i, "queue") \/ (i = e.id /\ kept = 0)
    BY <1>9, <2>1 DEF Local
  <2>3. UnderWay(i)' = UnderWay(i) /\ (StoredTwice(i)' <=> StoredTwice(i))
    BY <1>4 DEF UnderWay, Posting, StoredTwice
  <2>4. /\ Queued(i) = Queued(i)' + Is(e.id, i) /\ Queued(i)' \in Nat
        /\ Local(i) \in Nat /\ UnderWay(i) \in Nat /\ Precise(i) \in Nat /\ Late(i) \in Nat
        /\ Is(e.id, i) = (IF i = e.id THEN 1 ELSE 0) /\ finished[i] \in Nat
    BY <1>5, <1>7, <2>1, Recent DEF Counts, Is
  <2>5. Waiting(i)' = Waiting(i) - Is(e.id, i) + kept /\ Waiting(i) \in Nat
    BY <2>2, <2>3, <2>4 DEF Waiting
  <2>6. Waiting(i)' <= Waiting(i)
    BY <2>2, <2>4, <2>5
  <2>7. Waiting(i)' + Precise(i)' + Late(i)' + finished'[i]
          = Waiting(i) + Precise(i) + Late(i) + finished[i]
    <3>1. Precise(i)' \in Nat /\ Late(i)' \in Nat /\ finished'[i] \in Nat
      <4>1. Counts'
        BY <1>10, CountTypes, PTL
      <4>2. finished'[i] \in Nat
        BY <2>1 DEF LoopInv, Typed
      <4> QED BY <4>1, <4>2 DEF Counts
    <3>2. Is(e.id, i) \in Nat /\ kept \in Nat
      BY <2>4
    <3>3. Precise(i) \in Nat /\ Late(i) \in Nat /\ finished[i] \in Nat
      BY <2>4
    <3>4. Precise(i)' + Late(i)' + finished'[i]
            = Precise(i) + Late(i) + finished[i] + (Is(e.id, i) - kept)
      BY <2>2
    <3> QED BY <2>5, <3>1, <3>2, <3>3, <3>4
  <2>8. Timed(i, "queue")' => Timed(i, "queue") \/ Waiting(i)' = 0
    <3>1. ASSUME i = e.id, kept = 0 PROVE Waiting(i)' = 0
      <4>1. Waiting(i)' = Waiting(i) - 1
        BY <2>4, <2>5, <3>1
      <4>2. Waiting(i) <= 1 /\ Waiting(i)' \in Nat
        BY <2>1, <2>2, <2>3, <2>4, <3>1 DEF Tally, Waiting
      <4> QED BY <2>5, <4>1, <4>2
    <3> QED BY <2>2, <3>1
  <2>9. Timed(i, "heap")' => Timed(i, "heap")
    BY <1>9, <2>1
  <2> QED BY <1>10, <2>1, <2>3, <2>6, <2>7, <2>8, <2>9, KeepsTally DEF CopiesInv
<1> QED BY <1>4, <1>6, <1>10, <1>11 DEF CopiesInv

-----------------------------------------------------------------------------
(* The end of a timed action. *)

LEMMA EndTimedCopies ==
    ASSUME LoopInv, LoopInv', OrderInv, CopiesInv, EndPrecision \/ EndIdle
    PROVE  CopiesInv'
<1> DEFINE x == running
<1>1. /\ UNCHANGED <<localQueue, producerQueue, posting, posts, origin>>
      /\ finished' = [finished EXCEPT ![x.id] = finished[x.id] + 1]
      /\ stage' \in {"precision", "idle", "stopped"}
  BY DEF EndPrecision, EndIdle, Continue, Fail, queueVars, postVars
<1>2. /\ IsFiniteSet(precisionEvents) /\ IsFiniteSet(idleEvents)
      /\ precisionEvents \subseteq Events /\ idleEvents \subseteq Events
  BY DEF CopiesInv, Heaps, LoopInv, Typed
<1>3. \/ /\ x \in precisionEvents /\ precisionEvents' = precisionEvents \ {x}
         /\ idleEvents' = idleEvents
      \/ /\ x \in idleEvents /\ idleEvents' = idleEvents \ {x}
         /\ precisionEvents' = precisionEvents
  <2>1. CASE EndPrecision
    <3>1. running \in Earliest(precisionEvents)
      BY <2>1 DEF EndPrecision, CopiesInv, Heaps
    <3> QED BY <2>1, <3>1 DEF EndPrecision, Tops, Earliest
  <2>2. CASE EndIdle
    <3>1. running \in Earliest(idleEvents)
      BY <2>2 DEF EndIdle, CopiesInv, Heaps
    <3> QED BY <2>2, <3>1 DEF EndIdle, Tops, Earliest
  <2> QED BY <2>1, <2>2
<1>4. x.id \in Ids
  BY <1>2, <1>3 DEF Events
<1> HIDE DEF x
<1>5. /\ IsFiniteSet(precisionEvents') /\ IsFiniteSet(idleEvents')
      /\ \A i : Precise(i) + Late(i) = Precise(i)' + Late(i)' + Is(x.id, i)
                /\ Precise(i)' \in Nat /\ Late(i)' \in Nat
  <2>1. Counts
    BY CountTypes DEF CopiesInv
  <2>2. CASE x \in precisionEvents /\ precisionEvents' = precisionEvents \ {x}
             /\ idleEvents' = idleEvents
    <3>1. IsFiniteSet(precisionEvents')
      BY <1>2, <2>2, HeapRemove
    <3>2. ASSUME NEW i
          PROVE  Precise(i) + Late(i) = Precise(i)' + Late(i)' + Is(x.id, i)
                 /\ Precise(i)' \in Nat /\ Late(i)' \in Nat
      <4>1. /\ Cardinality(InHeap(precisionEvents, i))
                = Cardinality(InHeap(precisionEvents \ {x}, i)) + Is(x.id, i)
            /\ Cardinality(InHeap(precisionEvents \ {x}, i)) \in Nat
        BY <1>2, <2>2, HeapRemove
      <4>2. Precise(i) = Precise(i)' + Is(x.id, i) /\ Precise(i)' \in Nat /\ Late(i)' = Late(i)
        BY <2>2, <4>1 DEF Precise, Late
      <4>3. Late(i) \in Nat /\ Is(x.id, i) \in Nat
        BY <2>1 DEF Counts, Is
      <4> QED BY <4>2, <4>3
    <3> QED BY <1>2, <2>2, <3>1, <3>2
  <2>3. CASE x \in idleEvents /\ idleEvents' = idleEvents \ {x}
             /\ precisionEvents' = precisionEvents
    <3>1. IsFiniteSet(idleEvents')
      BY <1>2, <2>3, HeapRemove
    <3>2. ASSUME NEW i
          PROVE  Precise(i) + Late(i) = Precise(i)' + Late(i)' + Is(x.id, i)
                 /\ Precise(i)' \in Nat /\ Late(i)' \in Nat
      <4>1. /\ Cardinality(InHeap(idleEvents, i))
                = Cardinality(InHeap(idleEvents \ {x}, i)) + Is(x.id, i)
            /\ Cardinality(InHeap(idleEvents \ {x}, i)) \in Nat
        BY <1>2, <2>3, HeapRemove
      <4>2. Late(i) = Late(i)' + Is(x.id, i) /\ Late(i)' \in Nat /\ Precise(i)' = Precise(i)
        BY <2>3, <4>1 DEF Precise, Late
      <4>3. Precise(i) \in Nat /\ Is(x.id, i) \in Nat
        BY <2>1 DEF Counts, Is
      <4> QED BY <4>2, <4>3
    <3> QED BY <1>2, <2>3, <3>1, <3>2
  <2> QED BY <1>3, <2>2, <2>3
<1>6. Heaps'
  BY <1>1, <1>5 DEF Heaps
<1>7. ASSUME NEW i \in 1 .. posts PROVE Tally(i)'
  <2>1. i \in Ids /\ Tally(i) /\ finished[i] \in Nat
    BY Recent DEF CopiesInv
  <2>2. /\ Waiting(i)' = Waiting(i) /\ UnderWay(i)' = UnderWay(i)
        /\ StoredTwice(i)' <=> StoredTwice(i)
    BY <1>1 DEF Waiting, Local, Queued, External, UnderWay, Posting, StoredTwice
  <2>3. finished'[i] = finished[i] + Is(x.id, i)
    <3>1. finished \in [Ids -> Nat]
      BY Recent
    <3> QED BY <1>1, <2>1, <3>1 DEF Is
  <2>4. Waiting(i) \in Nat
    <3>1. Counts
      BY CountTypes DEF CopiesInv
    <3> QED BY <3>1 DEF Counts, Waiting
  <2>5. Waiting(i)' + Precise(i)' + Late(i)' + finished'[i]
          = Waiting(i) + Precise(i) + Late(i) + finished[i]
    <3>1. Is(x.id, i) \in Nat
      BY DEF Is
    <3>2. Precise(i) + Late(i) = Precise(i)' + Late(i)' + Is(x.id, i)
          /\ Precise(i)' \in Nat /\ Late(i)' \in Nat
      BY <1>5
    <3>3. Precise(i) \in Nat /\ Late(i) \in Nat
      <4>1. Counts
        BY CountTypes DEF CopiesInv
      <4> QED BY <4>1 DEF Counts
    <3> QED BY <2>1, <2>2, <2>3, <2>4, <3>1, <3>2, <3>3
  <2>6. /\ Timed(i, "queue")' => Timed(i, "queue")
        /\ Timed(i, "heap")' => Timed(i, "heap")
    BY <1>3 DEF Timed
  <2>7. Waiting(i)' <= Waiting(i)
    BY <2>2, <2>4
  <2> QED BY <1>6, <2>1, <2>2, <2>5, <2>6, <2>7, KeepsTally DEF CopiesInv
<1> QED BY <1>1, <1>6, <1>7 DEF CopiesInv, Bounded
-----------------------------------------------------------------------------
(* Posting. *)

LEMMA PostFromLoopCopies ==
    ASSUME LoopInv, LoopInv', OrderInv, CopiesInv,
           NEW op \in AllKinds, NEW time \in Times, PostFromLoop(op, time)
    PROVE  CopiesInv'
<1>1. PICK e \in Entries :
        /\ StoreLocally(e) /\ posts' = posts + 1 /\ e.id = posts + 1 /\ e.op = op
        /\ origin' = [origin EXCEPT ![e.id] = [op |-> op, by |-> LoopThread, external |-> FALSE]]
        /\ UNCHANGED <<stage, running, clock, producerQueue, posting, finished>>
        /\ op \in {"precision", "idle"} => clock <= e.time
  <2>1. [id |-> posts + 1, op |-> op, time |-> time] \in Entries
    BY PostTypes DEF PostFromLoop
  <2> QED BY <2>1 DEF PostFromLoop, Postable, Forwarding, loopVars, historyVars
<1>2. posts \in Nat /\ e.id \in Ids /\ e.id > posts
  BY <1>1, Recent DEF Entries
<1> DEFINE j == e.id
<1>3. /\ Local(j) = 0 /\ Queued(j) = 0 /\ UnderWay(j) = 0 /\ Precise(j) = 0 /\ Late(j) = 0
      /\ finished[j] = 0 /\ Posting(j) = {} /\ \A x \in precisionEvents \union idleEvents : x.id # j
  BY <1>2, Fresh DEF CopiesInv
<1> HIDE DEF j
<1>4. ~Timed(j, "heap") /\ ~Timed(j, "queue")
  BY <1>3 DEF Timed
<1>5. \A i : /\ IsFiniteSet(precisionEvents') /\ IsFiniteSet(idleEvents')
             /\ Local(i)' = Local(i) + (IF e.op = "precision" THEN 0 ELSE Is(e.id, i))
             /\ Precise(i)' = Precise(i) + (IF e.op = "precision" THEN Is(e.id, i) ELSE 0)
             /\ Late(i)' = Late(i) + (IF e.op = "idle" THEN Is(e.id, i) ELSE 0)
             /\ Timed(i, "queue")' <=> Timed(i, "queue")
             /\ i # e.id => (Timed(i, "heap")' <=> Timed(i, "heap"))
  BY <1>1, <1>4, StoreCopies DEF CopiesInv, j
<1>6. Heaps'
  BY <1>1, <1>5, StoreHeaps DEF CopiesInv
<1>7. \A i : Queued(i)' = Queued(i) /\ UnderWay(i)' = UnderWay(i) /\ Posting(i)' = Posting(i)
  BY <1>1 DEF Queued, External, UnderWay, Posting
<1>8. Counts /\ Counts'
  BY <1>6, CountTypes, PTL DEF CopiesInv
<1>9. /\ origin'[j] = [op |-> op, by |-> LoopThread, external |-> FALSE]
      /\ \A i \in Ids : i # j => origin'[i] = origin[i]
  BY <1>1, <1>2, Recent DEF j
<1>10. ASSUME NEW i \in 1 .. posts PROVE Tally(i)'
  <2>1. i \in Ids /\ Tally(i) /\ i # j /\ Is(e.id, i) = 0
    BY <1>2, Recent DEF CopiesInv, Is, j
  <2>2. Local(i) \in Nat /\ Precise(i) \in Nat /\ Late(i) \in Nat
    BY <1>8 DEF Counts
  <2>3. Local(i)' = Local(i) /\ Precise(i)' = Precise(i) /\ Late(i)' = Late(i)
    BY <1>5, <2>1, <2>2
  <2>4. Waiting(i)' = Waiting(i) /\ Waiting(i) \in Nat
    BY <1>7, <1>8, <2>3 DEF Waiting, Counts
  <2>5. StoredTwice(i)' <=> StoredTwice(i)
    BY <1>7, <1>9, <2>1 DEF StoredTwice
  <2>6. /\ Timed(i, "queue")' => Timed(i, "queue")
        /\ Timed(i, "heap")' => Timed(i, "heap")
    BY <1>5, <2>1 DEF j
  <2>7. /\ Waiting(i)' + Precise(i)' + Late(i)' + finished'[i]
             = Waiting(i) + Precise(i) + Late(i) + finished[i]
        /\ Waiting(i)' <= Waiting(i)
    BY <1>1, <2>3, <2>4
  <2> QED BY <1>6, <1>7, <2>1, <2>5, <2>6, <2>7, KeepsTally DEF CopiesInv
<1>11. ASSUME NEW i, i = j PROVE Tally(i)'
  <2>1. Is(e.id, i) = 1
    BY <1>11 DEF Is, j
  <2>2. /\ Local(i)' = (IF op = "precision" THEN 0 ELSE 1)
        /\ Precise(i)' = (IF op = "precision" THEN 1 ELSE 0)
        /\ Late(i)' = (IF op = "idle" THEN 1 ELSE 0)
        /\ Queued(i)' = 0 /\ UnderWay(i)' = 0 /\ finished'[i] = 0 /\ Posting(i)' = {}
    BY <1>1, <1>3, <1>5, <1>7, <1>11, <2>1
  <2>3. ~Timed(i, "queue")'
    BY <1>4, <1>5, <1>11
  <2>4. StoredTwice(i)' <=> op = "idle"
    BY <1>9, <1>11, <2>2 DEF StoredTwice
  <2>5. Waiting(i)' = (IF op = "precision" THEN 0 ELSE 1)
    BY <2>2 DEF Waiting
  <2>6. Copies(i)' = (IF op = "idle" THEN 2 ELSE 1)
    BY <1>8, <2>2, <2>5 DEF Counts
  <2>7. Waiting(i)' <= 1 /\ ~(UnderWay(i)' > 0)
    BY <2>2, <2>5
  <2>8. Copies(i)' + finished'[i] = IF StoredTwice(i)' THEN 2 ELSE 1
    BY <2>2, <2>4, <2>6
  <2> QED BY <2>3, <2>7, <2>8 DEF Tally
<1>12. \A i \in 1 .. posts' : i \in 1 .. posts \/ i = j
  BY <1>1, <1>2 DEF j
<1>13. \A i \in 1 .. posts' : Tally(i)'
  BY <1>10, <1>11, <1>12
<1> QED BY <1>1, <1>6, <1>13 DEF CopiesInv, Bounded

LEMMA PostCopies ==
    ASSUME LoopInv, LoopInv', OrderInv, CopiesInv, NEW p \in Producers,
           NEW op \in AllKinds, NEW time \in Times, Post(p, op, time)
    PROVE  CopiesInv'
<1>1. PICK e \in Entries :
        /\ posts' = posts + 1 /\ e.id = posts + 1 /\ posting[p] = NoPost
        /\ posting' = [posting EXCEPT ![p] = [entry |-> e, external |-> active]]
        /\ origin' = [origin EXCEPT ![e.id] = [op |-> op, by |-> p, external |-> active]]
        /\ UNCHANGED <<stage, running, clock, localQueue, producerQueue, precisionEvents, idleEvents,
                       finished>>
  <2>1. [id |-> posts + 1, op |-> op, time |-> time] \in Entries
    BY PostTypes DEF Post
  <2> QED BY <2>1 DEF Post, loopVars, timedVars, historyVars
<1>2. posts \in Nat /\ e.id \in Ids /\ e.id > posts
  BY <1>1, Recent DEF Entries
<1> DEFINE j == e.id
<1>3. /\ Local(j) = 0 /\ Queued(j) = 0 /\ Precise(j) = 0 /\ Late(j) = 0 /\ finished[j] = 0
      /\ Posting(j) = {} /\ \A x \in precisionEvents \union idleEvents : x.id # j
  BY <1>2, Fresh DEF CopiesInv
<1>4. posting'[p] # NoPost /\ posting'[p].entry.id = j
      /\ \A o \in Producers \ {p} : posting'[o] = posting[o]
  <2>1. [entry |-> e, external |-> active] # NoPost
    BY EventQueueAssumption DEF LoopInv, Typed, Entries
  <2> QED BY <1>1, <2>1 DEF LoopInv, Typed
<1> HIDE DEF j
<1>5. Posting(j)' = {p} /\ \A i : i # j => Posting(i)' = Posting(i)
  <2>1. Posting(j)' = Posting(j) \union {p}
    BY <1>1, <1>4 DEF Posting, j
  <2>2. \A i : i # j => Posting(i)' = Posting(i)
    BY <1>1, <1>4 DEF Posting
  <2> QED BY <1>3, <2>1, <2>2
<1>6. Heaps'
  BY <1>1 DEF CopiesInv, Heaps, Earliest
<1>7. \A i : /\ Local(i)' = Local(i) /\ Queued(i)' = Queued(i)
             /\ Precise(i)' = Precise(i) /\ Late(i)' = Late(i)
             /\ Timed(i, "queue")' <=> Timed(i, "queue")
             /\ Timed(i, "heap")' <=> Timed(i, "heap")
  BY <1>1 DEF Local, Queued, External, Precise, Late, Timed
<1>8. Counts /\ Counts'
  BY <1>6, CountTypes, PTL DEF CopiesInv
<1>9. origin'[j].external = active /\ \A i \in Ids : i # j => origin'[i] = origin[i]
  BY <1>1, <1>2, Recent DEF j
<1>10. ASSUME NEW i \in 1 .. posts PROVE Tally(i)'
  <2>1. i \in Ids /\ Tally(i) /\ i # j
    BY <1>2, Recent DEF CopiesInv, j
  <2>2. UnderWay(i)' = UnderWay(i) /\ (StoredTwice(i)' <=> StoredTwice(i))
    BY <1>5, <1>9, <2>1 DEF UnderWay, StoredTwice
  <2>3. Waiting(i)' = Waiting(i) /\ Waiting(i) \in Nat
    BY <1>7, <1>8, <2>2 DEF Waiting, Counts
  <2>4. /\ Waiting(i)' + Precise(i)' + Late(i)' + finished'[i]
             = Waiting(i) + Precise(i) + Late(i) + finished[i]
        /\ Waiting(i)' <= Waiting(i)
    BY <1>1, <1>7, <2>3
  <2> QED BY <1>6, <1>7, <2>1, <2>2, <2>4, KeepsTally DEF CopiesInv
<1>11. ASSUME NEW i, i = j PROVE Tally(i)'
  <2>1. UnderWay(i)' = 1
    BY <1>5, <1>11, FS_Singleton DEF UnderWay
  <2>2. Waiting(i)' = 1 /\ Precise(i)' = 0 /\ Late(i)' = 0 /\ finished'[i] = 0
    BY <1>1, <1>3, <1>7, <1>11, <2>1 DEF Waiting
  <2>3. ~Timed(i, "queue")' /\ ~Timed(i, "heap")'
    BY <1>3, <1>7, <1>11 DEF Timed
  <2>4. ~StoredTwice(i)'
    BY <1>5, <1>11 DEF StoredTwice
  <2>5. Copies(i)' = 1
    BY <1>8, <2>2 DEF Counts
  <2> QED BY <2>2, <2>3, <2>4, <2>5 DEF Tally
<1>12. \A i \in 1 .. posts' : i \in 1 .. posts \/ i = j
  BY <1>1, <1>2 DEF j
<1>13. \A i \in 1 .. posts' : Tally(i)'
  BY <1>10, <1>11, <1>12
<1> QED BY <1>1, <1>6, <1>13 DEF CopiesInv, Bounded

LEMMA PushExternalCopies ==
    ASSUME LoopInv, LoopInv', OrderInv, CopiesInv, NEW p \in Producers, PushExternal(p)
    PROVE  CopiesInv'
<1>1. PICK e \in Entries :
        /\ e = posting[p].entry /\ posting[p] # NoPost /\ posting[p].external
        /\ Len(producerQueue[p]) < Capacity
        /\ producerQueue' = [producerQueue EXCEPT ![p] = Append(producerQueue[p], e)]
        /\ posting' = [posting EXCEPT ![p] = NoPost]
        /\ UNCHANGED <<stage, running, clock, localQueue, precisionEvents, idleEvents, posts, origin,
                       finished>>
  <2>1. posting[p].entry \in Entries
    BY Recent DEF PushExternal
  <2> QED BY <2>1 DEF PushExternal, loopVars, timedVars, historyVars
<1>2. Heaps'
  BY <1>1 DEF CopiesInv, Heaps, Earliest
<1>3. \A i : Queued(i)' = Queued(i) + Is(e.id, i)
  BY <1>1, ExternalAppend
<1>4. \A i : /\ Posting(i)' = Posting(i) \ {p} /\ UnderWay(i) = UnderWay(i)' + Is(e.id, i)
             /\ UnderWay(i)' \in Nat
  BY <1>1, PostingEnds
<1>5. \A i : /\ Local(i)' = Local(i) /\ Precise(i)' = Precise(i) /\ Late(i)' = Late(i)
             /\ Timed(i, "queue")' <=> Timed(i, "queue")
             /\ Timed(i, "heap")' <=> Timed(i, "heap")
  BY <1>1 DEF Local, Precise, Late, Timed
<1>6. Counts
  BY CountTypes DEF CopiesInv
<1>7. Bounded'
  <2>1. \A o \in Producers \ {p} : producerQueue'[o] = producerQueue[o]
    BY <1>1 DEF LoopInv, Typed
  <2>2. Len(producerQueue'[p]) = Len(producerQueue[p]) + 1 /\ Len(producerQueue[p]) \in Nat
    BY <1>1, Recent, AppendProperties DEF LoopInv, Typed
  <2>3. Len(producerQueue'[p]) <= Capacity
    BY <1>1, <2>2, EventQueueAssumption
  <2> QED BY <2>1, <2>3 DEF CopiesInv, Bounded
<1>8. ASSUME NEW i \in 1 .. posts PROVE Tally(i)'
  <2>1. i \in Ids /\ Tally(i)
    BY Recent DEF CopiesInv
  <2>2. Is(e.id, i) \in {0, 1} /\ Local(i) \in Nat /\ Queued(i) \in Nat
    BY <1>6 DEF Is, Counts
  <2>3. Queued(i)' + UnderWay(i)' = Queued(i) + UnderWay(i) /\ UnderWay(i) >= UnderWay(i)'
    BY <1>3, <1>4, <2>2
  <2>4. Waiting(i)' = Waiting(i) /\ Waiting(i) \in Nat
    <3>1. UnderWay(i) \in Nat /\ UnderWay(i)' \in Nat /\ Queued(i)' \in Nat
      BY <1>3, <1>4, <1>6, <2>2 DEF Counts
    <3> QED BY <1>5, <2>2, <2>3, <3>1 DEF Waiting
  <2>5. StoredTwice(i)' <=> StoredTwice(i)
    <3>1. CASE i = e.id
      <4>1. origin[i].external
        <5>1. origin[e.id] = [op |-> e.op, by |-> p, external |-> posting[p].external]
          BY <1>1, Underway
        <5> QED BY <1>1, <3>1, <5>1
      <4> QED BY <1>1, <4>1 DEF StoredTwice
    <3>2. CASE i # e.id
      <4>1. p \notin Posting(i)
        BY <1>1, <3>2 DEF Posting
      <4> QED BY <1>1, <1>4, <4>1 DEF StoredTwice
    <3> QED BY <3>1, <3>2
  <2>6. /\ Waiting(i)' + Precise(i)' + Late(i)' + finished'[i]
             = Waiting(i) + Precise(i) + Late(i) + finished[i]
        /\ Waiting(i)' <= Waiting(i)
    BY <1>1, <1>5, <2>4
  <2>7. UnderWay(i)' > 0 => UnderWay(i) > 0
    BY <1>4, <2>2
  <2> QED BY <1>2, <1>5, <2>1, <2>5, <2>6, <2>7, KeepsTally DEF CopiesInv
<1> QED BY <1>1, <1>2, <1>7, <1>8 DEF CopiesInv

LEMMA PushLocalCopies ==
    ASSUME LoopInv, LoopInv', OrderInv, CopiesInv, NEW p \in Producers, PushLocal(p)
    PROVE  CopiesInv'
<1>1. PICK e \in Entries :
        /\ e = posting[p].entry /\ posting[p] # NoPost /\ ~posting[p].external
        /\ stage = "stopped" /\ StoreLocally(e)
        /\ posting' = [posting EXCEPT ![p] = NoPost]
        /\ UNCHANGED <<stage, running, clock, producerQueue, posts, origin, finished>>
  <2>1. posting[p].entry \in Entries
    BY Recent DEF PushLocal, PushesLocally
  <2> QED BY <2>1 DEF PushLocal, PushesLocally, loopVars, historyVars
<1>2. /\ e.id \in 1 .. posts
      /\ origin[e.id] = [op |-> e.op, by |-> p, external |-> posting[p].external]
  BY <1>1, Underway
<1>3. \A i : /\ Posting(i)' = Posting(i) \ {p} /\ UnderWay(i) = UnderWay(i)' + Is(e.id, i)
             /\ UnderWay(i)' \in Nat
  BY <1>1, PostingEnds
<1>4. Counts
  BY CountTypes DEF CopiesInv
<1>5. ~Timed(e.id, "heap") /\ ~Timed(e.id, "queue") /\ Tally(e.id) /\ UnderWay(e.id) > 0
  <2>1. UnderWay(e.id) > 0 /\ Waiting(e.id) > 0
    <3>1. SUFFICES ASSUME NEW k, k = e.id PROVE UnderWay(k) > 0 /\ Waiting(k) > 0
      OBVIOUS
    <3>2. UnderWay(k) = UnderWay(k)' + 1 /\ UnderWay(k)' \in Nat
      BY <1>3, <3>1 DEF Is
    <3> QED BY <1>4, <3>2 DEF Counts, Waiting
  <2> QED BY <1>2, <2>1 DEF CopiesInv, Tally
<1>6. \A i : /\ IsFiniteSet(precisionEvents') /\ IsFiniteSet(idleEvents')
             /\ Local(i)' = Local(i) + (IF e.op = "precision" THEN 0 ELSE Is(e.id, i))
             /\ Precise(i)' = Precise(i) + (IF e.op = "precision" THEN Is(e.id, i) ELSE 0)
             /\ Late(i)' = Late(i) + (IF e.op = "idle" THEN Is(e.id, i) ELSE 0)
             /\ Timed(i, "queue")' <=> Timed(i, "queue")
             /\ i # e.id => (Timed(i, "heap")' <=> Timed(i, "heap"))
  BY <1>1, <1>5, StoreCopies DEF CopiesInv
<1>7. Heaps'
  BY <1>1, <1>6 DEF Heaps
<1>8. Counts'
  BY <1>7, CountTypes, PTL
<1>9. \A i : Queued(i)' = Queued(i)
  BY <1>1 DEF Queued, External
<1>10. ASSUME NEW i \in 1 .. posts, i # e.id PROVE Tally(i)'
  <2>1. i \in Ids /\ Tally(i) /\ Is(e.id, i) = 0
    BY <1>10, Recent DEF CopiesInv, Is
  <2>2. Local(i) \in Nat /\ Precise(i) \in Nat /\ Late(i) \in Nat /\ UnderWay(i) \in Nat
    BY <1>4 DEF Counts
  <2>3. Local(i)' = Local(i) /\ Precise(i)' = Precise(i) /\ Late(i)' = Late(i) /\ UnderWay(i)' = UnderWay(i)
    BY <1>3, <1>6, <2>1, <2>2
  <2>4. Waiting(i)' = Waiting(i) /\ Waiting(i) \in Nat
    BY <1>4, <1>9, <2>3 DEF Waiting, Counts
  <2>5. StoredTwice(i)' <=> StoredTwice(i)
    <3>1. p \notin Posting(i)
      BY <1>1, <1>10 DEF Posting
    <3> QED BY <1>1, <1>3, <3>1 DEF StoredTwice
  <2>6. /\ Waiting(i)' + Precise(i)' + Late(i)' + finished'[i]
             = Waiting(i) + Precise(i) + Late(i) + finished[i]
        /\ Waiting(i)' <= Waiting(i)
    BY <1>1, <2>3, <2>4
  <2> QED BY <1>6, <1>7, <1>10, <2>1, <2>3, <2>5, <2>6, KeepsTally DEF CopiesInv
<1>11. ASSUME NEW i \in 1 .. posts, i = e.id PROVE Tally(i)'
  <2>1. i \in Ids /\ Tally(i) /\ Is(e.id, i) = 1 /\ finished[i] \in Nat
    BY <1>11, Recent DEF CopiesInv, Is
  <2>2. /\ Local(i) \in Nat /\ Queued(i) \in Nat /\ Precise(i) \in Nat /\ Late(i) \in Nat
        /\ UnderWay(i) = UnderWay(i)' + 1 /\ UnderWay(i)' \in Nat
        /\ Copies(i) = Waiting(i) + Precise(i) + Late(i)
    BY <1>3, <1>4, <2>1 DEF Counts
  <2>3. /\ Waiting(i) <= 1 /\ Waiting(i) = Local(i) + Queued(i) + UnderWay(i)
    BY <2>1 DEF Tally, Waiting
  <2>4. Local(i) = 0 /\ Queued(i) = 0 /\ UnderWay(i)' = 0 /\ Waiting(i) = 1
    BY <2>2, <2>3
  <2>5. ~StoredTwice(i) /\ (StoredTwice(i)' <=> e.op = "idle")
    <3>1. p \in Posting(i)
      BY <1>1, <1>11 DEF Posting
    <3>2. Posting(i)' = {}
      <4>1. PostsCounted'
        BY PostsAreCounted, PTL
      <4> QED BY <2>4, <4>1 DEF PostsCounted
    <3>3. origin'[i].op = e.op /\ ~origin'[i].external
      BY <1>1, <1>2, <1>11
    <3> QED BY <3>1, <3>2, <3>3 DEF StoredTwice
  <2>6. Copies(i) + finished[i] = 1
    BY <2>1, <2>5 DEF Tally
  <2>7. Precise(i) + Late(i) + finished[i] = 0
    BY <2>1, <2>2, <2>4, <2>6
  <2>8. Precise(i) = 0 /\ Late(i) = 0 /\ finished[i] = 0
    BY <2>1, <2>2, <2>7
  <2>9. /\ Local(i)' = (IF e.op = "precision" THEN 0 ELSE 1)
        /\ Precise(i)' = (IF e.op = "precision" THEN 1 ELSE 0)
        /\ Late(i)' = (IF e.op = "idle" THEN 1 ELSE 0)
        /\ Queued(i)' = 0 /\ finished'[i] = 0
    BY <1>1, <1>6, <1>9, <2>1, <2>4, <2>8
  <2>10. Waiting(i)' = (IF e.op = "precision" THEN 0 ELSE 1)
    BY <2>4, <2>9 DEF Waiting
  <2>11. Copies(i)' = (IF e.op = "idle" THEN 2 ELSE 1)
    BY <1>8, <2>9, <2>10 DEF Counts
  <2>12. Copies(i)' + finished'[i] = IF StoredTwice(i)' THEN 2 ELSE 1
    BY <2>5, <2>9, <2>11
  <2>13. ~Timed(i, "queue")'
    BY <1>5, <1>6, <1>11
  <2> QED BY <2>4, <2>10, <2>12, <2>13 DEF Tally
<1>12. \A i \in 1 .. posts' : Tally(i)'
  BY <1>1, <1>10, <1>11
<1> QED BY <1>1, <1>7, <1>12 DEF CopiesInv, Bounded
-----------------------------------------------------------------------------
(* The other steps leave the actions where they are. *)

LEMMA QuietCopies ==
    ASSUME LoopInv, LoopInv', CopiesInv, Heaps',
           UNCHANGED <<localQueue, producerQueue, precisionEvents, idleEvents, posting, posts, origin,
                       finished>>
    PROVE  CopiesInv'
<1>1. Bounded'
  BY DEF CopiesInv, Bounded
<1>2. ASSUME NEW i \in 1 .. posts PROVE Tally(i)'
  <2>1. Tally(i)
    BY DEF CopiesInv
  <2> QED BY <2>1 DEF Tally, Waiting, Local, Queued, External, UnderWay, Timed, Copies, Posting,
                      StoredTwice
<1> QED BY <1>1, <1>2 DEF CopiesInv

LEMMA CopiesStep == LoopInv /\ LoopInv' /\ OrderInv /\ CopiesInv /\ [Next]_vars => CopiesInv'
<1> SUFFICES ASSUME LoopInv, LoopInv', OrderInv, CopiesInv, [Next]_vars PROVE CopiesInv'
  OBVIOUS
<1> DEFINE Quiet == UNCHANGED <<localQueue, producerQueue, precisionEvents, idleEvents, posting,
                                posts, origin, finished>>
<1>1. ASSUME Quiet, stage' = stage \/ stage' \notin {"runPrecision", "runIdle"},
             running' = running, clock' = clock
      PROVE  CopiesInv'
  <2>1. Heaps'
    BY <1>1 DEF CopiesInv, Heaps, Earliest
  <2> QED BY <1>1, <2>1, QuietCopies
<1>2. CASE PrecisionDone \/ IdleDone \/ Poll
  <2>1. Quiet /\ stage' \notin {"runPrecision", "runIdle"} /\ running' = running /\ clock' = clock
    BY <1>2 DEF PrecisionDone, IdleDone, Poll, EndCycle, Fail, queueVars, timedVars, postVars, historyVars
  <2> QED BY <1>1, <2>1
<1>3. CASE RunLocal \/ LocalEmpty \/ RunExternal \/ ExternalEmpty \/ ExternalDone
  <2>1. /\ Quiet /\ running' = running /\ clock' = clock
        /\ stage' = stage \/ stage' \notin {"runPrecision", "runIdle"}
    BY <1>3 DEF RunLocal, LocalEmpty, RunExternal, ExternalEmpty, ExternalDone, EndCycle, queueVars,
                timedVars, postVars, historyVars
  <2> QED BY <1>1, <2>1
<1>4. CASE Start \/ PumpEvents \/ Stop
  <2>1. /\ Quiet /\ running' = running /\ clock' = clock
        /\ stage' = stage \/ stage' \notin {"runPrecision", "runIdle"}
    BY <1>4 DEF Start, PumpEvents, Stop, BeginCycle, queueVars, timedVars, postVars, historyVars
  <2> QED BY <1>1, <2>1
<1>5. CASE Tick
  <2>1. Quiet /\ stage' = stage /\ running' = running /\ clock' = clock + 1 /\ clock \in Nat
    BY <1>5, EventQueueAssumption DEF Tick, LoopInv, Typed, Times, loopVars, queueVars, timedVars,
              postVars, historyVars
  <2>2. stage \in {"runPrecision", "runIdle"} => running.time \in Nat
    BY EventQueueAssumption, SMTT(30) DEF LoopInv, Typed, Control, Events, Times
  <2>3. stage \in {"runPrecision", "runIdle"} => running.time <= clock
    BY DEF CopiesInv, Heaps
  <2>4. stage \in {"runPrecision", "runIdle"} => running.time <= clock + 1
    BY <2>1, <2>2, <2>3
  <2>5. Heaps'
    BY <2>1, <2>4 DEF CopiesInv, Heaps, Earliest
  <2> QED BY <2>1, <2>5, QuietCopies
<1>6. CASE FirePrecision \/ FireIdle
  <2>1. Quiet /\ clock' = clock
    BY <1>6 DEF FirePrecision, FireIdle, queueVars, timedVars, postVars, historyVars
  <2>2. \/ stage' = "runPrecision" /\ running' \in Due(precisionEvents)
        \/ stage' = "runIdle" /\ running' \in Due(idleEvents)
    BY <1>6 DEF FirePrecision, FireIdle
  <2>3. Heaps'
    BY <2>1, <2>2 DEF CopiesInv, Heaps, Due, Earliest
  <2> QED BY <2>1, <2>3, QuietCopies
<1>7. CASE EndPrecision \/ EndIdle
  BY <1>7, EndTimedCopies
<1>8. CASE EndLocal
  BY <1>8, EndLocalCopies
<1>9. CASE EndExternal
  BY <1>9, EndExternalCopies
<1>10. ASSUME NEW op \in AllKinds, NEW time \in Times, PostFromLoop(op, time) PROVE CopiesInv'
  BY <1>10, PostFromLoopCopies
<1>11. ASSUME NEW p \in Producers, NEW op \in AllKinds, NEW time \in Times, Post(p, op, time)
       PROVE  CopiesInv'
  BY <1>11, PostCopies
<1>12. ASSUME NEW p \in Producers, PushExternal(p) PROVE CopiesInv'
  BY <1>12, PushExternalCopies
<1>13. ASSUME NEW p \in Producers, PushLocal(p) PROVE CopiesInv'
  BY <1>13, PushLocalCopies
<1>14. ASSUME NEW p \in Producers, RacingPush(p) PROVE CopiesInv'
  <2>1. Quiet /\ stage' = stage /\ running' = running /\ clock' = clock
    BY <1>14 DEF RacingPush, loopVars, queueVars, timedVars, postVars, historyVars
  <2> QED BY <1>1, <2>1
<1>15. CASE UNCHANGED vars
  <2>1. Quiet /\ stage' = stage /\ running' = running /\ clock' = clock
    BY <1>15 DEF vars, loopVars, queueVars, timedVars, postVars, historyVars
  <2> QED BY <1>1, <2>1
<1> HIDE DEF Quiet
<1> QED BY <1>2, <1>3, <1>4, <1>5, <1>6, <1>7, <1>8, <1>9, <1>10, <1>11, <1>12, <1>13, <1>14, <1>15
       DEF Next, LoopStep

LEMMA CopiesInit == Init => CopiesInv
<1> SUFFICES ASSUME Init PROVE CopiesInv
  OBVIOUS
<1>1. Bounded
  BY EmptySeq, EventQueueAssumption DEF Init, Bounded
<1>2. Heaps
  BY FS_EmptySet DEF Init, Heaps
<1>3. 1 .. posts = {}
  BY DEF Init
<1> QED BY <1>1, <1>2, <1>3 DEF CopiesInv

(* Every action that was posted is in exactly one place or has run to its   *)
(* end once (an idle action posted on the loop thread: two), through        *)
(* retries, forwarding, failures, stops and restarts.                       *)
THEOREM NothingLostNorRepeated == Spec => []Conservation
<1>1. Init => LoopInv /\ OrderInv /\ CopiesInv
  BY LoopInit, OrderInit, CopiesInit
<1>2. LoopInv /\ OrderInv /\ CopiesInv /\ [Next]_vars => (LoopInv /\ OrderInv /\ CopiesInv)'
  BY LoopInvStep, OrderStep, CopiesStep
<1>3. CopiesInv => Conservation
  BY DEF CopiesInv, Tally, Conservation
<1> QED BY <1>1, <1>2, <1>3, PTL DEF Spec
=============================================================================
