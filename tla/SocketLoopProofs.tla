-------------------------- MODULE SocketLoopProofs --------------------------
(***************************************************************************)
(* Proofs about the descriptors of one loop, for any clients, connections, *)
(* numbers of descriptors, opens and closes.                               *)
(***************************************************************************)
EXTENDS SocketLoop, FiniteSetTheorems, WellFoundedInduction, TLAPS

-----------------------------------------------------------------------------
(* Constants. *)

LEMMA Distinct ==
    /\ \A e \in Endpoints : e \in Owners /\ e # Listener /\ e # None /\ e # Process
    /\ Listener \in Owners /\ Listener # None /\ Listener # Process /\ Process # None
    /\ \A o \in Owners : o # None /\ o # Process /\ (o = Listener \/ o \in Endpoints)
    /\ \A c \in Clients : c \in Endpoints /\ c \in Owners /\ c \notin Servers
    /\ \A s \in Servers : s \in Endpoints /\ s \in Owners /\ s \notin Clients
    /\ 0 \in Fds /\ Fds \subseteq Nat /\ MaxFd \in Nat
BY SocketAssumption DEF Owners, Endpoints, Fds

(* There is a lowest free descriptor. *)
LEMMA LeastInSet ==
    ASSUME NEW S \in SUBSET Nat, S # {}
    PROVE  Min(S) \in S
<1> DEFINE R == OpToRel(<, Nat)
<1>1. \E x \in S : \A y \in S : ~ (<<y, x>> \in R)
  <2> HIDE DEF R
  <2>1. IsWellFoundedOn(R, Nat)
    BY NatLessThanWellFounded DEF R
  <2> QED BY <2>1, WFMin
<1>2. PICK x \in S : \A y \in S : ~ (<<y, x>> \in R)
  BY <1>1
<1>3. \A y \in S : x =< y
  <2> SUFFICES ASSUME NEW y \in S, ~(x =< y) PROVE FALSE
    OBVIOUS
  <2>1. y < x /\ <<y, x>> \in Nat \X Nat
    OBVIOUS
  <2>2. <<y, x>> \in R
    BY <2>1 DEF OpToRel
  <2> QED BY <1>2, <2>2
<1> QED BY <1>2, <1>3 DEF Min

LEMMA LowestIsFree ==
    ASSUME Unused # {}
    PROVE  LowestFree \in Unused /\ LowestFree \in Fds /\ files[LowestFree] = None
<1>1. Unused \in SUBSET Nat
  BY Distinct DEF Unused
<1>2. LowestFree \in Unused
  BY <1>1, LeastInSet DEF LowestFree
<1> QED BY <1>2 DEF Unused

-----------------------------------------------------------------------------
(* Types. *)

FileTypes ==
    /\ files \in [Fds -> Owners \union {Process, None}] /\ hung \subseteq Fds
    /\ fd \in [Owners -> Fds] /\ leaked \subseteq Owners
PollTypes ==
    /\ registered \in [Fds -> Owners \union {None}] /\ epoll \subseteq Fds
    /\ batch \subseteq Events /\ current \in Events \union {None}
    /\ situations \subseteq {"crossed", "destroyed", "garbage", "zero"}
    /\ loop \in {"idle", "batch", "dispatch", "callback", "ended", "undefined"}
EndpointTypes ==
    /\ sslSocket \in [Endpoints -> Fds]
    /\ sslState \in [Endpoints -> {"none", "Disconnected", "ConnectingToRemote",
                                   "RemoteClientConnecting", "Connected", "destroyed"}]
    /\ handshakes \in [Endpoints -> Nat] /\ closings \in [Endpoints -> Nat]
CountTypes == opens \in [Owners -> Nat] /\ closes \in [Owners -> Nat]

LEMMA TypesSplit ==
    /\ TypeOK <=> FileTypes /\ PollTypes /\ EndpointTypes /\ CountTypes
    /\ TypeOK' <=> FileTypes' /\ PollTypes' /\ EndpointTypes' /\ CountTypes'
BY DEF TypeOK, FileTypes, PollTypes, EndpointTypes, CountTypes

LEMMA EventTypes ==
    ASSUME PollTypes, NEW fs
    PROVE  /\ {[ev EXCEPT !.freed = @ \/ ev.fd \in fs] : ev \in batch} \subseteq Events
           /\ \A ev \in batch : /\ ev.fd \in Fds /\ ev.freed \in BOOLEAN /\ ev \in Events
                                /\ [ev EXCEPT !.freed = @ \/ ev.fd \in fs].fd = ev.fd
                                /\ [ev EXCEPT !.freed = @ \/ ev.fd \in fs].freed = (ev.freed \/ ev.fd \in fs)
BY DEF PollTypes, Events

LEMMA RemoveTypes ==
    ASSUME PollTypes, NEW fs, RemoveEndpoints(fs),
           current' \in Events \union {None},
           situations' \subseteq {"crossed", "destroyed", "garbage", "zero"},
           loop' \in {"idle", "batch", "dispatch", "callback", "ended", "undefined"}
    PROVE  PollTypes'
<1>1. registered' \in [Fds -> Owners \union {None}] /\ epoll' \subseteq Fds
  BY DEF PollTypes, RemoveEndpoints
<1>2. batch' \subseteq Events
  BY EventTypes DEF RemoveEndpoints
<1> QED BY <1>1, <1>2 DEF PollTypes

LEMMA CloseTypes ==
    ASSUME FileTypes, NEW o \in Owners, NEW fs, Closed(fs),
           fd' = [fd EXCEPT ![o] = 0], leaked' \in {leaked, leaked \union {o}}
    PROVE  FileTypes'
BY Distinct DEF FileTypes, Closed

LEMMA ForgetTypes ==
    ASSUME FileTypes, NEW e \in Endpoints, SetClosed(e)
    PROVE  FileTypes'
BY Distinct DEF FileTypes, SetClosed, kernelVars

LEMMA OpenTypes ==
    ASSUME FileTypes, NEW o \in Owners, NEW f \in Fds, Opened(f, o),
           fd' = [fd EXCEPT ![o] = f], leaked' \in {leaked, leaked \union {o}}
    PROVE  FileTypes'
BY DEF FileTypes, Opened

LEMMA UntouchedFiles ==
    ASSUME FileTypes, UNCHANGED <<files, hung, fd, leaked>>
    PROVE  FileTypes'
BY DEF FileTypes

LEMMA UntouchedPoll ==
    ASSUME PollTypes, UNCHANGED <<registered, epoll, batch>>,
           current' \in Events \union {None},
           situations' \subseteq {"crossed", "destroyed", "garbage", "zero"},
           loop' \in {"idle", "batch", "dispatch", "callback", "ended", "undefined"}
    PROVE  PollTypes'
BY DEF PollTypes

LEMMA UntouchedEndpoints ==
    ASSUME EndpointTypes, UNCHANGED <<sslSocket, sslState, handshakes, closings>>
    PROVE  EndpointTypes'
BY DEF EndpointTypes

LEMMA UntouchedCounts ==
    ASSUME CountTypes, UNCHANGED <<opens, closes>>
    PROVE  CountTypes'
BY DEF CountTypes

(* The tables of an endpoint. *)
LEMMA EndpointChanges ==
    ASSUME EndpointTypes, NEW e \in Endpoints,
           sslSocket' \in {sslSocket} \union {[sslSocket EXCEPT ![e] = f] : f \in Fds},
           sslState' \in {sslState} \union {[sslState EXCEPT ![e] = s] :
                s \in {"Disconnected", "ConnectingToRemote", "RemoteClientConnecting", "Connected", "destroyed"}},
           \/ handshakes' = handshakes
           \/ handshakes' = [handshakes EXCEPT ![e] = @ + 1]
           \/ handshakes[e] > 0 /\ handshakes' = [handshakes EXCEPT ![e] = @ - 1],
           \/ closings' = closings
           \/ closings' = [closings EXCEPT ![e] = @ + 1]
           \/ closings[e] > 0 /\ closings' = [closings EXCEPT ![e] = @ - 1]
    PROVE  EndpointTypes'
<1>1. sslSocket' \in [Endpoints -> Fds]
  BY DEF EndpointTypes
<1>2. sslState' \in [Endpoints -> {"none", "Disconnected", "ConnectingToRemote",
                                   "RemoteClientConnecting", "Connected", "destroyed"}]
  BY DEF EndpointTypes
<1>3. handshakes' \in [Endpoints -> Nat]
  BY DEF EndpointTypes
<1>4. closings' \in [Endpoints -> Nat]
  BY DEF EndpointTypes
<1> QED BY <1>1, <1>2, <1>3, <1>4 DEF EndpointTypes

LEMMA CountChanges ==
    ASSUME CountTypes, NEW o \in Owners, Count(o) \/ CountClose(o)
    PROVE  CountTypes'
<1>1. CASE Count(o)
  BY <1>1 DEF Count, CountTypes
<1>2. CASE CountClose(o)
  BY <1>2 DEF CountClose, CountTypes
<1> QED BY <1>1, <1>2
LEMMA RegisterTypes ==
    ASSUME PollTypes, NEW f \in Fds, NEW o \in Owners, RegisterEndpoint(f, o),
           current' \in Events \union {None},
           loop' \in {"idle", "batch", "dispatch", "callback", "ended", "undefined"}
    PROVE  PollTypes'
<1>1. situations' \subseteq {"crossed", "destroyed", "garbage", "zero"}
  BY DEF PollTypes, RegisterEndpoint, Risk
<1>2. CASE UNCHANGED pollVars
  BY <1>1, <1>2 DEF PollTypes, pollVars
<1>3. CASE registered' = [registered EXCEPT ![f] = o] /\ epoll' \in {epoll, epoll \union {f}} /\ UNCHANGED batch
  BY <1>1, <1>3 DEF PollTypes
<1> QED BY <1>2, <1>3 DEF RegisterEndpoint

LEMMA TypesOpenEndpoint ==
    ASSUME FileTypes, PollTypes, EndpointTypes, CountTypes, NEW c \in Clients,
           OpenEndpoint(c)
    PROVE  FileTypes' /\ PollTypes' /\ EndpointTypes' /\ CountTypes'
<1>1. FileTypes'
  BY Distinct, LowestIsFree, OpenTypes DEF OpenEndpoint, Forgets
<1>2. PollTypes'
  BY UntouchedPoll DEF OpenEndpoint, pollVars, PollTypes
<1>3. EndpointTypes'
  BY Distinct, LowestIsFree, EndpointChanges DEF OpenEndpoint, State
<1>4. CountTypes'
  BY Distinct, CountChanges DEF OpenEndpoint
<1> QED BY <1>1, <1>2, <1>3, <1>4

LEMMA TypesOpenFails ==
    ASSUME FileTypes, PollTypes, EndpointTypes, CountTypes, NEW c \in Clients,
           OpenFails(c)
    PROVE  FileTypes' /\ PollTypes' /\ EndpointTypes' /\ CountTypes'
<1>1. FileTypes'
  BY Distinct DEF OpenFails, FileTypes, kernelVars
<1>2. PollTypes'
  BY UntouchedPoll DEF OpenFails, pollVars, PollTypes
<1>3. EndpointTypes'
  BY UntouchedEndpoints DEF OpenFails, taskVars
<1>4. CountTypes'
  BY Distinct, CountChanges DEF OpenFails
<1> QED BY <1>1, <1>2, <1>3, <1>4

LEMMA TypesCloseEndpoint ==
    ASSUME FileTypes, PollTypes, EndpointTypes, CountTypes, NEW e \in Endpoints,
           CloseEndpoint(e)
    PROVE  FileTypes' /\ PollTypes' /\ EndpointTypes' /\ CountTypes'
<1>1. FileTypes'
  BY UntouchedFiles DEF CloseEndpoint, kernelVars
<1>2. PollTypes'
  BY UntouchedPoll DEF CloseEndpoint, pollVars, PollTypes
<1>3. EndpointTypes'
  BY EndpointChanges DEF CloseEndpoint
<1>4. CountTypes'
  BY Distinct, CountChanges DEF CloseEndpoint
<1> QED BY <1>1, <1>2, <1>3, <1>4

LEMMA TypesSendFails ==
    ASSUME FileTypes, PollTypes, EndpointTypes, CountTypes, NEW e \in Endpoints,
           SendFails(e)
    PROVE  FileTypes' /\ PollTypes' /\ EndpointTypes' /\ CountTypes'
<1>1. FileTypes'
  BY ForgetTypes DEF SendFails, OnDisconnected
<1>2. PollTypes'
  BY RemoveTypes DEF SendFails, OnDisconnected, SetClosed, Risk, PollTypes
<1>3. EndpointTypes'
  BY EndpointChanges, Distinct DEF SendFails, OnDisconnected, taskVars
<1>4. CountTypes'
  BY UntouchedCounts DEF SendFails, countVars
<1> QED BY <1>1, <1>2, <1>3, <1>4

LEMMA TypesStartListener ==
    ASSUME FileTypes, PollTypes, EndpointTypes, CountTypes,
           StartListener
    PROVE  FileTypes' /\ PollTypes' /\ EndpointTypes' /\ CountTypes'
<1>1. FileTypes'
  BY Distinct, LowestIsFree, OpenTypes DEF StartListener
<1>2. PollTypes'
  BY Distinct, LowestIsFree, RegisterTypes, UntouchedPoll DEF StartListener, PollTypes, pollVars
<1>3. EndpointTypes'
  BY UntouchedEndpoints DEF StartListener, taskVars
<1>4. CountTypes'
  BY Distinct, CountChanges DEF StartListener
<1> QED BY <1>1, <1>2, <1>3, <1>4

LEMMA TypesStopListener ==
    ASSUME FileTypes, PollTypes, EndpointTypes, CountTypes,
           StopListener
    PROVE  FileTypes' /\ PollTypes' /\ EndpointTypes' /\ CountTypes'
<1>1. FileTypes'
  BY Distinct, CloseTypes DEF StopListener, CloseFd
<1>2. PollTypes'
  BY RemoveTypes DEF StopListener, CloseFd, Risk, PollTypes
<1>3. EndpointTypes'
  <2>1. closings' \in [Endpoints -> Nat]
    <3>1. PICK asked : closings' = [e \in Endpoints |-> IF e \in asked THEN closings[e] + 1 ELSE closings[e]]
      BY DEF StopListener
    <3> QED BY <3>1 DEF EndpointTypes
  <2> QED BY <2>1 DEF StopListener, EndpointTypes
<1>4. CountTypes'
  BY Distinct, CountChanges DEF StopListener
<1> QED BY <1>1, <1>2, <1>3, <1>4

LEMMA TypesStopUnstarted ==
    ASSUME FileTypes, PollTypes, EndpointTypes, CountTypes,
           StopUnstarted
    PROVE  FileTypes' /\ PollTypes' /\ EndpointTypes' /\ CountTypes'
<1>1. FileTypes'
  BY Distinct DEF StopUnstarted, Closed, FileTypes
<1>2. PollTypes'
  BY RemoveTypes DEF StopUnstarted, PollTypes
<1>3. EndpointTypes'
  BY UntouchedEndpoints DEF StopUnstarted, taskVars
<1>4. CountTypes'
  BY UntouchedCounts DEF StopUnstarted, countVars
<1> QED BY <1>1, <1>2, <1>3, <1>4

LEMMA TypesRunDestroyed ==
    ASSUME FileTypes, PollTypes, EndpointTypes, CountTypes, NEW e \in Endpoints,
           RunDestroyed(e)
    PROVE  FileTypes' /\ PollTypes' /\ EndpointTypes' /\ CountTypes'
<1>1. FileTypes'
  BY UntouchedFiles DEF RunDestroyed, kernelVars
<1>2. PollTypes'
  BY UntouchedPoll DEF RunDestroyed, pollVars, PollTypes
<1>3. EndpointTypes'
  BY UntouchedEndpoints DEF RunDestroyed, taskVars
<1>4. CountTypes'
  BY UntouchedCounts DEF RunDestroyed, countVars
<1> QED BY <1>1, <1>2, <1>3, <1>4

LEMMA TypesHandshakeSucceeds ==
    ASSUME FileTypes, PollTypes, EndpointTypes, CountTypes, NEW e \in Endpoints,
           HandshakeSucceeds(e)
    PROVE  FileTypes' /\ PollTypes' /\ EndpointTypes' /\ CountTypes'
<1>1. FileTypes'
  BY UntouchedFiles DEF HandshakeSucceeds, kernelVars
<1>2. PollTypes'
  BY Distinct, RegisterTypes DEF HandshakeSucceeds, PollTypes, FileTypes
<1>3. EndpointTypes'
  <2>1. sslState' = [sslState EXCEPT ![e] = "Connected"] /\ UNCHANGED <<sslSocket, closings>>
    BY DEF HandshakeSucceeds, State
  <2>2. handshakes[e] > 0 /\ handshakes' = [handshakes EXCEPT ![e] = @ - 1]
    BY DEF HandshakeSucceeds, Runs, Done
  <2> QED BY <2>1, <2>2, EndpointChanges
<1>4. CountTypes'
  BY UntouchedCounts DEF HandshakeSucceeds, countVars
<1> QED BY <1>1, <1>2, <1>3, <1>4

LEMMA TypesHandshakeFails ==
    ASSUME FileTypes, PollTypes, EndpointTypes, CountTypes, NEW e \in Endpoints,
           HandshakeFails(e)
    PROVE  FileTypes' /\ PollTypes' /\ EndpointTypes' /\ CountTypes'
<1>1. FileTypes'
  BY Distinct, CloseTypes, UntouchedFiles DEF HandshakeFails, CloseAndDisconnect, kernelVars
<1>2. PollTypes'
  BY RemoveTypes, UntouchedPoll DEF HandshakeFails, CloseAndDisconnect, PollTypes, pollVars
<1>3. EndpointTypes'
  <2>1. sslSocket' \in {sslSocket} \union {[sslSocket EXCEPT ![e] = f] : f \in Fds}
    BY Distinct DEF HandshakeFails, CloseAndDisconnect
  <2>2. sslState' \in {sslState} \union {[sslState EXCEPT ![e] = s] :
            s \in {"Disconnected", "ConnectingToRemote", "RemoteClientConnecting", "Connected", "destroyed"}}
    BY DEF HandshakeFails, State
  <2>3. handshakes[e] > 0 /\ handshakes' = [handshakes EXCEPT ![e] = @ - 1] /\ UNCHANGED closings
    BY DEF HandshakeFails, Runs, Done
  <2> QED BY <2>1, <2>2, <2>3, EndpointChanges
<1>4. CountTypes'
  BY UntouchedCounts DEF HandshakeFails, countVars
<1> QED BY <1>1, <1>2, <1>3, <1>4

LEMMA TypesCloseConnection ==
    ASSUME FileTypes, PollTypes, EndpointTypes, CountTypes, NEW e \in Endpoints,
           CloseConnection(e)
    PROVE  FileTypes' /\ PollTypes' /\ EndpointTypes' /\ CountTypes'
<1>1. FileTypes'
  BY Distinct, CloseTypes, UntouchedFiles DEF CloseConnection, CloseFd, kernelVars
<1>2. PollTypes'
  BY RemoveTypes, UntouchedPoll DEF CloseConnection, CloseFd, PollTypes, pollVars
<1>3. EndpointTypes'
  <2>1. sslSocket' \in {sslSocket} \union {[sslSocket EXCEPT ![e] = f] : f \in Fds}
    BY Distinct DEF CloseConnection
  <2>2. sslState' \in {sslState} \union {[sslState EXCEPT ![e] = s] :
            s \in {"Disconnected", "ConnectingToRemote", "RemoteClientConnecting", "Connected", "destroyed"}}
    BY DEF CloseConnection, State
  <2>3. closings[e] > 0 /\ closings' = [closings EXCEPT ![e] = @ - 1] /\ UNCHANGED handshakes
    BY DEF CloseConnection, Runs, Done
  <2> QED BY <2>1, <2>2, <2>3, EndpointChanges
<1>4. CountTypes'
  BY UntouchedCounts DEF CloseConnection, countVars
<1> QED BY <1>1, <1>2, <1>3, <1>4

LEMMA TypesPoll ==
    ASSUME FileTypes, PollTypes, EndpointTypes, CountTypes,
           Poll
    PROVE  FileTypes' /\ PollTypes' /\ EndpointTypes' /\ CountTypes'
<1>1. FileTypes'
  BY UntouchedFiles DEF Poll, kernelVars
<1>2. PollTypes'
  <2>1. PICK ready \in SUBSET epoll :
             batch' = {[fd |-> f, hangup |-> f \in hung, freed |-> FALSE] : f \in ready}
    BY DEF Poll
  <2>2. \A f \in Fds : [fd |-> f, hangup |-> f \in hung, freed |-> FALSE] \in Events
    BY DEF Events
  <2>3. batch' \subseteq Events
    BY <2>1, <2>2 DEF PollTypes
  <2> QED BY <2>3 DEF Poll, PollTypes
<1>3. EndpointTypes'
  BY UntouchedEndpoints DEF Poll, taskVars
<1>4. CountTypes'
  BY UntouchedCounts DEF Poll, countVars
<1> QED BY <1>1, <1>2, <1>3, <1>4

LEMMA TypesTakeEvent ==
    ASSUME FileTypes, PollTypes, EndpointTypes, CountTypes,
           TakeEvent
    PROVE  FileTypes' /\ PollTypes' /\ EndpointTypes' /\ CountTypes'
<1>1. FileTypes'
  BY UntouchedFiles DEF TakeEvent, kernelVars
<1>2. PollTypes'
  BY DEF TakeEvent, PollTypes
<1>3. EndpointTypes'
  BY UntouchedEndpoints DEF TakeEvent, taskVars
<1>4. CountTypes'
  BY UntouchedCounts DEF TakeEvent, countVars
<1> QED BY <1>1, <1>2, <1>3, <1>4

LEMMA TypesDispatchFreed ==
    ASSUME FileTypes, PollTypes, EndpointTypes, CountTypes,
           DispatchFreed
    PROVE  FileTypes' /\ PollTypes' /\ EndpointTypes' /\ CountTypes'
<1>1. FileTypes'
  BY UntouchedFiles DEF DispatchFreed, kernelVars
<1>2. PollTypes'
  BY UntouchedPoll DEF DispatchFreed, pollVars, PollTypes
<1>3. EndpointTypes'
  BY UntouchedEndpoints DEF DispatchFreed, taskVars
<1>4. CountTypes'
  BY UntouchedCounts DEF DispatchFreed, countVars
<1> QED BY <1>1, <1>2, <1>3, <1>4

LEMMA TypesDispatchHangup ==
    ASSUME FileTypes, PollTypes, EndpointTypes, CountTypes, NEW e \in Endpoints,
           DispatchHangup(e)
    PROVE  FileTypes' /\ PollTypes' /\ EndpointTypes' /\ CountTypes'
<1>1. FileTypes'
  BY ForgetTypes DEF DispatchHangup, OnDisconnected
<1>2. PollTypes'
  BY RemoveTypes DEF DispatchHangup, OnDisconnected, SetClosed, PollTypes, AfterHangup, Finish
<1>3. EndpointTypes'
  BY EndpointChanges, Distinct DEF DispatchHangup, OnDisconnected, taskVars
<1>4. CountTypes'
  BY UntouchedCounts DEF DispatchHangup, countVars
<1> QED BY <1>1, <1>2, <1>3, <1>4

LEMMA TypesDispatchPayload ==
    ASSUME FileTypes, PollTypes, EndpointTypes, CountTypes, NEW e \in Endpoints,
           DispatchPayload(e)
    PROVE  FileTypes' /\ PollTypes' /\ EndpointTypes' /\ CountTypes'
<1>1. FileTypes'
  BY Distinct, CloseTypes, UntouchedFiles DEF DispatchPayload, CloseAndDisconnect, kernelVars
<1>2. PollTypes'
  BY RemoveTypes, UntouchedPoll DEF DispatchPayload, CloseAndDisconnect, PollTypes, pollVars, Finish
<1>3. EndpointTypes'
  BY EndpointChanges, Distinct DEF DispatchPayload, CloseAndDisconnect, taskVars
<1>4. CountTypes'
  BY UntouchedCounts DEF DispatchPayload, countVars
<1> QED BY <1>1, <1>2, <1>3, <1>4

LEMMA TypesAccept ==
    ASSUME FileTypes, PollTypes, EndpointTypes, CountTypes, NEW s \in Servers,
           Accept(s)
    PROVE  FileTypes' /\ PollTypes' /\ EndpointTypes' /\ CountTypes'
<1>1. FileTypes'
  BY Distinct, LowestIsFree, OpenTypes DEF Accept
<1>2. PollTypes'
  BY Distinct, LowestIsFree, RegisterTypes DEF Accept, PollTypes, Finish
<1>3. EndpointTypes'
  BY Distinct, LowestIsFree, EndpointChanges DEF Accept, State
<1>4. CountTypes'
  BY UntouchedCounts DEF Accept, countVars
<1> QED BY <1>1, <1>2, <1>3, <1>4

LEMMA TypesAcceptFails ==
    ASSUME FileTypes, PollTypes, EndpointTypes, CountTypes,
           AcceptFails
    PROVE  FileTypes' /\ PollTypes' /\ EndpointTypes' /\ CountTypes'
<1>1. FileTypes'
  BY UntouchedFiles DEF AcceptFails, kernelVars
<1>2. PollTypes'
  BY UntouchedPoll DEF AcceptFails, pollVars, PollTypes
<1>3. EndpointTypes'
  BY UntouchedEndpoints DEF AcceptFails, taskVars
<1>4. CountTypes'
  BY UntouchedCounts DEF AcceptFails, countVars
<1> QED BY <1>1, <1>2, <1>3, <1>4

LEMMA TypesPeerGoes ==
    ASSUME FileTypes, PollTypes, EndpointTypes, CountTypes, NEW f \in Fds,
           PeerGoes(f)
    PROVE  FileTypes' /\ PollTypes' /\ EndpointTypes' /\ CountTypes'
<1>1. FileTypes'
  BY DEF PeerGoes, FileTypes
<1>2. PollTypes'
  BY UntouchedPoll DEF PeerGoes, pollVars, PollTypes
<1>3. EndpointTypes'
  BY UntouchedEndpoints DEF PeerGoes, taskVars
<1>4. CountTypes'
  BY UntouchedCounts DEF PeerGoes, countVars
<1> QED BY <1>1, <1>2, <1>3, <1>4

LEMMA TypesDestroy ==
    ASSUME FileTypes, PollTypes, EndpointTypes, CountTypes, NEW c \in Clients,
           Destroy(c)
    PROVE  FileTypes' /\ PollTypes' /\ EndpointTypes' /\ CountTypes'
<1>1. EndpointTypes'
  BY Distinct, EndpointChanges DEF Destroy, State
<1>2. CountTypes'
  BY UntouchedCounts DEF Destroy, countVars
<1>3. CASE CloseFd(c) /\ Risk("destroyed", closings'[c] + handshakes[c] > 0 \/ Crossing({fd[c]})) /\ UNCHANGED loop
  <2>1. FileTypes'
    BY <1>3, Distinct, CloseTypes DEF CloseFd
  <2>2. PollTypes'
    BY <1>3, RemoveTypes DEF Destroy, CloseFd, Risk, PollTypes
  <2> QED BY <1>1, <1>2, <2>1, <2>2
<1>4. CASE /\ Risk("destroyed", closings'[c] + handshakes[c] > 0)
           /\ UNCHANGED <<kernelVars, fd, pollVars, leaked, loop>>
  <2>1. FileTypes'
    BY <1>4, UntouchedFiles DEF kernelVars
  <2>2. PollTypes'
    BY <1>4, UntouchedPoll DEF Destroy, Risk, PollTypes, pollVars
  <2> QED BY <1>1, <1>2, <2>1, <2>2
<1>5. CASE /\ \E f \in Fds \ Unused : Closed({f}) /\ RemoveEndpoints({f})
           /\ situations' = situations \union {"garbage"} /\ loop' = "undefined"
           /\ UNCHANGED <<fd, leaked>>
  <2>1. FileTypes'
    BY <1>5 DEF Closed, FileTypes
  <2>2. PollTypes'
    BY <1>5, RemoveTypes DEF Destroy, PollTypes
  <2> QED BY <1>1, <1>2, <2>1, <2>2
<1> QED BY <1>3, <1>4, <1>5 DEF Destroy

LEMMA TypesNext ==
    ASSUME TypeOK, [Next]_vars
    PROVE  TypeOK'
<1> SUFFICES FileTypes' /\ PollTypes' /\ EndpointTypes' /\ CountTypes'
  BY TypesSplit
<1> USE TypesSplit
<1>1. CASE Call
  BY <1>1, TypesOpenEndpoint, TypesOpenFails, TypesDestroy, TypesCloseEndpoint, TypesSendFails,
     TypesStartListener, TypesStopListener, TypesStopUnstarted DEF Call
<1>2. CASE Poll
  BY <1>2, TypesPoll
<1>3. CASE Dispatch
  BY <1>3, TypesTakeEvent, TypesDispatchFreed, TypesDispatchHangup, TypesDispatchPayload,
     TypesAccept, TypesAcceptFails DEF Dispatch
<1>4. CASE \E e \in Endpoints : Action(e)
  BY <1>4, TypesHandshakeSucceeds, TypesHandshakeFails, TypesCloseConnection, TypesRunDestroyed DEF Action
<1>5. CASE \E f \in Fds : PeerGoes(f)
  BY <1>5, TypesPeerGoes
<1>6. CASE UNCHANGED vars
  BY <1>6 DEF vars, kernelVars, pollVars, taskVars, countVars, FileTypes, PollTypes, EndpointTypes, CountTypes
<1> QED BY <1>1, <1>2, <1>3, <1>4, <1>5, <1>6 DEF Next

LEMMA TypesInit == Init => TypeOK
BY Distinct DEF Init, TypeOK, Endpoints

-----------------------------------------------------------------------------
(* What is open, and who knows it. *)

Owned == \A o \in Owners : fd[o] # 0 => files[fd[o]] = o

Known == \A f \in Fds : files[f] \in Owners => fd[files[f]] = f \/ files[f] \in leaked

Polled == \A f \in Fds \ {0} : registered[f] # None => files[f] = registered[f]

ListenerPolled ==
    \A f \in Fds \ {0} : registered[f] = Listener => fd[Listener] = f \/ Listener \in leaked

EndpointPolled == \A f \in Fds \ {0} : \A e \in Endpoints : registered[f] = e => fd[e] = f

OneListener == \A f, g \in Fds : registered[f] = Listener /\ registered[g] = Listener => f = g

(* 0 stays with the program until a descriptor is forgotten. *)
Zero ==
    /\ leaked = {} => files[0] = Process /\ registered[0] = None
    /\ registered[0] # None => situations # {}

Programs == \A f \in Fds : files[f] = Process => f = 0

(* Only a connection that was accepted may hold 0 as if it held nothing. *)
Reopened == files[0] \in Clients \union {Listener} => files[0] \in leaked

FilesInv ==
    /\ Owned /\ Known /\ Polled /\ ListenerPolled /\ EndpointPolled /\ OneListener
    /\ Zero /\ Programs /\ Reopened

LEMMA FilesInit == Init => FilesInv
<1> SUFFICES ASSUME Init PROVE FilesInv
  OBVIOUS
<1> USE Distinct DEF Init
<1>1. Owned /\ Known /\ Programs /\ Reopened
  BY DEF Owned, Known, Programs, Reopened
<1>2. Polled /\ ListenerPolled /\ EndpointPolled /\ OneListener
  BY DEF Polled, ListenerPolled, EndpointPolled, OneListener
<1>3. Zero
  BY DEF Zero
<1> QED BY <1>1, <1>2, <1>3 DEF FilesInv

LEMMA FilesKept ==
    ASSUME FileTypes, FileTypes', PollTypes, FilesInv, situations \subseteq situations',
           UNCHANGED <<files, fd, registered, leaked>>
    PROVE  FilesInv'
<1> USE Distinct DEF FileTypes, PollTypes, FilesInv
<1>1. Owned'
  BY DEF Owned, FilesInv
<1>2. Known'
  BY DEF Known, FilesInv
<1>3. Polled'
  BY DEF Polled, FilesInv
<1>4. ListenerPolled'
  BY DEF ListenerPolled, FilesInv
<1>5. EndpointPolled'
  BY DEF EndpointPolled, FilesInv
<1>6. OneListener'
  BY DEF OneListener, FilesInv
<1>7. Zero'
  BY DEF Zero, FilesInv
<1>8. Programs'
  BY DEF Programs, FilesInv
<1>9. Reopened'
  BY DEF Reopened, FilesInv
<1> QED BY <1>1, <1>2, <1>3, <1>4, <1>5, <1>6, <1>7, <1>8, <1>9

(* A descriptor is closed and its number removed; 0 may be removed with it. *)
LEMMA FilesClose ==
    ASSUME FileTypes, FileTypes', PollTypes, FilesInv, situations \subseteq situations',
           NEW o \in Owners, NEW fs, fd[o] \in fs, fs \subseteq {fd[o], 0},
           Closed({fd[o]}), RemoveEndpoints(fs), fd' = [fd EXCEPT ![o] = 0], UNCHANGED leaked,
           fd[o] # 0 \/ leaked # {}
    PROVE  FilesInv'
<1> USE Distinct DEF FileTypes, PollTypes, FilesInv
<1>1. Owned'
  BY DEF Owned, Closed, RemoveEndpoints, Owned
<1>2. Known'
  BY DEF Known, Closed, RemoveEndpoints, Owned
<1>3. Polled'
  BY DEF Polled, Closed, RemoveEndpoints, Owned
<1>4. ListenerPolled'
  BY DEF ListenerPolled, Closed, RemoveEndpoints, Owned
<1>5. EndpointPolled'
  BY DEF EndpointPolled, Closed, RemoveEndpoints, Owned
<1>6. OneListener'
  BY DEF OneListener, Closed, RemoveEndpoints, Owned
<1>7. Zero'
  BY DEF Zero, Closed, RemoveEndpoints, Owned
<1>8. Programs'
  BY DEF Programs, Closed, RemoveEndpoints, Owned
<1>9. Reopened'
  BY DEF Reopened, Closed, RemoveEndpoints, Owned
<1> QED BY <1>1, <1>2, <1>3, <1>4, <1>5, <1>6, <1>7, <1>8, <1>9

(* A connection is lost and its descriptor stays open. *)
LEMMA FilesForget ==
    ASSUME FileTypes, FileTypes', PollTypes, FilesInv, situations \subseteq situations',
           NEW e \in Endpoints, SetClosed(e)
    PROVE  FilesInv'
<1> USE Distinct DEF FileTypes, PollTypes, FilesInv
<1>1. Owned'
  BY DEF Owned, SetClosed, RemoveEndpoints, kernelVars, EndpointPolled
<1>2. Known'
  BY DEF Known, SetClosed, RemoveEndpoints, kernelVars, EndpointPolled
<1>3. Polled'
  BY DEF Polled, SetClosed, RemoveEndpoints, kernelVars, EndpointPolled
<1>4. ListenerPolled'
  BY DEF ListenerPolled, SetClosed, RemoveEndpoints, kernelVars, EndpointPolled
<1>5. EndpointPolled'
  BY DEF EndpointPolled, SetClosed, RemoveEndpoints, kernelVars, EndpointPolled
<1>6. OneListener'
  BY DEF OneListener, SetClosed, RemoveEndpoints, kernelVars, EndpointPolled
<1>7. Zero'
  BY DEF Zero, SetClosed, RemoveEndpoints, kernelVars, EndpointPolled
<1>8. Programs'
  BY DEF Programs, SetClosed, RemoveEndpoints, kernelVars, EndpointPolled
<1>9. Reopened'
  BY DEF Reopened, SetClosed, RemoveEndpoints, kernelVars, EndpointPolled
<1> QED BY <1>1, <1>2, <1>3, <1>4, <1>5, <1>6, <1>7, <1>8, <1>9

(* An open fails, after what was open has been forgotten. *)
LEMMA FilesOpenFails ==
    ASSUME FileTypes, FileTypes', PollTypes, FilesInv, situations \subseteq situations',
           NEW c \in Endpoints, \A f \in Fds \ {0} : registered[f] # c,
           UNCHANGED <<files, registered>>, fd' = [fd EXCEPT ![c] = 0],
           leaked' = IF fd[c] # 0 THEN leaked \union {c} ELSE leaked
    PROVE  FilesInv'
<1> USE Distinct DEF FileTypes, PollTypes, FilesInv
<1>1. Owned'
  BY DEF Owned, FilesInv
<1>2. Known'
  BY DEF Known, FilesInv
<1>3. Polled'
  BY DEF Polled, FilesInv
<1>4. ListenerPolled'
  BY DEF ListenerPolled, FilesInv
<1>5. EndpointPolled'
  BY DEF EndpointPolled, FilesInv
<1>6. OneListener'
  BY DEF OneListener, FilesInv
<1>7. Zero'
  BY DEF Zero, FilesInv
<1>8. Programs'
  BY DEF Programs, FilesInv
<1>9. Reopened'
  BY DEF Reopened, FilesInv
<1> QED BY <1>1, <1>2, <1>3, <1>4, <1>5, <1>6, <1>7, <1>8, <1>9

(* An open. *)
LEMMA FilesOpen ==
    ASSUME FileTypes, FileTypes', PollTypes, FilesInv, situations \subseteq situations',
           NEW o \in Owners, NEW f \in Fds, files[f] = None, \A g \in Fds \ {0} : registered[g] # o \/ o = Listener,
           Opened(f, o), fd' = [fd EXCEPT ![o] = f], UNCHANGED registered,
           leaked' = IF o \in Clients \union {Listener} /\ (fd[o] # 0 \/ f = 0) THEN leaked \union {o} ELSE leaked,
           o \in Servers => \A g \in Fds : files[g] # o
    PROVE  FilesInv'
<1> USE Distinct DEF FileTypes, PollTypes, FilesInv
<1>1. Owned'
  BY DEF Owned, Opened, Owned, Reopened
<1>2. Known'
  <2>1. leaked \subseteq leaked'
    OBVIOUS
  <2> SUFFICES ASSUME NEW g \in Fds, files'[g] \in Owners, g # f
               PROVE  fd'[files'[g]] = g \/ files'[g] \in leaked'
    BY DEF Known, Opened
  <2>2. files'[g] = files[g] /\ (fd[files[g]] = g \/ files[g] \in leaked)
    BY DEF Known, Opened
  <2>3. CASE files[g] # o
    BY <2>1, <2>2, <2>3
  <2>4. CASE files[g] = o
    <3>1. o \in Clients \union {Listener}
      BY <2>4 DEF Owners, Endpoints
    <3>2. fd[o] # 0 \/ o \in leaked
      BY <2>2, <2>4, <3>1 DEF Reopened
    <3> QED BY <2>1, <2>2, <2>4, <3>1, <3>2
  <2> QED BY <2>3, <2>4
<1>3. Polled'
  BY DEF Polled, Opened, Owned, Reopened
<1>4. ListenerPolled'
  BY DEF ListenerPolled, Opened, Owned, Reopened
<1>5. EndpointPolled'
  BY DEF EndpointPolled, Opened, Owned, Reopened
<1>6. OneListener'
  BY DEF OneListener, Opened, Owned, Reopened
<1>7. Zero'
  <2>1. leaked \subseteq leaked'
    OBVIOUS
  <2>2. CASE leaked = {}
    <3>1. f # 0
      BY <2>2 DEF Zero
    <3>2. files'[0] = files[0]
      BY <3>1 DEF Opened
    <3> QED BY <2>2, <3>2 DEF Zero
  <2>3. CASE leaked # {}
    BY <2>1, <2>3 DEF Zero
  <2> QED BY <2>2, <2>3
<1>8. Programs'
  BY DEF Programs, Opened, Owned, Reopened
<1>9. Reopened'
  BY DEF Reopened, Opened, Owned, Reopened
<1> QED BY <1>1, <1>2, <1>3, <1>4, <1>5, <1>6, <1>7, <1>8, <1>9

(* A handshake registers the descriptor that its endpoint holds. *)
LEMMA FilesRegister ==
    ASSUME FileTypes, FileTypes', PollTypes, FilesInv, situations \subseteq situations',
           NEW e \in Endpoints, RegisterEndpoint(fd[e], e), UNCHANGED <<files, fd, leaked>>,
           fd[e] = 0 => e \in leaked
    PROVE  FilesInv'
<1> USE Distinct DEF FileTypes, PollTypes, FilesInv
<1>1. Owned'
  BY DEF Owned, RegisterEndpoint, pollVars, Risk, Owned
<1>2. Known'
  BY DEF Known, RegisterEndpoint, pollVars, Risk, Owned
<1>3. Polled'
  BY DEF Polled, RegisterEndpoint, pollVars, Risk, Owned
<1>4. ListenerPolled'
  BY DEF ListenerPolled, RegisterEndpoint, pollVars, Risk, Owned
<1>5. EndpointPolled'
  BY DEF EndpointPolled, RegisterEndpoint, pollVars, Risk, Owned
<1>6. OneListener'
  BY DEF OneListener, RegisterEndpoint, pollVars, Risk, Owned
<1>7. Zero'
  BY DEF Zero, RegisterEndpoint, pollVars, Risk, Owned
<1>8. Programs'
  BY DEF Programs, RegisterEndpoint, pollVars, Risk, Owned
<1>9. Reopened'
  BY DEF Reopened, RegisterEndpoint, pollVars, Risk, Owned
<1> QED BY <1>1, <1>2, <1>3, <1>4, <1>5, <1>6, <1>7, <1>8, <1>9

(* An open and the registration of what it has opened. *)
LEMMA FilesOpenRegister ==
    ASSUME FileTypes, FileTypes', PollTypes, FilesInv, situations \subseteq situations',
           NEW o \in Owners, NEW f \in Fds, files[f] = None, \A g \in Fds : registered[g] # o,
           Opened(f, o), fd' = [fd EXCEPT ![o] = f], RegisterEndpoint(f, o),
           leaked' = IF o \in Clients \union {Listener} /\ (fd[o] # 0 \/ f = 0) THEN leaked \union {o} ELSE leaked,
           o \in Servers => \A g \in Fds : files[g] # o
    PROVE  FilesInv'
<1> USE Distinct DEF FileTypes, PollTypes, FilesInv
<1>1. Owned'
  BY DEF Owned, Opened, RegisterEndpoint, pollVars, Owned
<1>2. Known'
  <2>1. leaked \subseteq leaked'
    OBVIOUS
  <2> SUFFICES ASSUME NEW g \in Fds, files'[g] \in Owners, g # f
               PROVE  fd'[files'[g]] = g \/ files'[g] \in leaked'
    BY DEF Known, Opened
  <2>2. files'[g] = files[g] /\ (fd[files[g]] = g \/ files[g] \in leaked)
    BY DEF Known, Opened
  <2>3. CASE files[g] # o
    BY <2>1, <2>2, <2>3
  <2>4. CASE files[g] = o
    <3>1. o \in Clients \union {Listener}
      BY <2>4 DEF Owners, Endpoints
    <3>2. fd[o] # 0 \/ o \in leaked
      BY <2>2, <2>4, <3>1 DEF Reopened
    <3> QED BY <2>1, <2>2, <2>4, <3>1, <3>2
  <2> QED BY <2>3, <2>4
<1>3. Polled'
  BY DEF Polled, Opened, RegisterEndpoint, pollVars, Owned
<1>4. ListenerPolled'
  BY DEF ListenerPolled, Opened, RegisterEndpoint, pollVars, Owned
<1>5. EndpointPolled'
  BY DEF EndpointPolled, Opened, RegisterEndpoint, pollVars, Owned
<1>6. OneListener'
  BY DEF OneListener, Opened, RegisterEndpoint, pollVars, Owned
<1>7. Zero'
  <2>1. leaked \subseteq leaked'
    OBVIOUS
  <2>2. f = 0 => leaked # {} /\ situations' # {}
    BY DEF Zero, RegisterEndpoint, Risk
  <2>3. f # 0 => files'[0] = files[0] /\ registered'[0] = registered[0]
    BY DEF Opened, RegisterEndpoint, pollVars
  <2> QED BY <2>1, <2>2, <2>3 DEF Zero
<1>8. Programs'
  BY DEF Programs, Opened, RegisterEndpoint, pollVars, Owned
<1>9. Reopened'
  BY DEF Reopened, Opened, RegisterEndpoint, pollVars, Owned
<1> QED BY <1>1, <1>2, <1>3, <1>4, <1>5, <1>6, <1>7, <1>8, <1>9


-----------------------------------------------------------------------------
(* One endpoint. *)

(* What has no connection is not polled, a connection that has not arrived  *)
(* has nothing, only a connection that was opened again holds a socket      *)
(* without a descriptor, and a destroyed endpoint has no task.              *)
EndpointInv(e) ==
    /\ sslState[e] \in {"Disconnected", "ConnectingToRemote"} =>
          \A f \in Fds \ {0} : registered[f] # e
    /\ sslState[e] = "none" =>
          /\ e \in Servers /\ fd[e] = 0 /\ sslSocket[e] = 0 /\ handshakes[e] = 0 /\ closings[e] = 0
          /\ \A f \in Fds : files[f] # e /\ registered[f] # e
    /\ sslSocket[e] # 0 /\ fd[e] = 0 /\ sslState[e] # "destroyed" => e \in leaked
    /\ sslState[e] = "destroyed" /\ handshakes[e] + closings[e] > 0 => situations # {}

EndpointsInv == \A e \in Endpoints : EndpointInv(e)

LEMMA EndpointsInit == Init => EndpointsInv
BY Distinct DEF Init, EndpointsInv, EndpointInv, Endpoints

LEMMA EndpointKept ==
    ASSUME FileTypes, FileTypes', PollTypes, EndpointTypes, EndpointTypes', NEW e \in Endpoints,
           EndpointInv(e), leaked \subseteq leaked', situations \subseteq situations',
           fd'[e] = fd[e], sslSocket'[e] = sslSocket[e], sslState'[e] = sslState[e],
           handshakes'[e] = handshakes[e], closings'[e] = closings[e],
           \A f \in Fds : files'[f] = e => files[f] = e,
           \A f \in Fds : registered'[f] = e => registered[f] = e
    PROVE  EndpointInv(e)'
BY DEF EndpointInv

LEMMA EndpointsOpenEndpoint ==
    ASSUME TypeOK, TypeOK', FilesInv, EndpointsInv, NEW c \in Clients, OpenEndpoint(c)
    PROVE  EndpointsInv'
<1> USE Distinct, TypesSplit DEF FileTypes, PollTypes, EndpointTypes
<1> USE LowestIsFree
<1>1. leaked \subseteq leaked' /\ situations \subseteq situations'
  BY DEF OpenEndpoint, Opened, Forgets, State, kernelVars, pollVars, taskVars
<1>2. EndpointInv(c)'
  <2>1. EndpointInv(c)
    BY DEF EndpointsInv
  <2> QED BY <2>1, <1>1 DEF EndpointInv, OpenEndpoint, Opened, Forgets, State, kernelVars, pollVars, taskVars
<1>3. ASSUME NEW x \in Endpoints, x # c PROVE EndpointInv(x)'
  <2>1. fd'[x] = fd[x] /\ sslSocket'[x] = sslSocket[x] /\ sslState'[x] = sslState[x]
    BY <1>3 DEF OpenEndpoint, Opened, Forgets, State, kernelVars, pollVars, taskVars
  <2>2. handshakes'[x] = handshakes[x] /\ closings'[x] = closings[x]
    BY <1>3 DEF OpenEndpoint, Opened, Forgets, State, kernelVars, pollVars, taskVars
  <2>3. \A f \in Fds : files'[f] = x => files[f] = x
    BY <1>3 DEF OpenEndpoint, Opened, Forgets, State, kernelVars, pollVars, taskVars
  <2>4. \A f \in Fds : registered'[f] = x => registered[f] = x
    BY <1>3 DEF OpenEndpoint, Opened, Forgets, State, kernelVars, pollVars, taskVars
  <2>5. EndpointInv(x)
    BY DEF EndpointsInv
  <2> QED BY <1>1, <2>1, <2>2, <2>3, <2>4, <2>5, EndpointKept
<1> QED BY <1>2, <1>3 DEF EndpointsInv

LEMMA EndpointsOpenFails ==
    ASSUME TypeOK, TypeOK', FilesInv, EndpointsInv, NEW c \in Clients, OpenFails(c)
    PROVE  EndpointsInv'
<1> USE Distinct, TypesSplit DEF FileTypes, PollTypes, EndpointTypes
<1>1. leaked \subseteq leaked' /\ situations \subseteq situations'
  BY DEF OpenFails, kernelVars, pollVars, taskVars
<1>2. EndpointInv(c)'
  <2>1. EndpointInv(c)
    BY DEF EndpointsInv
  <2> QED BY <2>1, <1>1 DEF EndpointInv, OpenFails, kernelVars, pollVars, taskVars
<1>3. ASSUME NEW x \in Endpoints, x # c PROVE EndpointInv(x)'
  <2>1. fd'[x] = fd[x] /\ sslSocket'[x] = sslSocket[x] /\ sslState'[x] = sslState[x]
    BY <1>3 DEF OpenFails, kernelVars, pollVars, taskVars
  <2>2. handshakes'[x] = handshakes[x] /\ closings'[x] = closings[x]
    BY <1>3 DEF OpenFails, kernelVars, pollVars, taskVars
  <2>3. \A f \in Fds : files'[f] = x => files[f] = x
    BY <1>3 DEF OpenFails, kernelVars, pollVars, taskVars
  <2>4. \A f \in Fds : registered'[f] = x => registered[f] = x
    BY <1>3 DEF OpenFails, kernelVars, pollVars, taskVars
  <2>5. EndpointInv(x)
    BY DEF EndpointsInv
  <2> QED BY <1>1, <2>1, <2>2, <2>3, <2>4, <2>5, EndpointKept
<1> QED BY <1>2, <1>3 DEF EndpointsInv

LEMMA EndpointsCloseEndpoint ==
    ASSUME TypeOK, TypeOK', FilesInv, EndpointsInv, NEW e \in Endpoints, CloseEndpoint(e)
    PROVE  EndpointsInv'
<1> USE Distinct, TypesSplit DEF FileTypes, PollTypes, EndpointTypes
<1>1. leaked \subseteq leaked' /\ situations \subseteq situations'
  BY DEF CloseEndpoint, CanClose, kernelVars, pollVars, taskVars
<1>2. EndpointInv(e)'
  <2>1. EndpointInv(e)
    BY DEF EndpointsInv
  <2> QED BY <2>1, <1>1 DEF EndpointInv, CloseEndpoint, CanClose, kernelVars, pollVars, taskVars
<1>3. ASSUME NEW x \in Endpoints, x # e PROVE EndpointInv(x)'
  <2>1. fd'[x] = fd[x] /\ sslSocket'[x] = sslSocket[x] /\ sslState'[x] = sslState[x]
    BY <1>3 DEF CloseEndpoint, CanClose, kernelVars, pollVars, taskVars
  <2>2. handshakes'[x] = handshakes[x] /\ closings'[x] = closings[x]
    BY <1>3 DEF CloseEndpoint, CanClose, kernelVars, pollVars, taskVars
  <2>3. \A f \in Fds : files'[f] = x => files[f] = x
    BY <1>3 DEF CloseEndpoint, CanClose, kernelVars, pollVars, taskVars
  <2>4. \A f \in Fds : registered'[f] = x => registered[f] = x
    BY <1>3 DEF CloseEndpoint, CanClose, kernelVars, pollVars, taskVars
  <2>5. EndpointInv(x)
    BY DEF EndpointsInv
  <2> QED BY <1>1, <2>1, <2>2, <2>3, <2>4, <2>5, EndpointKept
<1> QED BY <1>2, <1>3 DEF EndpointsInv

LEMMA EndpointsSendFails ==
    ASSUME TypeOK, TypeOK', FilesInv, EndpointsInv, NEW e \in Endpoints, SendFails(e)
    PROVE  EndpointsInv'
<1> USE Distinct, TypesSplit DEF FileTypes, PollTypes, EndpointTypes
<1>1. leaked \subseteq leaked' /\ situations \subseteq situations'
  BY DEF SendFails, OnDisconnected, SetClosed, RemoveEndpoints, Risk, kernelVars, pollVars, taskVars
<1>2. EndpointInv(e)'
  <2>1. EndpointInv(e)
    BY DEF EndpointsInv
  <2> QED BY <2>1, <1>1 DEF EndpointInv, SendFails, OnDisconnected, SetClosed, RemoveEndpoints, Risk, kernelVars, pollVars, taskVars
<1>3. ASSUME NEW x \in Endpoints, x # e PROVE EndpointInv(x)'
  <2>1. fd'[x] = fd[x] /\ sslSocket'[x] = sslSocket[x] /\ sslState'[x] = sslState[x]
    BY <1>3 DEF SendFails, OnDisconnected, SetClosed, RemoveEndpoints, Risk, kernelVars, pollVars, taskVars
  <2>2. handshakes'[x] = handshakes[x] /\ closings'[x] = closings[x]
    BY <1>3 DEF SendFails, OnDisconnected, SetClosed, RemoveEndpoints, Risk, kernelVars, pollVars, taskVars
  <2>3. \A f \in Fds : files'[f] = x => files[f] = x
    BY <1>3 DEF SendFails, OnDisconnected, SetClosed, RemoveEndpoints, Risk, kernelVars, pollVars, taskVars
  <2>4. \A f \in Fds : registered'[f] = x => registered[f] = x
    BY <1>3 DEF SendFails, OnDisconnected, SetClosed, RemoveEndpoints, Risk, kernelVars, pollVars, taskVars
  <2>5. EndpointInv(x)
    BY DEF EndpointsInv
  <2> QED BY <1>1, <2>1, <2>2, <2>3, <2>4, <2>5, EndpointKept
<1> QED BY <1>2, <1>3 DEF EndpointsInv

LEMMA EndpointsStartListener ==
    ASSUME TypeOK, TypeOK', FilesInv, EndpointsInv, StartListener
    PROVE  EndpointsInv'
<1> USE Distinct, TypesSplit DEF FileTypes, PollTypes, EndpointTypes
<1> USE LowestIsFree
<1>1. leaked \subseteq leaked' /\ situations \subseteq situations'
  BY DEF StartListener, Opened, RegisterEndpoint, Risk, kernelVars, pollVars, taskVars
<1>3. ASSUME NEW x \in Endpoints PROVE EndpointInv(x)'
  <2>1. fd'[x] = fd[x] /\ sslSocket'[x] = sslSocket[x] /\ sslState'[x] = sslState[x]
    BY <1>3 DEF StartListener, Opened, RegisterEndpoint, Risk, kernelVars, pollVars, taskVars
  <2>2. handshakes'[x] = handshakes[x] /\ closings'[x] = closings[x]
    BY <1>3 DEF StartListener, Opened, RegisterEndpoint, Risk, kernelVars, pollVars, taskVars
  <2>3. \A f \in Fds : files'[f] = x => files[f] = x
    BY <1>3 DEF StartListener, Opened, RegisterEndpoint, Risk, kernelVars, pollVars, taskVars
  <2>4. \A f \in Fds : registered'[f] = x => registered[f] = x
    BY <1>3 DEF StartListener, Opened, RegisterEndpoint, Risk, kernelVars, pollVars, taskVars
  <2>5. EndpointInv(x)
    BY DEF EndpointsInv
  <2> QED BY <1>1, <2>1, <2>2, <2>3, <2>4, <2>5, EndpointKept
<1> QED BY <1>3 DEF EndpointsInv

LEMMA EndpointsHandshakeSucceeds ==
    ASSUME TypeOK, TypeOK', FilesInv, EndpointsInv, NEW e \in Endpoints, HandshakeSucceeds(e)
    PROVE  EndpointsInv'
<1> USE Distinct, TypesSplit DEF FileTypes, PollTypes, EndpointTypes
<1>1. leaked \subseteq leaked' /\ situations \subseteq situations'
  BY DEF HandshakeSucceeds, RegisterEndpoint, Risk, State, Runs, Done, kernelVars, pollVars, taskVars
<1>2. EndpointInv(e)'
  <2>1. EndpointInv(e)
    BY DEF EndpointsInv
  <2> QED BY <2>1, <1>1 DEF EndpointInv, HandshakeSucceeds, RegisterEndpoint, Risk, State, Runs, Done, kernelVars, pollVars, taskVars
<1>3. ASSUME NEW x \in Endpoints, x # e PROVE EndpointInv(x)'
  <2>1. fd'[x] = fd[x] /\ sslSocket'[x] = sslSocket[x] /\ sslState'[x] = sslState[x]
    BY <1>3 DEF HandshakeSucceeds, RegisterEndpoint, Risk, State, Runs, Done, kernelVars, pollVars, taskVars
  <2>2. handshakes'[x] = handshakes[x] /\ closings'[x] = closings[x]
    BY <1>3 DEF HandshakeSucceeds, RegisterEndpoint, Risk, State, Runs, Done, kernelVars, pollVars, taskVars
  <2>3. \A f \in Fds : files'[f] = x => files[f] = x
    BY <1>3 DEF HandshakeSucceeds, RegisterEndpoint, Risk, State, Runs, Done, kernelVars, pollVars, taskVars
  <2>4. \A f \in Fds : registered'[f] = x => registered[f] = x
    BY <1>3 DEF HandshakeSucceeds, RegisterEndpoint, Risk, State, Runs, Done, kernelVars, pollVars, taskVars
  <2>5. EndpointInv(x)
    BY DEF EndpointsInv
  <2> QED BY <1>1, <2>1, <2>2, <2>3, <2>4, <2>5, EndpointKept
<1> QED BY <1>2, <1>3 DEF EndpointsInv

LEMMA EndpointsHandshakeFails ==
    ASSUME TypeOK, TypeOK', FilesInv, EndpointsInv, NEW e \in Endpoints, HandshakeFails(e)
    PROVE  EndpointsInv'
<1> USE Distinct, TypesSplit DEF FileTypes, PollTypes, EndpointTypes
<1>1. leaked \subseteq leaked' /\ situations \subseteq situations'
  BY DEF HandshakeFails, CloseAndDisconnect, Closed, RemoveEndpoints, State, Runs, Done, kernelVars, pollVars, taskVars
<1>2. EndpointInv(e)'
  <2>1. EndpointInv(e)
    BY DEF EndpointsInv
  <2> QED BY <2>1, <1>1 DEF EndpointInv, HandshakeFails, CloseAndDisconnect, Closed, RemoveEndpoints, State, Runs, Done, kernelVars, pollVars, taskVars, FilesInv, EndpointPolled
<1>3. ASSUME NEW x \in Endpoints, x # e PROVE EndpointInv(x)'
  <2>1. fd'[x] = fd[x] /\ sslSocket'[x] = sslSocket[x] /\ sslState'[x] = sslState[x]
    BY <1>3 DEF HandshakeFails, CloseAndDisconnect, Closed, RemoveEndpoints, State, Runs, Done, kernelVars, pollVars, taskVars
  <2>2. handshakes'[x] = handshakes[x] /\ closings'[x] = closings[x]
    BY <1>3 DEF HandshakeFails, CloseAndDisconnect, Closed, RemoveEndpoints, State, Runs, Done, kernelVars, pollVars, taskVars
  <2>3. \A f \in Fds : files'[f] = x => files[f] = x
    BY <1>3 DEF HandshakeFails, CloseAndDisconnect, Closed, RemoveEndpoints, State, Runs, Done, kernelVars, pollVars, taskVars
  <2>4. \A f \in Fds : registered'[f] = x => registered[f] = x
    BY <1>3 DEF HandshakeFails, CloseAndDisconnect, Closed, RemoveEndpoints, State, Runs, Done, kernelVars, pollVars, taskVars
  <2>5. EndpointInv(x)
    BY DEF EndpointsInv
  <2> QED BY <1>1, <2>1, <2>2, <2>3, <2>4, <2>5, EndpointKept
<1> QED BY <1>2, <1>3 DEF EndpointsInv

LEMMA EndpointsCloseConnection ==
    ASSUME TypeOK, TypeOK', FilesInv, EndpointsInv, NEW e \in Endpoints, CloseConnection(e)
    PROVE  EndpointsInv'
<1> USE Distinct, TypesSplit DEF FileTypes, PollTypes, EndpointTypes
<1>1. leaked \subseteq leaked' /\ situations \subseteq situations'
  BY DEF CloseConnection, CloseFd, Closed, RemoveEndpoints, State, Runs, Done, kernelVars, pollVars, taskVars
<1>2. EndpointInv(e)'
  <2>1. EndpointInv(e)
    BY DEF EndpointsInv
  <2> QED BY <2>1, <1>1 DEF EndpointInv, CloseConnection, CloseFd, Closed, RemoveEndpoints, State, Runs, Done, kernelVars, pollVars, taskVars, FilesInv, EndpointPolled
<1>3. ASSUME NEW x \in Endpoints, x # e PROVE EndpointInv(x)'
  <2>1. fd'[x] = fd[x] /\ sslSocket'[x] = sslSocket[x] /\ sslState'[x] = sslState[x]
    BY <1>3 DEF CloseConnection, CloseFd, Closed, RemoveEndpoints, State, Runs, Done, kernelVars, pollVars, taskVars
  <2>2. handshakes'[x] = handshakes[x] /\ closings'[x] = closings[x]
    BY <1>3 DEF CloseConnection, CloseFd, Closed, RemoveEndpoints, State, Runs, Done, kernelVars, pollVars, taskVars
  <2>3. \A f \in Fds : files'[f] = x => files[f] = x
    BY <1>3 DEF CloseConnection, CloseFd, Closed, RemoveEndpoints, State, Runs, Done, kernelVars, pollVars, taskVars
  <2>4. \A f \in Fds : registered'[f] = x => registered[f] = x
    BY <1>3 DEF CloseConnection, CloseFd, Closed, RemoveEndpoints, State, Runs, Done, kernelVars, pollVars, taskVars
  <2>5. EndpointInv(x)
    BY DEF EndpointsInv
  <2> QED BY <1>1, <2>1, <2>2, <2>3, <2>4, <2>5, EndpointKept
<1> QED BY <1>2, <1>3 DEF EndpointsInv

LEMMA EndpointsDispatchHangup ==
    ASSUME TypeOK, TypeOK', FilesInv, EndpointsInv, NEW e \in Endpoints, DispatchHangup(e), current.fd \in Fds
    PROVE  EndpointsInv'
<1> USE Distinct, TypesSplit DEF FileTypes, PollTypes, EndpointTypes
<1>1. leaked \subseteq leaked' /\ situations \subseteq situations'
  BY DEF DispatchHangup, OnDisconnected, SetClosed, RemoveEndpoints, To, kernelVars, pollVars, taskVars
<1>2. EndpointInv(e)'
  <2>1. EndpointInv(e)
    BY DEF EndpointsInv
  <2> QED BY <2>1, <1>1 DEF EndpointInv, DispatchHangup, OnDisconnected, SetClosed, RemoveEndpoints, To, kernelVars, pollVars, taskVars
<1>3. ASSUME NEW x \in Endpoints, x # e PROVE EndpointInv(x)'
  <2>1. fd'[x] = fd[x] /\ sslSocket'[x] = sslSocket[x] /\ sslState'[x] = sslState[x]
    BY <1>3 DEF DispatchHangup, OnDisconnected, SetClosed, RemoveEndpoints, To, kernelVars, pollVars, taskVars
  <2>2. handshakes'[x] = handshakes[x] /\ closings'[x] = closings[x]
    BY <1>3 DEF DispatchHangup, OnDisconnected, SetClosed, RemoveEndpoints, To, kernelVars, pollVars, taskVars
  <2>3. \A f \in Fds : files'[f] = x => files[f] = x
    BY <1>3 DEF DispatchHangup, OnDisconnected, SetClosed, RemoveEndpoints, To, kernelVars, pollVars, taskVars
  <2>4. \A f \in Fds : registered'[f] = x => registered[f] = x
    BY <1>3 DEF DispatchHangup, OnDisconnected, SetClosed, RemoveEndpoints, To, kernelVars, pollVars, taskVars
  <2>5. EndpointInv(x)
    BY DEF EndpointsInv
  <2> QED BY <1>1, <2>1, <2>2, <2>3, <2>4, <2>5, EndpointKept
<1> QED BY <1>2, <1>3 DEF EndpointsInv

LEMMA EndpointsDispatchPayload ==
    ASSUME TypeOK, TypeOK', FilesInv, EndpointsInv, NEW e \in Endpoints, DispatchPayload(e), current.fd \in Fds
    PROVE  EndpointsInv'
<1> USE Distinct, TypesSplit DEF FileTypes, PollTypes, EndpointTypes
<1>1. leaked \subseteq leaked' /\ situations \subseteq situations'
  BY DEF DispatchPayload, CloseAndDisconnect, Closed, RemoveEndpoints, To, kernelVars, pollVars, taskVars
<1>2. EndpointInv(e)'
  <2>1. EndpointInv(e)
    BY DEF EndpointsInv
  <2> QED BY <2>1, <1>1 DEF EndpointInv, DispatchPayload, CloseAndDisconnect, Closed, RemoveEndpoints, To, kernelVars, pollVars, taskVars, FilesInv, EndpointPolled
<1>3. ASSUME NEW x \in Endpoints, x # e PROVE EndpointInv(x)'
  <2>1. fd'[x] = fd[x] /\ sslSocket'[x] = sslSocket[x] /\ sslState'[x] = sslState[x]
    BY <1>3 DEF DispatchPayload, CloseAndDisconnect, Closed, RemoveEndpoints, To, kernelVars, pollVars, taskVars
  <2>2. handshakes'[x] = handshakes[x] /\ closings'[x] = closings[x]
    BY <1>3 DEF DispatchPayload, CloseAndDisconnect, Closed, RemoveEndpoints, To, kernelVars, pollVars, taskVars
  <2>3. \A f \in Fds : files'[f] = x => files[f] = x
    BY <1>3 DEF DispatchPayload, CloseAndDisconnect, Closed, RemoveEndpoints, To, kernelVars, pollVars, taskVars
  <2>4. \A f \in Fds : registered'[f] = x => registered[f] = x
    BY <1>3 DEF DispatchPayload, CloseAndDisconnect, Closed, RemoveEndpoints, To, kernelVars, pollVars, taskVars
  <2>5. EndpointInv(x)
    BY DEF EndpointsInv
  <2> QED BY <1>1, <2>1, <2>2, <2>3, <2>4, <2>5, EndpointKept
<1> QED BY <1>2, <1>3 DEF EndpointsInv

LEMMA EndpointsAccept ==
    ASSUME TypeOK, TypeOK', FilesInv, EndpointsInv, NEW s \in Servers, Accept(s)
    PROVE  EndpointsInv'
<1> USE Distinct, TypesSplit DEF FileTypes, PollTypes, EndpointTypes
<1> USE LowestIsFree
<1>1. leaked \subseteq leaked' /\ situations \subseteq situations'
  BY DEF Accept, Opened, RegisterEndpoint, Risk, State, kernelVars, pollVars, taskVars
<1>2. EndpointInv(s)'
  <2>1. EndpointInv(s)
    BY DEF EndpointsInv
  <2> QED BY <2>1, <1>1 DEF EndpointInv, Accept, Opened, RegisterEndpoint, Risk, State, kernelVars, pollVars, taskVars
<1>3. ASSUME NEW x \in Endpoints, x # s PROVE EndpointInv(x)'
  <2>1. fd'[x] = fd[x] /\ sslSocket'[x] = sslSocket[x] /\ sslState'[x] = sslState[x]
    BY <1>3 DEF Accept, Opened, RegisterEndpoint, Risk, State, kernelVars, pollVars, taskVars
  <2>2. handshakes'[x] = handshakes[x] /\ closings'[x] = closings[x]
    BY <1>3 DEF Accept, Opened, RegisterEndpoint, Risk, State, kernelVars, pollVars, taskVars
  <2>3. \A f \in Fds : files'[f] = x => files[f] = x
    BY <1>3 DEF Accept, Opened, RegisterEndpoint, Risk, State, kernelVars, pollVars, taskVars
  <2>4. \A f \in Fds : registered'[f] = x => registered[f] = x
    BY <1>3 DEF Accept, Opened, RegisterEndpoint, Risk, State, kernelVars, pollVars, taskVars
  <2>5. EndpointInv(x)
    BY DEF EndpointsInv
  <2> QED BY <1>1, <2>1, <2>2, <2>3, <2>4, <2>5, EndpointKept
<1> QED BY <1>2, <1>3 DEF EndpointsInv

LEMMA EndpointsStopListener ==
    ASSUME TypeOK, TypeOK', FilesInv, EndpointsInv, StopListener
    PROVE  EndpointsInv'
<1> USE Distinct, TypesSplit DEF FileTypes, PollTypes, EndpointTypes
<1>1. leaked \subseteq leaked' /\ situations \subseteq situations'
  BY DEF StopListener, CloseFd, Closed, RemoveEndpoints, Risk, kernelVars, pollVars, taskVars
<1>3. ASSUME NEW x \in Endpoints PROVE EndpointInv(x)'
  <2>1. fd'[x] = fd[x] /\ sslSocket'[x] = sslSocket[x] /\ sslState'[x] = sslState[x]
    BY <1>3 DEF StopListener, CloseFd, Closed, RemoveEndpoints, Risk, kernelVars, pollVars, taskVars
  <2>2. handshakes'[x] = handshakes[x]
    BY <1>3 DEF StopListener, CloseFd, Closed, RemoveEndpoints, Risk, kernelVars, pollVars, taskVars
  <2>6. sslState[x] = "Connected" \/ closings'[x] = closings[x]
    BY DEF StopListener, CanClose, Contexts
  <2>3. \A f \in Fds : files'[f] = x => files[f] = x
    BY <1>3 DEF StopListener, CloseFd, Closed, RemoveEndpoints, Risk, kernelVars, pollVars, taskVars
  <2>4. \A f \in Fds : registered'[f] = x => registered[f] = x
    BY <1>3 DEF StopListener, CloseFd, Closed, RemoveEndpoints, Risk, kernelVars, pollVars, taskVars
  <2>5. EndpointInv(x)
    BY DEF EndpointsInv
  <2>7. CASE sslState[x] = "Connected"
    BY <1>1, <2>1, <2>4, <2>5, <2>7 DEF EndpointInv
  <2> QED BY <1>1, <2>1, <2>2, <2>3, <2>4, <2>5, <2>6, <2>7, EndpointKept
<1> QED BY <1>3 DEF EndpointsInv

LEMMA EndpointsDestroy ==
    ASSUME TypeOK, TypeOK', FilesInv, EndpointsInv, NEW c \in Clients, Destroy(c)
    PROVE  EndpointsInv'
<1> USE Distinct, TypesSplit DEF FileTypes, PollTypes, EndpointTypes
<1>1. leaked \subseteq leaked' /\ situations \subseteq situations'
  BY DEF Destroy, CloseFd, Closed, RemoveEndpoints, Risk, State, kernelVars, pollVars, taskVars
<1>2. EndpointInv(c)'
  <2>1. EndpointInv(c)
    BY DEF EndpointsInv
  <2>2. sslState'[c] = "destroyed" /\ handshakes'[c] = handshakes[c]
    BY DEF Destroy, State
  <2>3. closings'[c] + handshakes[c] > 0 => situations' # {}
    BY DEF Destroy, Risk
  <2> QED BY <2>2, <2>3 DEF EndpointInv
<1>3. ASSUME NEW x \in Endpoints, x # c PROVE EndpointInv(x)'
  <2>1. fd'[x] = fd[x] /\ sslSocket'[x] = sslSocket[x] /\ sslState'[x] = sslState[x]
    BY <1>3 DEF Destroy, CloseFd, Closed, RemoveEndpoints, Risk, State, kernelVars, pollVars, taskVars
  <2>2. handshakes'[x] = handshakes[x] /\ closings'[x] = closings[x]
    BY <1>3 DEF Destroy, CloseFd, Closed, RemoveEndpoints, Risk, State, kernelVars, pollVars, taskVars
  <2>3. \A f \in Fds : files'[f] = x => files[f] = x
    BY <1>3 DEF Destroy, CloseFd, Closed, RemoveEndpoints, Risk, State, kernelVars, pollVars, taskVars
  <2>4. \A f \in Fds : registered'[f] = x => registered[f] = x
    BY <1>3 DEF Destroy, CloseFd, Closed, RemoveEndpoints, Risk, State, kernelVars, pollVars, taskVars
  <2>5. EndpointInv(x)
    BY DEF EndpointsInv
  <2> QED BY <1>1, <2>1, <2>2, <2>3, <2>4, <2>5, EndpointKept
<1> QED BY <1>2, <1>3 DEF EndpointsInv

LEMMA EndpointsKept ==
    ASSUME TypeOK, TypeOK', FilesInv, EndpointsInv, situations \subseteq situations',
           UNCHANGED <<files, fd, registered, leaked, sslSocket, sslState, handshakes, closings>>
    PROVE  EndpointsInv'
<1> SUFFICES ASSUME NEW x \in Endpoints PROVE EndpointInv(x)'
  BY DEF EndpointsInv
<1>1. EndpointInv(x)
  BY DEF EndpointsInv
<1> QED BY <1>1, TypesSplit, EndpointKept DEF FileTypes, PollTypes, EndpointTypes


-----------------------------------------------------------------------------
(* The events of a batch. *)

(* An event that was not freed finds its endpoint, and the listener's finds *)
(* a connection to accept.                                                  *)
EventInv(ev) ==
    /\ ev.freed => situations # {}
    /\ ~ev.freed => registered[ev.fd] # None /\ (registered[ev.fd] = Listener => Arriving # {})

BatchInv ==
    /\ loop = "idle" => batch = {}
    /\ \A ev, w \in batch : ev.fd = w.fd => ev = w
    /\ \A ev \in batch : EventInv(ev)
    /\ \A f \in epoll : registered[f] # None
    /\ loop = "dispatch" =>
          current \in Events /\ EventInv(current) /\ \A ev \in batch : ev.fd # current.fd

LEMMA BatchInit == Init => BatchInv
BY DEF Init, BatchInv

(* What is registered stays, or more is registered. *)
LEMMA BatchKept ==
    ASSUME PollTypes, PollTypes', BatchInv, situations \subseteq situations', UNCHANGED batch,
           \A f \in Fds : registered[f] # None => registered'[f] = registered[f],
           \A f \in epoll' : f \in epoll \/ registered'[f] # None,
           Arriving \subseteq Arriving' \/ \A ev \in batch : ev.freed \/ registered[ev.fd] # Listener,
           loop' = "idle" => batch = {},
           loop' = "dispatch" => loop = "dispatch" /\ UNCHANGED <<current, Arriving>>
    PROVE  BatchInv'
<1>1. ASSUME NEW ev \in batch PROVE EventInv(ev)'
  <2>1. EventInv(ev) /\ ev.fd \in Fds /\ ev.freed \in BOOLEAN
    BY EventTypes DEF BatchInv
  <2> QED BY <2>1 DEF EventInv
<1>2. \A f \in epoll' : registered'[f] # None
  BY DEF PollTypes, BatchInv
<1>3. ASSUME loop' = "dispatch"
      PROVE  current' \in Events /\ EventInv(current)' /\ \A ev \in batch' : ev.fd # current'.fd
  <2>1. current \in Events /\ current.fd \in Fds /\ current.freed \in BOOLEAN /\ EventInv(current)
    BY <1>3 DEF BatchInv, Events
  <2>2. EventInv(current)'
    BY <1>3, <2>1 DEF EventInv
  <2> QED BY <1>3, <2>1, <2>2 DEF BatchInv
<1>4. \A ev, w \in batch' : ev.fd = w.fd => ev = w
  BY DEF BatchInv
<1> QED BY <1>1, <1>2, <1>3, <1>4 DEF BatchInv

(* Numbers are removed. *)
LEMMA BatchRemove ==
    ASSUME PollTypes, PollTypes', BatchInv, situations \subseteq situations', NEW fs,
           RemoveEndpoints(fs), Crossing(fs) => situations' # {}, UNCHANGED Arriving,
           loop' = "idle" => batch = {}, loop' # "dispatch"
    PROVE  BatchInv'
<1>1. ASSUME NEW ev \in batch' PROVE EventInv(ev)'
  <2>1. PICK w \in batch : ev = [w EXCEPT !.freed = @ \/ w.fd \in fs]
    BY DEF RemoveEndpoints
  <2>2. /\ EventInv(w) /\ w.fd \in Fds /\ w.freed \in BOOLEAN
        /\ ev.fd = w.fd /\ ev.freed = (w.freed \/ w.fd \in fs)
    BY <2>1, EventTypes DEF BatchInv
  <2>3. w.fd \in fs => situations' # {}
    BY DEF Crossing
  <2>4. w.fd \notin fs => registered'[w.fd] = registered[w.fd]
    BY <2>2 DEF RemoveEndpoints
  <2> QED BY <2>2, <2>3, <2>4 DEF EventInv
<1>2. \A f \in epoll' : registered'[f] # None
  BY DEF PollTypes, BatchInv, RemoveEndpoints
<1>3. ASSUME NEW ev \in batch', NEW w \in batch', ev.fd = w.fd PROVE ev = w
  <2>1. PICK a \in batch : ev = [a EXCEPT !.freed = @ \/ a.fd \in fs]
    BY DEF RemoveEndpoints
  <2>2. PICK b \in batch : w = [b EXCEPT !.freed = @ \/ b.fd \in fs]
    BY DEF RemoveEndpoints
  <2>3. a.fd = b.fd
    BY <1>3, <2>1, <2>2, EventTypes
  <2> QED BY <2>1, <2>2, <2>3 DEF BatchInv
<1>4. batch = {} => batch' = {}
  BY DEF RemoveEndpoints
<1> QED BY <1>1, <1>2, <1>3, <1>4 DEF BatchInv


-----------------------------------------------------------------------------
(* The actions. *)

LEMMA Leaving ==
    ASSUME EndpointTypes, NEW e \in Endpoints, sslState[e] # "none",
           sslState' \in {sslState} \union {[sslState EXCEPT ![e] = s] :
                s \in {"Disconnected", "ConnectingToRemote", "RemoteClientConnecting", "Connected", "destroyed"}}
    PROVE  UNCHANGED Arriving
BY DEF Arriving, EndpointTypes, Endpoints

LEMMA Staying ==
    ASSUME UNCHANGED sslState
    PROVE  UNCHANGED Arriving
BY DEF Arriving

LEMMA LoopOpenEndpoint ==
    ASSUME TypeOK, TypeOK', FilesInv, EndpointsInv, BatchInv, NEW c \in Clients, OpenEndpoint(c)
    PROVE  FilesInv' /\ EndpointsInv' /\ BatchInv'
<1> USE Distinct, TypesSplit
<1>a. (\A f \in Fds \ {0} : registered[f] # c) /\ sslState[c] # "none"
  BY DEF OpenEndpoint, EndpointsInv, EndpointInv
<1>1. FilesInv'
  BY <1>a, LowestIsFree, FilesOpen DEF OpenEndpoint, Forgets, pollVars
<1>2. EndpointsInv'
  BY EndpointsOpenEndpoint
<1>3. BatchInv'
  <2>1. UNCHANGED Arriving
    BY <1>a, Leaving, Staying DEF OpenEndpoint, State
  <2> QED BY <2>1, BatchKept DEF OpenEndpoint, pollVars, MayCall, BatchInv
<1> QED BY <1>1, <1>2, <1>3

LEMMA LoopOpenFails ==
    ASSUME TypeOK, TypeOK', FilesInv, EndpointsInv, BatchInv, NEW c \in Clients, OpenFails(c)
    PROVE  FilesInv' /\ EndpointsInv' /\ BatchInv'
<1> USE Distinct, TypesSplit
<1>a. \A f \in Fds \ {0} : registered[f] # c
  BY DEF OpenFails, EndpointsInv, EndpointInv
<1>1. FilesInv'
  BY <1>a, FilesOpenFails DEF OpenFails, kernelVars, pollVars
<1>2. EndpointsInv'
  BY EndpointsOpenFails
<1>3. BatchInv'
  BY BatchKept, Staying DEF OpenFails, BatchInv, kernelVars, pollVars, MayCall
<1> QED BY <1>1, <1>2, <1>3

LEMMA LoopCloseEndpoint ==
    ASSUME TypeOK, TypeOK', FilesInv, EndpointsInv, BatchInv, NEW e \in Endpoints, CloseEndpoint(e)
    PROVE  FilesInv' /\ EndpointsInv' /\ BatchInv'
<1> USE Distinct, TypesSplit
<1>1. FilesInv'
  BY FilesKept DEF CloseEndpoint, kernelVars, pollVars
<1>2. EndpointsInv'
  BY EndpointsCloseEndpoint
<1>3. BatchInv'
  BY BatchKept, Staying DEF CloseEndpoint, BatchInv, kernelVars, pollVars, MayCall
<1> QED BY <1>1, <1>2, <1>3

LEMMA LoopSendFails ==
    ASSUME TypeOK, TypeOK', FilesInv, EndpointsInv, BatchInv, NEW e \in Endpoints, SendFails(e)
    PROVE  FilesInv' /\ EndpointsInv' /\ BatchInv'
<1> USE Distinct, TypesSplit
<1>1. FilesInv'
  BY FilesForget DEF SendFails, OnDisconnected, Risk
<1>2. EndpointsInv'
  BY EndpointsSendFails
<1>3. BatchInv'
  BY BatchRemove, Staying DEF SendFails, OnDisconnected, SetClosed, Risk, MayCall, BatchInv
<1> QED BY <1>1, <1>2, <1>3

LEMMA LoopStartListener ==
    ASSUME TypeOK, TypeOK', FilesInv, EndpointsInv, BatchInv, StartListener
    PROVE  FilesInv' /\ EndpointsInv' /\ BatchInv'
<1> USE Distinct, TypesSplit
<1>1. FilesInv'
  <2>1. CASE UNCHANGED <<pollVars, situations>>
    BY <2>1, LowestIsFree, FilesOpen DEF StartListener, pollVars
  <2>2. CASE (\A f \in Fds : registered[f] # Listener) /\ RegisterEndpoint(LowestFree, Listener)
    BY <2>2, LowestIsFree, FilesOpenRegister DEF StartListener, RegisterEndpoint, Risk
  <2> QED BY <2>1, <2>2 DEF StartListener
<1>2. EndpointsInv'
  BY EndpointsStartListener
<1>3. BatchInv'
  <2>1. UNCHANGED Arriving
    BY Staying DEF StartListener
  <2>2. LowestFree \in Fds
    BY LowestIsFree DEF StartListener
  <2> QED BY <2>1, <2>2, BatchKept DEF StartListener, RegisterEndpoint, Risk, PollTypes, pollVars, MayCall, BatchInv
<1> QED BY <1>1, <1>2, <1>3

LEMMA LoopStopListener ==
    ASSUME TypeOK, TypeOK', FilesInv, EndpointsInv, BatchInv, StopListener
    PROVE  FilesInv' /\ EndpointsInv' /\ BatchInv'
<1> USE Distinct, TypesSplit
<1>1. FilesInv'
  BY FilesClose DEF StopListener, CloseFd, Risk
<1>2. EndpointsInv'
  BY EndpointsStopListener
<1>3. BatchInv'
  BY BatchRemove, Staying DEF StopListener, CloseFd, Risk, MayCall, BatchInv
<1> QED BY <1>1, <1>2, <1>3

LEMMA LoopDestroy ==
    ASSUME TypeOK, TypeOK', FilesInv, EndpointsInv, BatchInv, NEW c \in Clients, Destroy(c), loop' # "undefined"
    PROVE  FilesInv' /\ EndpointsInv' /\ BatchInv'
<1> USE Distinct, TypesSplit
<1>1. FilesInv'
  <2>1. CASE opens[c] > 0 /\ fd[c] # 0 /\ CloseFd(c) /\ situations \subseteq situations'
    BY <2>1, FilesClose DEF CloseFd
  <2>2. CASE UNCHANGED <<kernelVars, fd, pollVars, leaked, loop>> /\ situations \subseteq situations'
    BY <2>2, FilesKept DEF kernelVars, pollVars
  <2> QED BY <2>1, <2>2 DEF Destroy, Risk
<1>2. EndpointsInv'
  BY EndpointsDestroy
<1>3. BatchInv'
  <2>1. UNCHANGED Arriving
    BY DEF Destroy, Arriving, State, EndpointTypes, Endpoints
  <2>2. CASE CloseFd(c) /\ UNCHANGED loop /\ Risk("destroyed", closings'[c] + handshakes[c] > 0 \/ Crossing({fd[c]}))
    BY <2>1, <2>2, BatchRemove DEF Destroy, CloseFd, Risk, MayCall, BatchInv
  <2>3. CASE UNCHANGED <<kernelVars, fd, pollVars, leaked, loop>> /\ situations \subseteq situations'
    BY <2>1, <2>3, BatchKept DEF Destroy, pollVars, MayCall, BatchInv
  <2> QED BY <2>2, <2>3 DEF Destroy, Risk
<1> QED BY <1>1, <1>2, <1>3

LEMMA LoopHandshakeSucceeds ==
    ASSUME TypeOK, TypeOK', FilesInv, EndpointsInv, BatchInv, NEW e \in Endpoints, HandshakeSucceeds(e)
    PROVE  FilesInv' /\ EndpointsInv' /\ BatchInv'
<1> USE Distinct, TypesSplit
<1>1. FilesInv'
  <2>1. fd[e] = 0 => e \in leaked
    BY DEF HandshakeSucceeds, EndpointsInv, EndpointInv
  <2> QED BY <2>1, FilesRegister DEF HandshakeSucceeds, RegisterEndpoint, Risk, kernelVars
<1>2. EndpointsInv'
  BY EndpointsHandshakeSucceeds
<1>3. BatchInv'
  <2>0. sslState[e] # "none" /\ sslState' = [sslState EXCEPT ![e] = "Connected"]
    BY DEF HandshakeSucceeds, EndpointsInv, EndpointInv, Runs, State
  <2>1. UNCHANGED Arriving
    BY <2>0, Leaving
  <2>2. fd[e] \in Fds
    BY DEF FileTypes
  <2> QED BY <2>1, <2>2, BatchKept DEF HandshakeSucceeds, RegisterEndpoint, Risk, PollTypes, pollVars, Runs, BatchInv
<1> QED BY <1>1, <1>2, <1>3

LEMMA LoopHandshakeFails ==
    ASSUME TypeOK, TypeOK', FilesInv, EndpointsInv, BatchInv, NEW e \in Endpoints, HandshakeFails(e)
    PROVE  FilesInv' /\ EndpointsInv' /\ BatchInv'
<1> USE Distinct, TypesSplit
<1>1. FilesInv'
  <2>1. CASE sslSocket[e] # 0 /\ CloseAndDisconnect(e)
    <3>1. fd[e] # 0 \/ leaked # {}
      BY <2>1 DEF HandshakeFails, EndpointsInv, EndpointInv
    <3> QED BY <2>1, <3>1, FilesClose DEF HandshakeFails, CloseAndDisconnect
  <2>2. CASE UNCHANGED <<kernelVars, fd, pollVars, leaked>>
    BY <2>2, FilesKept DEF HandshakeFails, kernelVars, pollVars
  <2> QED BY <2>1, <2>2 DEF HandshakeFails
<1>2. EndpointsInv'
  BY EndpointsHandshakeFails
<1>3. BatchInv'
  <2>1. sslState[e] # "none"
    BY DEF HandshakeFails, Runs, EndpointsInv, EndpointInv
  <2>2. batch = {} /\ ~Crossing({fd[e], 0}) /\ ~Crossing({fd[e]})
    BY DEF HandshakeFails, Runs, BatchInv, Crossing
  <2>3. UNCHANGED Arriving
    BY <2>1, Leaving, Staying DEF HandshakeFails, State
  <2>4. CASE CloseAndDisconnect(e)
    BY <2>2, <2>3, <2>4, BatchRemove DEF HandshakeFails, CloseAndDisconnect, Runs, BatchInv
  <2>5. CASE UNCHANGED <<kernelVars, fd, pollVars, leaked>>
    BY <2>2, <2>3, <2>5, BatchKept DEF HandshakeFails, Runs, pollVars, BatchInv
  <2> QED BY <2>4, <2>5 DEF HandshakeFails
<1> QED BY <1>1, <1>2, <1>3

LEMMA LoopCloseConnection ==
    ASSUME TypeOK, TypeOK', FilesInv, EndpointsInv, BatchInv, NEW e \in Endpoints, CloseConnection(e)
    PROVE  FilesInv' /\ EndpointsInv' /\ BatchInv'
<1> USE Distinct, TypesSplit
<1>1. FilesInv'
  <2>1. CASE sslSocket[e] # 0 /\ CloseFd(e)
    <3>1. fd[e] # 0 \/ leaked # {}
      BY <2>1 DEF CloseConnection, EndpointsInv, EndpointInv
    <3> QED BY <2>1, <3>1, FilesClose DEF CloseConnection, CloseFd
  <2>2. CASE UNCHANGED <<kernelVars, fd, pollVars, leaked>>
    BY <2>2, FilesKept DEF CloseConnection, kernelVars, pollVars
  <2> QED BY <2>1, <2>2 DEF CloseConnection
<1>2. EndpointsInv'
  BY EndpointsCloseConnection
<1>3. BatchInv'
  <2>1. sslState[e] # "none"
    BY DEF CloseConnection, Runs, EndpointsInv, EndpointInv
  <2>2. batch = {} /\ ~Crossing({fd[e], 0}) /\ ~Crossing({fd[e]})
    BY DEF CloseConnection, Runs, BatchInv, Crossing
  <2>3. UNCHANGED Arriving
    BY <2>1, Leaving, Staying DEF CloseConnection, State
  <2>4. CASE CloseFd(e)
    BY <2>2, <2>3, <2>4, BatchRemove DEF CloseConnection, CloseFd, Runs, BatchInv
  <2>5. CASE UNCHANGED <<kernelVars, fd, pollVars, leaked>>
    BY <2>2, <2>3, <2>5, BatchKept DEF CloseConnection, Runs, pollVars, BatchInv
  <2> QED BY <2>4, <2>5 DEF CloseConnection
<1> QED BY <1>1, <1>2, <1>3

LEMMA LoopPoll ==
    ASSUME TypeOK, TypeOK', FilesInv, EndpointsInv, BatchInv, Poll
    PROVE  FilesInv' /\ EndpointsInv' /\ BatchInv'
<1> USE Distinct, TypesSplit
<1>1. FilesInv'
  BY FilesKept DEF Poll, kernelVars, pollVars
<1>2. EndpointsInv'
  BY EndpointsKept DEF Poll, kernelVars, pollVars, taskVars
<1>3. BatchInv'
  <2>1. PICK ready \in SUBSET {f \in epoll : CanBeReady(f)} :
             batch' = {[fd |-> f, hangup |-> f \in hung, freed |-> FALSE] : f \in ready}
    BY DEF Poll
  <2>2. ASSUME NEW f \in ready PROVE registered[f] # None /\ (registered[f] = Listener => Arriving # {})
    BY <2>2 DEF CanBeReady, BatchInv
  <2>3. ASSUME NEW ev \in batch' PROVE EventInv(ev)'
    <3>1. PICK f \in ready : ev = [fd |-> f, hangup |-> f \in hung, freed |-> FALSE]
      BY <2>1
    <3>2. ev.fd = f /\ ev.freed = FALSE /\ registered' = registered /\ Arriving' = Arriving
      BY <3>1, Staying DEF Poll
    <3> QED BY <2>2, <3>2 DEF EventInv
  <2>4. ASSUME NEW ev \in batch', NEW w \in batch', ev.fd = w.fd PROVE ev = w
    <3>1. PICK f \in ready : ev = [fd |-> f, hangup |-> f \in hung, freed |-> FALSE]
      BY <2>1
    <3>2. PICK g \in ready : w = [fd |-> g, hangup |-> g \in hung, freed |-> FALSE]
      BY <2>1
    <3>3. f = g
      BY <2>4, <3>1, <3>2
    <3> QED BY <3>1, <3>2, <3>3
  <2> QED BY <2>3, <2>4 DEF Poll, BatchInv
<1> QED BY <1>1, <1>2, <1>3

LEMMA LoopTakeEvent ==
    ASSUME TypeOK, TypeOK', FilesInv, EndpointsInv, BatchInv, TakeEvent
    PROVE  FilesInv' /\ EndpointsInv' /\ BatchInv'
<1> USE Distinct, TypesSplit
<1>1. FilesInv'
  BY FilesKept DEF TakeEvent, kernelVars, pollVars
<1>2. EndpointsInv'
  BY EndpointsKept DEF TakeEvent, kernelVars, pollVars, taskVars
<1>3. BatchInv'
  <2>1. PICK ev \in batch : current' = ev /\ batch' = batch \ {ev}
    BY DEF TakeEvent
  <2>2. ASSUME NEW w \in batch PROVE EventInv(w)'
    <3>1. EventInv(w) /\ UNCHANGED <<registered, situations, Arriving>>
      BY Staying DEF BatchInv, TakeEvent
    <3> QED BY <3>1 DEF EventInv
  <2>3. EventInv(current)'
    BY <2>1, <2>2 DEF EventInv
  <2> QED BY <2>1, <2>2, <2>3 DEF TakeEvent, BatchInv, PollTypes
<1> QED BY <1>1, <1>2, <1>3

(* The event that is dispatched is that of the endpoint's own descriptor, or *)
(* 0 is registered.                                                         *)
LEMMA Dispatching ==
    ASSUME TypeOK, FilesInv, EndpointsInv, BatchInv, NEW e \in Endpoints, To(e)
    PROVE  /\ current.fd \in Fds /\ sslState[e] # "none"
           /\ fd[e] # 0 \/ leaked # {}
           /\ Crossing({fd[e]}) \/ Crossing({fd[e], 0}) => situations # {}
<1> USE Distinct, TypesSplit
<1>1. current \in Events /\ current.fd \in Fds /\ registered[current.fd] = e
  BY DEF To, BatchInv, Events
<1>2. sslState[e] # "none"
  BY <1>1 DEF EndpointsInv, EndpointInv
<1>3. registered[0] # None => leaked # {} /\ situations # {}
  BY DEF FilesInv, Zero
<1>4. current.fd # 0 => fd[e] = current.fd
  BY <1>1 DEF FilesInv, EndpointPolled
<1>5. ASSUME NEW ev \in batch, ev.fd \in {fd[e], 0} PROVE situations # {}
  <2>1. EventInv(ev) /\ ev.fd # current.fd /\ ev.freed \in BOOLEAN
    BY EventTypes DEF BatchInv, To
  <2> QED BY <1>1, <1>3, <1>4, <1>5, <2>1 DEF EventInv
<1>6. Crossing({fd[e]}) \/ Crossing({fd[e], 0}) => situations # {}
  BY <1>5 DEF Crossing
<1> QED BY <1>1, <1>2, <1>3, <1>4, <1>6

LEMMA LoopDispatchHangup ==
    ASSUME TypeOK, TypeOK', FilesInv, EndpointsInv, BatchInv, NEW e \in Endpoints, DispatchHangup(e)
    PROVE  FilesInv' /\ EndpointsInv' /\ BatchInv'
<1> USE Distinct, TypesSplit
<1>a. current.fd \in Fds /\ sslState[e] # "none" /\ (fd[e] # 0 \/ leaked # {}) /\ (Crossing({fd[e]}) \/ Crossing({fd[e], 0}) => situations # {})
  BY Dispatching DEF DispatchHangup
<1>1. FilesInv'
  BY FilesForget DEF DispatchHangup, OnDisconnected
<1>2. EndpointsInv'
  BY <1>a, EndpointsDispatchHangup
<1>3. BatchInv'
  BY <1>a, BatchRemove, Staying DEF DispatchHangup, OnDisconnected, SetClosed, AfterHangup, Finish
<1> QED BY <1>1, <1>2, <1>3

LEMMA LoopDispatchPayload ==
    ASSUME TypeOK, TypeOK', FilesInv, EndpointsInv, BatchInv, NEW e \in Endpoints, DispatchPayload(e)
    PROVE  FilesInv' /\ EndpointsInv' /\ BatchInv'
<1> USE Distinct, TypesSplit
<1>a. current.fd \in Fds /\ sslState[e] # "none" /\ (fd[e] # 0 \/ leaked # {}) /\ (Crossing({fd[e]}) \/ Crossing({fd[e], 0}) => situations # {})
  BY Dispatching DEF DispatchPayload
<1>1. FilesInv'
  <2>1. CASE UNCHANGED <<kernelVars, fd, pollVars, leaked>>
    BY <2>1, FilesKept DEF DispatchPayload, kernelVars, pollVars
  <2>2. CASE CloseAndDisconnect(e)
    BY <1>a, <2>2, FilesClose DEF DispatchPayload, CloseAndDisconnect
  <2> QED BY <2>1, <2>2 DEF DispatchPayload
<1>2. EndpointsInv'
  BY <1>a, EndpointsDispatchPayload
<1>3. BatchInv'
  <2>1. UNCHANGED Arriving
    BY <1>a, Leaving DEF DispatchPayload
  <2>2. CASE UNCHANGED pollVars
    BY <2>1, <2>2, BatchKept DEF DispatchPayload, Finish, pollVars
  <2>3. CASE CloseAndDisconnect(e)
    BY <1>a, <2>1, <2>3, BatchRemove DEF DispatchPayload, CloseAndDisconnect, Finish
  <2> QED BY <2>2, <2>3 DEF DispatchPayload
<1> QED BY <1>1, <1>2, <1>3

LEMMA LoopAccept ==
    ASSUME TypeOK, TypeOK', FilesInv, EndpointsInv, BatchInv, NEW s \in Servers, Accept(s)
    PROVE  FilesInv' /\ EndpointsInv' /\ BatchInv'
<1> USE Distinct, TypesSplit
<1>1. FilesInv'
  <2>1. LowestFree \in Fds /\ files[LowestFree] = None
    BY LowestIsFree DEF Accept
  <2>2. \A f \in Fds : files[f] # s /\ registered[f] # s
    BY DEF Accept, Arriving, EndpointsInv, EndpointInv
  <2>3. s \notin Clients \union {Listener} /\ UNCHANGED leaked
    BY DEF Accept
  <2>4. situations \subseteq situations'
    BY DEF Accept, RegisterEndpoint, Risk
  <2> QED BY <2>1, <2>2, <2>3, <2>4, FilesOpenRegister DEF Accept
<1>2. EndpointsInv'
  BY EndpointsAccept
<1>3. BatchInv'
  <2>1. \A ev \in batch : ev.freed \/ registered[ev.fd] # Listener
    <3> SUFFICES ASSUME NEW ev \in batch, registered[ev.fd] = Listener PROVE FALSE
      OBVIOUS
    <3>1. ev.fd # current.fd /\ ev.fd \in Fds /\ current.fd \in Fds
      BY EventTypes DEF BatchInv, Accept, To, Events
    <3> QED BY <3>1 DEF FilesInv, OneListener, Accept, To
  <2>2. LowestFree \in Fds
    BY LowestIsFree DEF Accept
  <2> QED BY <2>1, <2>2, BatchKept DEF Accept, RegisterEndpoint, Risk, PollTypes, pollVars, Finish
<1> QED BY <1>1, <1>2, <1>3

LEMMA LoopPeerGoes ==
    ASSUME TypeOK, TypeOK', FilesInv, EndpointsInv, BatchInv, NEW f \in Fds, PeerGoes(f)
    PROVE  FilesInv' /\ EndpointsInv' /\ BatchInv'
<1> USE Distinct, TypesSplit
<1>1. FilesInv'
  BY FilesKept DEF PeerGoes, pollVars
<1>2. EndpointsInv'
  BY EndpointsKept DEF PeerGoes, pollVars, taskVars
<1>3. BatchInv'
  BY BatchKept, Staying DEF PeerGoes, pollVars, BatchInv
<1> QED BY <1>1, <1>2, <1>3

(* While nothing has been forgotten and a connection is still to come, a     *)
(* descriptor is free: each one but 0 has an owner that holds no other.      *)
LEMMA DescriptorLeft ==
    ASSUME TypeOK, FilesInv, EndpointsInv, leaked = {}, Arriving # {}
    PROVE  Unused # {}
<1> SUFFICES ASSUME Unused = {} PROVE FALSE
  OBVIOUS
<1> USE Distinct, TypesSplit
<1>1. PICK s \in Arriving : TRUE
  OBVIOUS
<1>2. s \in Endpoints /\ \A f \in Fds : files[f] # s
  BY DEF Arriving, EndpointsInv, EndpointInv
<1> DEFINE Numbers == 1 .. MaxFd
           Holders == (Endpoints \ {s}) \union {Listener}
           holder == [f \in Numbers |-> files[f]]
<1>3. \A f \in Numbers : f \in Fds /\ f # 0 /\ files[f] \in Holders /\ fd[files[f]] = f
  <2> SUFFICES ASSUME NEW f \in Numbers PROVE f \in Fds /\ f # 0 /\ files[f] \in Holders /\ fd[files[f]] = f
    OBVIOUS
  <2>1. f \in Fds /\ f # 0
    BY DEF Fds
  <2>2. files[f] # None /\ files[f] # Process
    BY <2>1 DEF Unused, FilesInv, Programs
  <2>3. files[f] \in Owners
    BY <2>1, <2>2 DEF FileTypes
  <2>4. fd[files[f]] = f
    BY <2>1, <2>3 DEF FilesInv, Known
  <2> QED BY <1>2, <2>1, <2>3, <2>4
<1>4. holder \in [Numbers -> Holders]
  BY <1>3
<1>5. IsFiniteSet(Numbers) /\ Cardinality(Numbers) = MaxFd
  BY FS_Interval DEF Fds
<1>6. IsFiniteSet(Endpoints) /\ Cardinality(Endpoints) \in Nat /\ MaxFd >= Cardinality(Endpoints) + 1
  BY SocketAssumption, FS_CardinalityType DEF Endpoints
<1>7. IsFiniteSet(Endpoints \ {s}) /\ Cardinality(Endpoints \ {s}) = Cardinality(Endpoints) - 1
  BY <1>2, <1>6, FS_RemoveElement
<1>8. IsFiniteSet(Holders) /\ Cardinality(Holders) = Cardinality(Endpoints)
  <2>1. Listener \notin Endpoints \ {s}
    OBVIOUS
  <2>2. IsFiniteSet(Holders) /\ Cardinality(Holders) = Cardinality(Endpoints \ {s}) + 1
    BY <1>7, <2>1, FS_AddElement
  <2> QED BY <1>6, <1>7, <2>2
<1>9. \E x, y \in Numbers : x # y /\ holder[x] = holder[y]
  <2>1. Cardinality(Holders) < Cardinality(Numbers)
    BY <1>5, <1>6, <1>8
  <2> HIDE DEF Numbers, Holders, holder
  <2> QED BY <1>4, <1>5, <1>8, <2>1, FS_PigeonHole
<1> QED BY <1>3, <1>9

LEMMA AcceptFailsOnlyAfterLoss ==
    ASSUME TypeOK, FilesInv, EndpointsInv, BatchInv, AcceptFails
    PROVE  leaked # {}
<1> SUFFICES ASSUME leaked = {} PROVE FALSE
  OBVIOUS
<1> USE Distinct, TypesSplit
<1>1. current \in Events /\ current.fd \in Fds /\ registered[current.fd] = Listener /\ EventInv(current) /\ ~current.freed
  BY DEF AcceptFails, To, BatchInv, Events
<1>2. current.fd # 0
  BY <1>1 DEF FilesInv, Zero
<1>3. fd[Listener] = current.fd
  BY <1>1, <1>2 DEF FilesInv, ListenerPolled
<1>4. Unused # {}
  BY <1>1, DescriptorLeft DEF EventInv
<1>5. registered[LowestFree] = None
  <2>1. LowestFree \in Fds /\ files[LowestFree] = None
    BY <1>4, LowestIsFree
  <2>2. CASE LowestFree = 0
    BY <2>2 DEF FilesInv, Zero
  <2>3. CASE LowestFree # 0
    BY <2>1, <2>3 DEF FilesInv, Polled
  <2> QED BY <2>2, <2>3
<1> QED BY <1>3, <1>4, <1>5 DEF AcceptFails

LEMMA LoopAcceptFails ==
    ASSUME TypeOK, TypeOK', FilesInv, EndpointsInv, BatchInv, AcceptFails
    PROVE  FilesInv' /\ EndpointsInv' /\ BatchInv'
<1>1. FilesInv'
  BY TypesSplit, FilesKept DEF AcceptFails, kernelVars, pollVars
<1>2. EndpointsInv'
  BY EndpointsKept DEF AcceptFails, kernelVars, pollVars, taskVars
<1>3. BatchInv'
  BY TypesSplit, BatchKept, Staying DEF AcceptFails, pollVars
<1> QED BY <1>1, <1>2, <1>3

-----------------------------------------------------------------------------
(* The loop. *)

LoopInv ==
    /\ TypeOK
    /\ loop = "ended" => leaked # {}
    /\ NothingFreedIsUsed
    /\ loop # "undefined" => FilesInv /\ EndpointsInv /\ BatchInv

LEMMA LoopInit == Init => LoopInv
<1> SUFFICES ASSUME Init PROVE LoopInv
  OBVIOUS
<1>1. loop = "idle"
  BY DEF Init
<1> QED BY <1>1, TypesInit, FilesInit, EndpointsInit, BatchInit DEF LoopInv, NothingFreedIsUsed

(* What the loop does while it is defined. *)
LEMMA Defined ==
    ASSUME LoopInv, [Next]_vars, loop' # "undefined"
    PROVE  loop # "undefined" /\ FilesInv' /\ EndpointsInv' /\ BatchInv'
<1>1. TypeOK /\ TypeOK'
  BY TypesNext DEF LoopInv
<1>2. loop # "undefined"
  BY DEF Next, Call, Poll, Dispatch, Action, OpenEndpoint, OpenFails, Destroy, CloseEndpoint, SendFails,
         StartListener, StopListener, StopUnstarted, MayCall, TakeEvent, DispatchFreed, DispatchHangup,
         DispatchPayload, AcceptFails, Accept, To, HandshakeSucceeds, HandshakeFails, CloseConnection,
         RunDestroyed, Runs, PeerGoes, vars
<1>3. FilesInv /\ EndpointsInv /\ BatchInv
  BY <1>2 DEF LoopInv
<1> SUFFICES FilesInv' /\ EndpointsInv' /\ BatchInv'
  BY <1>2
<1>4. CASE Call
  BY <1>1, <1>3, <1>4, LoopOpenEndpoint, LoopOpenFails, LoopDestroy, LoopCloseEndpoint, LoopSendFails,
     LoopStartListener, LoopStopListener DEF Call, StopUnstarted
<1>5. CASE Poll
  BY <1>1, <1>3, <1>5, LoopPoll
<1>6. CASE Dispatch
  BY <1>1, <1>3, <1>6, LoopTakeEvent, LoopDispatchHangup, LoopDispatchPayload, LoopAcceptFails,
     LoopAccept DEF Dispatch, DispatchFreed
<1>7. CASE \E e \in Endpoints : Action(e)
  BY <1>1, <1>3, <1>7, LoopHandshakeSucceeds, LoopHandshakeFails, LoopCloseConnection
     DEF Action, RunDestroyed
<1>8. CASE \E f \in Fds : PeerGoes(f)
  BY <1>1, <1>3, <1>8, LoopPeerGoes
<1>9. CASE UNCHANGED vars
  <2>1. FilesInv'
    BY <1>1, <1>3, <1>9, TypesSplit, FilesKept DEF vars, kernelVars, pollVars
  <2>2. EndpointsInv'
    BY <1>1, <1>3, <1>9, EndpointsKept DEF vars, kernelVars, pollVars, taskVars
  <2>3. BatchInv'
    BY <1>1, <1>3, <1>9, TypesSplit, BatchKept, Staying DEF vars, pollVars, BatchInv
  <2> QED BY <2>1, <2>2, <2>3
<1> QED BY <1>4, <1>5, <1>6, <1>7, <1>8, <1>9 DEF Next


LEMMA EndedByLoss ==
    ASSUME LoopInv, [Next]_vars, loop' = "ended"
    PROVE  leaked' # {}
<1>1. CASE AcceptFails
  <2>1. loop # "undefined"
    BY <1>1 DEF AcceptFails, To
  <2>2. leaked # {}
    BY <1>1, <2>1, AcceptFailsOnlyAfterLoss DEF LoopInv
  <2> QED BY <1>1, <2>2 DEF AcceptFails
<1>2. CASE ~AcceptFails
  <2>1. loop = "ended" /\ UNCHANGED leaked
    BY <1>2 DEF Next, Call, Poll, Dispatch, Action, OpenEndpoint, OpenFails, Destroy, CloseEndpoint, SendFails,
         StartListener, StopListener, StopUnstarted, MayCall, TakeEvent, DispatchFreed, DispatchHangup,
         DispatchPayload, Accept, To, HandshakeSucceeds, HandshakeFails, CloseConnection,
         RunDestroyed, Runs, PeerGoes, vars, Finish, AfterHangup
  <2> QED BY <2>1 DEF LoopInv
<1> QED BY <1>1, <1>2

LEMMA UndefinedAtRisk ==
    ASSUME LoopInv, [Next]_vars, loop' = "undefined"
    PROVE  situations' # {}
<1>1. CASE DispatchFreed
  <2>1. BatchInv
    BY <1>1 DEF DispatchFreed, LoopInv
  <2> QED BY <1>1, <2>1 DEF DispatchFreed, BatchInv, EventInv
<1>2. ASSUME NEW e \in Endpoints, RunDestroyed(e) PROVE situations' # {}
  <2>1. EndpointInv(e)
    BY <1>2 DEF RunDestroyed, LoopInv, EndpointsInv
  <2> QED BY <1>2, <2>1 DEF RunDestroyed, EndpointInv
<1>3. ASSUME NEW c \in Clients, Destroy(c) PROVE situations' # {}
  BY <1>3 DEF Destroy, MayCall
<1>4. CASE StopUnstarted
  BY <1>4 DEF StopUnstarted
<1>5. ASSUME ~DispatchFreed, ~StopUnstarted, \A e \in Endpoints : ~RunDestroyed(e), \A c \in Clients : ~Destroy(c)
      PROVE  loop = "undefined" /\ UNCHANGED situations
  BY <1>5 DEF Next, Call, Poll, Dispatch, Action, OpenEndpoint, OpenFails, CloseEndpoint, SendFails,
       StartListener, StopListener, MayCall, TakeEvent, DispatchHangup,
       DispatchPayload, AcceptFails, Accept, To, HandshakeSucceeds, HandshakeFails, CloseConnection,
       Runs, PeerGoes, vars, Finish, AfterHangup
<1> QED BY <1>1, <1>2, <1>3, <1>4, <1>5 DEF LoopInv, NothingFreedIsUsed

LEMMA LoopStep ==
    ASSUME LoopInv, [Next]_vars
    PROVE  LoopInv'
<1>1. TypeOK'
  BY TypesNext DEF LoopInv
<1> QED BY <1>1, EndedByLoss, UndefinedAtRisk, Defined DEF LoopInv, NothingFreedIsUsed

LEMMA LoopInvariant == Spec => []LoopInv
BY LoopInit, LoopStep, PTL DEF Spec

LEMMA LoopInvImplies == LoopInv => OwnDescriptors
<1> SUFFICES ASSUME LoopInv PROVE OwnDescriptors
  OBVIOUS
<1>1. loop = "ended" => leaked # {}
  BY DEF LoopInv
<1>2. ASSUME loop \notin {"ended", "undefined"}, NEW f \in Fds \ {0}, registered[f] # None
      PROVE  files[f] = registered[f] /\ (fd[registered[f]] = f \/ registered[f] \in leaked)
  <2>1. TypeOK /\ FilesInv
    BY <1>2 DEF LoopInv
  <2>2. registered[f] = Listener \/ registered[f] \in Endpoints
    BY <1>2, <2>1, Distinct DEF TypeOK
  <2> QED BY <1>2, <2>1, <2>2 DEF FilesInv, Polled, ListenerPolled, EndpointPolled
<1>3. loop \notin {"ended", "undefined"} => Owned /\ Known
  BY DEF LoopInv, FilesInv
<1> QED BY <1>1, <1>2, <1>3 DEF OwnDescriptors, Owned, Known

-----------------------------------------------------------------------------
(* Every value has its type, in every state of any loop.                    *)
THEOREM DescriptorTypes == Spec => []TypeOK
<1>1. LoopInv => TypeOK
  BY DEF LoopInv
<1> QED BY <1>1, LoopInvariant, PTL

(* The loop dereferences a freed poll entry or a destroyed endpoint only    *)
(* after one of four situations: a callback took another endpoint of the    *)
(* batch off the poll manager, the application destroyed an endpoint too    *)
(* early, a descriptor that was never opened was closed, or 0 was           *)
(* registered.                                                              *)
THEOREM NothingFreed == Spec => []NothingFreedIsUsed
<1>1. LoopInv => NothingFreedIsUsed
  BY DEF LoopInv
<1> QED BY <1>1, LoopInvariant, PTL

(* The kernel, the connection managers and the poll manager agree on who    *)
(* has each descriptor, and until one is lost accept does not fail and the  *)
(* loop goes on.                                                            *)
THEOREM DescriptorsAgree == Spec => []OwnDescriptors
BY LoopInvImplies, LoopInvariant, PTL

=============================================================================
