----------------------------- MODULE SocketLoop -----------------------------
(***************************************************************************)
(* The descriptors of one event loop: the poll manager                     *)
(* (sockets/live/IPEndpointPollManager.cpp), the connection managers of    *)
(* its endpoints (IPEndpointConnectionManager.cpp), a listener             *)
(* (LiveListenerEndpointBaseImpl.hpp, RemoteEndpointListener.hpp) and the  *)
(* group its accepted connections go to (GroupEndpointCoordinator.hpp).    *)
(*                                                                         *)
(* The endpoints are SSL endpoints; of SslEndpoint, which takes one of     *)
(* them apart, what opens, registers and closes descriptors is here.  The  *)
(* kernel gives out the lowest free number.  Number 0 is taken when the    *)
(* program starts, and to an endpoint it means that it has none.           *)
(*                                                                         *)
(* Everything runs on the loop's thread.  The application calls the        *)
(* endpoints from actions of its own and at the end of a callback.  Left   *)
(* out: errors of its handlers, EBADF from epoll_wait, setsockopt failures *)
(* and equal creation times of two connections.                            *)
(***************************************************************************)
EXTENDS Naturals, FiniteSets, FiniteSetsExt

CONSTANTS
    Clients,        \* endpoints of the application
    Servers,        \* connections that others open to the listener
    Listener,
    Process,        \* who opened the descriptors the program starts with
    None,
    MaxFd,          \* the highest descriptor the process may have
    MaxOpens,       \* bound: openEndpoint calls of each owner, a function
    MaxCloses       \* bound: closeEndpoint calls of each endpoint, stops included

(* There is a descriptor for each endpoint. *)
ASSUME SocketAssumption ==
    /\ IsFiniteSet(Clients \union Servers) /\ MaxCloses \in Nat
    /\ Clients \intersect Servers = {} /\ Listener \notin Clients \union Servers
    /\ Process # None /\ {Process, None} \intersect (Clients \union Servers \union {Listener}) = {}
    /\ MaxOpens \in [Clients \union {Listener} -> Nat]
    /\ MaxFd \in Nat /\ MaxFd >= Cardinality(Clients \union Servers) + 1

Endpoints == Clients \union Servers
Owners == Endpoints \union {Listener}
Fds == 0 .. MaxFd

VARIABLES
    files,          \* the kernel: who opened each descriptor
    hung,           \* the kernel: descriptors whose peer is gone
    fd,             \* _fd of each connection manager
    registered,     \* _registeredEndpoints
    epoll,          \* descriptors in the epoll set
    sslSocket,      \* the descriptor of each _sslSocket, 0 for none
    sslState,       \* _sslState, or what has become of the object
    handshakes,     \* HandleSSLHandshake actions on the event queue
    closings,       \* actions of closeRemoteConnection on the event queue
    batch,          \* events of epoll_wait that are still to be dispatched
    current,        \* the event that is dispatched
    loop,           \* what the loop thread is doing
    opens,
    closes,
    leaked,         \* history: owners that have forgotten an open descriptor
    situations      \* history: how the loop came to be at risk

kernelVars == <<files, hung>>
pollVars == <<registered, epoll, batch>>
taskVars == <<handshakes, closings>>
countVars == <<opens, closes>>
vars == <<kernelVars, fd, pollVars, sslSocket, sslState, taskVars, current, loop, countVars,
          leaked, situations>>

Init ==
    /\ files = [f \in Fds |-> IF f = 0 THEN Process ELSE None] /\ hung = {}
    /\ fd = [o \in Owners |-> 0]
    /\ registered = [f \in Fds |-> None] /\ epoll = {} /\ batch = {}
    /\ sslSocket = [e \in Endpoints |-> 0]
    /\ sslState = [e \in Endpoints |-> IF e \in Clients THEN "Disconnected" ELSE "none"]
    /\ handshakes = [e \in Endpoints |-> 0] /\ closings = [e \in Endpoints |-> 0]
    /\ current = None /\ loop = "idle"
    /\ opens = [o \in Owners |-> 0] /\ closes = [o \in Owners |-> 0]
    /\ leaked = {} /\ situations = {}

-----------------------------------------------------------------------------
(* The kernel.                                                              *)

Unused == {f \in Fds : files[f] = None}
LowestFree == Min(Unused)

PeerGoes(f) ==
    /\ files[f] \in Endpoints /\ f \notin hung
    /\ hung' = hung \union {f}
    /\ UNCHANGED <<current, files, fd, pollVars, sslSocket, sslState, taskVars, loop, countVars,
                   leaked, situations>>

Opened(f, o) == files' = [files EXCEPT ![f] = o] /\ UNCHANGED hung
Closed(fs) ==
    /\ files' = [f \in Fds |-> IF f \in fs THEN None ELSE files[f]]
    /\ hung' = hung \ fs

-----------------------------------------------------------------------------
(* The poll manager.                                                        *)

Risk(s, really) == situations' = IF really THEN situations \union {s} ELSE situations

(* A number that is known is refused, and nobody looks at the answer. *)
RegisterEndpoint(f, o) ==
    /\ Risk("zero", f = 0)
    /\ \/ registered[f] # None /\ UNCHANGED pollVars
       \/ /\ registered[f] = None
          /\ registered' = [registered EXCEPT ![f] = o]
          /\ epoll' = IF files'[f] = None THEN epoll ELSE epoll \union {f}
          /\ UNCHANGED batch

(* Mutated: a number that was closed stays in the map. *)
M_RemoveEndpoints(fs) ==
    /\ registered' = [f \in Fds |-> IF f \in fs /\ files'[f] # None THEN None ELSE registered[f]]
    /\ epoll' = epoll \ fs
    /\ batch' = {[ev EXCEPT !.freed = @ \/ ev.fd \in fs] : ev \in batch}

(* removeEndpoint frees the entry that an event of the batch may point to.  *)
RemoveEndpoints(fs) ==
    /\ registered' = [f \in Fds |-> IF f \in fs THEN None ELSE registered[f]]
    /\ epoll' = epoll \ fs
    /\ batch' = {[ev EXCEPT !.freed = @ \/ ev.fd \in fs] : ev \in batch}

(* Events of the batch whose entry an operation on these descriptors frees. *)
Crossing(fs) == \E ev \in batch : ev.fd \in fs

-----------------------------------------------------------------------------
(* The connection manager and the endpoint it belongs to.                   *)

(* setClosed: the descriptor is forgotten.  It stays open. *)
SetClosed(e) ==
    /\ RemoveEndpoints({fd[e]})
    /\ fd' = [fd EXCEPT ![e] = 0]
    /\ leaked' = IF fd[e] = 0 THEN leaked ELSE leaked \union {e}
    /\ UNCHANGED kernelVars

CloseFd(o) ==
    /\ Closed({fd[o]})
    /\ RemoveEndpoints({fd[o]})
    /\ fd' = [fd EXCEPT ![o] = 0]
    /\ UNCHANGED leaked

(* onDisconnected of an endpoint that has not closed its descriptor. *)
OnDisconnected(e) ==
    /\ SetClosed(e)
    /\ sslSocket' = [sslSocket EXCEPT ![e] = 0]

(* close, and then onDisconnected, which has 0 taken off the poll manager. *)
CloseAndDisconnect(e) ==
    /\ Closed({fd[e]})
    /\ RemoveEndpoints({fd[e], 0})
    /\ fd' = [fd EXCEPT ![e] = 0]
    /\ sslSocket' = [sslSocket EXCEPT ![e] = 0]
    /\ UNCHANGED leaked

-----------------------------------------------------------------------------
(* The application's calls.                                                 *)

MayCall == loop \in {"idle", "callback"}
State(e, s) == sslState' = [sslState EXCEPT ![e] = s]
Count(o) == opens[o] < MaxOpens[o] /\ opens' = [opens EXCEPT ![o] = @ + 1] /\ UNCHANGED closes
CountClose(o) == closes[o] < MaxCloses /\ closes' = [closes EXCEPT ![o] = @ + 1] /\ UNCHANGED opens
(* open forgets the descriptor of an earlier one, tries the addresses in    *)
(* turn, and takes number 0 for a failure.                                  *)
Forgets(o, f) == leaked' = IF fd[o] # 0 \/ f = 0 THEN leaked \union {o} ELSE leaked

OpenEndpoint(c) ==
    /\ MayCall /\ sslState[c] \in {"Disconnected", "ConnectingToRemote"}
    /\ Count(c)
    /\ Unused # {}
    /\ Opened(LowestFree, c) /\ Forgets(c, LowestFree)
    /\ fd' = [fd EXCEPT ![c] = LowestFree]
    /\ IF LowestFree = 0 THEN UNCHANGED <<sslSocket, sslState, handshakes>>
       ELSE /\ sslSocket' = [sslSocket EXCEPT ![c] = LowestFree]
            /\ State(c, "ConnectingToRemote")
            /\ handshakes' = [handshakes EXCEPT ![c] = @ + 1]
    /\ UNCHANGED <<current, pollVars, closings, loop, situations>>

OpenFails(c) ==
    /\ MayCall /\ sslState[c] \in {"Disconnected", "ConnectingToRemote"}
    /\ Count(c)
    /\ fd' = [fd EXCEPT ![c] = 0]
    /\ leaked' = IF fd[c] # 0 THEN leaked \union {c} ELSE leaked
    /\ UNCHANGED <<current, kernelVars, pollVars, sslSocket, sslState, taskVars, loop, situations>>

CanClose(e) == sslSocket[e] # 0 /\ sslState[e] = "Connected"

CloseEndpoint(e) ==
    /\ MayCall /\ CanClose(e)
    /\ CountClose(e)
    /\ closings' = [closings EXCEPT ![e] = @ + 1]
    /\ UNCHANGED <<current, kernelVars, fd, pollVars, sslSocket, sslState, handshakes, loop, leaked,
                   situations>>

(* A write to a peer that is gone is an onDisconnected inside send.         *)
SendFails(e) ==
    /\ MayCall /\ sslSocket[e] \in hung \ {0} /\ sslState[e] # "destroyed"
    /\ Risk("crossed", Crossing({fd[e]}))
    /\ OnDisconnected(e)
    /\ UNCHANGED <<current, sslState, taskVars, loop, countVars>>

(* The destructor of the endpoint posts an action of the object that goes,  *)
(* that of the connection manager closes whatever _fd holds: any number if  *)
(* there never was an open.                                                 *)
Destroy(c) ==
    /\ MayCall /\ sslState[c] # "destroyed"
    /\ State(c, "destroyed")
    /\ closings' = IF sslSocket[c] # 0 THEN [closings EXCEPT ![c] = @ + 1] ELSE closings
    /\ \/ /\ opens[c] > 0 /\ fd[c] # 0
          /\ CloseFd(c)
          /\ Risk("destroyed", closings'[c] + handshakes[c] > 0 \/ Crossing({fd[c]}))
          /\ UNCHANGED loop
       \/ /\ fd[c] = 0
          /\ Risk("destroyed", closings'[c] + handshakes[c] > 0)
          /\ UNCHANGED <<kernelVars, fd, pollVars, leaked, loop>>
       \/ /\ opens[c] = 0
          /\ \E f \in Fds \ Unused :
                Closed({f}) /\ RemoveEndpoints({f})
          /\ situations' = situations \union {"garbage"} /\ loop' = "undefined"
          /\ UNCHANGED <<fd, leaked>>
    /\ UNCHANGED <<current, sslSocket, handshakes, countVars>>

-----------------------------------------------------------------------------
(* The listener and its group.                                              *)

(* openListener keeps the descriptor when it fails, for one because the     *)
(* port is taken by the listener itself.                                    *)
StartListener ==
    /\ MayCall /\ Unused # {}
    /\ Count(Listener)
    /\ Opened(LowestFree, Listener)
    /\ leaked' = IF fd[Listener] # 0 \/ LowestFree = 0 THEN leaked \union {Listener} ELSE leaked
    /\ fd' = [fd EXCEPT ![Listener] = LowestFree]
    /\ \/ (\A f \in Fds : registered[f] # Listener) /\ RegisterEndpoint(LowestFree, Listener)
       \/ UNCHANGED <<pollVars, situations>>
    /\ UNCHANGED <<current, sslSocket, sslState, taskVars, loop>>

(* The contexts of connections that are gone stay in the group. *)
Contexts == {s \in Servers : sslState[s] # "none"}

(* closeRemoteEndpoints asks them in any order until one cannot close.      *)
StopListener ==
    /\ MayCall /\ fd[Listener] # 0
    /\ CountClose(Listener)
    /\ CloseFd(Listener)
    /\ Risk("crossed", Crossing({fd[Listener]}))
    /\ \E asked \in SUBSET {s \in Contexts : CanClose(s)} :
          /\ (\A s \in Contexts : CanClose(s)) => asked = Contexts
          /\ closings' = [e \in Endpoints |-> IF e \in asked THEN closings[e] + 1 ELSE closings[e]]
    /\ UNCHANGED <<current, sslSocket, sslState, handshakes, loop>>

(* stop of a listener that was never started. *)
StopUnstarted ==
    /\ MayCall /\ opens[Listener] = 0
    /\ \E f \in Fds \ (Unused \union {0}) :
          Closed({f}) /\ RemoveEndpoints({f})
    /\ situations' = situations \union {"garbage"} /\ loop' = "undefined"
    /\ UNCHANGED <<current, fd, sslSocket, sslState, taskVars, countVars, leaked>>

-----------------------------------------------------------------------------
(* The actions on the event queue.                                          *)

Runs(e, tasks) == loop = "idle" /\ tasks[e] > 0
Done(tasks, e) == [tasks EXCEPT ![e] = @ - 1]

(* An action of an endpoint that has been destroyed. *)
RunDestroyed(e) ==
    /\ loop = "idle" /\ sslState[e] = "destroyed"
    /\ handshakes[e] + closings[e] > 0
    /\ loop' = "undefined"
    /\ UNCHANGED <<current, kernelVars, fd, pollVars, sslSocket, sslState, taskVars, countVars,
                   leaked, situations>>

(* Mutated: the descriptor is not registered. *)
M_HandshakeSucceeds(e) ==
    /\ Runs(e, handshakes) /\ sslSocket[e] # 0 /\ sslState[e] # "destroyed"
    /\ handshakes' = Done(handshakes, e)
    /\ State(e, "Connected")
    /\ UNCHANGED <<current, kernelVars, pollVars, fd, sslSocket, closings, loop, countVars, leaked, situations>>

(* After a second open that failed, 0 is the number that is registered.     *)
HandshakeSucceeds(e) ==
    /\ Runs(e, handshakes) /\ sslSocket[e] # 0 /\ sslState[e] # "destroyed"
    /\ handshakes' = Done(handshakes, e)
    /\ State(e, "Connected")
    /\ UNCHANGED kernelVars
    /\ RegisterEndpoint(fd[e], e)
    /\ UNCHANGED <<current, fd, sslSocket, closings, loop, countVars, leaked>>

HandshakeFails(e) ==
    /\ Runs(e, handshakes) /\ sslState[e] # "destroyed"
    /\ handshakes' = Done(handshakes, e)
    /\ \/ /\ sslSocket[e] # 0
          /\ CloseAndDisconnect(e)
          /\ State(e, "Disconnected")
       \/ /\ sslSocket[e] = 0
          /\ UNCHANGED <<kernelVars, fd, pollVars, sslSocket, sslState, leaked>>
    /\ UNCHANGED <<current, closings, loop, countVars, situations>>

(* The action of closeRemoteConnection: an SSL error, of a socket that is   *)
(* gone too, counts as closed.                                              *)
CloseConnection(e) ==
    /\ Runs(e, closings) /\ sslState[e] # "destroyed"
    /\ closings' = Done(closings, e)
    /\ sslSocket' = [sslSocket EXCEPT ![e] = 0]
    /\ \/ /\ sslSocket[e] # 0
          /\ State(e, "Disconnected")
          /\ CloseFd(e)
       \/ UNCHANGED <<kernelVars, fd, pollVars, sslState, leaked>>
    /\ UNCHANGED <<current, handshakes, loop, countVars, situations>>

-----------------------------------------------------------------------------
(* The poll: pollAndDispatchEndpointsEvents.                                *)

Arriving == {s \in Servers : sslState[s] = "none"}
CanBeReady(f) == registered[f] = Listener => Arriving # {}

Poll ==
    /\ loop = "idle"
    /\ \E ready \in SUBSET {f \in epoll : CanBeReady(f)} \ {{}} :
          /\ epoll \intersect hung \subseteq ready
          /\ batch' = {[fd |-> f, hangup |-> f \in hung, freed |-> FALSE] : f \in ready}
    /\ loop' = "batch"
    /\ UNCHANGED <<current, kernelVars, fd, registered, epoll, sslSocket, sslState, taskVars, countVars,
                   leaked, situations>>

TakeEvent ==
    /\ loop \in {"batch", "callback"}
    /\ \E ev \in batch :
          current' = ev /\ batch' = batch \ {ev}
    /\ loop' = "dispatch"
    /\ UNCHANGED <<kernelVars, fd, registered, epoll, sslSocket, sslState, taskVars, countVars,
                   leaked, situations>>

DispatchFreed ==
    /\ loop = "dispatch" /\ current.freed
    /\ loop' = "undefined"
    /\ UNCHANGED <<kernelVars, fd, pollVars, current, sslSocket, sslState, taskVars, countVars,
                   leaked, situations>>

To(e) == loop = "dispatch" /\ ~current.freed /\ registered[current.fd] = e
Finish ==
    /\ loop' = IF batch = {} THEN "idle" ELSE "callback"
    /\ current' = None

(* Mutated: the event goes on to be taken for a payload. *)
M_AfterHangup ==
    /\ current' = [current EXCEPT !.hangup = FALSE, !.freed = TRUE]
    /\ UNCHANGED loop

AfterHangup == Finish

DispatchHangup(e) ==
    /\ To(e) /\ current.hangup
    /\ OnDisconnected(e)
    /\ AfterHangup
    /\ UNCHANGED <<sslState, taskVars, countVars, situations>>

(* onPayloadReady: without a socket the read fails. *)
DispatchPayload(e) ==
    /\ To(e) /\ ~current.hangup
    /\ \/ sslSocket[e] # 0 /\ UNCHANGED <<kernelVars, fd, pollVars, sslSocket, sslState, leaked>>
       \/ /\ CloseAndDisconnect(e)
          /\ sslState' \in {sslState} \union
                (IF sslSocket[e] = 0 THEN {} ELSE {[sslState EXCEPT ![e] = "Disconnected"]})
    /\ Finish
    /\ UNCHANGED <<taskVars, countVars, situations>>

(* The constructor of the context registers the connection and posts its    *)
(* handshake.                                                               *)
Accept(s) ==
    /\ To(Listener) /\ s \in Arriving /\ fd[Listener] = current.fd
    /\ Unused # {} /\ registered[LowestFree] = None
    /\ Opened(LowestFree, s)
    /\ fd' = [fd EXCEPT ![s] = LowestFree]
    /\ sslSocket' = [sslSocket EXCEPT ![s] = LowestFree]
    /\ RegisterEndpoint(LowestFree, s)
    /\ State(s, "RemoteClientConnecting")
    /\ handshakes' = [handshakes EXCEPT ![s] = @ + 1]
    /\ Finish
    /\ UNCHANGED <<closings, countVars, leaked>>

(* No descriptor is left, the number is known, or the listener has another  *)
(* descriptor by now: the error ends the loop.                              *)
AcceptFails ==
    /\ To(Listener)
    /\ \/ fd[Listener] # current.fd
       \/ Unused = {}
       \/ Unused # {} /\ registered[LowestFree] # None
    /\ loop' = "ended"
    /\ UNCHANGED <<kernelVars, fd, pollVars, current, sslSocket, sslState, taskVars, countVars,
                   leaked, situations>>

-----------------------------------------------------------------------------
Action(e) == HandshakeSucceeds(e) \/ HandshakeFails(e) \/ CloseConnection(e) \/ RunDestroyed(e)
Dispatch ==
    \/ TakeEvent \/ DispatchFreed
    \/ \E e \in Endpoints : DispatchHangup(e) \/ DispatchPayload(e)
    \/ AcceptFails \/ \E s \in Servers : Accept(s)

Call ==
    \/ \E c \in Clients : OpenEndpoint(c) \/ OpenFails(c) \/ Destroy(c)
    \/ \E e \in Endpoints : CloseEndpoint(e) \/ SendFails(e)
    \/ StartListener \/ StopListener \/ StopUnstarted

Next ==
    \/ Call \/ Poll \/ Dispatch
    \/ \E e \in Endpoints : Action(e)
    \/ \E f \in Fds : PeerGoes(f)

Spec == Init /\ [][Next]_vars

(* Each cycle of the event queue polls, and dispatches what the poll has    *)
(* returned.  Nobody has to call, no peer has to go.                        *)
FairSpec == Spec /\ SF_vars(Poll) /\ WF_vars(Dispatch)

-----------------------------------------------------------------------------
Events == [fd : Fds, hangup : BOOLEAN, freed : BOOLEAN]

(* The variables keep their types.                                          *)
TypeOK ==
    /\ files \in [Fds -> Owners \union {Process, None}] /\ hung \subseteq Fds
    /\ fd \in [Owners -> Fds] /\ registered \in [Fds -> Owners \union {None}] /\ epoll \subseteq Fds
    /\ batch \subseteq Events /\ current \in Events \union {None}
    /\ sslSocket \in [Endpoints -> Fds]
    /\ sslState \in [Endpoints -> {"none", "Disconnected", "ConnectingToRemote",
                                   "RemoteClientConnecting", "Connected", "destroyed"}]
    /\ handshakes \in [Endpoints -> Nat] /\ closings \in [Endpoints -> Nat]
    /\ loop \in {"idle", "batch", "dispatch", "callback", "ended", "undefined"}
    /\ opens \in [Owners -> Nat] /\ closes \in [Owners -> Nat]
    /\ leaked \subseteq Owners
    /\ situations \subseteq {"crossed", "destroyed", "garbage", "zero"}

(* The loop never uses an entry of the poll manager or an endpoint that is  *)
(* gone: one event is one call of one live endpoint, and an endpoint that   *)
(* loses its connection in a callback has no event left, unless a callback  *)
(* has taken another endpoint of the same batch off the poll manager, the   *)
(* application has destroyed an endpoint too early, or 0 was registered and *)
(* is taken off with every connection that is closed.                       *)
NothingFreedIsUsed == loop = "undefined" => situations # {}

(* The kernel, the endpoints and the poll manager agree: no endpoint holds, *)
(* polls or gets the events of a descriptor that was closed and given to    *)
(* another one, and every open descriptor is known to its endpoint, except  *)
(* that of a connection that was lost to a hangup or in a send, or opened   *)
(* again before it was answered.  (0 may be registered after a second open  *)
(* that failed.)  Until one is lost in this way there is a descriptor for   *)
(* each endpoint, and accept, whose failure ends the loop for all of them,  *)
(* does not fail.                                                           *)
OwnDescriptors ==
    /\ loop = "ended" => leaked # {}
    /\ loop \notin {"ended", "undefined"} =>
          /\ \A o \in Owners : fd[o] # 0 => files[fd[o]] = o
          /\ \A f \in Fds \ {0} : registered[f] # None =>
                files[f] = registered[f] /\ (fd[registered[f]] = f \/ registered[f] \in leaked)
          /\ \A f \in Fds : files[f] \in Owners => fd[files[f]] = f \/ files[f] \in leaked

(* A connection whose peer has gone is given up.                            *)
Noticed ==
    \A e \in Endpoints : \A f \in Fds \ {0} :
        files[f] = e /\ f \in hung /\ fd[e] = f /\ sslState[e] = "Connected"
          ~> fd[e] # f \/ loop \in {"ended", "undefined"}
=============================================================================
