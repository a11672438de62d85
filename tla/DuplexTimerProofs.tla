------------------------- MODULE DuplexTimerProofs -------------------------
(***************************************************************************)
(* Proofs about the duplex endpoints (ShmDuplex), for any number of        *)
(* clients, requests, channels, crashes and deaths; then about timers      *)
(* (TimedContexts), for any contexts, any timers and any durations.  The   *)
(* two do not depend on each other.                                        *)
(*                                                                         *)
(* Duplex: as long as the map gives a client the same number in both       *)
(* queues, every message has the number of a client, lies in a channel of  *)
(* that client, and what the client has sent since it joined is, in order, *)
(* what is handled, what is in its channel and what waits.                 *)
(*                                                                         *)
(* The intervals of timers: an active timer that was not started again too *)
(* early has at most one event, and that event has at least as long to go  *)
(* as the duration has not passed since the start or last run.             *)
(***************************************************************************)
EXTENDS ShmDuplex, TimedContexts, SequenceTheorems, WellFoundedInduction, TLAPS

-----------------------------------------------------------------------------
(* Types. *)

Request == [from : Clients, n : Nat]
MapEntry == [consumerIndex : Channels, producerIndex : Channels]
Name == {0} \union Objects
Rings(S) == [Queues -> [Objects -> [Channels -> Seq(S)]]]
Servers ==
    {Down, Idle} \union [at : {"opened"}, segment : Segments]
                 \union [at : {"built"}, segment : {"duplex", "replies"}]
                 \union [at : {"poll"}, next : Channels, end : 0 .. MaxClients]

SegmentTypes ==
    /\ names \in [Segments -> Name]
    /\ built \in [Segments -> [Objects -> BOOLEAN]]
    /\ entries \in [Objects -> Seq(MapEntry)]
    /\ owner \in [Queues -> [Objects -> Seq(Clients)]]
    /\ \A q \in Queues, o \in Objects : Len(owner[q][o]) <= MaxClients
ServerTypes ==
    /\ server \in Servers /\ starts \in Nat /\ deaths \in Nat /\ starts + deaths <= MaxFaults
    /\ (server # Down => starts > 0) /\ created \subseteq Segments
    /\ activeClientProducerIndex \in Channels
    /\ drains \in Seq(Channels) /\ stranded \subseteq Channels
ClientTypes ==
    /\ client \in [Clients -> {"out", "attached", "sending", "mapping", "ready"}]
    /\ object \in [Clients -> [Segments -> Name]]
    /\ channel \in [Clients -> [Queues -> Channels]]
    /\ sent \in [Clients -> Nat] /\ joined \in [Clients -> Nat]
    /\ answers \in [Clients -> SUBSET Nat]
    /\ handled \in [Clients -> Seq(Nat)] /\ stale \subseteq Clients
    /\ unposted \subseteq Clients /\ torn \subseteq Clients
DuplexTypes == SegmentTypes /\ ServerTypes /\ ClientTypes

-----------------------------------------------------------------------------
(* Joining. *)

(* A server that is up has the segments it has opened, one after the other. *)
Serving == server.at \in {"idle", "poll"}
HasReplies ==
    \/ server.at = "opened" /\ server.segment # "duplex"
    \/ server.at = "built" /\ server.segment = "replies"
HasRequests == Serving \/ (server.at = "opened" /\ server.segment = "requests")
Opened ==
    /\ server # Down => names["duplex"] # 0
    /\ Serving \/ HasReplies => names["replies"] # 0
    /\ HasRequests => names["requests"] # 0
    /\ server.at = "poll" => server.end <= ActiveChannels /\ server.next < server.end

(* A client has mapped the segments it has come to, and no others.          *)
Mapped ==
    \A k \in Clients :
        /\ object[k]["duplex"] # 0 <=> client[k] # "out"
        /\ object[k]["requests"] # 0 <=> client[k] \in {"sending", "mapping", "ready"}
        /\ object[k]["replies"] # 0 <=> client[k] \in {"mapping", "ready"}

(* A client that is not stale has mapped what the names stand for; each of  *)
(* its channels is its own, and the map has its entry.                      *)
Present(k, s) == k \notin stale /\ object[k][s] # 0
Current == \A k \in Clients, s \in Segments : Present(k, s) => object[k][s] = names[s]
OwnChannels ==
    \A k \in Clients, q \in Queues : Present(k, q) =>
        /\ channel[k][q] < Len(owner[q][names[q]])
        /\ owner[q][names[q]][channel[k][q] + 1] = k
OwnEntry ==
    \A k \in Clients : Served(k) =>
        \E i \in DOMAIN entries[names["duplex"]] :
            entries[names["duplex"]][i] = [consumerIndex |-> channel[k]["replies"],
                                           producerIndex |-> channel[k]["requests"]]

JoinInv == Opened /\ Mapped /\ Current /\ OwnChannels /\ OwnEntry

-----------------------------------------------------------------------------
(* Requests and replies. *)

(* Everything that is under way has a number its client has given out; what *)
(* waits at a client is its own.                                            *)
Known == {m \in Request : m.n <= sent[m.from]}
OwnKnown(k) == [from : {k}, n : 0 .. sent[k]]
Counted ==
    \A k \in Clients :
        /\ joined[k] <= sent[k]
        /\ client[k] \in {"attached", "sending", "mapping"} => sent[k] = joined[k]
        /\ client[k] # "ready" => waiting[k] = <<>>
Numbered ==
    /\ waiting \in [Clients -> Seq(Request)] /\ \A k \in Clients : waiting[k] \in Seq(OwnKnown(k))
    /\ \A k \in Clients : \A i \in DOMAIN handled[k] : handled[k][i] <= sent[k]
    /\ ring \in Rings(Known)
    /\ backPressure \in [Channels -> Seq(Known)]

(* What a client has sent since it joined is in the channel it has.         *)
Newer(m) == client[m.from] = "ready" /\ m.n > joined[m.from]
On(o, c) ==
    {m \in Request : Newer(m) => o = object[m.from]["requests"] /\ c = channel[m.from]["requests"]}
InOwnChannel ==
    \A o \in Objects, c \in Channels : ring["requests"][o][c] \in Seq(On(o, c))

RequestInv == Counted /\ Numbered /\ InOwnChannel

(* There are no replies before the server polls; then each is on its way to *)
(* the client it is for.                                                    *)
NoReplies ==
    /\ ~Serving => backPressure = Empty
    /\ HasReplies => ring["replies"][names["replies"]] = Empty
For(c) == {m \in Request : ServedMessage(m) => RightChannel(m, c)}
Routed ==
    Serving /\ Straight =>
        \A c \in Channels : Replies[c] \in Seq(For(c)) /\ backPressure[c] \in Seq(For(c))
Bounded == \A o \in Objects, c \in Channels : Len(ring["replies"][o][c]) <= Capacity
ReplyInv == NoReplies /\ Routed /\ Bounded

-----------------------------------------------------------------------------
(* Facts about the constants, sequences and records used below. *)

LEMMA ConstantFacts ==
    /\ MaxClients \in Nat \ {0} /\ Capacity \in Nat \ {0} /\ MaxFaults \in Nat
    /\ 0 \in Channels /\ Channels \subseteq Nat /\ (\A c \in Nat : c < MaxClients => c \in Channels)
    /\ (\A c \in Channels : c < MaxClients)
    /\ 0 \notin Objects /\ Objects \subseteq Nat /\ (\A o \in Nat : 1 <= o /\ o <= MaxFaults => o \in Objects)
    /\ Queues = {"requests", "replies"} /\ Segments = {"duplex", "requests", "replies"}
BY DuplexAssumption DEF Channels, Objects, Queues, Segments

LEMMA ServerFacts ==
    ASSUME NEW v \in Servers
    PROVE  /\ v.at \in {"down", "idle", "opened", "built", "poll"}
           /\ (v.at = "down" <=> v = Down) /\ (v.at = "idle" <=> v = Idle)
           /\ v.at = "opened" => v.segment \in Segments
           /\ v.at = "built" => v.segment \in {"duplex", "replies"}
           /\ v.at = "poll" => v \in [at : {"poll"}, next : Channels, end : 0 .. MaxClients]
<1>1. CASE v \in {Down, Idle}
  BY <1>1 DEF Down, Idle
<1>2. CASE v \in [at : {"opened"}, segment : Segments]
  BY <1>2 DEF Down, Idle
<1>3. CASE v \in [at : {"built"}, segment : {"duplex", "replies"}]
  BY <1>3 DEF Down, Idle
<1>4. CASE v \in [at : {"poll"}, next : Channels, end : 0 .. MaxClients]
  BY <1>4 DEF Down, Idle
<1> QED BY <1>1, <1>2, <1>3, <1>4 DEF Servers

(* A new value for one channel. *)
OnlyAt(r, rr, q, o, c, v) ==
    \A p \in Queues, x \in Objects, d \in Channels :
        rr[p][x][d] = IF p = q /\ x = o /\ d = c THEN v ELSE r[p][x][d]

LEMMA RingPut ==
    ASSUME NEW S, NEW r \in Rings(S), NEW q \in Queues, NEW o \in Objects, NEW c \in Channels,
           NEW v \in Seq(S), NEW rr, rr = [r EXCEPT ![q][o][c] = v]
    PROVE  rr \in Rings(S) /\ OnlyAt(r, rr, q, o, c, v)
<1>1. r[q] \in [Objects -> [Channels -> Seq(S)]] /\ r[q][o] \in [Channels -> Seq(S)]
  BY DEF Rings
<1>2. [r[q][o] EXCEPT ![c] = v] \in [Channels -> Seq(S)]
  BY <1>1
<1>3. [r[q] EXCEPT ![o] = [r[q][o] EXCEPT ![c] = v]] \in [Objects -> [Channels -> Seq(S)]]
  BY <1>1, <1>2
<1>4. rr = [r EXCEPT ![q] = [r[q] EXCEPT ![o] = [r[q][o] EXCEPT ![c] = v]]]
  BY <1>1 DEF Rings
<1>5. rr \in Rings(S)
  BY <1>3, <1>4 DEF Rings
<1> QED BY <1>1, <1>4, <1>5 DEF Rings, OnlyAt

LEMMA RingMore ==
    ASSUME NEW S, NEW T, S \subseteq T
    PROVE  Seq(S) \subseteq Seq(T) /\ Rings(S) \subseteq Rings(T)
<1>1. Seq(S) \subseteq Seq(T)
  OBVIOUS
<1> QED BY <1>1 DEF Rings

LEMMA MinOfTwo ==
    ASSUME NEW a \in Nat, NEW b \in Nat
    PROVE  Min({a, b}) = IF a <= b THEN a ELSE b
BY DEF Min

(* The least element of a set of natural numbers. *)
LEMMA MinOfSome ==
    ASSUME NEW S \in SUBSET Nat, S # {}
    PROVE  Min(S) \in S
<1> DEFINE R == OpToRel(<, Nat)
<1>1. \E x \in S : \A y \in S : ~ (<<y, x>> \in R)
  <2> HIDE DEF R
  <2>1. IsWellFoundedOn(R, Nat)
    BY NatLessThanWellFounded DEF R
  <2> QED BY <2>1, WFMin
<1>2. PICK x \in S : \A y \in S : ~ (<<y, x>> \in R)
  BY <1>1
<1>3. \A y \in S : x =< y
  <2> SUFFICES ASSUME NEW y \in S, ~(x =< y) PROVE FALSE
    OBVIOUS
  <2>1. y < x /\ <<y, x>> \in Nat \X Nat
    OBVIOUS
  <2>2. <<y, x>> \in R
    BY <2>1 DEF OpToRel
  <2> QED BY <1>2, <2>2
<1> QED BY <1>2, <1>3 DEF Min

(* A new value for one place of a function of functions. *)
LEMMA PlacePut ==
    ASSUME NEW A, NEW B, NEW S, NEW f \in [A -> [B -> S]], NEW a \in A, NEW b \in B, NEW v \in S
    PROVE  /\ [f EXCEPT ![a][b] = v] \in [A -> [B -> S]]
           /\ \A x \in A, y \in B : [f EXCEPT ![a][b] = v][x][y] =
                 IF x = a /\ y = b THEN v ELSE f[x][y]
<1>1. f[a] \in [B -> S] /\ [f[a] EXCEPT ![b] = v] \in [B -> S]
  OBVIOUS
<1>2. [f EXCEPT ![a][b] = v] = [f EXCEPT ![a] = [f[a] EXCEPT ![b] = v]]
  BY <1>1
<1> QED BY <1>1, <1>2


-----------------------------------------------------------------------------
(* The numbers of a client's requests along a trail. *)

Mine(k, low, trail) == {i \in DOMAIN trail : trail[i].from = k /\ trail[i].n > low}
Numbers(k, low, trail) == {trail[i].n : i \in Mine(k, low, trail)}
Rising(k, low, trail) == \A i, j \in Mine(k, low, trail) : i < j => trail[i].n < trail[j].n
Once(k, low, high, trail) ==
    Numbers(k, low, trail) = low + 1 .. high /\ Rising(k, low, trail)

(* The halves of a trail: each is in order, and the first is below the      *)
(* second.                                                                  *)
LEMMA Halves ==
    ASSUME NEW k, NEW low \in Nat, NEW a \in Seq(Request), NEW b \in Seq(Request)
    PROVE  /\ Numbers(k, low, a \o b) = Numbers(k, low, a) \union Numbers(k, low, b)
           /\ Rising(k, low, a \o b) <=>
                 /\ Rising(k, low, a) /\ Rising(k, low, b)
                 /\ \A x \in Numbers(k, low, a), y \in Numbers(k, low, b) : x < y
<1> DEFINE t == a \o b
           M(s) == Mine(k, low, s)
<1>1. t \in Seq(Request) /\ Len(t) = Len(a) + Len(b) /\ Len(a) \in Nat /\ Len(b) \in Nat
  OBVIOUS
<1>2. /\ DOMAIN a = 1 .. Len(a) /\ DOMAIN b = 1 .. Len(b) /\ DOMAIN t = 1 .. Len(t)
      /\ \A i \in DOMAIN a : i \in DOMAIN t /\ t[i] = a[i]
      /\ \A i \in DOMAIN b : Len(a) + i \in DOMAIN t /\ t[Len(a) + i] = b[i]
  OBVIOUS
<1>3. \A i \in DOMAIN t : i \in DOMAIN a \/ (i - Len(a) \in DOMAIN b /\ Len(a) + (i - Len(a)) = i)
  BY <1>1, <1>2
<1> HIDE DEF t
<1>4. \A i \in M(a) : i \in M(t) /\ t[i] = a[i] /\ i <= Len(a)
  BY <1>1, <1>2 DEF Mine
<1>5. \A i \in M(b) : Len(a) + i \in M(t) /\ t[Len(a) + i] = b[i] /\ i >= 1
  BY <1>1, <1>2 DEF Mine
<1>6. \A i \in M(t) : \/ i \in M(a) /\ t[i] = a[i]
                      \/ i - Len(a) \in M(b) /\ t[i] = b[i - Len(a)] /\ i > Len(a)
  <2> SUFFICES ASSUME NEW i \in M(t), i \notin M(a)
               PROVE  i - Len(a) \in M(b) /\ t[i] = b[i - Len(a)] /\ i > Len(a)
    BY <1>2 DEF Mine
  <2>1. i \in DOMAIN t /\ t[i].from = k /\ t[i].n > low
    BY DEF Mine
  <2>2. i \notin DOMAIN a
    BY <2>1, <1>2 DEF Mine
  <2>3. i - Len(a) \in DOMAIN b /\ Len(a) + (i - Len(a)) = i
    BY <1>3, <2>1, <2>2
  <2>4. t[i] = b[i - Len(a)]
    BY <1>2, <2>3
  <2> QED BY <2>1, <2>3, <2>4, <1>1, <1>2 DEF Mine
<1>7. M(a) \subseteq Nat /\ M(b) \subseteq Nat /\ M(t) \subseteq Nat
  BY <1>1, <1>2 DEF Mine
<1>m. \A x : M(x) = Mine(k, low, x)
  OBVIOUS
<1> HIDE DEF M
<1>8. Numbers(k, low, t) = Numbers(k, low, a) \union Numbers(k, low, b)
  <2>1. \A x : Numbers(k, low, x) = {x[i].n : i \in M(x)}
    BY <1>m DEF Numbers
  <2>2. \A y \in {t[i].n : i \in M(t)} : y \in {a[i].n : i \in M(a)} \union {b[i].n : i \in M(b)}
    BY <1>6
  <2>3. \A y \in {a[i].n : i \in M(a)} : y \in {t[i].n : i \in M(t)}
    BY <1>4
  <2>4. \A y \in {b[i].n : i \in M(b)} : y \in {t[i].n : i \in M(t)}
    BY <1>5
  <2> QED BY <2>1, <2>2, <2>3, <2>4
<1>9. Rising(k, low, t) => /\ Rising(k, low, a) /\ Rising(k, low, b)
                           /\ \A x \in Numbers(k, low, a), y \in Numbers(k, low, b) : x < y
  <2> HAVE Rising(k, low, t)
  <2>1. \A i, j \in M(t) : i < j => t[i].n < t[j].n
    BY <1>m DEF Rising
  <2>2. Rising(k, low, a)
    <3>1. \A i, j \in M(a) : i < j => a[i].n < a[j].n
      BY <2>1, <1>4
    <3> QED BY <3>1, <1>m DEF Rising
  <2>3. Rising(k, low, b)
    <3>1. ASSUME NEW i \in M(b), NEW j \in M(b), i < j PROVE b[i].n < b[j].n
      <4>1. Len(a) + i < Len(a) + j
        BY <3>1, <1>1, <1>7
      <4> QED BY <4>1, <2>1, <1>5
    <3> QED BY <3>1, <1>m DEF Rising
  <2>4. ASSUME NEW i \in M(a), NEW j \in M(b) PROVE a[i].n < b[j].n
    <3>1. i < Len(a) + j
      BY <1>1, <1>4, <1>5, <1>7
    <3> QED BY <3>1, <2>1, <1>4, <1>5
  <2> QED BY <2>2, <2>3, <2>4, <1>m DEF Numbers
<1>10. ASSUME Rising(k, low, a), Rising(k, low, b),
              \A x \in Numbers(k, low, a), y \in Numbers(k, low, b) : x < y
       PROVE  Rising(k, low, t)
  <2>1. \A i, j \in M(a) : i < j => a[i].n < a[j].n
    BY <1>10, <1>m DEF Rising
  <2>2. \A i, j \in M(b) : i < j => b[i].n < b[j].n
    BY <1>10, <1>m DEF Rising
  <2>3. \A i \in M(a), j \in M(b) : a[i].n < b[j].n
    BY <1>10, <1>m DEF Numbers
  <2>4. ASSUME NEW i \in M(t), NEW j \in M(t), i < j PROVE t[i].n < t[j].n
    <3>1. CASE j \in M(a) /\ t[j] = a[j]
      <4>1. i \in M(a) /\ t[i] = a[i]
        BY <3>1, <2>4, <1>1, <1>4, <1>6, <1>7
      <4> QED BY <3>1, <4>1, <2>1, <2>4
    <3>2. CASE j - Len(a) \in M(b) /\ t[j] = b[j - Len(a)]
      <4>1. CASE i \in M(a) /\ t[i] = a[i]
        BY <3>2, <4>1, <2>3
      <4>2. CASE i - Len(a) \in M(b) /\ t[i] = b[i - Len(a)]
        <5>1. i - Len(a) < j - Len(a)
          BY <2>4, <1>1, <1>7
        <5> QED BY <3>2, <4>2, <5>1, <2>2
      <4> QED BY <4>1, <4>2, <1>6
    <3> QED BY <3>1, <3>2, <1>6
  <2> QED BY <2>4, <1>m DEF Rising
<1> QED BY <1>8, <1>9, <1>10 DEF t

(* One message of a trail. *)
LEMMA OneNumber ==
    ASSUME NEW k, NEW low \in Nat, NEW m \in Request
    PROVE  /\ Numbers(k, low, <<m>>) = IF m.from = k /\ m.n > low THEN {m.n} ELSE {}
           /\ Rising(k, low, <<m>>)
<1>1. Mine(k, low, <<m>>) = IF m.from = k /\ m.n > low THEN {1} ELSE {}
  BY DEF Mine
<1>2. CASE m.from = k /\ m.n > low
  BY <1>1, <1>2 DEF Numbers, Rising
<1>3. CASE ~(m.from = k /\ m.n > low)
  BY <1>1, <1>3 DEF Numbers, Rising
<1> QED BY <1>2, <1>3

(* Messages that are others' or old may come into a trail or leave it.      *)
LEMMA OthersAside ==
    ASSUME NEW k, NEW low \in Nat, NEW high \in Nat,
           NEW a \in Seq(Request), NEW x \in Seq(Request), NEW b \in Seq(Request),
           Numbers(k, low, x) = {}
    PROVE  Once(k, low, high, a \o (x \o b)) <=> Once(k, low, high, a \o b)
<1>1. Rising(k, low, x)
  <2>1. Mine(k, low, x) = {}
    BY DEF Numbers
  <2> QED BY <2>1 DEF Rising
<1>2. x \o b \in Seq(Request)
  OBVIOUS
<1>3. Numbers(k, low, x \o b) = Numbers(k, low, b) /\ (Rising(k, low, x \o b) <=> Rising(k, low, b))
  <2>1. /\ Numbers(k, low, x \o b) = Numbers(k, low, x) \union Numbers(k, low, b)
        /\ Rising(k, low, x \o b) <=>
              /\ Rising(k, low, x) /\ Rising(k, low, b)
              /\ \A y \in Numbers(k, low, x), z \in Numbers(k, low, b) : y < z
    BY Halves, Zenon
  <2> QED BY <1>1, <2>1, Zenon
<1>4. /\ Numbers(k, low, a \o (x \o b)) = Numbers(k, low, a \o b)
      /\ Rising(k, low, a \o (x \o b)) <=> Rising(k, low, a \o b)
  <2> DEFINE xb == x \o b
  <2>1. \A s \in {b, xb} :
           /\ Numbers(k, low, a \o s) = Numbers(k, low, a) \union Numbers(k, low, s)
           /\ Rising(k, low, a \o s) <=>
                 /\ Rising(k, low, a) /\ Rising(k, low, s)
                 /\ \A y \in Numbers(k, low, a), z \in Numbers(k, low, s) : y < z
    <3> SUFFICES ASSUME NEW s \in Seq(Request)
                 PROVE  /\ Numbers(k, low, a \o s) = Numbers(k, low, a) \union Numbers(k, low, s)
                        /\ Rising(k, low, a \o s) <=>
                              /\ Rising(k, low, a) /\ Rising(k, low, s)
                              /\ \A y \in Numbers(k, low, a), z \in Numbers(k, low, s) : y < z
      BY <1>2, Zenon
    <3> QED BY Halves, Zenon
  <2>2. Numbers(k, low, xb) = Numbers(k, low, b) /\ (Rising(k, low, xb) <=> Rising(k, low, b))
    BY <1>3
  <2> HIDE DEF xb
  <2>3. /\ Numbers(k, low, a \o xb) = Numbers(k, low, a \o b)
        /\ Rising(k, low, a \o xb) <=> Rising(k, low, a \o b)
    BY <2>1, <2>2, Zenon
  <2> QED BY <2>3 DEF xb
<1> QED BY <1>4 DEF Once

(* The next request comes at the end. *)
LEMMA OneMore ==
    ASSUME NEW k, NEW low \in Nat, NEW high \in Nat, low <= high, NEW a \in Seq(Request),
           NEW m \in Request, m.from = k, m.n = high + 1, Once(k, low, high, a)
    PROVE  Once(k, low, high + 1, a \o <<m>>)
<1>1. <<m>> \in Seq(Request) /\ Numbers(k, low, <<m>>) = {high + 1} /\ Rising(k, low, <<m>>)
  <2>1. <<m>> \in Seq(Request) /\ m.from = k /\ m.n > low
    OBVIOUS
  <2>2. Numbers(k, low, <<m>>) = {m.n} /\ Rising(k, low, <<m>>)
    BY <2>1, OneNumber, Zenon
  <2> QED BY <2>1, <2>2
<1>2. Numbers(k, low, a) = low + 1 .. high /\ Rising(k, low, a)
  BY DEF Once
<1>3. \A x \in Numbers(k, low, a), y \in Numbers(k, low, <<m>>) : x < y
  BY <1>1, <1>2
<1>4. /\ Numbers(k, low, a \o <<m>>) = Numbers(k, low, a) \union Numbers(k, low, <<m>>)
      /\ Rising(k, low, a \o <<m>>) <=>
            /\ Rising(k, low, a) /\ Rising(k, low, <<m>>)
            /\ \A x \in Numbers(k, low, a), y \in Numbers(k, low, <<m>>) : x < y
  BY <1>1, Halves, Zenon
<1>5. (low + 1 .. high) \union {high + 1} = low + 1 .. high + 1
  OBVIOUS
<1> QED BY <1>1, <1>2, <1>3, <1>4, <1>5, Zenon DEF Once

-----------------------------------------------------------------------------
(* The invariant, and what keeps the parts of it that a step leaves alone.  *)

TrailInv == \A k \in Clients : Served(k) /\ k \notin torn => Once(k, joined[k], sent[k], Trail(k))

DuplexInv == DuplexTypes /\ JoinInv /\ RequestInv /\ ReplyInv /\ TrailInv

LEMMA KnownTypes ==
    ASSUME DuplexTypes
    PROVE  /\ Known \subseteq Request
           /\ \A k \in Clients : OwnKnown(k) \subseteq Known
           /\ \A m \in Request : m.from \in Clients /\ m.n \in Nat /\ m = [from |-> m.from, n |-> m.n]
BY DEF DuplexTypes, ClientTypes, Known, OwnKnown, Request

LEMMA InOwnChannelKept ==
    ASSUME InOwnChannel, UNCHANGED ring,
           \A m \in Request : m.n <= sent[m.from] /\ Newer(m)' =>
              /\ Newer(m) /\ object'[m.from]["requests"] = object[m.from]["requests"]
              /\ channel'[m.from]["requests"] = channel[m.from]["requests"],
           ring \in Rings(Known)
    PROVE  InOwnChannel'
<1> SUFFICES ASSUME NEW o \in Objects, NEW c \in Channels
             PROVE  ring["requests"][o][c] \in Seq(On(o, c)')
  BY DEF InOwnChannel
<1> DEFINE r == ring["requests"][o][c]
<1>1. r \in Seq(On(o, c)) /\ r \in Seq(Known)
  BY DEF InOwnChannel, Rings, Queues
<1>2. On(o, c) \intersect Known \subseteq On(o, c)'
  BY DEF On, Known
<1> HIDE DEF r
<1>3. \A i \in 1 .. Len(r) : r[i] \in On(o, c)'
  BY <1>1, <1>2
<1>4. r \in Seq(On(o, c)')
  BY <1>1, <1>3
<1> QED BY <1>4 DEF r

LEMMA RoutedKept ==
    ASSUME Routed, Serving' => Serving, Straight' => Straight,
           Serving' => Replies' = Replies, UNCHANGED backPressure,
           \A c \in Channels : Serving => Replies[c] \in Seq(Known) /\ backPressure[c] \in Seq(Known),
           \A m \in Request : m.n <= sent[m.from] /\ ServedMessage(m)' => ServedMessage(m),
           \A m \in Request, c \in Channels : Serving' /\ RightChannel(m, c) => RightChannel(m, c)'
    PROVE  Routed'
<1> SUFFICES ASSUME Serving', Straight', NEW c \in Channels
             PROVE  Replies[c] \in Seq(For(c)') /\ backPressure[c] \in Seq(For(c)')
  BY DEF Routed
<1>1. Replies[c] \in Seq(For(c)) /\ backPressure[c] \in Seq(For(c))
  BY DEF Routed
<1>2. For(c) \intersect Known \subseteq For(c)'
  BY DEF For, Known
<1>3. ASSUME NEW r \in Seq(For(c)), r \in Seq(Known) PROVE r \in Seq(For(c)')
  <2>1. \A i \in 1 .. Len(r) : r[i] \in For(c)'
    BY <1>2, <1>3
  <2> QED BY <2>1
<1> QED BY <1>1, <1>3

LEMMA TrailKept ==
    ASSUME NEW k \in Clients, TrailInv, Served(k)', Served(k), k \notin torn, Trail(k)' = Trail(k),
           joined'[k] = joined[k], sent'[k] = sent[k]
    PROVE  Once(k, joined[k], sent[k], Trail(k))'
BY DEF TrailInv, Once, Numbers, Rising, Mine

(* The trail of a client that has mapped the requests. *)
LEMMA TrailTypes ==
    ASSUME DuplexTypes, RequestInv, NEW k \in Clients, object[k]["requests"] # 0
    PROVE  /\ [i \in DOMAIN handled[k] |-> [from |-> k, n |-> handled[k][i]]] \in Seq(Request)
           /\ Own(k, "requests") \in Seq(Known) /\ waiting[k] \in Seq(OwnKnown(k))
           /\ Own(k, "requests") \in Seq(Request) /\ waiting[k] \in Seq(Request)
           /\ joined[k] \in Nat /\ sent[k] \in Nat
<1>1. handled[k] \in Seq(Nat) /\ joined[k] \in Nat /\ sent[k] \in Nat
  BY DEF DuplexTypes, ClientTypes
<1>2. [i \in DOMAIN handled[k] |-> [from |-> k, n |-> handled[k][i]]] \in Seq(Request)
  <2> DEFINE h == handled[k]
  <2>1. h \in Seq(Nat)
    BY <1>1
  <2> HIDE DEF h
  <2>2. [i \in 1 .. Len(h) |-> [from |-> k, n |-> h[i]]] \in Seq(Request)
    BY <2>1 DEF Request
  <2>3. DOMAIN h = 1 .. Len(h)
    BY <2>1
  <2> QED BY <2>2, <2>3 DEF h
<1>3. object[k]["requests"] \in Objects /\ channel[k]["requests"] \in Channels
  BY DEF DuplexTypes, ClientTypes, Name, Segments, Queues
<1>4. Own(k, "requests") \in Seq(Known) /\ waiting[k] \in Seq(OwnKnown(k))
  BY <1>3 DEF RequestInv, Numbered, Rings, Own, Queues
<1>5. Known \subseteq Request /\ OwnKnown(k) \subseteq Request
  BY KnownTypes
<1>6. Seq(Known) \subseteq Seq(Request) /\ Seq(OwnKnown(k)) \subseteq Seq(Request)
  BY <1>5, RingMore
<1> QED BY <1>1, <1>2, <1>4, <1>6

(* What the invariant says of the names and of what clients have mapped.    *)
LEMMA PlaceTypes ==
    ASSUME DuplexInv
    PROVE  /\ \A s \in Segments : names[s] \in Name /\ (names[s] # 0 => names[s] \in Objects)
           /\ \A k \in Clients, s \in Segments :
                 object[k][s] \in Name /\ (object[k][s] # 0 => object[k][s] \in Objects)
           /\ \A k \in Clients, q \in Queues : channel[k][q] \in Channels
           /\ Queues \subseteq Segments
BY DEF DuplexInv, DuplexTypes, SegmentTypes, ClientTypes, Name, Segments

LEMMA QueueTypes ==
    ASSUME DuplexInv, Serving
    PROVE  /\ \A s \in Segments : names[s] \in Objects
           /\ \A c \in Channels : /\ Replies[c] \in Seq(Known) /\ backPressure[c] \in Seq(Known)
                                  /\ Requests[c] \in Seq(Known)
<1>1. \A s \in Segments : names[s] \in Objects
  <2>1. names["duplex"] # 0 /\ names["replies"] # 0 /\ names["requests"] # 0
    <3>1. server # Down
      BY DEF Serving, Down
    <3> QED BY <3>1 DEF DuplexInv, JoinInv, Opened, HasRequests
  <2> QED BY <2>1, PlaceTypes DEF Segments, Queues
<1> QED BY <1>1 DEF DuplexInv, RequestInv, Numbered, Rings, Replies, Requests, Queues, Segments

-----------------------------------------------------------------------------
(* The client processes: joining, and leaving. *)

LEMMA LeaveKeeps ==
    ASSUME DuplexInv, NEW k \in Clients, Leave(k),
           deaths' \in Nat, starts + deaths' <= MaxFaults,
           UNCHANGED <<shmVars, serverVars, sent, joined, answers, handled>>
    PROVE  DuplexInv'
<1> USE DEF Leave, To, shmVars, serverVars
<1>1. SegmentTypes' /\ ServerTypes'
  BY DEF DuplexInv, DuplexTypes, SegmentTypes, ServerTypes
<1>2. ClientTypes'
  <2>1. [s \in Segments |-> 0] \in [Segments -> Name] /\ [q \in Queues |-> 0] \in [Queues -> Channels]
    BY ConstantFacts DEF Name
  <2> QED BY <2>1 DEF DuplexInv, DuplexTypes, ClientTypes
<1>a. DuplexTypes'
  BY <1>1, <1>2 DEF DuplexTypes
<1>3. /\ client'[k] = "out" /\ \A s \in Segments : object'[k][s] = 0
      /\ \A j \in Clients : j # k => client'[j] = client[j] /\ object'[j] = object[j]
                                     /\ channel'[j] = channel[j]
      /\ stale' = stale \ {k}
  BY DEF DuplexInv, DuplexTypes, ClientTypes
<1>4. \A j \in Clients, s \in Segments : Present(j, s)' => j # k /\ Present(j, s)
  BY <1>3 DEF Present
<1>5. \A j \in Clients : Served(j)' => j # k /\ Served(j)
  BY <1>3 DEF Served
<1>6. Opened'
  BY DEF DuplexInv, JoinInv, Opened, Serving, HasReplies, HasRequests, ActiveChannels
<1>7. Mapped'
  <2> SUFFICES ASSUME NEW j \in Clients
               PROVE  /\ object'[j]["duplex"] # 0 <=> client'[j] # "out"
                      /\ object'[j]["requests"] # 0 <=> client'[j] \in {"sending", "mapping", "ready"}
                      /\ object'[j]["replies"] # 0 <=> client'[j] \in {"mapping", "ready"}
    BY DEF Mapped
  <2>1. CASE j = k
    BY <1>3, <2>1 DEF Segments, Queues
  <2>2. CASE j # k
    BY <1>3, <2>2 DEF DuplexInv, JoinInv, Mapped
  <2> QED BY <2>1, <2>2
<1>8. Current'
  BY <1>3, <1>4 DEF DuplexInv, JoinInv, Current
<1>9. OwnChannels'
  BY <1>3, <1>4 DEF DuplexInv, JoinInv, OwnChannels, Queues, Segments
<1>10. OwnEntry'
  BY <1>3, <1>5 DEF DuplexInv, JoinInv, OwnEntry
<1>b. JoinInv'
  BY <1>6, <1>7, <1>8, <1>9, <1>10 DEF JoinInv
<1>11. waiting' \in [Clients -> Seq(Request)] /\ waiting'[k] = <<>>
       /\ \A j \in Clients : j # k => waiting'[j] = waiting[j]
  <2>1. waiting \in [Clients -> Seq(Request)] /\ \A j \in Clients : waiting[j] \in Seq(OwnKnown(j))
    BY DEF DuplexInv, RequestInv, Numbered
  <2> QED BY <2>1
<1>12. Counted'
  BY <1>3, <1>11 DEF DuplexInv, RequestInv, Counted
<1>13. Numbered'
  BY <1>11 DEF DuplexInv, RequestInv, Numbered, Known, OwnKnown
<1>14. InOwnChannel'
  <2>1. \A m \in Request : Newer(m)' => m.from # k
    BY <1>3 DEF Newer
  <2>2. \A m \in Request : Newer(m)' =>
           /\ Newer(m) /\ object'[m.from]["requests"] = object[m.from]["requests"]
           /\ channel'[m.from]["requests"] = channel[m.from]["requests"]
    BY <1>3, <2>1 DEF Newer, Request
  <2> QED BY <2>2, InOwnChannelKept DEF DuplexInv, RequestInv, Numbered
<1>c. RequestInv'
  BY <1>12, <1>13, <1>14 DEF RequestInv
<1>15. NoReplies'
  BY DEF DuplexInv, ReplyInv, NoReplies, HasReplies, Serving
<1>16. Routed'
  <2>1. \A m \in Request : ServedMessage(m)' => ServedMessage(m)
    BY <1>5 DEF ServedMessage, Request
  <2>2. Serving' = Serving /\ Straight' = Straight /\ Replies' = Replies
    BY DEF Serving, Straight, Replies
  <2>3. \A m \in Request, c \in Channels : RightChannel(m, c)' = RightChannel(m, c)
    BY DEF RightChannel
  <2>4. \A c \in Channels : Serving => Replies[c] \in Seq(Known) /\ backPressure[c] \in Seq(Known)
    BY QueueTypes
  <2> QED BY <2>1, <2>2, <2>3, <2>4, RoutedKept DEF DuplexInv, ReplyInv
<1>d. ReplyInv'
  BY <1>15, <1>16 DEF DuplexInv, ReplyInv, Bounded
<1>17. TrailInv'
  <2> SUFFICES ASSUME NEW j \in Clients, Served(j)', j \notin torn'
               PROVE  Once(j, joined[j], sent[j], Trail(j))'
    BY Zenon DEF TrailInv
  <2>1. Trail(j)' = Trail(j) /\ Served(j)
    BY <1>3, <1>5, <1>11, Zenon DEF Trail, Own
  <2>2. j \notin torn
    BY <1>5
  <2> QED BY <2>1, <2>2, TrailKept DEF DuplexInv
<1> QED BY <1>a, <1>b, <1>c, <1>d, <1>17 DEF DuplexInv

LEMMA AttachKeeps ==
    ASSUME DuplexInv, NEW k \in Clients, Attach(k)
    PROVE  DuplexInv'
<1> USE DEF Attach, To, shmVars, serverVars
<1>1. SegmentTypes' /\ ServerTypes'
  BY DEF DuplexInv, DuplexTypes, SegmentTypes, ServerTypes
<1>2. ClientTypes'
  <2>1. names["duplex"] \in Name
    BY PlaceTypes DEF Segments
  <2> QED BY <2>1 DEF DuplexInv, DuplexTypes, ClientTypes
<1>a. DuplexTypes'
  BY <1>1, <1>2 DEF DuplexTypes
<1>3. /\ client[k] = "out" /\ client'[k] = "attached" /\ joined'[k] = sent[k]
      /\ object'[k]["duplex"] = names["duplex"] /\ names["duplex"] # 0
      /\ \A q \in Queues : object'[k][q] = object[k][q]
      /\ \A j \in Clients : j # k => client'[j] = client[j] /\ object'[j] = object[j]
                                     /\ joined'[j] = joined[j]
  BY DEF DuplexInv, DuplexTypes, ClientTypes, Segments, Queues
<1>4. \A j \in Clients, s \in Segments :
         Present(j, s)' => \/ j = k /\ s = "duplex"
                           \/ Present(j, s) /\ object'[j][s] = object[j][s]
  BY <1>3 DEF Present, Segments
<1>5. \A j \in Clients : Served(j)' => j # k /\ Served(j)
  BY <1>3 DEF Served
<1>6. Opened'
  BY DEF DuplexInv, JoinInv, Opened, Serving, HasReplies, HasRequests, ActiveChannels
<1>7. Mapped'
  <2> SUFFICES ASSUME NEW j \in Clients
               PROVE  /\ object'[j]["duplex"] # 0 <=> client'[j] # "out"
                      /\ object'[j]["requests"] # 0 <=> client'[j] \in {"sending", "mapping", "ready"}
                      /\ object'[j]["replies"] # 0 <=> client'[j] \in {"mapping", "ready"}
    BY DEF Mapped
  <2>1. CASE j = k
    BY <1>3, <2>1 DEF DuplexInv, JoinInv, Mapped, Queues
  <2>2. CASE j # k
    BY <1>3, <2>2 DEF DuplexInv, JoinInv, Mapped
  <2> QED BY <2>1, <2>2
<1>8. Current'
  BY <1>3, <1>4 DEF DuplexInv, JoinInv, Current
<1>9. OwnChannels'
  <2>1. \A j \in Clients, q \in Queues : Present(j, q)' => Present(j, q)
    BY <1>4 DEF Queues, Segments
  <2> QED BY <2>1 DEF DuplexInv, JoinInv, OwnChannels
<1>10. OwnEntry'
  BY <1>3, <1>5 DEF DuplexInv, JoinInv, OwnEntry
<1>b. JoinInv'
  BY <1>6, <1>7, <1>8, <1>9, <1>10 DEF JoinInv
<1>12. Counted'
  <2>1. sent[k] \in Nat
    BY DEF DuplexInv, DuplexTypes, ClientTypes
  <2> QED BY <1>3, <2>1 DEF DuplexInv, RequestInv, Counted
<1>13. Numbered'
  BY DEF DuplexInv, RequestInv, Numbered, Known, OwnKnown
<1>14. InOwnChannel'
  <2>1. \A m \in Request : Newer(m)' => m.from # k
    BY <1>3 DEF Newer
  <2>2. \A m \in Request : Newer(m)' =>
           /\ Newer(m) /\ object'[m.from]["requests"] = object[m.from]["requests"]
           /\ channel'[m.from]["requests"] = channel[m.from]["requests"]
    BY <1>3, <2>1 DEF Newer, Request
  <2> QED BY <2>2, InOwnChannelKept DEF DuplexInv, RequestInv, Numbered
<1>c. RequestInv'
  BY <1>12, <1>13, <1>14 DEF RequestInv
<1>15. NoReplies'
  BY DEF DuplexInv, ReplyInv, NoReplies, HasReplies, Serving
<1>16. Routed'
  <2>1. \A m \in Request : ServedMessage(m)' => ServedMessage(m)
    BY <1>3, <1>5 DEF ServedMessage, Request
  <2>2. Serving' = Serving /\ Straight' = Straight /\ Replies' = Replies
    BY DEF Serving, Straight, Replies
  <2>3. \A m \in Request, c \in Channels : RightChannel(m, c)' = RightChannel(m, c)
    BY DEF RightChannel
  <2>4. \A c \in Channels : Serving => Replies[c] \in Seq(Known) /\ backPressure[c] \in Seq(Known)
    BY QueueTypes
  <2> QED BY <2>1, <2>2, <2>3, <2>4, RoutedKept DEF DuplexInv, ReplyInv
<1>d. ReplyInv'
  BY <1>15, <1>16 DEF DuplexInv, ReplyInv, Bounded
<1>17. TrailInv'
  <2> SUFFICES ASSUME NEW j \in Clients, Served(j)', j \notin torn'
               PROVE  Once(j, joined[j], sent[j], Trail(j))'
    BY Zenon DEF TrailInv
  <2>1. Trail(j)' = Trail(j) /\ Served(j)
    BY <1>3, <1>5, Zenon DEF Trail, Own
  <2> QED BY <1>3, <1>5, <2>1, TrailKept DEF DuplexInv
<1> QED BY <1>a, <1>b, <1>c, <1>d, <1>17 DEF DuplexInv

(* CreateProducer and CreateConsumer: the next channel is this client's,    *)
(* and those of the others stay where they are.                             *)
LEMMA AllocKeeps ==
    ASSUME DuplexInv, NEW k \in Clients, NEW q \in Queues, NEW from, NEW to, Alloc(k, from, q, to),
           \/ q = "requests" /\ from = "attached" /\ to = "sending"
           \/ q = "replies" /\ from = "sending" /\ to = "mapping"
    PROVE  DuplexInv'
<1> DEFINE o == names[q]
<1>1. /\ client[k] = from /\ o \in Objects /\ o # 0 /\ q \in Segments /\ Len(owner[q][o]) < MaxClients
      /\ channel' = [channel EXCEPT ![k][q] = Len(owner[q][o])]
      /\ object' = [object EXCEPT ![k][q] = o]
      /\ owner' = [owner EXCEPT ![q][o] = Append(@, k)]
      /\ client' = [client EXCEPT ![k] = to]
      /\ UNCHANGED <<names, built, entries, ring, serverVars, waiting, unposted, sent, joined,
                     answers, torn, deaths, handled, stale>>
  BY PlaceTypes DEF Alloc, CanAlloc, AllocQueueChannel, To
<1>2. /\ owner \in [Queues -> [Objects -> Seq(Clients)]] /\ owner[q][o] \in Seq(Clients)
      /\ Len(owner[q][o]) \in Channels
      /\ Append(owner[q][o], k) \in Seq(Clients) /\ Len(Append(owner[q][o], k)) = Len(owner[q][o]) + 1
      /\ \A i \in 1 .. Len(owner[q][o]) : Append(owner[q][o], k)[i] = owner[q][o][i]
      /\ Append(owner[q][o], k)[Len(owner[q][o]) + 1] = k
  <2>1. owner \in [Queues -> [Objects -> Seq(Clients)]] /\ owner[q][o] \in Seq(Clients)
    BY <1>1 DEF DuplexInv, DuplexTypes, SegmentTypes
  <2>2. Len(owner[q][o]) \in Channels
    <3>1. Len(owner[q][o]) \in Nat /\ Len(owner[q][o]) < MaxClients
      BY <1>1, <2>1
    <3> QED BY <3>1, ConstantFacts, Zenon
  <2> QED BY <2>1, <2>2
<1>3. /\ owner' \in [Queues -> [Objects -> Seq(Clients)]]
      /\ \A p \in Queues, x \in Objects :
            owner'[p][x] = IF p = q /\ x = o THEN Append(owner[q][o], k) ELSE owner[p][x]
  BY <1>1, <1>2, PlacePut
<1>4. /\ object' \in [Clients -> [Segments -> Name]]
      /\ \A j \in Clients, s \in Segments :
            object'[j][s] = IF j = k /\ s = q THEN o ELSE object[j][s]
  <2>1. object \in [Clients -> [Segments -> Name]] /\ o \in Name
    BY <1>1 DEF DuplexInv, DuplexTypes, ClientTypes, Name
  <2> QED BY <1>1, <2>1, PlacePut
<1>5. /\ channel' \in [Clients -> [Queues -> Channels]]
      /\ \A j \in Clients, p \in Queues :
            channel'[j][p] = IF j = k /\ p = q THEN Len(owner[q][o]) ELSE channel[j][p]
  <2>1. channel \in [Clients -> [Queues -> Channels]]
    BY DEF DuplexInv, DuplexTypes, ClientTypes
  <2> QED BY <1>1, <1>2, <2>1, PlacePut
<1>6. client' \in [Clients -> {"out", "attached", "sending", "mapping", "ready"}]
      /\ client'[k] = to /\ \A j \in Clients : j # k => client'[j] = client[j]
  BY <1>1 DEF DuplexInv, DuplexTypes, ClientTypes
<1>7. \A j \in Clients : Served(j)' => j # k /\ Served(j)
  BY <1>1, <1>6 DEF Served
<1> HIDE DEF o
<1>a. DuplexTypes'
  <2>1. SegmentTypes'
    <3>1. \A p \in Queues, x \in Objects : Len(owner'[p][x]) <= MaxClients
      <4>1. Len(owner[q][o]) \in Nat /\ MaxClients \in Nat
        BY <1>2, ConstantFacts
      <4> QED BY <1>1, <1>2, <1>3, <4>1 DEF DuplexInv, DuplexTypes, SegmentTypes
    <3> QED BY <1>1, <1>3, <3>1 DEF DuplexInv, DuplexTypes, SegmentTypes
  <2>2. ServerTypes'
    BY <1>1 DEF DuplexInv, DuplexTypes, ServerTypes, serverVars
  <2>3. ClientTypes'
    BY <1>1, <1>4, <1>5, <1>6 DEF DuplexInv, DuplexTypes, ClientTypes
  <2> QED BY <2>1, <2>2, <2>3 DEF DuplexTypes
<1>8. \A p \in Queues, x \in Objects :
         /\ Len(owner[p][x]) \in Nat /\ Len(owner[p][x]) <= Len(owner'[p][x])
         /\ \A i \in 1 .. Len(owner[p][x]) : owner'[p][x][i] = owner[p][x][i]
  <2> SUFFICES ASSUME NEW p \in Queues, NEW x \in Objects
               PROVE  /\ Len(owner[p][x]) \in Nat /\ Len(owner[p][x]) <= Len(owner'[p][x])
                      /\ \A i \in 1 .. Len(owner[p][x]) : owner'[p][x][i] = owner[p][x][i]
    OBVIOUS
  <2>1. owner[p][x] \in Seq(Clients)
    BY <1>2
  <2>2. CASE p = q /\ x = o
    <3>1. owner'[p][x] = Append(owner[q][o], k) /\ owner[p][x] = owner[q][o]
      BY <2>2, <1>3
    <3>2. Len(owner[q][o]) \in Nat
      BY <2>1, <3>1
    <3>3. Len(owner[p][x]) <= Len(owner'[p][x])
      BY <3>1, <3>2, <1>2
    <3> QED BY <3>1, <3>2, <3>3, <1>2
  <2>3. CASE ~(p = q /\ x = o)
    <3>1. owner'[p][x] = owner[p][x]
      BY <2>3, <1>3
    <3> QED BY <2>1, <3>1
  <2> QED BY <2>2, <2>3
<1>9. Opened'
  <2>1. server.at = "poll" =>
           server.next < server.end /\ server.end <= Len(owner[("requests")][names["requests"]])
           /\ names["requests"] \in Objects /\ server.end \in Nat
    <3>1. server.at = "poll" => Serving
      BY DEF Serving
    <3>2. server.at = "poll" => server.end \in Nat
      BY ServerFacts, ConstantFacts DEF DuplexInv, DuplexTypes, ServerTypes
    <3> QED BY <3>1, <3>2, QueueTypes DEF DuplexInv, JoinInv, Opened, ActiveChannels, Segments, Queues
  <2>2. server.at = "poll" => server.end <= ActiveChannels'
    <3> HAVE server.at = "poll"
    <3>1. Len(owner'["requests"][names["requests"]]) >= Len(owner["requests"][names["requests"]])
      BY <2>1, <1>8 DEF Queues
    <3>2. owner'["requests"][names["requests"]] \in Seq(Clients)
      BY <2>1, <1>3 DEF Queues
    <3> QED BY <2>1, <3>1, <3>2, <1>1, <1>8 DEF ActiveChannels, Queues
  <2> QED BY <1>1, <2>1, <2>2 DEF DuplexInv, JoinInv, Opened, Serving, HasReplies, HasRequests, serverVars
<1>10. Mapped'
  <2> SUFFICES ASSUME NEW j \in Clients
               PROVE  /\ object'[j]["duplex"] # 0 <=> client'[j] # "out"
                      /\ object'[j]["requests"] # 0 <=> client'[j] \in {"sending", "mapping", "ready"}
                      /\ object'[j]["replies"] # 0 <=> client'[j] \in {"mapping", "ready"}
    BY DEF Mapped
  <2>1. CASE j = k
    BY <1>1, <1>4, <1>6, <2>1 DEF DuplexInv, JoinInv, Mapped, Queues, Segments
  <2>2. CASE j # k
    BY <1>4, <1>6, <2>2 DEF DuplexInv, JoinInv, Mapped, Queues, Segments
  <2> QED BY <2>1, <2>2
<1>11. Current'
  BY <1>1, <1>4 DEF DuplexInv, JoinInv, Current, Present, o
<1>12. OwnChannels'
  <2> SUFFICES ASSUME NEW j \in Clients, NEW p \in Queues, Present(j, p)'
               PROVE  /\ channel'[j][p] < Len(owner'[p][names[p]])
                      /\ owner'[p][names[p]][channel'[j][p] + 1] = j
    BY <1>1 DEF OwnChannels
  <2>1. CASE j = k /\ p = q
    BY <2>1, <1>1, <1>2, <1>3, <1>5 DEF o
  <2>2. CASE ~(j = k /\ p = q)
    <3>1. Present(j, p) /\ channel'[j][p] = channel[j][p] /\ names[p] \in Objects
      BY <2>2, <1>1, <1>4, <1>5, PlaceTypes DEF Present, DuplexInv, JoinInv, Current
    <3>2. channel[j][p] < Len(owner[p][names[p]]) /\ owner[p][names[p]][channel[j][p] + 1] = j
      BY <3>1 DEF DuplexInv, JoinInv, OwnChannels
    <3>3. channel[j][p] \in Nat /\ Len(owner[p][names[p]]) \in Nat /\ Len(owner'[p][names[p]]) \in Nat
      <4>1. owner'[p][names[p]] \in Seq(Clients) /\ owner[p][names[p]] \in Seq(Clients)
        BY <1>2, <1>3, <3>1
      <4>2. channel[j][p] \in Nat
        BY PlaceTypes, ConstantFacts
      <4> QED BY <4>1, <4>2
    <3>4. channel[j][p] + 1 \in 1 .. Len(owner[p][names[p]])
      BY <3>2, <3>3
    <3>5. owner'[p][names[p]][channel[j][p] + 1] = j
      BY <3>1, <3>2, <3>4, <1>8
    <3>6. channel[j][p] < Len(owner'[p][names[p]])
      BY <3>1, <3>2, <3>3, <1>8
    <3> QED BY <3>1, <3>5, <3>6
  <2> QED BY <2>1, <2>2
<1>13. OwnEntry'
  BY <1>1, <1>5, <1>7 DEF DuplexInv, JoinInv, OwnEntry, Served, Queues
<1>b. JoinInv'
  BY <1>9, <1>10, <1>11, <1>12, <1>13 DEF JoinInv
<1>14. Counted'
  BY <1>1, <1>6 DEF DuplexInv, RequestInv, Counted
<1>15. Numbered'
  BY <1>1 DEF DuplexInv, RequestInv, Numbered, Known, OwnKnown, serverVars
<1>16. InOwnChannel'
  <2>1. \A m \in Request : Newer(m)' => m.from # k
    BY <1>1, <1>6 DEF Newer
  <2>2. \A m \in Request : Newer(m)' =>
           /\ Newer(m) /\ object'[m.from]["requests"] = object[m.from]["requests"]
           /\ channel'[m.from]["requests"] = channel[m.from]["requests"]
    BY <1>1, <1>4, <1>5, <1>6, <2>1 DEF Newer, Request, Queues, Segments
  <2> QED BY <1>1, <2>2, InOwnChannelKept DEF DuplexInv, RequestInv, Numbered
<1>c. RequestInv'
  BY <1>14, <1>15, <1>16 DEF RequestInv
<1>17. NoReplies'
  BY <1>1 DEF DuplexInv, ReplyInv, NoReplies, HasReplies, Serving, serverVars
<1>18. Routed'
  <2>1. \A m \in Request : ServedMessage(m)' => ServedMessage(m)
    BY <1>1, <1>7 DEF ServedMessage, Request
  <2>2. Serving' = Serving /\ Straight' = Straight /\ Replies' = Replies /\ backPressure' = backPressure
    BY <1>1 DEF Serving, Straight, Replies, serverVars
  <2>3. ASSUME NEW m \in Request, NEW c \in Channels, Serving', RightChannel(m, c)
        PROVE  RightChannel(m, c)'
    <3>1. names["replies"] \in Objects /\ "replies" \in Queues
      BY <2>2, <2>3, QueueTypes DEF Segments, Queues
    <3>2. c \in Nat /\ owner'["replies"][names["replies"]] \in Seq(Clients)
      BY <3>1, <1>3, ConstantFacts
    <3>3. c + 1 \in 1 .. Len(owner["replies"][names["replies"]])
      BY <2>3, <3>1, <3>2, <1>8 DEF RightChannel
    <3> QED BY <1>1, <1>8, <2>3, <3>1, <3>2, <3>3 DEF RightChannel
  <2>4. \A c \in Channels : Serving => Replies[c] \in Seq(Known) /\ backPressure[c] \in Seq(Known)
    BY QueueTypes
  <2> QED BY <2>1, <2>2, <2>3, <2>4, RoutedKept DEF DuplexInv, ReplyInv
<1>d. ReplyInv'
  BY <1>1, <1>17, <1>18 DEF DuplexInv, ReplyInv, Bounded
<1>19. TrailInv'
  <2> SUFFICES ASSUME NEW j \in Clients, Served(j)', j \notin torn'
               PROVE  Once(j, joined[j], sent[j], Trail(j))'
    BY Zenon DEF TrailInv
  <2>1. object'[j]["requests"] = object[j]["requests"] /\ channel'[j]["requests"] = channel[j]["requests"]
    BY <1>4, <1>5, <1>7, SMTT(30) DEF Queues, Segments
  <2>2. Trail(j)' = Trail(j) /\ Served(j)
    BY <1>1, <1>7, <2>1, Zenon DEF Trail, Own
  <2> QED BY <1>1, <2>2, TrailKept DEF DuplexInv
<1> QED BY <1>a, <1>b, <1>c, <1>d, <1>19 DEF DuplexInv

(* AddMapEntry: the client is served from here on, and has sent nothing yet *)
(* to this server.                                                          *)
LEMMA AddMapEntryKeeps ==
    ASSUME DuplexInv, NEW k \in Clients, AddMapEntry(k)
    PROVE  DuplexInv'
<1> DEFINE o == object[k]["duplex"]
           e == [consumerIndex |-> channel[k]["replies"], producerIndex |-> channel[k]["requests"]]
<1>1. CASE Len(entries[o]) >= MaxClients
  <2>1. Leave(k) /\ UNCHANGED <<shmVars, serverVars, sent, joined, answers, deaths, handled>>
    BY <1>1 DEF AddMapEntry, shmVars
  <2>2. deaths' \in Nat /\ starts + deaths' <= MaxFaults
    BY <2>1 DEF DuplexInv, DuplexTypes, ServerTypes
  <2> QED BY <2>1, <2>2, LeaveKeeps
<1>2. CASE ~(Len(entries[o]) >= MaxClients)
  <2>1. /\ client[k] = "mapping" /\ client' = [client EXCEPT ![k] = "ready"]
        /\ entries' = [entries EXCEPT ![o] = Append(@, e)]
        /\ UNCHANGED <<object, channel, waiting, unposted, torn, stale>>
        /\ UNCHANGED <<names, built, owner, ring, serverVars, sent, joined, answers, deaths, handled>>
    BY <1>2 DEF AddMapEntry, To
  <2>2. o \in Objects /\ e \in MapEntry /\ o \in Nat
    <3>1. o # 0 /\ "duplex" \in Segments /\ "replies" \in Queues /\ "requests" \in Queues
      BY <2>1 DEF DuplexInv, JoinInv, Mapped, Segments, Queues
    <3> QED BY <3>1, PlaceTypes, ConstantFacts DEF MapEntry
  <2>3. /\ entries \in [Objects -> Seq(MapEntry)] /\ entries[o] \in Seq(MapEntry)
        /\ entries' \in [Objects -> Seq(MapEntry)]
        /\ entries'[o] = Append(entries[o], e)
        /\ \A x \in Objects : x # o => entries'[x] = entries[x]
    <3>1. entries \in [Objects -> Seq(MapEntry)] /\ entries[o] \in Seq(MapEntry)
      BY <2>2 DEF DuplexInv, DuplexTypes, SegmentTypes
    <3>2. Append(entries[o], e) \in Seq(MapEntry)
      BY <2>2, <3>1
    <3> HIDE DEF o, e
    <3> QED BY <2>1, <2>2, <3>1, <3>2
  <2>4. \A x \in Objects :
           /\ \A i \in DOMAIN entries[x] : i \in DOMAIN entries'[x] /\ entries'[x][i] = entries[x][i]
    <3> SUFFICES ASSUME NEW x \in Objects, NEW i \in DOMAIN entries[x]
                 PROVE  i \in DOMAIN entries'[x] /\ entries'[x][i] = entries[x][i]
      OBVIOUS
    <3>1. CASE x = o
      <4> DEFINE s == entries[o]
      <4>1. s \in Seq(MapEntry) /\ entries'[x] = Append(s, e) /\ i \in DOMAIN s /\ e \in MapEntry
        BY <2>2, <2>3, <3>1
      <4> HIDE DEF s, e
      <4>2. i \in DOMAIN Append(s, e) /\ Append(s, e)[i] = s[i]
        BY <4>1
      <4> QED BY <3>1, <4>1, <4>2 DEF s
    <3>2. CASE x # o
      BY <3>2, <2>3
    <3> QED BY <3>1, <3>2
  <2>5. \E i \in DOMAIN entries'[o] : entries'[o][i] = e
    <3> DEFINE s == entries[o]
    <3>1. s \in Seq(MapEntry) /\ entries'[o] = Append(s, e) /\ e \in MapEntry
      BY <2>2, <2>3
    <3> HIDE DEF s, e
    <3>2. Len(s) + 1 \in DOMAIN Append(s, e) /\ Append(s, e)[Len(s) + 1] = e
      BY <3>1
    <3> QED BY <3>1, <3>2 DEF s
  <2>6. client' \in [Clients -> {"out", "attached", "sending", "mapping", "ready"}]
        /\ client'[k] = "ready" /\ \A j \in Clients : j # k => client'[j] = client[j]
    BY <2>1 DEF DuplexInv, DuplexTypes, ClientTypes
  <2>7. joined[k] = sent[k] /\ sent[k] \in Nat
    BY <2>1 DEF DuplexInv, RequestInv, Counted, DuplexTypes, ClientTypes
  <2>8. k \notin stale => names["duplex"] = o
    <3>1. o # 0
      BY <2>2, ConstantFacts
    <3> QED BY <3>1 DEF DuplexInv, JoinInv, Current, Present, Segments
  <2> HIDE DEF o, e
  <2>a. DuplexTypes'
    BY <2>1, <2>3, <2>6 DEF DuplexInv, DuplexTypes, SegmentTypes, ServerTypes, ClientTypes, serverVars
  <2>9. Opened' /\ Mapped' /\ Current' /\ OwnChannels'
    <3>1. Opened'
      BY <2>1 DEF DuplexInv, JoinInv, Opened, Serving, HasReplies, HasRequests, ActiveChannels, serverVars
    <3>2. Mapped'
      <4> SUFFICES ASSUME NEW j \in Clients
                   PROVE  /\ object[j]["duplex"] # 0 <=> client'[j] # "out"
                          /\ object[j]["requests"] # 0 <=> client'[j] \in {"sending", "mapping", "ready"}
                          /\ object[j]["replies"] # 0 <=> client'[j] \in {"mapping", "ready"}
        BY <2>1 DEF Mapped
      <4>1. CASE j = k
        BY <2>1, <2>6, <4>1 DEF DuplexInv, JoinInv, Mapped
      <4>2. CASE j # k
        BY <2>6, <4>2 DEF DuplexInv, JoinInv, Mapped
      <4> QED BY <4>1, <4>2
    <3>3. Current'
      BY <2>1 DEF DuplexInv, JoinInv, Current, Present
    <3>4. OwnChannels'
      BY <2>1 DEF DuplexInv, JoinInv, OwnChannels, Present
    <3> QED BY <3>1, <3>2, <3>3, <3>4
  <2>10. OwnEntry'
    <3> SUFFICES ASSUME NEW j \in Clients, Served(j)'
                 PROVE  \E i \in DOMAIN entries'[names["duplex"]] :
                           entries'[names["duplex"]][i] =
                              [consumerIndex |-> channel[j]["replies"],
                               producerIndex |-> channel[j]["requests"]]
      BY <2>1 DEF OwnEntry
    <3>1. CASE j = k
      <4>1. k \notin stale
        BY <3>1, <2>1 DEF Served
      <4> QED BY <3>1, <4>1, <2>5, <2>8 DEF e
    <3>2. CASE j # k
      <4>1. Served(j)
        BY <3>2, <2>1, <2>6 DEF Served
      <4>2. PICK i \in DOMAIN entries[names["duplex"]] :
               entries[names["duplex"]][i] = [consumerIndex |-> channel[j]["replies"],
                                              producerIndex |-> channel[j]["requests"]]
        BY <4>1 DEF DuplexInv, JoinInv, OwnEntry
      <4>3. names["duplex"] \in Objects
        <5>1. object[j]["duplex"] # 0 /\ Present(j, "duplex")
          BY <4>1 DEF Served, Present, DuplexInv, JoinInv, Mapped
        <5> QED BY <5>1, PlaceTypes DEF DuplexInv, JoinInv, Current, Segments
      <4> QED BY <4>2, <4>3, <2>4
    <3> QED BY <3>1, <3>2
  <2>b. JoinInv'
    BY <2>9, <2>10 DEF JoinInv
  <2>11. Counted'
    BY <2>1, <2>6 DEF DuplexInv, RequestInv, Counted
  <2>12. Numbered'
    BY <2>1 DEF DuplexInv, RequestInv, Numbered, Known, OwnKnown, serverVars
  <2>13. ASSUME NEW m \in Request, m.n <= sent[m.from], Newer(m)' PROVE m.from # k /\ Newer(m)
    <3>1. m.from \in Clients /\ m.n \in Nat
      BY DEF Request
    <3>2. m.from # k
      BY <2>13, <2>7, <3>1, <2>1 DEF Newer
    <3> QED BY <2>13, <3>1, <3>2, <2>1, <2>6 DEF Newer
  <2>14. InOwnChannel'
    BY <2>1, <2>13, InOwnChannelKept DEF DuplexInv, RequestInv, Numbered
  <2>c. RequestInv'
    BY <2>11, <2>12, <2>14 DEF RequestInv
  <2>15. NoReplies'
    BY <2>1 DEF DuplexInv, ReplyInv, NoReplies, HasReplies, Serving, serverVars
  <2>16. Routed'
    <3>1. \A m \in Request : m.n <= sent[m.from] /\ ServedMessage(m)' => ServedMessage(m)
      BY <2>1, <2>13 DEF ServedMessage, Served, Newer
    <3>2. Serving' = Serving /\ Replies' = Replies /\ backPressure' = backPressure
      BY <2>1 DEF Serving, Replies, serverVars
    <3>3. ASSUME Serving', Straight' PROVE Straight
      <4>1. names["duplex"] \in Objects
        BY <3>2, <3>3, QueueTypes DEF Segments
      <4> QED BY <3>3, <4>1, <2>1, <2>4 DEF Straight
    <3>4. \A m \in Request, c \in Channels : RightChannel(m, c)' = RightChannel(m, c)
      BY <2>1 DEF RightChannel
    <3>5. \A c \in Channels : Serving => Replies[c] \in Seq(Known) /\ backPressure[c] \in Seq(Known)
      BY QueueTypes
    <3>6. CASE Serving' /\ Straight'
      BY <3>1, <3>2, <3>3, <3>4, <3>5, <3>6, RoutedKept DEF DuplexInv, ReplyInv
    <3>7. CASE ~(Serving' /\ Straight')
      BY <3>7 DEF Routed
    <3> QED BY <3>6, <3>7
  <2>d. ReplyInv'
    BY <2>1, <2>15, <2>16 DEF DuplexInv, ReplyInv, Bounded
  <2>17. TrailInv'
    <3> SUFFICES ASSUME NEW j \in Clients, Served(j)', j \notin torn'
                 PROVE  Once(j, joined[j], sent[j], Trail(j))'
      BY DEF TrailInv
    <3>1. CASE j = k
      <4> DEFINE h == [i \in DOMAIN handled[k] |-> [from |-> k, n |-> handled[k][i]]]
                 r == Own(k, "requests")
                 t == h \o r \o waiting[k]
      <4>1. object[k]["requests"] # 0 /\ waiting[k] = <<>>
        BY <2>1 DEF DuplexInv, JoinInv, Mapped, RequestInv, Counted
      <4>2. h \in Seq(Request) /\ r \in Seq(Request) /\ r \in Seq(Known)
        BY <4>1, TrailTypes DEF DuplexInv
      <4>3. \A i \in DOMAIN h : h[i].n <= sent[k]
        BY DEF DuplexInv, RequestInv, Numbered
      <4>4. \A i \in DOMAIN r : r[i].from = k => r[i].n <= sent[k]
        BY <4>2 DEF Known
      <4>5. t \in Seq(Request) /\ \A i \in DOMAIN t : t[i].from = k => t[i].n <= sent[k]
        <5> HIDE DEF h, r
        <5>1. t = h \o r
          BY <4>1, <4>2
        <5> QED BY <4>2, <4>3, <4>4, <5>1
      <4> HIDE DEF t
      <4>6. Mine(k, joined[k], t) = {}
        <5>1. \A i \in DOMAIN t : t[i].n \in Nat
          <6>1. t \in Seq(Request)
            BY <4>5
          <6>2. \A i \in DOMAIN t : t[i] \in Request
            BY <6>1
          <6> QED BY <6>2 DEF Request
        <5> QED BY <4>5, <5>1, <2>7 DEF Mine
      <4>7. Once(k, joined[k], sent[k], t)
        <5>1. joined[k] + 1 .. sent[k] = {}
          BY <2>7
        <5> QED BY <4>6, <5>1 DEF Once, Numbers, Rising
      <4>8. Trail(k)' = t
        BY <2>1 DEF Trail, t, h, r, Own
      <4> QED BY <3>1, <4>7, <4>8, <2>1 DEF Once, Numbers, Rising, Mine
    <3>2. CASE j # k
      <4>1. Served(j) /\ Trail(j)' = Trail(j)
        BY <3>2, <2>1, <2>6 DEF Served, Trail, Own
      <4> QED BY <4>1, <2>1, TrailKept DEF DuplexInv
    <3> QED BY <3>1, <3>2
  <2> QED BY <2>a, <2>b, <2>c, <2>d, <2>17 DEF DuplexInv
<1> QED BY <1>1, <1>2

-----------------------------------------------------------------------------
(* The server process. *)

(* A segment that is opened again leaves nobody served. *)
LEMMA OpenSegmentKeeps ==
    ASSUME DuplexInv, NEW s \in Segments, NEW new \in Objects, OpenSegment(s, new),
           server' = [at |-> "opened", segment |-> s],
           \/ s = "duplex" /\ server = Down
           \/ s = "replies" /\ server = [at |-> "built", segment |-> "duplex"]
           \/ s = "requests" /\ server = [at |-> "built", segment |-> "replies"],
           starts' \in Nat \ {0}, starts' + deaths <= MaxFaults,
           UNCHANGED <<activeClientProducerIndex, backPressure, drains, stranded, clientVars,
                   handled>>
    PROVE  DuplexInv'
<1> USE DEF clientVars
<1> DEFINE o == IF names[s] = 0 THEN new ELSE names[s]
<1>1. o \in Objects /\ o # 0 /\ o \in Name
  BY PlaceTypes, ConstantFacts DEF Name
<1>2. /\ names' = [names EXCEPT ![s] = o] /\ built' = [built EXCEPT ![s][o] = FALSE]
      /\ created' = IF names[s] = 0 THEN created \union {s} ELSE created
      /\ stale' = stale \union UsersOf(s, o)
      /\ s = "duplex" => entries' = [entries EXCEPT ![o] = <<>>] /\ UNCHANGED <<owner, ring>>
      /\ s # "duplex" => /\ owner' = [owner EXCEPT ![s][o] = <<>>]
                         /\ ring' = [ring EXCEPT ![s][o] = Empty] /\ UNCHANGED entries
  BY DEF OpenSegment
<1>3. names[s] # 0 => names[s] = o
  OBVIOUS
<1> HIDE DEF o
<1>4. names' \in [Segments -> Name] /\ names'[s] = o
      /\ \A t \in Segments : t # s => names'[t] = names[t]
  BY <1>1, <1>2 DEF DuplexInv, DuplexTypes, SegmentTypes
<1>5. s \in Queues \/ s = "duplex"
  BY DEF Segments
<1>6. /\ owner' \in [Queues -> [Objects -> Seq(Clients)]]
      /\ \A p \in Queues, x \in Objects :
            owner'[p][x] = IF p = s /\ x = o THEN <<>> ELSE owner[p][x]
  <2>1. owner \in [Queues -> [Objects -> Seq(Clients)]] /\ <<>> \in Seq(Clients)
    BY DEF DuplexInv, DuplexTypes, SegmentTypes
  <2>2. CASE s = "duplex"
    BY <1>2, <2>1, <2>2 DEF Queues
  <2>3. CASE s # "duplex"
    <3>1. owner' = [owner EXCEPT ![s][o] = <<>>] /\ s \in Queues
      BY <1>2, <1>5, <2>3
    <3> QED BY <1>1, <2>1, <3>1, PlacePut
  <2> QED BY <2>2, <2>3
<1>7. Empty \in [Channels -> Seq(Known)] /\ \A c \in Channels : Empty[c] = <<>>
  BY DEF Empty
<1>8. /\ ring' \in Rings(Known)
      /\ \A p \in Queues, x \in Objects : ring'[p][x] = IF p = s /\ x = o THEN Empty ELSE ring[p][x]
  <2>1. ring \in [Queues -> [Objects -> [Channels -> Seq(Known)]]]
    BY DEF DuplexInv, RequestInv, Numbered, Rings
  <2>2. CASE s = "duplex"
    BY <1>2, <2>1, <2>2 DEF Queues, Rings
  <2>3. CASE s # "duplex"
    <3>1. ring' = [ring EXCEPT ![s][o] = Empty] /\ s \in Queues
      BY <1>2, <1>5, <2>3
    <3> DEFINE cs == [Channels -> Seq(Known)]
    <3>2. ring \in [Queues -> [Objects -> cs]] /\ Empty \in cs
      BY <1>7, <2>1
    <3> HIDE DEF cs
    <3>3. /\ ring' \in [Queues -> [Objects -> cs]]
          /\ \A p \in Queues, x \in Objects :
                ring'[p][x] = IF p = s /\ x = o THEN Empty ELSE ring[p][x]
      BY <1>1, <3>1, <3>2, PlacePut
    <3> QED BY <3>3 DEF cs, Rings
  <2> QED BY <2>2, <2>3
<1>9. ~Serving' /\ server' # Down
  BY DEF Serving, Down
<1>10. \A j \in Clients, t \in Segments :
          Present(j, t)' => /\ t # s /\ Present(j, t) /\ object[j][t] = names[t]
                            /\ names'[t] = names[t]
  <2> SUFFICES ASSUME NEW j \in Clients, NEW t \in Segments, Present(j, t)'
               PROVE  /\ t # s /\ Present(j, t) /\ object[j][t] = names[t]
                      /\ names'[t] = names[t]
    OBVIOUS
  <2>1. Present(j, t) /\ j \notin UsersOf(s, o)
    BY <1>2 DEF Present
  <2>2. object[j][t] = names[t] /\ object[j][t] # 0
    BY <2>1 DEF DuplexInv, JoinInv, Current, Present
  <2>3. t # s
    BY <2>1, <2>2, <1>3 DEF UsersOf
  <2> QED BY <2>1, <2>2, <2>3, <1>4
<1>11. \A j \in Clients : ~Served(j)'
  <2> SUFFICES ASSUME NEW j \in Clients, Served(j)' PROVE FALSE
    OBVIOUS
  <2>1. client[j] = "ready" /\ j \notin stale'
    BY DEF Served
  <2>2. object[j][s] # 0
    BY <2>1, <1>5 DEF DuplexInv, JoinInv, Mapped, Queues
  <2>3. Present(j, s)'
    BY <2>1, <2>2 DEF Present
  <2> QED BY <2>3, <1>10
<1>a. DuplexTypes'
  <2>1. built' \in [Segments -> [Objects -> BOOLEAN]]
    BY <1>1, <1>2 DEF DuplexInv, DuplexTypes, SegmentTypes
  <2>2. entries' \in [Objects -> Seq(MapEntry)]
    <3>1. entries \in [Objects -> Seq(MapEntry)] /\ <<>> \in Seq(MapEntry)
      BY DEF DuplexInv, DuplexTypes, SegmentTypes
    <3>2. CASE s = "duplex"
      BY <1>1, <1>2, <3>1, <3>2
    <3>3. CASE s # "duplex"
      BY <1>2, <3>1, <3>3
    <3> QED BY <3>2, <3>3
  <2>3. \A p \in Queues, x \in Objects : Len(owner'[p][x]) <= MaxClients
    <3>1. Len(<<>>) = 0 /\ 0 <= MaxClients
      BY ConstantFacts
    <3> QED BY <1>6, <3>1 DEF DuplexInv, DuplexTypes, SegmentTypes
  <2>4. SegmentTypes'
    BY <1>4, <1>6, <2>1, <2>2, <2>3 DEF SegmentTypes
  <2>5. server' \in Servers /\ created' \subseteq Segments
    BY <1>2 DEF Servers, DuplexInv, DuplexTypes, ServerTypes
  <2>6. ServerTypes'
    BY <2>5 DEF DuplexInv, DuplexTypes, ServerTypes
  <2>7. ClientTypes'
    BY <1>2 DEF DuplexInv, DuplexTypes, ClientTypes, UsersOf
  <2> QED BY <2>4, <2>6, <2>7 DEF DuplexTypes
<1>12. Opened'
  <2>1. CASE s = "duplex"
    BY <2>1, <1>1, <1>4, <1>9 DEF Opened, HasReplies, HasRequests, Serving
  <2>2. CASE s = "replies"
    <3>1. names["duplex"] # 0 /\ names'["duplex"] = names["duplex"]
      BY <2>2, <1>4 DEF DuplexInv, JoinInv, Opened, Down, Segments
    <3> QED BY <2>2, <3>1, <1>1, <1>4, <1>9 DEF Opened, HasReplies, HasRequests, Serving
  <2>3. CASE s = "requests"
    <3>1. /\ names["duplex"] # 0 /\ names'["duplex"] = names["duplex"]
          /\ names["replies"] # 0 /\ names'["replies"] = names["replies"]
      BY <2>3, <1>4 DEF DuplexInv, JoinInv, Opened, Down, Segments, Queues, HasReplies
    <3> QED BY <2>3, <3>1, <1>1, <1>4, <1>9 DEF Opened, HasReplies, HasRequests, Serving
  <2> QED BY <2>1, <2>2, <2>3
<1>13. Mapped'
  BY DEF DuplexInv, JoinInv, Mapped
<1>14. Current'
  BY <1>10 DEF Current
<1>15. OwnChannels'
  <2> SUFFICES ASSUME NEW j \in Clients, NEW p \in Queues, Present(j, p)'
               PROVE  /\ channel[j][p] < Len(owner'[p][names'[p]])
                      /\ owner'[p][names'[p]][channel[j][p] + 1] = j
    BY DEF OwnChannels
  <2>1. p # s /\ Present(j, p) /\ names'[p] = names[p] /\ names[p] \in Objects
    BY <1>10, PlaceTypes DEF Present
  <2>2. owner'[p][names[p]] = owner[p][names[p]]
    BY <1>6, <2>1
  <2> QED BY <2>1, <2>2 DEF DuplexInv, JoinInv, OwnChannels
<1>16. OwnEntry'
  BY <1>11 DEF OwnEntry
<1>b. JoinInv'
  BY <1>12, <1>13, <1>14, <1>15, <1>16 DEF JoinInv
<1>17. Counted' /\ Numbered'
  BY <1>8 DEF DuplexInv, RequestInv, Counted, Numbered, Known, OwnKnown
<1>18. InOwnChannel'
  <2> SUFFICES ASSUME NEW x \in Objects, NEW c \in Channels
               PROVE  ring'["requests"][x][c] \in Seq(On(x, c))
    BY DEF InOwnChannel, On, Newer
  <2>1. ring'["requests"][x][c] \in {<<>>, ring["requests"][x][c]}
    BY <1>7, <1>8 DEF Queues
  <2>2. ring["requests"][x][c] \in Seq(On(x, c)) /\ <<>> \in Seq(On(x, c))
    BY DEF DuplexInv, RequestInv, InOwnChannel
  <2> QED BY <2>1, <2>2
<1>c. RequestInv'
  BY <1>17, <1>18 DEF RequestInv
<1>19. NoReplies'
  <2>1. backPressure = Empty
    BY DEF DuplexInv, ReplyInv, NoReplies, Serving, Down
  <2>2. CASE s = "duplex"
    BY <2>1, <2>2 DEF NoReplies, HasReplies, Empty
  <2>3. CASE s = "replies"
    <3>1. ring'["replies"][names'["replies"]] = Empty
      BY <2>3, <1>1, <1>4, <1>8 DEF Queues
    <3> QED BY <2>1, <3>1 DEF NoReplies, Empty
  <2>4. CASE s = "requests"
    <3>1. HasReplies
      BY <2>4 DEF HasReplies
    <3>2. names["replies"] \in Objects /\ names'["replies"] = names["replies"]
      BY <2>4, <3>1, <1>4, PlaceTypes DEF DuplexInv, JoinInv, Opened, Segments, Queues
    <3>3. ring'["replies"][names'["replies"]] = Empty
      BY <2>4, <3>1, <3>2, <1>8 DEF DuplexInv, ReplyInv, NoReplies, Queues
    <3> QED BY <2>1, <3>3 DEF NoReplies, Empty
  <2> QED BY <1>5, <2>2, <2>3, <2>4 DEF Queues
<1>20. Routed'
  BY <1>9 DEF Routed
<1>d. ReplyInv'
  <2>1. \A x \in Objects, c \in Channels : ring'["replies"][x][c] \in {<<>>, ring["replies"][x][c]}
    BY <1>7, <1>8 DEF Queues
  <2>2. Len(<<>>) = 0 /\ 0 <= Capacity
    BY ConstantFacts
  <2>3. Bounded'
    BY <2>1, <2>2 DEF DuplexInv, ReplyInv, Bounded
  <2> QED BY <1>19, <1>20, <2>3 DEF ReplyInv
<1>e. TrailInv'
  BY <1>11 DEF TrailInv
<1> QED BY <1>a, <1>b, <1>c, <1>d, <1>e DEF DuplexInv

LEMMA StartServerKeeps ==
    ASSUME DuplexInv, StartServer
    PROVE  DuplexInv'
<1>1. /\ starts + 1 \in Objects /\ starts' = starts + 1 /\ starts' \in Nat \ {0}
      /\ starts' + deaths <= MaxFaults
  <2>1. starts \in Nat /\ deaths \in Nat /\ starts + deaths < MaxFaults /\ starts' = starts + 1
    BY DEF StartServer, DuplexInv, DuplexTypes, ServerTypes
  <2>2. starts + 1 \in Objects
    BY <2>1, ConstantFacts
  <2> QED BY <2>1, <2>2, ConstantFacts
<1> QED BY <1>1, OpenSegmentKeeps DEF StartServer, Segments

LEMMA OpenNextKeeps ==
    ASSUME DuplexInv, OpenNext
    PROVE  DuplexInv'
<1> DEFINE s == IF server.segment = "duplex" THEN "replies" ELSE "requests"
<1>1. server \in Servers /\ server.at = "built"
  BY DEF OpenNext, DuplexInv, DuplexTypes, ServerTypes
<1>2. \/ server = [at |-> "built", segment |-> "duplex"] /\ s = "replies"
      \/ server = [at |-> "built", segment |-> "replies"] /\ s = "requests"
  BY <1>1, ServerFacts DEF Servers, Down, Idle
<1>3. starts \in Nat \ {0} /\ starts \in Objects /\ starts + deaths <= MaxFaults
  <2>1. server # Down
    BY <1>1 DEF Down
  <2>2. starts \in Nat /\ starts > 0 /\ deaths \in Nat /\ starts + deaths <= MaxFaults
    BY <2>1 DEF DuplexInv, DuplexTypes, ServerTypes
  <2> QED BY <2>2, ConstantFacts
<1>4. /\ OpenSegment(s, starts) /\ server' = [at |-> "opened", segment |-> s] /\ s \in Segments
      /\ UNCHANGED <<starts, activeClientProducerIndex, backPressure, drains, stranded, clientVars,
                   handled>>
  BY DEF OpenNext, Segments, Queues
<1> HIDE DEF s
<1> QED BY <1>2, <1>3, <1>4, OpenSegmentKeeps

(* Steps of the server that change no queue. *)
LEMMA ServerStepKeeps ==
    ASSUME DuplexInv, server # Down, server' \in Servers,
           built' \in [Segments -> [Objects -> BOOLEAN]],
           UNCHANGED <<names, entries, owner, ring, starts, created, activeClientProducerIndex,
                       backPressure, drains, stranded, clientVars, handled, stale>>,
           Opened', NoReplies', Routed'
    PROVE  DuplexInv'
<1> USE DEF clientVars
<1>1. DuplexTypes'
  BY DEF DuplexInv, DuplexTypes, SegmentTypes, ServerTypes, ClientTypes
<1>2. \A k \in Clients : Served(k)' = Served(k) /\ \A s \in Segments : Present(k, s)' = Present(k, s)
  BY DEF Served, Present
<1>3. Mapped' /\ Current' /\ OwnChannels' /\ OwnEntry'
  BY <1>2 DEF DuplexInv, JoinInv, Mapped, Current, OwnChannels, OwnEntry, Queues, Segments
<1>4. Counted' /\ Numbered' /\ InOwnChannel'
  BY DEF DuplexInv, RequestInv, Counted, Numbered, Known, OwnKnown, InOwnChannel, On, Newer
<1>5. TrailInv'
  <2> SUFFICES ASSUME NEW k \in Clients, Served(k)', k \notin torn'
               PROVE  Once(k, joined[k], sent[k], Trail(k))'
    BY DEF TrailInv
  <2>1. Trail(k)' = Trail(k)
    BY DEF Trail, Own
  <2> QED BY <1>2, <2>1, TrailKept DEF DuplexInv
<1> QED BY <1>1, <1>3, <1>4, <1>5 DEF DuplexInv, JoinInv, RequestInv, ReplyInv, Bounded

LEMMA ConstructKeeps ==
    ASSUME DuplexInv, Construct
    PROVE  DuplexInv'
<1> DEFINE s == server.segment
<1>1. server \in Servers /\ server.at = "opened" /\ s \in Segments /\ server # Down
      /\ server = [at |-> "opened", segment |-> s]
  <2>1. server \in Servers /\ server.at = "opened" /\ server # Down
    BY DEF Construct, DuplexInv, DuplexTypes, ServerTypes, Down
  <2>2. server \in [at : {"opened"}, segment : Segments]
    BY <2>1 DEF Servers, Down, Idle
  <2> QED BY <2>1, <2>2
<1>2. /\ server' = IF s = "requests" THEN Idle ELSE [at |-> "built", segment |-> s]
      /\ built' = [built EXCEPT ![s][names[s]] = TRUE]
      /\ UNCHANGED <<names, entries, owner, ring, starts, created, activeClientProducerIndex,
                     backPressure, drains, stranded, clientVars, handled, stale>>
  BY DEF Construct
<1> HIDE DEF s
<1>3. built' \in [Segments -> [Objects -> BOOLEAN]]
  BY <1>1, <1>2 DEF DuplexInv, DuplexTypes, SegmentTypes
<1>4. server' \in Servers
  <2>1. s = "requests" \/ s \in {"duplex", "replies"}
    BY <1>1 DEF Segments, Queues
  <2> QED BY <1>2, <2>1 DEF Servers
<1>5. /\ names["duplex"] # 0 /\ backPressure = Empty
      /\ s # "duplex" => names["replies"] # 0 /\ ring["replies"][names["replies"]] = Empty
      /\ s = "requests" => names["requests"] # 0
  <2>1. ~Serving /\ (s # "duplex" => HasReplies) /\ (s = "requests" => HasRequests)
    BY <1>1 DEF Serving, HasReplies, HasRequests
  <2> QED BY <1>1, <2>1 DEF DuplexInv, JoinInv, Opened, ReplyInv, NoReplies
<1>6. Opened'
  <2>1. server'.at # "poll"
    BY <1>2 DEF Idle
  <2>2. (HasReplies \/ Serving)' => s # "duplex"
    BY <1>2 DEF HasReplies, Serving
  <2>3. HasRequests' => s = "requests"
    BY <1>2 DEF HasRequests, Serving
  <2> QED BY <1>2, <1>5, <2>1, <2>2, <2>3 DEF Opened
<1>7. NoReplies'
  <2>1. HasReplies' => s # "duplex"
    BY <1>2 DEF HasReplies, Idle
  <2> QED BY <1>2, <1>5, <2>1 DEF NoReplies, Empty
<1>8. Routed'
  <2> SUFFICES ASSUME Serving', NEW c \in Channels
               PROVE  Replies'[c] \in Seq(For(c)') /\ backPressure'[c] \in Seq(For(c)')
    BY DEF Routed
  <2>1. s = "requests"
    BY <1>2 DEF Serving
  <2>2. Replies'[c] = <<>> /\ backPressure'[c] = <<>>
    BY <1>2, <1>5, <2>1 DEF Replies, Empty
  <2> QED BY <2>2
<1> QED BY <1>1, <1>2, <1>3, <1>4, <1>6, <1>7, <1>8, ServerStepKeeps

(* The channels of the requests while the server polls. *)
LEMMA PollTypes ==
    ASSUME DuplexInv, server.at = "poll"
    PROVE  /\ server = [at |-> "poll", next |-> server.next, end |-> server.end]
           /\ server.next \in Channels /\ server.next \in Nat
           /\ server.end \in 0 .. MaxClients /\ server.end \in Nat
           /\ server.next < server.end /\ server.end <= ActiveChannels
           /\ Serving /\ server # Down /\ \A s \in Segments : names[s] \in Objects
<1>1. server \in Servers
  BY DEF DuplexInv, DuplexTypes, ServerTypes
<1>2. server \in [at : {"poll"}, next : Channels, end : 0 .. MaxClients]
  BY <1>1, ServerFacts
<1>3. server = [at |-> "poll", next |-> server.next, end |-> server.end]
      /\ server.next \in Channels /\ server.end \in 0 .. MaxClients
  BY <1>2
<1>4. Serving /\ server # Down
  BY DEF Serving, Down
<1> QED BY <1>3, <1>4, ConstantFacts, QueueTypes DEF DuplexInv, JoinInv, Opened

LEMMA LoopKeeps ==
    ASSUME DuplexInv, Poll \/ NextChannel
    PROVE  DuplexInv'
<1>1. /\ UNCHANGED <<names, entries, owner, ring, starts, created, activeClientProducerIndex,
                     backPressure, drains, stranded, clientVars, handled, stale, built>>
      /\ Serving /\ server # Down
  BY DEF Poll, NextChannel, shmVars, Serving, Down, Idle
<1>2. \A s \in Segments : names[s] \in Objects
  BY <1>1, QueueTypes
<1>3. /\ server' \in Servers /\ Serving'
      /\ server'.at = "poll" => server'.end <= ActiveChannels /\ server'.next < server'.end
  <2>1. CASE Poll
    <3>1. ActiveChannels \in Nat /\ ActiveChannels <= MaxClients /\ ActiveChannels > 0
      <4>1. owner["requests"][names["requests"]] \in Seq(Clients)
        BY <1>2 DEF DuplexInv, DuplexTypes, SegmentTypes, Queues, Segments
      <4>2. Len(owner["requests"][names["requests"]]) <= MaxClients
        BY <1>2 DEF DuplexInv, DuplexTypes, SegmentTypes, Queues, Segments
      <4> QED BY <2>1, <4>1, <4>2 DEF Poll, ActiveChannels
    <3>2. server' = [at |-> "poll", next |-> 0, end |-> ActiveChannels]
      BY <2>1 DEF Poll
    <3>3. server' \in [at : {"poll"}, next : Channels, end : 0 .. MaxClients]
      BY <3>1, <3>2, ConstantFacts
    <3> QED BY <3>1, <3>2, <3>3 DEF Servers, Serving
  <2>2. CASE NextChannel
    <3>1. server.at = "poll" /\ server' = IF server.next + 1 < server.end
                                            THEN [server EXCEPT !.next = @ + 1] ELSE Idle
      BY <2>2 DEF NextChannel
    <3>2. CASE server.next + 1 < server.end
      <4> DEFINE n == server.next
                 e == server.end
      <4>1. /\ server = [at |-> "poll", next |-> n, end |-> e] /\ n \in Nat /\ e \in Nat
            /\ e \in 0 .. MaxClients /\ e <= ActiveChannels /\ n + 1 < e
        BY <3>1, <3>2, PollTypes
      <4> HIDE DEF n, e
      <4>2. server' = [at |-> "poll", next |-> n + 1, end |-> e]
        BY <3>1, <3>2, <4>1
      <4>3. n + 1 \in Channels
        BY <4>1, ConstantFacts
      <4>4. server' \in [at : {"poll"}, next : Channels, end : 0 .. MaxClients]
        BY <4>1, <4>2, <4>3
      <4> QED BY <4>1, <4>2, <4>4 DEF Servers, Serving
    <3>3. CASE ~(server.next + 1 < server.end)
      BY <3>1, <3>3 DEF Servers, Serving, Idle
    <3> QED BY <3>2, <3>3
  <2> QED BY <2>1, <2>2
<1>4. Opened'
  <2>1. ActiveChannels' = ActiveChannels
    BY <1>1 DEF ActiveChannels
  <2> QED BY <1>1, <1>2, <1>3, <2>1, ConstantFacts DEF Opened, Segments, Queues
<1>5. NoReplies'
  BY <1>3 DEF NoReplies, HasReplies, Serving
<1>6. Routed'
  BY <1>1 DEF DuplexInv, ReplyInv, Routed, Straight, Replies, For, ServedMessage, Served, RightChannel,
              clientVars
<1> QED BY <1>1, <1>3, <1>4, <1>5, <1>6, ServerStepKeeps DEF DuplexInv, DuplexTypes, SegmentTypes

(* A server that is gone: nothing is changed in the queues, and who has     *)
(* mapped what was unlinked is stale.                                       *)
LEMMA GoneKeeps ==
    ASSUME DuplexInv, Gone, names' \in [Segments -> Name], stale' \subseteq Clients,
           \A k \in Clients, s \in Segments : Present(k, s)' => Present(k, s) /\ names'[s] = names[s]
    PROVE  DuplexInv'
<1> USE DEF Gone, clientVars
<1>1. server' = Down /\ ~Serving' /\ ~HasReplies' /\ ~HasRequests'
  BY DEF Down, Serving, HasReplies, HasRequests
<1>2. DuplexTypes'
  <2>1. SegmentTypes' /\ ClientTypes'
    BY DEF DuplexInv, DuplexTypes, SegmentTypes, ClientTypes
  <2>2. ServerTypes'
    BY <1>1, ConstantFacts DEF DuplexInv, DuplexTypes, ServerTypes, Servers
  <2> QED BY <2>1, <2>2 DEF DuplexTypes
<1>3. \A k \in Clients : Served(k)' => /\ Served(k)
                                       /\ \A s \in Segments : Present(k, s)' /\ names'[s] = names[s]
  <2> SUFFICES ASSUME NEW k \in Clients, Served(k)'
               PROVE  Served(k) /\ \A s \in Segments : Present(k, s)' /\ names'[s] = names[s]
    OBVIOUS
  <2>1. client[k] = "ready" /\ k \notin stale'
    BY DEF Served
  <2>2. \A s \in Segments : object[k][s] # 0
    BY <2>1 DEF DuplexInv, JoinInv, Mapped, Segments, Queues
  <2>3. \A s \in Segments : Present(k, s)'
    BY <2>1, <2>2 DEF Present
  <2> QED BY <2>1, <2>3 DEF Served, Present, Segments
<1>4. Opened'
  BY <1>1 DEF Opened, Down
<1>5. Mapped'
  BY DEF DuplexInv, JoinInv, Mapped
<1>6. Current'
  BY DEF DuplexInv, JoinInv, Current
<1>7. OwnChannels'
  <2> SUFFICES ASSUME NEW k \in Clients, NEW q \in Queues, Present(k, q)'
               PROVE  /\ channel[k][q] < Len(owner[q][names'[q]])
                      /\ owner[q][names'[q]][channel[k][q] + 1] = k
    BY DEF OwnChannels
  <2>1. Present(k, q) /\ names'[q] = names[q]
    BY DEF Segments
  <2> QED BY <2>1 DEF DuplexInv, JoinInv, OwnChannels
<1>8. OwnEntry'
  BY <1>3 DEF DuplexInv, JoinInv, OwnEntry, Segments
<1>9. Counted' /\ Numbered' /\ InOwnChannel'
  <2>1. Empty \in [Channels -> Seq(Known)]
    BY DEF Empty
  <2> QED BY <2>1 DEF DuplexInv, RequestInv, Counted, Numbered, Known, OwnKnown, InOwnChannel, On, Newer
<1>10. NoReplies' /\ Routed'
  BY <1>1 DEF NoReplies, Routed, Empty
<1>11. TrailInv'
  <2> SUFFICES ASSUME NEW k \in Clients, Served(k)', k \notin torn'
               PROVE  Once(k, joined[k], sent[k], Trail(k))'
    BY DEF TrailInv
  <2>1. Trail(k)' = Trail(k)
    BY DEF Trail, Own
  <2> QED BY <1>3, <2>1, TrailKept DEF DuplexInv
<1> QED BY <1>2, <1>4, <1>5, <1>6, <1>7, <1>8, <1>9, <1>10, <1>11
        DEF DuplexInv, JoinInv, RequestInv, ReplyInv, Bounded

LEMMA CrashKeeps ==
    ASSUME DuplexInv, Crash
    PROVE  DuplexInv'
<1>1. \A k \in Clients, s \in Segments : Present(k, s)' => Present(k, s) /\ names'[s] = names[s]
  BY DEF Crash, Gone, clientVars, Present
<1> QED BY <1>1, GoneKeeps DEF Crash, DuplexInv, DuplexTypes, SegmentTypes, ClientTypes

LEMMA ExitKeeps ==
    ASSUME DuplexInv, Exit
    PROVE  DuplexInv'
<1> DEFINE unlinked == created \union {"replies"}
<1>1. /\ names' = [s \in Segments |-> IF s \in unlinked THEN 0 ELSE names[s]]
      /\ stale' = stale \union UNION {UsersOf(s, names[s]) : s \in unlinked}
  BY DEF Exit
<1>2. names' \in [Segments -> Name]
  BY <1>1, PlaceTypes DEF Name
<1>3. stale' \subseteq Clients
  BY <1>1 DEF UsersOf, DuplexInv, DuplexTypes, ClientTypes
<1>4. ASSUME NEW k \in Clients, NEW s \in Segments, Present(k, s)'
      PROVE  Present(k, s) /\ names'[s] = names[s]
  <2>1. Present(k, s)
    BY <1>1, <1>4 DEF Present, Exit, Gone, clientVars
  <2>2. k \in UsersOf(s, names[s])
    BY <2>1 DEF DuplexInv, JoinInv, Current, UsersOf
  <2>3. s \notin unlinked
    BY <1>1, <1>4, <2>2 DEF Present
  <2> QED BY <1>1, <2>1, <2>3
<1> QED BY <1>2, <1>3, <1>4, GoneKeeps DEF Exit

-----------------------------------------------------------------------------
(* The client processes: requests and replies. *)

(* What others put into the middle of a trail. *)
LEMMA OthersWithin ==
    ASSUME NEW k, NEW low \in Nat, NEW high \in Nat,
           NEW a \in Seq(Request), NEW b \in Seq(Request), NEW x \in Seq(Request),
           NEW c \in Seq(Request), Numbers(k, low, x) = {}
    PROVE  Once(k, low, high, (a \o (b \o x)) \o c) <=> Once(k, low, high, (a \o b) \o c)
<1>1. (a \o (b \o x)) \o c = (a \o b) \o (x \o c)
  BY SMTT(30)
<1>2. a \o b \in Seq(Request)
  BY SMTT(30)
<1>3. Once(k, low, high, (a \o b) \o (x \o c)) <=> Once(k, low, high, (a \o b) \o c)
  BY <1>2, OthersAside, Zenon
<1> QED BY <1>1, <1>3, Zenon

LEMMA EnqueueRing ==
    ASSUME NEW S, NEW k, NEW ms, Enqueue(k, ms), ring \in Rings(S),
           NEW o \in Objects, NEW c \in Channels,
           o = object[k]["requests"], c = channel[k]["requests"],
           Own(k, "requests") \o ms \in Seq(S)
    PROVE  /\ ring' \in Rings(S)
           /\ \A p \in Queues, x \in Objects, d \in Channels :
                 ring'[p][x][d] = IF p = "requests" /\ x = o /\ d = c
                                    THEN Own(k, "requests") \o ms ELSE ring[p][x][d]
<1> DEFINE q == "requests"
           v == Own(k, "requests") \o ms
           after == ring'
<1>1. after = [ring EXCEPT ![q][o][c] = v] /\ q \in Queues /\ v \in Seq(S)
  BY DEF Enqueue, Own, Queues
<1> HIDE DEF q, v, after
<1>2. after \in Rings(S) /\ OnlyAt(ring, after, q, o, c, v)
  BY <1>1, RingPut, Zenon
<1> QED BY <1>2 DEF OnlyAt, q, v, after

(* A client that sends: the messages it puts into its channel are its own,  *)
(* and leave the trails of others as they are.                              *)
LEMMA SendKeeps ==
    ASSUME DuplexInv, NEW k \in Clients, client[k] = "ready",
           NEW h \in Nat, sent[k] <= h, sent' = [sent EXCEPT ![k] = h],
           NEW ms \in Seq(Request), \A i \in DOMAIN ms : ms[i].from = k /\ ms[i].n <= h,
           NEW w \in Seq(Request), \A i \in DOMAIN w : w[i].from = k /\ w[i].n <= h,
           Enqueue(k, ms), waiting' = [waiting EXCEPT ![k] = w], unposted' \subseteq Clients,
           Served(k) /\ k \notin torn =>
              Once(k, joined[k], h,
                   ([i \in DOMAIN handled[k] |-> [from |-> k, n |-> handled[k][i]]]
                      \o (Own(k, "requests") \o ms)) \o w),
           UNCHANGED <<names, built, entries, owner, serverVars, client, object, channel, joined,
                       answers, torn, deaths, handled, stale>>
    PROVE  DuplexInv'
<1> USE DEF serverVars
<1> DEFINE o == object[k]["requests"]
           c == channel[k]["requests"]
<1>1. o \in Objects /\ c \in Channels /\ o # 0 /\ "requests" \in Queues
  BY PlaceTypes DEF DuplexInv, JoinInv, Mapped, Queues, Segments
<1>2. /\ sent' \in [Clients -> Nat] /\ sent'[k] = h
      /\ \A j \in Clients : (j # k => sent'[j] = sent[j]) /\ sent[j] <= sent'[j] /\ sent[j] \in Nat
  BY DEF DuplexInv, DuplexTypes, ClientTypes
<1>3. /\ Known \subseteq Known' /\ Known' \subseteq Request
      /\ \A j \in Clients : OwnKnown(j) \subseteq OwnKnown(j)'
  <2>1. \A m \in Known : m \in Known'
    <3> SUFFICES ASSUME NEW m \in Known PROVE m \in Known'
      OBVIOUS
    <3>1. m \in Request /\ m.from \in Clients /\ m.n \in Nat /\ m.n <= sent[m.from]
      BY DEF Known, Request
    <3> QED BY <3>1, <1>2 DEF Known
  <2>2. \A j \in Clients : OwnKnown(j) \subseteq OwnKnown(j)'
    <3> SUFFICES ASSUME NEW j \in Clients, NEW m \in OwnKnown(j) PROVE m \in OwnKnown(j)'
      OBVIOUS
    <3>1. m \in [from : {j}, n : 0 .. sent[j]]
      BY DEF OwnKnown
    <3>2. 0 .. sent[j] \subseteq 0 .. sent'[j]
      BY <1>2
    <3> QED BY <3>1, <3>2 DEF OwnKnown
  <2> QED BY <2>1, <2>2 DEF Known
<1>4. ms \in Seq(Known') /\ ms \in Seq(OwnKnown(k)') /\ w \in Seq(OwnKnown(k)')
  <2>1. \A m \in Request : m.from = k /\ m.n <= h => m \in Known' /\ m \in OwnKnown(k)'
    <3> SUFFICES ASSUME NEW m \in Request, m.from = k, m.n <= h
                 PROVE  m \in Known' /\ m \in OwnKnown(k)'
      OBVIOUS
    <3>1. m = [from |-> k, n |-> m.n] /\ m.n \in Nat
      BY DEF Request
    <3> QED BY <3>1, <1>2 DEF Known, OwnKnown
  <2>2. /\ \A i \in 1 .. Len(ms) : ms[i] \in Known' /\ ms[i] \in OwnKnown(k)'
        /\ \A i \in 1 .. Len(w) : w[i] \in OwnKnown(k)'
    BY <2>1
  <2> QED BY <2>2
<1>5. Own(k, "requests") \in Seq(Known') /\ Own(k, "requests") \o ms \in Seq(Known')
  <2>1. Own(k, "requests") \in Seq(Known)
    BY <1>1, TrailTypes DEF DuplexInv
  <2>2. Own(k, "requests") \in Seq(Known')
    BY <2>1, <1>3, RingMore
  <2> QED BY <2>2, <1>4
<1>6. /\ ring' \in Rings(Known')
      /\ \A p \in Queues, x \in Objects, d \in Channels :
            ring'[p][x][d] = IF p = "requests" /\ x = o /\ d = c
                               THEN Own(k, "requests") \o ms ELSE ring[p][x][d]
  <2>1. ring \in Rings(Known')
    BY <1>3, RingMore DEF DuplexInv, RequestInv, Numbered
  <2>2. ring' = [ring EXCEPT !["requests"][o][c] = Own(k, "requests") \o ms]
    BY DEF Enqueue, Own
  <2> DEFINE known == Known'
  <2>3. Own(k, "requests") \o ms \in Seq(known) /\ ring \in Rings(known)
    BY <1>5, <2>1
  <2> HIDE DEF known
  <2>4. /\ ring' \in Rings(known)
        /\ \A p \in Queues, x \in Objects, d \in Channels :
              ring'[p][x][d] = IF p = "requests" /\ x = o /\ d = c
                                 THEN Own(k, "requests") \o ms ELSE ring[p][x][d]
    BY <1>1, <2>3, EnqueueRing
  <2> QED BY <2>4 DEF known
<1>7. \A j \in Clients : /\ Served(j)' = Served(j)
                         /\ \A s \in Segments : Present(j, s)' = Present(j, s)
  BY DEF Served, Present
<1>8. \A m : Newer(m)' = Newer(m) /\ ServedMessage(m)' = ServedMessage(m)
  BY DEF Newer, ServedMessage, Served
<1> HIDE DEF o, c
<1>a. DuplexTypes'
  BY <1>2 DEF DuplexInv, DuplexTypes, SegmentTypes, ServerTypes, ClientTypes
<1>b. JoinInv'
  <2>1. Opened'
    BY DEF DuplexInv, JoinInv, Opened, Serving, HasReplies, HasRequests, ActiveChannels
  <2> QED BY <2>1, <1>7 DEF DuplexInv, JoinInv, Mapped, Current, OwnChannels, OwnEntry, Queues, Segments
<1>9. waiting' \in [Clients -> Seq(Request)] /\ waiting'[k] = w
      /\ \A j \in Clients : j # k => waiting'[j] = waiting[j]
  BY DEF DuplexInv, RequestInv, Numbered
<1>10. Counted'
  <2>1. \A j \in Clients : joined[j] \in Nat
    BY DEF DuplexInv, DuplexTypes, ClientTypes
  <2> QED BY <1>2, <1>9, <2>1 DEF DuplexInv, RequestInv, Counted
<1>11. Numbered'
  <2>1. ASSUME NEW j \in Clients PROVE waiting'[j] \in Seq(OwnKnown(j)')
    <3>1. CASE j = k
      BY <3>1, <1>4, <1>9
    <3>2. CASE j # k
      <4>1. waiting[j] \in Seq(OwnKnown(j))
        BY DEF DuplexInv, RequestInv, Numbered
      <4> QED BY <3>2, <4>1, <1>3, <1>9, RingMore
    <3> QED BY <3>1, <3>2
  <2>2. \A d \in Channels : backPressure[d] \in Seq(Known')
    BY <1>3, RingMore DEF DuplexInv, RequestInv, Numbered
  <2>3. backPressure \in [Channels -> Seq(Known')]
    BY <2>2 DEF DuplexInv, RequestInv, Numbered
  <2>4. ASSUME NEW j \in Clients, NEW i \in DOMAIN handled[j] PROVE handled[j][i] <= sent'[j]
    <3>1. handled[j] \in Seq(Nat) /\ handled[j][i] <= sent[j]
      BY DEF DuplexInv, DuplexTypes, ClientTypes, RequestInv, Numbered
    <3>2. handled[j][i] \in Nat
      BY <3>1
    <3> QED BY <1>2, <3>1, <3>2
  <2> QED BY <1>6, <1>9, <2>1, <2>3, <2>4 DEF Numbered
<1>12. InOwnChannel'
  <2> SUFFICES ASSUME NEW x \in Objects, NEW d \in Channels
               PROVE  ring'["requests"][x][d] \in Seq(On(x, d))
    BY <1>8 DEF InOwnChannel, On
  <2>1. ring["requests"][x][d] \in Seq(On(x, d))
    BY DEF DuplexInv, RequestInv, InOwnChannel
  <2>2. CASE x = o /\ d = c
    <3>1. \A i \in 1 .. Len(ms) : ms[i] \in On(x, d)
      BY <2>2 DEF On, o, c
    <3>2. ms \in Seq(On(x, d)) /\ Own(k, "requests") \in Seq(On(x, d))
      BY <2>1, <2>2, <3>1 DEF Own, o, c
    <3>3. Own(k, "requests") \o ms \in Seq(On(x, d))
      BY <3>2
    <3> QED BY <2>2, <3>3, <1>6 DEF Queues
  <2>3. CASE ~(x = o /\ d = c)
    BY <2>1, <2>3, <1>6 DEF Queues
  <2> QED BY <2>2, <2>3
<1>c. RequestInv'
  BY <1>10, <1>11, <1>12 DEF RequestInv
<1>13. \A x \in Objects : ring'["replies"][x] = ring["replies"][x]
  <2> SUFFICES ASSUME NEW x \in Objects PROVE ring'["replies"][x] = ring["replies"][x]
    OBVIOUS
  <2>1. ring'["replies"][x] \in [Channels -> Seq(Known')] /\ ring["replies"][x] \in [Channels -> Seq(Known)]
    BY <1>6 DEF DuplexInv, RequestInv, Numbered, Rings, Queues
  <2>2. \A d \in Channels : ring'["replies"][x][d] = ring["replies"][x][d]
    BY <1>6 DEF Queues
  <2> QED BY <2>1, <2>2
<1>14. NoReplies'
  <2>1. HasReplies => names["replies"] \in Objects
    BY PlaceTypes DEF DuplexInv, JoinInv, Opened, Segments, Queues
  <2> QED BY <1>13, <2>1 DEF DuplexInv, ReplyInv, NoReplies, HasReplies, Serving, Empty
<1>15. Routed'
  <2>1. Serving' = Serving /\ Straight' = Straight /\ backPressure' = backPressure
    BY DEF Serving, Straight
  <2>2. Serving' => Replies' = Replies
    BY <1>13, <2>1, QueueTypes DEF Replies, Segments, Queues
  <2>3. \A m \in Request, d \in Channels : RightChannel(m, d)' = RightChannel(m, d)
    BY DEF RightChannel
  <2>4. \A d \in Channels : Serving => Replies[d] \in Seq(Known) /\ backPressure[d] \in Seq(Known)
    BY QueueTypes
  <2> QED BY <1>8, <2>1, <2>2, <2>3, <2>4, RoutedKept DEF DuplexInv, ReplyInv
<1>d. ReplyInv'
  <2>1. Bounded'
    BY <1>13 DEF DuplexInv, ReplyInv, Bounded
  <2> QED BY <1>14, <1>15, <2>1 DEF ReplyInv
<1>e. TrailInv'
  <2> SUFFICES ASSUME NEW j \in Clients, Served(j)', j \notin torn'
               PROVE  Once(j, joined[j], sent[j], Trail(j))'
    BY DEF TrailInv
  <2> DEFINE hd == [i \in DOMAIN handled[j] |-> [from |-> j, n |-> handled[j][i]]]
             r == Own(j, "requests")
  <2>1. Served(j) /\ j \notin torn /\ object[j]["requests"] # 0
    BY <1>7 DEF Served, DuplexInv, JoinInv, Mapped
  <2>2. /\ hd \in Seq(Request) /\ r \in Seq(Request) /\ waiting[j] \in Seq(Request)
        /\ joined[j] \in Nat /\ sent[j] \in Nat
    BY <2>1, TrailTypes DEF DuplexInv
  <2>3. Trail(j)' = (hd \o Own(j, "requests")') \o waiting'[j] /\ Trail(j) = (hd \o r) \o waiting[j]
    BY DEF Trail
  <2>4. object[j]["requests"] \in Objects /\ channel[j]["requests"] \in Channels
    BY <2>1, PlaceTypes DEF Segments, Queues
  <2>5. Own(j, "requests")' = IF object[j]["requests"] = o /\ channel[j]["requests"] = c
                                THEN r \o ms ELSE r
    BY <2>4, <1>6 DEF Own, Queues, o, c
  <2> HIDE DEF hd, r
  <2>6. CASE j = k
    <3>1. Trail(j)' = (hd \o (r \o ms)) \o w
      BY <2>3, <2>5, <2>6, <1>9 DEF o, c
    <3>2. Once(k, joined[k], h, (hd \o (r \o ms)) \o w)
      BY <2>1, <2>6 DEF hd, r
    <3>3. Once(j, joined[j], sent'[j], Trail(j)')
      BY <2>6, <3>1, <3>2, <1>2
    <3> QED BY <3>3 DEF Once, Numbers, Rising, Mine
  <2>7. CASE j # k
    <3>1. Numbers(j, joined[j], ms) = {}
      BY <2>7 DEF Numbers, Mine
    <3>2. Once(j, joined[j], sent[j], (hd \o r) \o waiting[j])
      BY <2>1, <2>3 DEF DuplexInv, TrailInv
    <3>4. Once(j, joined[j], sent[j], (hd \o (r \o ms)) \o waiting[j])
      BY <2>2, <3>1, <3>2, OthersWithin
    <3>6. Trail(j)' \in {(hd \o r) \o waiting[j], (hd \o (r \o ms)) \o waiting[j]}
      BY <2>3, <2>5, <2>7, <1>9
    <3>7. Once(j, joined[j], sent[j], Trail(j)')
      BY <3>2, <3>4, <3>6
    <3> QED BY <2>7, <3>7, <1>2 DEF Once, Numbers, Rising, Mine
  <2> QED BY <2>6, <2>7
<1> QED BY <1>a, <1>b, <1>c, <1>d, <1>e DEF DuplexInv

LEMMA PushMessageKeeps ==
    ASSUME DuplexInv, NEW k \in Clients, PushMessage(k)
    PROVE  DuplexInv'
<1> DEFINE m == [from |-> k, n |-> sent[k] + 1]
           hd == [i \in DOMAIN handled[k] |-> [from |-> k, n |-> handled[k][i]]]
           r == Own(k, "requests")
           h == sent[k] + 1
           t == (hd \o r) \o waiting[k]
<1>1. /\ client[k] = "ready" /\ sent' = [sent EXCEPT ![k] = h]
      /\ UNCHANGED <<names, built, entries, owner, serverVars, client, object, channel, joined,
                     answers, torn, deaths, handled, stale>>
  BY DEF PushMessage
<1>2. object[k]["requests"] # 0
  BY <1>1 DEF DuplexInv, JoinInv, Mapped
<1>t. unposted' \subseteq Clients
  BY DEF PushMessage, PostEmptying, DuplexInv, DuplexTypes, ClientTypes
<1>3. /\ hd \in Seq(Request) /\ r \in Seq(Request) /\ waiting[k] \in Seq(Request)
      /\ waiting[k] \in Seq(OwnKnown(k))
      /\ joined[k] \in Nat /\ sent[k] \in Nat /\ h \in Nat /\ sent[k] <= h /\ joined[k] <= sent[k]
  BY <1>2, TrailTypes DEF DuplexInv, RequestInv, Counted
<1>4. m \in Request /\ <<m>> \in Seq(Request) /\ m.from = k /\ m.n = h
  BY <1>3 DEF Request
<1>5. Served(k) /\ k \notin torn => Once(k, joined[k], sent[k], t)
  BY DEF DuplexInv, TrailInv, Trail
<1>6. Served(k) /\ k \notin torn => Once(k, joined[k], h, t \o <<m>>)
  <2>1. t \in Seq(Request)
    BY <1>3
  <2> HIDE DEF t, m
  <2> QED BY <1>3, <1>4, <1>5, <2>1, OneMore DEF h
<1>7. CASE MustWait(k)
  <2> DEFINE w == Append(waiting[k], m)
  <2>1. waiting' = [waiting EXCEPT ![k] = w] /\ ring' = ring
    BY <1>7 DEF PushMessage
  <2>2. w \in Seq(Request) /\ \A i \in DOMAIN w : w[i].from = k /\ w[i].n <= h
    <3>1. \A i \in 1 .. Len(waiting[k]) : waiting[k][i].from = k /\ waiting[k][i].n <= h
      <4>1. \A i \in 1 .. Len(waiting[k]) : waiting[k][i] \in OwnKnown(k)
        BY <1>3
      <4> QED BY <4>1, <1>3 DEF OwnKnown
    <3>2. \A i \in DOMAIN w : \/ i \in 1 .. Len(waiting[k]) /\ w[i] = waiting[k][i]
                              \/ w[i] = m
      <4> HIDE DEF m
      <4> QED BY <1>3, <1>4
    <3>3. w \in Seq(Request)
      BY <1>3, <1>4
    <3> HIDE DEF w, m
    <3> QED BY <3>1, <3>2, <3>3, <1>3, <1>4
  <2>3. t \o <<m>> = (hd \o (r \o <<>>)) \o w
    <3>1. r \o <<>> = r
      BY <1>3
    <3>2. w = waiting[k] \o <<m>>
      <4> HIDE DEF m
      <4> QED BY <1>3, <1>4
    <3>3. t \o <<m>> = (hd \o r) \o (waiting[k] \o <<m>>)
      <4> DEFINE hr == hd \o r
                 s == waiting[k]
                 e == <<m>>
      <4>1. hr \in Seq(Request) /\ s \in Seq(Request) /\ e \in Seq(Request)
        BY <1>3, <1>4
      <4> HIDE DEF hr, s, e
      <4>2. (hr \o s) \o e = hr \o (s \o e)
        BY <4>1
      <4> QED BY <4>2 DEF hr, s, e
    <3> HIDE DEF m, hd, r, w, t
    <3> QED BY <3>1, <3>2, <3>3
  <2>4. Enqueue(k, <<>>)
    <3> DEFINE o == object[k]["requests"]
               c == channel[k]["requests"]
    <3>1. r \o <<>> = r
      BY <1>3
    <3>2. /\ ring \in [Queues -> [Objects -> [Channels -> Seq(Known)]]] /\ "requests" \in Queues
          /\ o \in Objects /\ c \in Channels
      BY <1>2, PlaceTypes DEF DuplexInv, RequestInv, Numbered, Rings, Queues, Segments
    <3>3. ring["requests"][o][c] \o <<>> = ring["requests"][o][c]
      BY <3>1 DEF Own
    <3> HIDE DEF o, c
    <3>4. [ring["requests"][o] EXCEPT ![c] = @ \o <<>>] = ring["requests"][o]
      BY <3>2, <3>3
    <3>5. [ring["requests"] EXCEPT ![o] = ring["requests"][o]] = ring["requests"]
      BY <3>2
    <3>6. [ring EXCEPT !["requests"] = ring["requests"]] = ring
      BY <3>2
    <3>7. [ring EXCEPT !["requests"][o][c] = @ \o <<>>] = ring
      BY <3>4, <3>5, <3>6
    <3> QED BY <2>1, <3>7 DEF Enqueue, o, c
  <2>5. <<>> \in Seq(Request) /\ \A i \in DOMAIN <<>> : <<>>[i].from = k /\ <<>>[i].n <= h
    OBVIOUS
  <2>6. Served(k) /\ k \notin torn => Once(k, joined[k], h, (hd \o (r \o <<>>)) \o w)
    BY <1>6, <2>3
  <2> HIDE DEF w, h
  <2> QED BY <1>1, <1>t, <1>3, <2>1, <2>2, <2>4, <2>5, <2>6, SendKeeps
<1>8. CASE ~MustWait(k)
  <2>1. waiting[k] = <<>> /\ Enqueue(k, <<m>>) /\ waiting' = waiting
    BY <1>8 DEF PushMessage, MustWait
  <2>2. waiting' = [waiting EXCEPT ![k] = <<>>]
    <3>1. waiting \in [Clients -> Seq(Request)]
      BY DEF DuplexInv, RequestInv, Numbered
    <3> QED BY <2>1, <3>1 DEF DuplexInv, RequestInv, Numbered
  <2>3. \A i \in DOMAIN <<m>> : <<m>>[i].from = k /\ <<m>>[i].n <= h
    <3> HIDE DEF m
    <3> QED BY <1>3, <1>4
  <2>4. t \o <<m>> = (hd \o (r \o <<m>>)) \o <<>>
    <3> HIDE DEF m, hd, r
    <3> QED BY <1>3, <1>4, <2>1
  <2>5. Served(k) /\ k \notin torn => Once(k, joined[k], h, (hd \o (r \o <<m>>)) \o <<>>)
    BY <1>6, <2>4
  <2>6. <<>> \in Seq(Request) /\ \A i \in DOMAIN <<>> : <<>>[i].from = k /\ <<>>[i].n <= h
    OBVIOUS
  <2> DEFINE ms == <<m>>
  <2>7. /\ ms \in Seq(Request) /\ Enqueue(k, ms)
        /\ \A i \in DOMAIN ms : ms[i].from = k /\ ms[i].n <= h
        /\ Served(k) /\ k \notin torn => Once(k, joined[k], h, (hd \o (r \o ms)) \o <<>>)
    BY <1>4, <2>1, <2>3, <2>5
  <2> HIDE DEF ms, h
  <2> QED BY <1>1, <1>t, <1>3, <2>2, <2>6, <2>7, SendKeeps
<1> QED BY <1>7, <1>8

LEMMA EmptyWaitingKeeps ==
    ASSUME DuplexInv, NEW k \in Clients, EmptyWaiting(k)
    PROVE  DuplexInv'
<1> DEFINE hd == [i \in DOMAIN handled[k] |-> [from |-> k, n |-> handled[k][i]]]
           r == Own(k, "requests")
           s == waiting[k]
           h == sent[k]
<1>1. /\ client[k] = "ready" /\ sent' = sent
      /\ UNCHANGED <<names, built, entries, owner, serverVars, client, object, channel, joined,
                     answers, torn, deaths, handled, stale>>
  BY DEF EmptyWaiting
<1>t. unposted' \subseteq Clients
  BY DEF EmptyWaiting, DuplexInv, DuplexTypes, ClientTypes
<1>2. object[k]["requests"] # 0
  BY <1>1 DEF DuplexInv, JoinInv, Mapped
<1>3. /\ hd \in Seq(Request) /\ r \in Seq(Request) /\ s \in Seq(Request) /\ s \in Seq(OwnKnown(k))
      /\ joined[k] \in Nat /\ h \in Nat /\ h <= h /\ OwnKnown(k) \subseteq Request
  BY <1>2, TrailTypes, KnownTypes DEF DuplexInv
<1>4. sent' = [sent EXCEPT ![k] = h]
  BY <1>1 DEF DuplexInv, DuplexTypes, ClientTypes
<1> DEFINE n == Min({RoomIn(r), Len(s)})
<1>5. /\ n > 0 /\ Enqueue(k, SubSeq(s, 1, n))
      /\ waiting' = [waiting EXCEPT ![k] = SubSeq(s, n + 1, Len(s))]
  <2>1. waiting' = [waiting EXCEPT ![k] = SubSeq(@, n + 1, Len(@))]
    BY DEF EmptyWaiting
  <2>2. waiting \in [Clients -> Seq(Request)]
    BY DEF DuplexInv, RequestInv, Numbered
  <2> QED BY <2>1, <2>2 DEF EmptyWaiting
<1>6. n \in Nat /\ n <= Len(s)
  <2>1. RoomIn(r) \in Int /\ Len(s) \in Nat
    BY <1>3, ConstantFacts DEF RoomIn
  <2>2. n = IF RoomIn(r) <= Len(s) THEN RoomIn(r) ELSE Len(s)
    <3>1. \A a \in Int, b \in Int : Min({a, b}) = IF a <= b THEN a ELSE b
      BY DEF Min
    <3> HIDE DEF r, s
    <3> QED BY <2>1, <3>1
  <2> HIDE DEF n, r, s
  <2> QED BY <1>5, <2>1, <2>2
<1> DEFINE a == SubSeq(s, 1, n)
           b == SubSeq(s, n + 1, Len(s))
<1>7. /\ a \in Seq(OwnKnown(k)) /\ b \in Seq(OwnKnown(k)) /\ a \o b = s
  <2> HIDE DEF s, n
  <2>1. a \in Seq(OwnKnown(k)) /\ b \in Seq(OwnKnown(k))
    BY <1>3, <1>6
  <2>2. a \o b = SubSeq(s, 1, Len(s))
    <3>1. 1 \in 1 .. Len(s) + 1 /\ n \in 1 - 1 .. Len(s) /\ Len(s) \in n .. Len(s)
      BY <1>3, <1>6
    <3> QED BY <1>3, <3>1, ConcatAdjacentSubSeq
  <2> QED BY <2>1, <2>2, <1>3, SubSeqFull
<1>8. a \in Seq(Request) /\ b \in Seq(Request)
  BY <1>3, <1>7, RingMore
<1>9. /\ \A i \in DOMAIN a : a[i].from = k /\ a[i].n <= h
      /\ \A i \in DOMAIN b : b[i].from = k /\ b[i].n <= h
  <2> HIDE DEF a, b
  <2>1. /\ \A i \in DOMAIN a : a[i] \in OwnKnown(k)
        /\ \A i \in DOMAIN b : b[i] \in OwnKnown(k)
    BY <1>7
  <2> QED BY <2>1, <1>3 DEF OwnKnown
<1>10. Served(k) /\ k \notin torn => Once(k, joined[k], h, (hd \o (r \o a)) \o b)
  <2>1. Served(k) /\ k \notin torn => Once(k, joined[k], h, (hd \o r) \o s)
    BY DEF DuplexInv, TrailInv, Trail
  <2>2. (hd \o (r \o a)) \o b = (hd \o r) \o (a \o b)
    <3> HIDE DEF hd, r, a, b
    <3> QED BY <1>3, <1>8, SMTT(30)
  <2> QED BY <2>1, <2>2, <1>7
<1> HIDE DEF a, b, n, h
<1>11. Enqueue(k, a) /\ waiting' = [waiting EXCEPT ![k] = b]
  BY <1>5 DEF a, b
<1> QED BY <1>1, <1>t, <1>3, <1>4, <1>8, <1>9, <1>10, <1>11, SendKeeps, ZenonT(40) DEF h

(* Two clients that write at once: the channel they share holds requests of *)
(* those who have it, and they are all torn.                                *)
LEMMA CollideKeeps ==
    ASSUME DuplexInv, NEW k \in Clients, Collide(k)
    PROVE  DuplexInv'
<1> DEFINE q == "requests"
           o == names[q]
           c == channel[k][q]
           S == Slots(k)
           after == ring'
<1>1. /\ client[k] = "ready" /\ object[k][q] = o /\ torn' = torn \union Sharers(k)
      /\ UNCHANGED <<names, built, entries, owner, server, starts, created,
                     activeClientProducerIndex, backPressure, drains, stranded, client, object,
                     channel, waiting, unposted, sent, joined, answers, deaths, handled, stale>>
  BY DEF Collide, serverVars
<1>2. o \in Objects /\ c \in Channels /\ q \in Queues
  <2>1. object[k][q] # 0
    BY <1>1 DEF DuplexInv, JoinInv, Mapped
  <2> QED BY <1>1, <2>1, PlaceTypes DEF Segments, Queues
<1>3. PICK r \in BoundedSeq(S, Capacity) : after = [ring EXCEPT ![q][o][c] = r]
  BY DEF Collide
<1>4. r \in Seq(S)
  <2>1. PICK n \in 0 .. Capacity : r \in [1 .. n -> S]
    BY <1>3 DEF BoundedSeq, SeqOf
  <2>2. n \in Nat
    BY <2>1, ConstantFacts
  <2> QED BY <2>1, <2>2
<1>5. S \subseteq Known /\ S \subseteq On(o, c)
  <2> SUFFICES ASSUME NEW m \in S PROVE m \in Known /\ m \in On(o, c)
    OBVIOUS
  <2>1. PICK j \in Clients : m \in [from : {j}, n : 1 .. sent[j]]
    BY DEF Slots
  <2>2. sent[j] \in Nat
    BY DEF DuplexInv, DuplexTypes, ClientTypes
  <2>3. m \in Request /\ m.from = j /\ m.n <= sent[m.from]
    BY <2>1, <2>2 DEF Request
  <2>4. Newer(m) => m.from \in Sharers(k)
    BY DEF Slots, Newer
  <2>5. m.from \in Sharers(k) => o = object[m.from][q] /\ c = channel[m.from][q]
    BY <1>1 DEF Sharers
  <2> QED BY <2>3, <2>4, <2>5 DEF Known, On
<1>6. r \in Seq(Known) /\ r \in Seq(On(o, c))
  <2> HIDE DEF S
  <2> QED BY <1>4, <1>5, RingMore
<1>7. ring \in Rings(Known)
  BY DEF DuplexInv, RequestInv, Numbered
<1> HIDE DEF q, o, c, S, after
<1>8. after \in Rings(Known) /\ OnlyAt(ring, after, q, o, c, r)
  BY <1>2, <1>3, <1>6, <1>7, RingPut, Zenon
<1>9. /\ \A x \in Objects, d \in Channels : after["replies"][x][d] = ring["replies"][x][d]
      /\ \A x \in Objects, d \in Channels :
            after["requests"][x][d] = IF x = o /\ d = c THEN r ELSE ring["requests"][x][d]
  BY <1>8 DEF OnlyAt, Queues, q
<1>a. DuplexTypes'
  <2>1. torn' \subseteq Clients
    BY <1>1 DEF Sharers, DuplexInv, DuplexTypes, ClientTypes
  <2> QED BY <1>1, <2>1 DEF DuplexInv, DuplexTypes, SegmentTypes, ServerTypes, ClientTypes
<1>10. \A j \in Clients : /\ Served(j)' = Served(j)
                          /\ \A s \in Segments : Present(j, s)' = Present(j, s)
  BY <1>1 DEF Served, Present
<1>b. JoinInv'
  <2>1. Opened'
    BY <1>1 DEF DuplexInv, JoinInv, Opened, Serving, HasReplies, HasRequests, ActiveChannels
  <2> QED BY <1>1, <1>10, <2>1 DEF DuplexInv, JoinInv, Mapped, Current, OwnChannels, OwnEntry, Queues,
                                Segments
<1>c. RequestInv'
  <2>1. Counted'
    BY <1>1 DEF DuplexInv, RequestInv, Counted
  <2>2. Known' = Known /\ \A j \in Clients : OwnKnown(j)' = OwnKnown(j)
    BY <1>1 DEF Known, OwnKnown
  <2>3. ring' \in Rings(Known)
    BY <1>8 DEF after
  <2>4. Numbered'
    BY <1>1, <2>2, <2>3 DEF DuplexInv, RequestInv, Numbered
  <2>5. InOwnChannel'
    <3> SUFFICES ASSUME NEW x \in Objects, NEW d \in Channels
                 PROVE  ring'["requests"][x][d] \in Seq(On(x, d)')
      BY DEF InOwnChannel
    <3>1. On(x, d)' = On(x, d)
      BY <1>1 DEF On, Newer
    <3>2. ring["requests"][x][d] \in Seq(On(x, d))
      BY DEF DuplexInv, RequestInv, InOwnChannel
    <3> QED BY <1>6, <1>9, <3>1, <3>2 DEF after
  <2> QED BY <2>1, <2>4, <2>5 DEF RequestInv
<1>11. \A x \in Objects : ring'["replies"][x] = ring["replies"][x]
  <2> SUFFICES ASSUME NEW x \in Objects PROVE ring'["replies"][x] = ring["replies"][x]
    OBVIOUS
  <2>1. ring'["replies"][x] \in [Channels -> Seq(Known)] /\ ring["replies"][x] \in [Channels -> Seq(Known)]
    BY <1>7, <1>8 DEF Rings, Queues, after
  <2>2. \A d \in Channels : ring'["replies"][x][d] = ring["replies"][x][d]
    BY <1>9 DEF after
  <2> QED BY <2>1, <2>2
<1>12. NoReplies'
  <2>1. HasReplies => names["replies"] \in Objects
    BY PlaceTypes DEF DuplexInv, JoinInv, Opened, Segments, Queues
  <2> QED BY <1>1, <1>11, <2>1 DEF DuplexInv, ReplyInv, NoReplies, HasReplies, Serving, Empty
<1>13. Routed'
  <2>1. Serving' = Serving /\ Straight' = Straight /\ backPressure' = backPressure
    BY <1>1 DEF Serving, Straight
  <2>2. Serving' => Replies' = Replies
    BY <1>1, <1>11, <2>1, QueueTypes DEF Replies, Segments, Queues
  <2>3. \A m \in Request, d \in Channels : RightChannel(m, d)' = RightChannel(m, d)
    BY <1>1 DEF RightChannel
  <2>4. \A d \in Channels : Serving => Replies[d] \in Seq(Known) /\ backPressure[d] \in Seq(Known)
    BY QueueTypes
  <2>5. \A m \in Request : ServedMessage(m)' = ServedMessage(m)
    BY <1>1 DEF ServedMessage, Served
  <2> QED BY <2>1, <2>2, <2>3, <2>4, <2>5, RoutedKept DEF DuplexInv, ReplyInv
<1>d. ReplyInv'
  <2>1. Bounded'
    BY <1>11 DEF DuplexInv, ReplyInv, Bounded
  <2> QED BY <1>12, <1>13, <2>1 DEF ReplyInv
<1>e. TrailInv'
  <2> SUFFICES ASSUME NEW j \in Clients, Served(j)', j \notin torn'
               PROVE  Once(j, joined[j], sent[j], Trail(j))'
    BY Zenon DEF TrailInv
  <2>1. Served(j) /\ j \notin torn /\ j \notin Sharers(k)
    BY <1>1, <1>10
  <2>2. object[j]["requests"] \in Objects /\ channel[j]["requests"] \in Channels
    BY <2>1, PlaceTypes DEF Served, DuplexInv, JoinInv, Mapped, Segments, Queues
  <2>3. ~(object[j]["requests"] = o /\ channel[j]["requests"] = c)
    BY <1>1, <2>1 DEF Sharers, Served, o, c, q
  <2>4. after["requests"][object[j]["requests"]][channel[j]["requests"]]
          = ring["requests"][object[j]["requests"]][channel[j]["requests"]]
    BY <1>9, <2>2, <2>3
  <2>5. Trail(j)' = Trail(j)
    BY <1>1, <2>4, ZenonT(40) DEF Trail, Own, after
  <2> QED BY <1>1, <2>1, <2>5, TrailKept, <1>10 DEF DuplexInv
<1> QED BY <1>a, <1>b, <1>c, <1>d, <1>e DEF DuplexInv

(* A step that changes the channels of the replies only. *)
LEMMA RepliesStepKeeps ==
    ASSUME DuplexInv,
           UNCHANGED <<names, built, entries, owner, server, starts, created,
                       activeClientProducerIndex, client, object, channel, waiting, sent, joined,
                       handled, stale, deaths, stranded, unposted, torn>>,
           ring' \in Rings(Known),
           \A x \in Objects, d \in Channels : ring'["requests"][x][d] = ring["requests"][x][d],
           backPressure' \in [Channels -> Seq(Known)], drains' \in Seq(Channels),
           answers' \in [Clients -> SUBSET Nat], NoReplies', Routed', Bounded'
    PROVE  DuplexInv'
<1>1. DuplexTypes'
  BY DEF DuplexInv, DuplexTypes, SegmentTypes, ServerTypes, ClientTypes
<1>2. \A k \in Clients : Served(k)' = Served(k) /\ \A s \in Segments : Present(k, s)' = Present(k, s)
  BY DEF Served, Present
<1>3. JoinInv'
  <2>1. Opened'
    BY DEF DuplexInv, JoinInv, Opened, Serving, HasReplies, HasRequests, ActiveChannels
  <2> QED BY <1>2, <2>1 DEF DuplexInv, JoinInv, Mapped, Current, OwnChannels, OwnEntry, Queues, Segments
<1>4. RequestInv'
  <2>1. Counted'
    BY DEF DuplexInv, RequestInv, Counted
  <2>2. Numbered'
    BY DEF DuplexInv, RequestInv, Numbered, Known, OwnKnown
  <2>3. InOwnChannel'
    BY DEF DuplexInv, RequestInv, InOwnChannel, On, Newer
  <2> QED BY <2>1, <2>2, <2>3 DEF RequestInv
<1>5. TrailInv'
  <2> SUFFICES ASSUME NEW k \in Clients, Served(k)', k \notin torn'
               PROVE  Once(k, joined[k], sent[k], Trail(k))'
    BY Zenon DEF TrailInv
  <2>1. object[k]["requests"] \in Objects /\ channel[k]["requests"] \in Channels
    BY <1>2, PlaceTypes DEF Served, DuplexInv, JoinInv, Mapped, Segments, Queues
  <2>2. Trail(k)' = Trail(k)
    BY <2>1, ZenonT(40) DEF Trail, Own
  <2> QED BY <1>2, <2>2, TrailKept DEF DuplexInv
<1> QED BY <1>1, <1>3, <1>4, <1>5 DEF DuplexInv, ReplyInv

LEMMA ReceiveKeeps ==
    ASSUME DuplexInv, NEW k \in Clients, Receive(k)
    PROVE  DuplexInv'
<1> DEFINE o == object[k]["replies"]
           c == channel[k]["replies"]
           r == Own(k, "replies")
           q == "replies"
           after == ring'
<1>1. /\ client[k] \in {"mapping", "ready"} /\ r # <<>>
      /\ answers' = IF Head(r).from = k THEN [answers EXCEPT ![k] = @ \union {Head(r).n}] ELSE answers
      /\ after = [ring EXCEPT ![q][o][c] = Tail(@)] /\ r = ring[q][o][c]
      /\ UNCHANGED <<names, built, entries, owner, server, starts, created,
                     activeClientProducerIndex, client, object, channel, waiting, sent, joined,
                     handled, stale, deaths, backPressure, drains, stranded, unposted, torn>>
  BY DEF Receive, Own, serverVars
<1>2. o \in Objects /\ c \in Channels /\ q \in Queues
  <2>1. o # 0
    BY <1>1 DEF DuplexInv, JoinInv, Mapped
  <2> QED BY <2>1, PlaceTypes DEF Segments, Queues
<1> HIDE DEF q
<1>3. ring \in Rings(Known) /\ r \in Seq(Known) /\ Tail(r) \in Seq(Known) /\ Head(r) \in Known
  <2>1. ring \in Rings(Known)
    BY DEF DuplexInv, RequestInv, Numbered
  <2>2. r \in Seq(Known)
    BY <1>1, <1>2, <2>1 DEF Rings
  <2>3. r # <<>>
    BY <1>1
  <2> HIDE DEF r
  <2>4. Tail(r) \in Seq(Known) /\ Head(r) \in Known
    BY <2>2, <2>3
  <2> QED BY <2>1, <2>2, <2>4
<1>4. after \in Rings(Known) /\ OnlyAt(ring, after, q, o, c, Tail(r))
  <2> DEFINE v == Tail(r)
  <2>1. after = [ring EXCEPT ![q][o][c] = v] /\ v \in Seq(Known)
    BY <1>1, <1>3
  <2> HIDE DEF v, o, c, after
  <2>2. after \in Rings(Known) /\ OnlyAt(ring, after, q, o, c, v)
    BY <1>2, <1>3, <2>1, RingPut, Zenon
  <2> QED BY <2>2 DEF v
<1>5. /\ \A x \in Objects, d \in Channels : ring'["requests"][x][d] = ring["requests"][x][d]
      /\ \A x \in Objects, d \in Channels :
            ring'["replies"][x][d] = IF x = o /\ d = c THEN Tail(r) ELSE ring["replies"][x][d]
  BY <1>4 DEF OnlyAt, Queues, q, after
<1>6. answers' \in [Clients -> SUBSET Nat]
  <2>1. Head(r).n \in Nat
    BY <1>3 DEF Known, Request
  <2> HIDE DEF r
  <2> QED BY <1>1, <2>1 DEF DuplexInv, DuplexTypes, ClientTypes
<1>7. NoReplies'
  <2>1. ASSUME HasReplies PROVE ring'["replies"][names["replies"]] = Empty
    <3>1. names["replies"] \in Objects
      BY <2>1, PlaceTypes DEF DuplexInv, JoinInv, Opened, Segments, Queues
    <3>2. ring["replies"][names["replies"]] = Empty
      BY <2>1 DEF DuplexInv, ReplyInv, NoReplies
    <3>3. names["replies"] # o
      BY <1>1, <1>2, <3>2 DEF Empty, q
    <3>4. ring'["replies"][names["replies"]] \in [Channels -> Seq(Known)]
      BY <1>4, <3>1 DEF Rings, after, Queues
    <3>5. \A d \in Channels : ring'["replies"][names["replies"]][d] = <<>>
      BY <1>5, <3>1, <3>2, <3>3 DEF Empty
    <3> QED BY <3>4, <3>5 DEF Empty
  <2> QED BY <1>1, <2>1 DEF DuplexInv, ReplyInv, NoReplies, HasReplies, Serving, Empty
<1>8. Routed'
  <2> SUFFICES ASSUME Serving', Straight', NEW d \in Channels
               PROVE  Replies'[d] \in Seq(For(d)') /\ backPressure'[d] \in Seq(For(d)')
    BY DEF Routed
  <2>1. Serving /\ Straight /\ For(d)' = For(d)
    BY <1>1 DEF Serving, Straight, For, ServedMessage, Served, RightChannel
  <2>2. Replies[d] \in Seq(For(d)) /\ backPressure[d] \in Seq(For(d))
    BY <2>1 DEF DuplexInv, ReplyInv, Routed
  <2>3. names["replies"] \in Objects
    BY <2>1, QueueTypes DEF Segments, Queues
  <2>4. Replies'[d] = IF names["replies"] = o /\ d = c THEN Tail(r) ELSE Replies[d]
    BY <1>1, <1>5, <2>3 DEF Replies
  <2>5. names["replies"] = o /\ d = c => r = Replies[d]
    BY <1>1, SMTT(30) DEF Replies, q
  <2>6. r \in Seq(For(d)) => Tail(r) \in Seq(For(d))
    <3> HIDE DEF r
    <3> QED BY <1>1
  <2> QED BY <1>1, <2>1, <2>2, <2>4, <2>5, <2>6
<1>9. backPressure \in [Channels -> Seq(Known)] /\ drains \in Seq(Channels)
  BY DEF DuplexInv, RequestInv, Numbered, DuplexTypes, ServerTypes
<1>10. Bounded'
  <2>1. Len(Tail(r)) <= Capacity
    <3>1. Len(r) <= Capacity /\ Len(r) \in Nat /\ Capacity \in Nat
      BY <1>1, <1>2, <1>3, ConstantFacts DEF DuplexInv, ReplyInv, Bounded, q
    <3>2. r # <<>>
      BY <1>1
    <3> HIDE DEF r
    <3> QED BY <1>3, <3>1, <3>2
  <2> HIDE DEF r
  <2> QED BY <1>5, <2>1 DEF DuplexInv, ReplyInv, Bounded
<1> QED BY <1>1, <1>4, <1>5, <1>6, <1>7, <1>8, <1>9, <1>10, RepliesStepKeeps, ZenonT(40) DEF after

-----------------------------------------------------------------------------
(* The server's thread. *)

LEMMA DrainKeeps ==
    ASSUME DuplexInv, Drain
    PROVE  DuplexInv'
<1> DEFINE c == Head(drains)
           r == Replies[c]
           b == backPressure[c]
           n == Min({RoomIn(r), Len(b)})
           o == names["replies"]
           q == "replies"
           after == ring'
<1>1. /\ server = Idle /\ drains # <<>>
      /\ after = [ring EXCEPT ![q][o][c] = @ \o SubSeq(b, 1, n)] /\ r = ring[q][o][c]
      /\ backPressure' = [backPressure EXCEPT ![c] = SubSeq(@, n + 1, Len(@))]
      /\ drains' \in {Append(Tail(drains), c), Tail(drains)}
      /\ UNCHANGED <<names, built, entries, owner, server, starts, created,
                     activeClientProducerIndex, client, object, channel, waiting, sent, joined,
                     handled, stale, deaths, answers, stranded, unposted, torn>>
  BY DEF Drain, Replies, clientVars
<1>2. Serving /\ ~HasReplies /\ UNCHANGED server
  BY <1>1 DEF Serving, HasReplies, Idle
<1>3. c \in Channels /\ drains' \in Seq(Channels)
  <2>1. drains \in Seq(Channels)
    BY DEF DuplexInv, DuplexTypes, ServerTypes
  <2>2. drains # <<>>
    BY <1>1
  <2>3. c \in Channels /\ Tail(drains) \in Seq(Channels)
    BY <2>1, <2>2
  <2> HIDE DEF c
  <2>4. Append(Tail(drains), c) \in Seq(Channels)
    BY <2>3
  <2> QED BY <1>1, <2>3, <2>4
<1>4. o \in Objects /\ q \in Queues
  BY <1>2, QueueTypes DEF Segments, Queues
<1>5. r \in Seq(Known) /\ b \in Seq(Known) /\ Len(r) <= Capacity /\ ring \in Rings(Known)
  <2>1. Len(ring["replies"][o][c]) <= Capacity
    BY <1>3, <1>4 DEF DuplexInv, ReplyInv, Bounded
  <2> QED BY <1>1, <1>2, <1>3, <2>1, QueueTypes DEF DuplexInv, RequestInv, Numbered
<1>6. n \in Nat /\ n <= Len(b) /\ Len(r) + n <= Capacity
  <2>1. RoomIn(r) \in Nat /\ Len(b) \in Nat /\ RoomIn(r) = Capacity - Len(r) /\ Len(r) \in Nat
        /\ Capacity \in Nat
    BY <1>5, ConstantFacts DEF RoomIn
  <2>2. n = IF RoomIn(r) <= Len(b) THEN RoomIn(r) ELSE Len(b)
    <3> HIDE DEF r, b
    <3> QED BY <2>1, MinOfTwo
  <2> HIDE DEF n, r, b
  <2> QED BY <2>1, <2>2
<1> DEFINE front == SubSeq(b, 1, n)
           back == SubSeq(b, n + 1, Len(b))
<1>7. ASSUME NEW S, b \in Seq(S) PROVE front \in Seq(S) /\ back \in Seq(S) /\ Len(front) = n
  <2> HIDE DEF b, n
  <2> QED BY <1>6, <1>7
<1>8. backPressure \in [Channels -> Seq(Known)]
  BY DEF DuplexInv, RequestInv, Numbered
<1>9. backPressure' = [backPressure EXCEPT ![c] = back]
  BY <1>1, <1>3, <1>8
<1>10. front \in Seq(Known) /\ back \in Seq(Known) /\ r \o front \in Seq(Known)
  <2>1. front \in Seq(Known) /\ back \in Seq(Known)
    BY <1>5, <1>7
  <2> HIDE DEF front, back, r
  <2> QED BY <1>5, <2>1
<1>11. after \in Rings(Known) /\ OnlyAt(ring, after, q, o, c, r \o front)
  <2> DEFINE v == r \o front
  <2>1. after = [ring EXCEPT ![q][o][c] = v] /\ v \in Seq(Known)
    BY <1>1, <1>10
  <2> HIDE DEF v, o, c, q, after
  <2>2. after \in Rings(Known) /\ OnlyAt(ring, after, q, o, c, v)
    BY <1>3, <1>4, <1>5, <2>1, RingPut, Zenon
  <2> QED BY <2>2 DEF v
<1> HIDE DEF c, r, b, n, o, front, back
<1>12. /\ \A x \in Objects, d \in Channels : ring'["requests"][x][d] = ring["requests"][x][d]
       /\ \A x \in Objects, d \in Channels :
            ring'["replies"][x][d] = IF x = o /\ d = c THEN r \o front ELSE ring["replies"][x][d]
  BY <1>11 DEF OnlyAt, Queues
<1>13. backPressure' \in [Channels -> Seq(Known)]
  BY <1>3, <1>8, <1>9, <1>10
<1>14. NoReplies'
  BY <1>2 DEF NoReplies, HasReplies, Serving
<1>15. Routed'
  <2> SUFFICES ASSUME Straight', NEW d \in Channels
               PROVE  Replies'[d] \in Seq(For(d)') /\ backPressure'[d] \in Seq(For(d)')
    BY DEF Routed
  <2>1. Straight /\ For(d)' = For(d)
    BY <1>1 DEF Straight, For, ServedMessage, Served, RightChannel
  <2>2. Replies[d] \in Seq(For(d)) /\ backPressure[d] \in Seq(For(d))
    BY <1>2, <2>1 DEF DuplexInv, ReplyInv, Routed
  <2>3. CASE d = c
    <3>1. r \in Seq(For(d)) /\ front \in Seq(For(d)) /\ back \in Seq(For(d))
      BY <2>2, <2>3, <1>7 DEF r, b
    <3>2. r \o front \in Seq(For(d))
      BY <3>1
    <3>3. Replies'[d] = r \o front
      BY <1>1, <1>3, <1>4, <1>12, <2>3 DEF Replies, o
    <3>4. backPressure'[d] = back
      BY <1>3, <1>8, <1>9, <2>3
    <3> QED BY <2>1, <3>1, <3>2, <3>3, <3>4
  <2>4. CASE d # c
    <3>1. Replies'[d] = Replies[d] /\ backPressure'[d] = backPressure[d]
      BY <1>1, <1>4, <1>8, <1>9, <1>12, <2>4 DEF Replies, o
    <3> QED BY <2>1, <2>2, <3>1
  <2> QED BY <2>3, <2>4
<1>16. Bounded'
  <2>1. Len(r \o front) <= Capacity
    <3>1. Len(front) = n /\ Len(r \o front) = Len(r) + Len(front)
      BY <1>5, <1>7, <1>10
    <3> QED BY <1>6, <3>1
  <2> QED BY <1>12, <2>1 DEF DuplexInv, ReplyInv, Bounded
<1>17. answers \in [Clients -> SUBSET Nat]
  BY DEF DuplexInv, DuplexTypes, ClientTypes
<1> QED BY <1>1, <1>3, <1>11, <1>12, <1>13, <1>14, <1>15, <1>16, <1>17, RepliesStepKeeps

(* A message of the middle of a trail that others have put there, or that   *)
(* moves up.                                                                *)
LEMMA OthersBefore ==
    ASSUME NEW k, NEW low \in Nat, NEW high \in Nat,
           NEW a \in Seq(Request), NEW x \in Seq(Request), NEW b \in Seq(Request),
           NEW c \in Seq(Request)
    PROVE  /\ ((a \o x) \o b) \o c = (a \o (x \o b)) \o c
           /\ Numbers(k, low, x) = {} =>
                 (Once(k, low, high, ((a \o x) \o b) \o c) <=> Once(k, low, high, (a \o b) \o c))
<1>1. ((a \o x) \o b) \o c = (a \o (x \o b)) \o c
  BY SMTT(30)
<1>2. ((a \o x) \o b) \o c = a \o (x \o (b \o c)) /\ (a \o b) \o c = a \o (b \o c)
  BY SMTT(30)
<1>3. b \o c \in Seq(Request)
  BY SMTT(30)
<1>4. Numbers(k, low, x) = {} =>
         (Once(k, low, high, a \o (x \o (b \o c))) <=> Once(k, low, high, a \o (b \o c)))
  BY <1>3, OthersAside, Zenon
<1> QED BY <1>1, <1>2, <1>4, Zenon

(* The request that is handled next, and the channel of its reply.          *)
LEMMA DispatchedMessage ==
    ASSUME DuplexInv, server.at = "poll", Requests[server.next] # <<>>
    PROVE  /\ Requests[server.next] \in Seq(Known) /\ Head(Requests[server.next]) \in Known
           /\ Head(Requests[server.next]) \in On(names["requests"], server.next)
           /\ Tail(Requests[server.next]) \in Seq(Known)
           /\ Tail(Requests[server.next]) \in Seq(On(names["requests"], server.next))
           /\ Route(server.next) \in Channels
<1> DEFINE r == Requests[server.next]
<1>1. server.next \in Channels /\ names["requests"] \in Objects /\ names["duplex"] \in Objects /\ Serving
  BY PollTypes DEF Segments, Queues
<1>2. r \in Seq(Known) /\ r \in Seq(On(names["requests"], server.next)) /\ r # <<>>
  BY <1>1, QueueTypes DEF DuplexInv, RequestInv, InOwnChannel, Requests
<1>3. Route(server.next) \in Channels
  <2> DEFINE es == entries[names["duplex"]]
             found == {i \in DOMAIN es : es[i].consumerIndex = server.next}
  <2>1. es \in Seq(MapEntry)
    BY <1>1 DEF DuplexInv, DuplexTypes, SegmentTypes
  <2>2. activeClientProducerIndex \in Channels
    BY DEF DuplexInv, DuplexTypes, ServerTypes
  <2>3. CASE found = {}
    BY <2>2, <2>3 DEF Route
  <2>4. CASE found # {}
    <3>1. found \in SUBSET Nat
      <4> HIDE DEF es
      <4> QED BY <2>1
    <3>2. Min(found) \in found
      BY <2>4, <3>1, MinOfSome
    <3>3. es[Min(found)] \in MapEntry
      <4> HIDE DEF es
      <4> QED BY <2>1, <3>2
    <3>4. es[Min(found)].producerIndex \in Channels
      BY <3>3 DEF MapEntry
    <3>5. Route(server.next) = es[Min(found)].producerIndex
      BY <2>4 DEF Route
    <3> QED BY <3>4, <3>5
  <2> QED BY <2>3, <2>4
<1> HIDE DEF r
<1>4. /\ Head(r) \in Known /\ Tail(r) \in Seq(Known)
      /\ Head(r) \in On(names["requests"], server.next)
      /\ Tail(r) \in Seq(On(names["requests"], server.next))
  BY <1>2
<1> QED BY <1>2, <1>3, <1>4 DEF r

(* A client that is served gets its reply, if the map is straight: the      *)
(* entry that is found may be another's, but it has the same number twice.  *)
LEMMA RoutedRight ==
    ASSUME DuplexInv, server.at = "poll", Straight,
           NEW m \in On(names["requests"], server.next), m \in Request, ServedMessage(m)
    PROVE  RightChannel(m, Route(server.next))
<1> DEFINE j == m.from
           p == server.next
           es == entries[names["duplex"]]
           found == {i \in DOMAIN es : es[i].consumerIndex = p}
<1>1. j \in Clients /\ Served(j) /\ Newer(m)
  BY DEF ServedMessage, Served, Newer, Request
<1>2. p = channel[j]["requests"]
  BY <1>1 DEF On
<1>3. PICK i \in DOMAIN es : es[i] = [consumerIndex |-> channel[j]["replies"],
                                      producerIndex |-> channel[j]["requests"]]
  BY <1>1 DEF DuplexInv, JoinInv, OwnEntry
<1>4. channel[j]["replies"] = p /\ i \in found
  BY <1>2, <1>3 DEF Straight
<1>5. Route(p) = es[Min(found)].producerIndex
  BY <1>4 DEF Route
<1>6. Min(found) \in found
  <2>1. names["duplex"] \in Objects
    BY PollTypes DEF Segments
  <2>2. es \in Seq(MapEntry)
    BY <2>1 DEF DuplexInv, DuplexTypes, SegmentTypes
  <2>3. found \in SUBSET Nat /\ found # {}
    <3>1. DOMAIN es \subseteq Nat
      <4> HIDE DEF es
      <4> QED BY <2>2
    <3> QED BY <1>4, <3>1
  <2> HIDE DEF found
  <2> QED BY <2>3, MinOfSome
<1>7. Route(p) = p
  BY <1>5, <1>6 DEF Straight
<1>8. Present(j, "replies")
  BY <1>1 DEF Served, Present, DuplexInv, JoinInv, Mapped
<1>9. p < Len(owner["replies"][names["replies"]]) /\ owner["replies"][names["replies"]][p + 1] = j
  <2>1. "replies" \in Queues
    BY DEF Queues
  <2> QED BY <1>1, <1>4, <1>8, <2>1 DEF DuplexInv, JoinInv, OwnChannels
<1> QED BY <1>7, <1>9 DEF RightChannel

(* What a reply changes. *)
LEMMA PushedResponse ==
    ASSUME DuplexInv, server.at = "poll", NEW c \in Channels, NEW m \in Known, NEW rest \in Rings(Known),
           \A x \in Objects, d \in Channels : rest["replies"][x][d] = ring["replies"][x][d],
           PushResponse(c, m, rest)
    PROVE  /\ ring' \in Rings(Known) /\ backPressure' \in [Channels -> Seq(Known)]
           /\ drains' \in Seq(Channels) /\ stranded' \subseteq Channels
           /\ \A x \in Objects, d \in Channels : ring'["requests"][x][d] = rest["requests"][x][d]
           /\ \A x \in Objects, d \in Channels :
                 \/ ring'["replies"][x][d] = ring["replies"][x][d]
                 \/ /\ x = names["replies"] /\ d = c
                    /\ ring'["replies"][x][d] = Append(Replies[c], m)
                    /\ Len(ring'["replies"][x][d]) <= Capacity
           /\ \A d \in Channels : \/ backPressure'[d] = backPressure[d]
                                  \/ d = c /\ backPressure'[d] = Append(backPressure[c], m)
<1> DEFINE o == names["replies"]
           q == "replies"
           after == ring'
<1>1. o \in Objects /\ q \in Queues /\ Serving
  BY PollTypes DEF Segments, Queues
<1>2. /\ backPressure \in [Channels -> Seq(Known)] /\ drains \in Seq(Channels)
      /\ Replies[c] \in Seq(Known) /\ Len(Replies[c]) <= Capacity
  BY <1>1, QueueTypes DEF DuplexInv, RequestInv, Numbered, DuplexTypes, ServerTypes, ReplyInv, Bounded,
     Replies
<1>s. stranded' \subseteq Channels
  BY DEF PushResponse, DuplexInv, DuplexTypes, ServerTypes
<1>3. CASE ring' = rest /\ UNCHANGED <<backPressure, drains>>
  BY <1>2, <1>3, <1>s
<1>4. CASE /\ ring' = rest /\ backPressure' = [backPressure EXCEPT ![c] = Append(@, m)]
           /\ drains' \in {drains, Append(drains, c)}
  <2>1. Append(backPressure[c], m) \in Seq(Known) /\ Append(drains, c) \in Seq(Channels)
    BY <1>2
  <2>2. /\ backPressure' \in [Channels -> Seq(Known)]
        /\ backPressure'[c] = Append(backPressure[c], m)
        /\ \A d \in Channels : d # c => backPressure'[d] = backPressure[d]
    BY <1>2, <1>4, <2>1
  <2> QED BY <1>s, <1>2, <1>4, <2>1, <2>2
<1>5. CASE /\ ring' = [rest EXCEPT ![q][o][c] = Append(@, m)] /\ ~Congested(c)
           /\ UNCHANGED <<backPressure, drains>>
  <2> DEFINE v == Append(Replies[c], m)
  <2>1. rest[q][o][c] = Replies[c]
    BY <1>1 DEF Replies
  <2>2. v \in Seq(Known) /\ Len(v) <= Capacity
    <3> DEFINE r == Replies[c]
    <3>1. r \in Seq(Known) /\ Len(r) <= Capacity /\ Capacity - Len(r) # 0 /\ Capacity \in Nat
      BY <1>2, <1>5, ConstantFacts DEF Congested, RoomIn
    <3> HIDE DEF r
    <3>2. Append(r, m) \in Seq(Known) /\ Len(Append(r, m)) = Len(r) + 1 /\ Len(r) \in Nat
      BY <3>1
    <3> QED BY <3>1, <3>2 DEF r
  <2>3. after = [rest EXCEPT ![q][o][c] = v]
    BY <1>5, <2>1
  <2> HIDE DEF v, o, q, after
  <2>4. after \in Rings(Known) /\ OnlyAt(rest, after, q, o, c, v)
    BY <1>1, <2>2, <2>3, RingPut, Zenon
  <2>5. /\ \A x \in Objects, d \in Channels : ring'["requests"][x][d] = rest["requests"][x][d]
        /\ \A x \in Objects, d \in Channels :
              ring'["replies"][x][d] = IF x = o /\ d = c THEN v ELSE rest["replies"][x][d]
    BY <2>4 DEF OnlyAt, Queues, after, q
  <2>6. ring' \in Rings(Known)
    BY <2>4 DEF after
  <2>7. /\ backPressure' \in [Channels -> Seq(Known)] /\ drains' \in Seq(Channels)
        /\ \A d \in Channels : backPressure'[d] = backPressure[d]
    BY <1>2, <1>5
  <2>8. \A x \in Objects, d \in Channels :
           \/ ring'["replies"][x][d] = ring["replies"][x][d]
           \/ /\ x = names["replies"] /\ d = c
              /\ ring'["replies"][x][d] = Append(Replies[c], m)
              /\ Len(ring'["replies"][x][d]) <= Capacity
    <3> SUFFICES ASSUME NEW x \in Objects, NEW d \in Channels
                 PROVE  \/ ring'["replies"][x][d] = ring["replies"][x][d]
                        \/ /\ x = names["replies"] /\ d = c
                           /\ ring'["replies"][x][d] = Append(Replies[c], m)
                           /\ Len(ring'["replies"][x][d]) <= Capacity
      OBVIOUS
    <3>1. CASE x = o /\ d = c
      <4>1. ring'["replies"][x][d] = v
        BY <2>5, <3>1
      <4> QED BY <2>2, <3>1, <4>1 DEF v, o
    <3>2. CASE ~(x = o /\ d = c)
      BY <2>5, <3>2
    <3> QED BY <3>1, <3>2
  <2> QED BY <1>s, <2>5, <2>6, <2>7, <2>8
<1> QED BY <1>3, <1>4, <1>5 DEF PushResponse

(* The trail of a served client when a request is handled. *)
LEMMA DispatchTrail ==
    ASSUME DuplexInv, server.at = "poll", NEW r \in Seq(Request), NEW m \in Request,
           Requests[server.next] = <<m>> \o r,
           m \in On(names["requests"], server.next),
           handled' = [handled EXCEPT ![m.from] = Append(@, m.n)],
           UNCHANGED <<names, client, object, channel, waiting, sent, joined, stale, torn>>,
           ring' \in Rings(Known),
           \A x \in Objects, d \in Channels :
              ring'["requests"][x][d] = IF x = names["requests"] /\ d = server.next THEN r
                                        ELSE ring["requests"][x][d],
           NEW k \in Clients, Served(k), k \notin torn
    PROVE  Once(k, joined[k], sent[k], Trail(k))'
<1> DEFINE hd == [i \in DOMAIN handled[k] |-> [from |-> k, n |-> handled[k][i]]]
           mid == Own(k, "requests")
           w == waiting[k]
           hn == [i \in DOMAIN handled'[k] |-> [from |-> k, n |-> handled'[k][i]]]
           e == <<m>>
           low == joined[k]
           high == sent[k]
<1>1. object[k]["requests"] # 0 /\ Present(k, "requests")
  BY DEF Served, Present, DuplexInv, JoinInv, Mapped
<1>2. object[k]["requests"] = names["requests"] /\ names["requests"] \in Objects
      /\ channel[k]["requests"] \in Channels
  BY <1>1, PlaceTypes DEF DuplexInv, JoinInv, Current, Segments, Queues
<1>3. /\ hd \in Seq(Request) /\ mid \in Seq(Request) /\ w \in Seq(Request) /\ e \in Seq(Request)
      /\ low \in Nat /\ high \in Nat
  <2>1. e \in Seq(Request)
    OBVIOUS
  <2> HIDE DEF e
  <2> QED BY <1>1, <2>1, TrailTypes DEF DuplexInv
<1>4. Once(k, low, high, (hd \o mid) \o w)
  BY DEF DuplexInv, TrailInv, Trail
<1>5. m.from \in Clients /\ m.n \in Nat /\ m = [from |-> m.from, n |-> m.n]
  BY DEF Request
<1>6. IF m.from = k THEN hn = hd \o e ELSE hn = hd
  <2>1. handled \in [Clients -> Seq(Nat)]
    BY DEF DuplexInv, DuplexTypes, ClientTypes
  <2>2. CASE m.from = k
    <3> DEFINE s == handled[k]
               s2 == handled'[k]
               n == m.n
    <3>1. s \in Seq(Nat) /\ s2 = Append(s, n) /\ n \in Nat
      BY <1>5, <2>1, <2>2
    <3> HIDE DEF s, s2, n
    <3>2. /\ DOMAIN s2 = 1 .. Len(s) + 1 /\ DOMAIN s = 1 .. Len(s) /\ Len(s) \in Nat
          /\ \A i \in 1 .. Len(s) : s2[i] = s[i]
          /\ s2[Len(s) + 1] = n
      BY <3>1
    <3> DEFINE f == [i \in 1 .. Len(s) |-> [from |-> k, n |-> s[i]]]
               g == [i \in 1 .. Len(s) + 1 |-> [from |-> k, n |-> s2[i]]]
               x == [from |-> k, n |-> n]
    <3>3. f \in Seq(Request) /\ x \in Request /\ Len(f) = Len(s)
      BY <3>1, <3>2 DEF Request
    <3>4. \A i \in 1 .. Len(s) + 1 : g[i] = IF i <= Len(s) THEN f[i] ELSE x
      BY <3>2
    <3>5. g \in Seq(Request) /\ Len(g) = Len(s) + 1
      <4>1. \A i \in 1 .. Len(s) + 1 : [from |-> k, n |-> s2[i]] \in Request
        BY <3>1, <3>2 DEF Request
      <4> QED BY <3>2, <4>1
    <3> HIDE DEF f, g, x
    <3>6. g = f \o <<x>>
      <4>1. f \o <<x>> \in Seq(Request) /\ Len(f \o <<x>>) = Len(s) + 1
            /\ \A i \in 1 .. Len(s) + 1 : (f \o <<x>>)[i] = IF i <= Len(s) THEN f[i] ELSE x
        BY <3>2, <3>3
      <4> QED BY <3>2, <3>4, <3>5, <4>1
    <3>7. hd = f /\ hn = g
      BY <3>2 DEF f, g, s, s2
    <3>8. x = m
      BY <1>5, <2>2 DEF x, n
    <3> QED BY <2>2, <3>6, <3>7, <3>8
  <2>3. CASE m.from # k
    BY <1>5, <2>1, <2>3
  <2> QED BY <2>2, <2>3
<1>7. mid = IF channel[k]["requests"] = server.next THEN e \o r ELSE mid
  BY <1>2 DEF Own, Requests
<1>8. Own(k, "requests")' = IF channel[k]["requests"] = server.next THEN r ELSE mid
  BY <1>2 DEF Own
<1>9. Trail(k)' = (hn \o Own(k, "requests")') \o w
  BY DEF Trail
<1>10. m.from = k /\ m.n > low => channel[k]["requests"] = server.next
  BY DEF On, Newer, Served
<1>11. m.from # k \/ ~(m.n > low) => Numbers(k, low, e) = {}
  BY <1>3, OneNumber
<1>h. joined'[k] = low /\ sent'[k] = high
  OBVIOUS
<1> HIDE DEF hd, hn, mid, w, e, low, high
<1>12. Once(k, low, high, Trail(k)')
  <2>1. CASE m.from = k /\ channel[k]["requests"] = server.next
    <3>1. Trail(k)' = ((hd \o e) \o r) \o w /\ mid = e \o r
      BY <2>1, <1>6, <1>7, <1>8, <1>9
    <3>2. ((hd \o e) \o r) \o w = (hd \o (e \o r)) \o w
      BY <1>3, OthersBefore
    <3> QED BY <1>4, <3>1, <3>2
  <2>2. CASE m.from = k /\ channel[k]["requests"] # server.next
    <3>1. Trail(k)' = ((hd \o e) \o mid) \o w
      BY <2>2, <1>6, <1>8, <1>9
    <3>2. Numbers(k, low, e) = {}
      BY <2>2, <1>10, <1>11
    <3>3. Once(k, low, high, ((hd \o e) \o mid) \o w) <=> Once(k, low, high, (hd \o mid) \o w)
      BY <1>3, <3>2, OthersBefore, Zenon
    <3> QED BY <1>4, <3>1, <3>3
  <2>3. CASE m.from # k /\ channel[k]["requests"] = server.next
    <3>1. Trail(k)' = (hd \o r) \o w /\ mid = e \o r
      BY <2>3, <1>6, <1>7, <1>8, <1>9
    <3>2. ((hd \o e) \o r) \o w = (hd \o (e \o r)) \o w
      BY <1>3, OthersBefore
    <3>3. Numbers(k, low, e) = {}
      BY <2>3, <1>11
    <3>4. Once(k, low, high, ((hd \o e) \o r) \o w) <=> Once(k, low, high, (hd \o r) \o w)
      BY <1>3, <3>3, OthersBefore, Zenon
    <3> QED BY <1>4, <3>1, <3>2, <3>4
  <2>4. CASE m.from # k /\ channel[k]["requests"] # server.next
    BY <2>4, <1>4, <1>6, <1>8, <1>9
  <2> QED BY <2>1, <2>2, <2>3, <2>4
<1> QED BY <1>12, <1>h DEF Once, Numbers, Rising, Mine

LEMMA DispatchKeeps ==
    ASSUME DuplexInv, Dispatch
    PROVE  DuplexInv'
<1> DEFINE p == server.next
           o == names["requests"]
           s == Requests[p]
           m == Head(s)
           r == Tail(s)
           c == Route(p)
           q == "requests"
           rest == [ring EXCEPT ![q][o][p] = Tail(@)]
<1>1. /\ server.at = "poll" /\ s # <<>> /\ s = ring[q][o][p]
      /\ handled' = [handled EXCEPT ![m.from] = Append(@, m.n)]
      /\ activeClientProducerIndex' = c
      /\ PushResponse(c, m, rest)
      /\ UNCHANGED <<names, built, entries, owner, server, starts, created, client, object, channel,
                     waiting, sent, joined, answers, deaths, stale, unposted, torn>>
  BY ZenonT(40) DEF Dispatch, Requests, clientVars
<1>2. /\ s \in Seq(Known) /\ m \in Known /\ m \in On(o, p) /\ r \in Seq(Known) /\ r \in Seq(On(o, p))
      /\ c \in Channels
  BY <1>1, DispatchedMessage, ZenonT(40)
<1>3. p \in Channels /\ o \in Objects /\ q \in Queues /\ Serving /\ names["replies"] \in Objects
  BY <1>1, PollTypes, ZenonT(40) DEF Segments, Queues
<1>4. ring \in Rings(Known)
  BY DEF DuplexInv, RequestInv, Numbered
<1>5. rest \in Rings(Known) /\ OnlyAt(ring, rest, q, o, p, r)
  <2>1. rest = [ring EXCEPT ![q][o][p] = r]
    BY <1>1
  <2> HIDE DEF r, o, p, q, rest
  <2> QED BY <1>2, <1>3, <1>4, <2>1, RingPut, ZenonT(40)
<1>6. /\ \A x \in Objects, d \in Channels : rest["replies"][x][d] = ring["replies"][x][d]
      /\ \A x \in Objects, d \in Channels :
            rest["requests"][x][d] = IF x = o /\ d = p THEN r ELSE ring["requests"][x][d]
  <2> HIDE DEF rest, r, o, p
  <2> QED BY <1>5 DEF OnlyAt, Queues
<1>7. s = <<m>> \o r /\ m \in Request /\ r \in Seq(Request)
  <2>1. Known \subseteq Request
    BY SMTT(30) DEF Known
  <2>2. s \in Seq(Known) /\ s # <<>>
    BY <1>1, <1>2, ZenonT(40)
  <2> HIDE DEF s
  <2> QED BY <1>2, <2>1, <2>2
<1> HIDE DEF s, m, r, c, rest, q
<1>8. /\ ring' \in Rings(Known) /\ backPressure' \in [Channels -> Seq(Known)]
      /\ drains' \in Seq(Channels) /\ stranded' \subseteq Channels
      /\ \A x \in Objects, d \in Channels : ring'["requests"][x][d] = rest["requests"][x][d]
      /\ \A x \in Objects, d \in Channels :
            \/ ring'["replies"][x][d] = ring["replies"][x][d]
            \/ /\ x = names["replies"] /\ d = c
               /\ ring'["replies"][x][d] = Append(Replies[c], m)
               /\ Len(ring'["replies"][x][d]) <= Capacity
      /\ \A d \in Channels : \/ backPressure'[d] = backPressure[d]
                             \/ d = c /\ backPressure'[d] = Append(backPressure[c], m)
  BY <1>1, <1>2, <1>5, <1>6, PushedResponse
<1>9. \A x \in Objects, d \in Channels :
         ring'["requests"][x][d] = IF x = o /\ d = p THEN r ELSE ring["requests"][x][d]
  BY <1>6, <1>8
<1>10. /\ m.from \in Clients /\ m.n \in Nat /\ m.n <= sent[m.from]
       /\ handled' \in [Clients -> Seq(Nat)]
  <2>1. m.from \in Clients /\ m.n \in Nat /\ m.n <= sent[m.from]
    BY <1>2 DEF Known, Request
  <2>2. handled \in [Clients -> Seq(Nat)]
    BY DEF DuplexInv, DuplexTypes, ClientTypes
  <2>3. Append(handled[m.from], m.n) \in Seq(Nat)
    BY <2>1, <2>2
  <2> QED BY <1>1, <2>1, <2>2, <2>3
<1>a. DuplexTypes'
  BY <1>1, <1>2, <1>8, <1>10 DEF DuplexInv, DuplexTypes, SegmentTypes, ServerTypes, ClientTypes
<1>11. \A k \in Clients : Served(k)' = Served(k) /\ \A t \in Segments : Present(k, t)' = Present(k, t)
  BY <1>1 DEF Served, Present
<1>b. JoinInv'
  <2>1. Opened'
    BY <1>1 DEF DuplexInv, JoinInv, Opened, Serving, HasReplies, HasRequests, ActiveChannels
  <2> QED BY <1>1, <1>11, <2>1 DEF DuplexInv, JoinInv, Mapped, Current, OwnChannels, OwnEntry, Queues, Segments
<1>c. RequestInv'
  <2>1. Counted'
    BY <1>1 DEF DuplexInv, RequestInv, Counted
  <2>2. Known' = Known /\ \A k \in Clients : OwnKnown(k)' = OwnKnown(k)
    BY <1>1 DEF Known, OwnKnown
  <2>3. ASSUME NEW k \in Clients, NEW i \in DOMAIN handled'[k] PROVE handled'[k][i] <= sent[k]
    <3> DEFINE h == handled[k]
    <3>1. h \in Seq(Nat) /\ \A j \in DOMAIN h : h[j] <= sent[k]
      BY DEF DuplexInv, DuplexTypes, ClientTypes, RequestInv, Numbered
    <3>2. handled'[k] = IF k = m.from THEN Append(h, m.n) ELSE h
      BY <1>1, <1>10 DEF DuplexInv, DuplexTypes, ClientTypes
    <3> HIDE DEF h
    <3>3. CASE k = m.from
      <4>1. i \in DOMAIN Append(h, m.n) /\ handled'[k][i] = Append(h, m.n)[i]
        BY <2>3, <3>2, <3>3
      <4>2. (i \in DOMAIN h /\ Append(h, m.n)[i] = h[i]) \/ Append(h, m.n)[i] = m.n
        BY <1>10, <3>1, <4>1
      <4> QED BY <1>10, <3>1, <3>3, <4>1, <4>2
    <3>4. CASE k # m.from
      BY <2>3, <3>1, <3>2, <3>4
    <3> QED BY <3>3, <3>4
  <2>4. Numbered'
    BY <1>1, <1>8, <2>2, <2>3 DEF DuplexInv, RequestInv, Numbered
  <2>5. InOwnChannel'
    <3> SUFFICES ASSUME NEW x \in Objects, NEW d \in Channels
                 PROVE  ring'["requests"][x][d] \in Seq(On(x, d)')
      BY DEF InOwnChannel
    <3>1. On(x, d)' = On(x, d)
      BY <1>1 DEF On, Newer
    <3>2. ring["requests"][x][d] \in Seq(On(x, d))
      BY DEF DuplexInv, RequestInv, InOwnChannel
    <3> QED BY <1>2, <1>9, <3>1, <3>2
  <2> QED BY <2>1, <2>4, <2>5 DEF RequestInv
<1>12. NoReplies'
  BY <1>1 DEF NoReplies, HasReplies, Serving
<1>13. Routed'
  <2> SUFFICES ASSUME Straight', NEW d \in Channels
               PROVE  Replies'[d] \in Seq(For(d)') /\ backPressure'[d] \in Seq(For(d)')
    BY DEF Routed
  <2>1. Straight /\ For(d)' = For(d)
    BY <1>1 DEF Straight, For, ServedMessage, Served, RightChannel
  <2>2. Replies[d] \in Seq(For(d)) /\ backPressure[d] \in Seq(For(d))
    BY <1>3, <2>1 DEF DuplexInv, ReplyInv, Routed
  <2>3. d = c => m \in For(d)
    BY <1>1, <1>2, <1>7, <2>1, RoutedRight DEF For, c
  <2>4. \A a \in Seq(For(d)) : d = c => Append(a, m) \in Seq(For(d))
    BY <2>3
  <2>5. Replies'[d] = Replies[d] \/ (d = c /\ Replies'[d] = Append(Replies[c], m))
    BY <1>1, <1>3, <1>8 DEF Replies
  <2>6. backPressure'[d] = backPressure[d] \/ (d = c /\ backPressure'[d] = Append(backPressure[c], m))
    BY <1>8
  <2> QED BY <2>1, <2>2, <2>4, <2>5, <2>6
<1>14. Bounded'
  BY <1>8 DEF DuplexInv, ReplyInv, Bounded
<1>d. ReplyInv'
  BY <1>12, <1>13, <1>14 DEF ReplyInv
<1>e. TrailInv'
  <2> SUFFICES ASSUME NEW k \in Clients, Served(k)', k \notin torn'
               PROVE  Once(k, joined[k], sent[k], Trail(k))'
    BY Zenon DEF TrailInv
  <2>1. Served(k) /\ k \notin torn
    BY <1>1, <1>11
  <2>2. Requests[server.next] = <<m>> \o r
    BY <1>7 DEF s
  <2> QED BY <1>1, <1>2, <1>7, <1>8, <1>9, <2>1, <2>2, DispatchTrail DEF p, o
<1> QED BY <1>a, <1>b, <1>c, <1>d, <1>e, Zenon DEF DuplexInv

-----------------------------------------------------------------------------
(* The theorems. *)

LEMMA DuplexInitInv == DuplexInit => DuplexInv
<1> SUFFICES ASSUME DuplexInit PROVE DuplexInv
  OBVIOUS
<1> USE DEF DuplexInit
<1>1. Empty \in [Channels -> Seq(Known)] /\ \A c \in Channels : Empty[c] = <<>>
  BY DEF Empty
<1>2. DuplexTypes
  <2>1. SegmentTypes
    <3>1. Len(<<>>) <= MaxClients
      BY ConstantFacts
    <3> QED BY <3>1 DEF SegmentTypes, Name
  <2>2. ServerTypes
    BY ConstantFacts DEF ServerTypes, Servers
  <2>3. ClientTypes
    BY ConstantFacts DEF ClientTypes, Name
  <2> QED BY <2>1, <2>2, <2>3 DEF DuplexTypes
<1>3. ~Serving /\ ~HasReplies /\ ~HasRequests
  BY DEF Serving, HasReplies, HasRequests, Down
<1>4. \A k \in Clients : ~Served(k) /\ \A s \in Segments : ~Present(k, s)
  BY DEF Served, Present
<1>5. JoinInv
  <2>1. Opened
    BY <1>3 DEF Opened, Down
  <2>2. Mapped
    BY DEF Mapped, Segments, Queues
  <2>3. Current /\ OwnChannels /\ OwnEntry
    BY <1>4 DEF Current, OwnChannels, OwnEntry, Segments
  <2> QED BY <2>1, <2>2, <2>3 DEF JoinInv
<1>6. RequestInv
  <2>1. Counted
    BY DEF Counted
  <2>2. ring \in Rings(Known)
    BY <1>1 DEF Rings
  <2>3. Numbered
    BY <1>1, <2>2 DEF Numbered
  <2>4. InOwnChannel
    BY <1>1 DEF InOwnChannel, Queues
  <2> QED BY <2>1, <2>3, <2>4 DEF RequestInv
<1>7. ReplyInv
  <2>1. Bounded
    <3>1. Len(<<>>) <= Capacity
      BY ConstantFacts
    <3> QED BY <1>1, <3>1 DEF Bounded, Queues
  <2> QED BY <1>3, <2>1 DEF ReplyInv, NoReplies, Routed
<1>8. TrailInv
  BY <1>4 DEF TrailInv
<1> QED BY <1>2, <1>5, <1>6, <1>7, <1>8 DEF DuplexInv

LEMMA DuplexStepInv == DuplexInv /\ [DuplexNext]_duplexVars => DuplexInv'
<1> SUFFICES ASSUME DuplexInv, [DuplexNext]_duplexVars PROVE DuplexInv'
  OBVIOUS
<1>1. CASE StartServer
  BY <1>1, StartServerKeeps
<1>2. CASE Crash
  BY <1>2, CrashKeeps
<1>3. CASE Exit
  BY <1>3, ExitKeeps
<1>4. CASE Construct
  BY <1>4, ConstructKeeps
<1>5. CASE OpenNext
  BY <1>5, OpenNextKeeps
<1>6. CASE NextChannel \/ Poll
  BY <1>6, LoopKeeps
<1>7. CASE Dispatch
  BY <1>7, DispatchKeeps
<1>8. CASE Drain
  BY <1>8, DrainKeeps
<1>9. ASSUME NEW k \in Clients,
             \/ Joining(k) \/ ClientWork(k) \/ Die(k)
             \/ PushMessage(k) \/ PushIntoZeroes(k) \/ Collide(k)
      PROVE  DuplexInv'
  <2>1. CASE Attach(k)
    BY <2>1, AttachKeeps
  <2>2. CASE CreateProducer(k)
    <3>1. "requests" \in Queues
      BY DEF Queues
    <3> QED BY <2>2, <3>1, AllocKeeps DEF CreateProducer
  <2>3. CASE CreateConsumer(k)
    <3>1. "replies" \in Queues
      BY DEF Queues
    <3> QED BY <2>3, <3>1, AllocKeeps DEF CreateConsumer
  <2>4. CASE AddMapEntry(k)
    BY <2>4, AddMapEntryKeeps
  <2>5. starts \in Nat /\ deaths \in Nat /\ starts + deaths <= MaxFaults /\ MaxFaults \in Nat
    BY ConstantFacts DEF DuplexInv, DuplexTypes, ServerTypes
  <2>6. CASE Refused(k)
    BY <2>5, <2>6, LeaveKeeps DEF Refused
  <2>7. CASE Die(k)
    BY <2>5, <2>7, LeaveKeeps DEF Die
  <2>8. CASE PushIntoZeroes(k)
    BY <2>5, <2>8, LeaveKeeps DEF PushIntoZeroes
  <2>9. CASE PushMessage(k)
    BY <2>9, PushMessageKeeps
  <2>10. CASE EmptyWaiting(k)
    BY <2>10, EmptyWaitingKeeps
  <2>11. CASE Receive(k)
    BY <2>11, ReceiveKeeps
  <2>12. CASE Collide(k)
    BY <2>12, CollideKeeps
  <2> QED BY <1>9, <2>1, <2>2, <2>3, <2>4, <2>6, <2>7, <2>8, <2>9, <2>10, <2>11, <2>12
          DEF Joining, ClientWork
<1>10. CASE UNCHANGED duplexVars
  <2> USE <1>10 DEF duplexVars, shmVars, serverVars, clientVars
  <2>1. DuplexTypes'
    BY DEF DuplexInv, DuplexTypes, SegmentTypes, ServerTypes, ClientTypes
  <2>2. JoinInv'
    BY DEF DuplexInv, JoinInv, Opened, Mapped, Current, OwnChannels, OwnEntry, Present, Served,
           Serving, HasReplies, HasRequests, ActiveChannels
  <2>3. RequestInv'
    BY DEF DuplexInv, RequestInv, Counted, Numbered, InOwnChannel, Known, OwnKnown, On, Newer
  <2>4. ReplyInv'
    BY DEF DuplexInv, ReplyInv, NoReplies, Routed, Bounded, For, Replies, Straight, ServedMessage,
           Served, RightChannel, Serving, HasReplies, Empty
  <2>5. TrailInv'
    <3> SUFFICES ASSUME NEW k \in Clients, Served(k)', k \notin torn'
                 PROVE  Once(k, joined[k], sent[k], Trail(k))'
      BY DEF TrailInv
    <3>1. Served(k) /\ k \notin torn /\ Trail(k)' = Trail(k)
      BY DEF Served, Trail, Own
    <3> QED BY <3>1, TrailKept DEF DuplexInv
  <2> QED BY <2>1, <2>2, <2>3, <2>4, <2>5 DEF DuplexInv
<1> QED BY <1>1, <1>2, <1>3, <1>4, <1>5, <1>6, <1>7, <1>8, <1>9, <1>10 DEF DuplexNext, ServerWork

(* Everything has its type, whatever processes start, die and start again.  *)
THEOREM DuplexTypeCorrect == DuplexSpec => []DuplexTypes
<1>1. DuplexInv => DuplexTypes
  BY DEF DuplexInv
<1> QED BY <1>1, DuplexInitInv, DuplexStepInv, PTL DEF DuplexSpec

(* A request of a client that is served is in one of three places, once,    *)
(* and in order; and no other client that is served writes into its         *)
(* channel: for any number of clients, starts and deaths.                   *)
THEOREM EachRequestOnce == DuplexSpec => []RequestsOnce
<1>1. ASSUME DuplexInv PROVE RequestsOnce
  <2> SUFFICES ASSUME NEW k \in Clients, Served(k), k \notin torn
               PROVE  /\ Once(k, joined[k], sent[k], Trail(k))
                      /\ \A i \in DOMAIN Own(k, "requests") :
                            ServedMessage(Own(k, "requests")[i]) => Own(k, "requests")[i].from = k
    BY DEF RequestsOnce, Once, Numbers, Rising, Mine
  <2>1. Once(k, joined[k], sent[k], Trail(k))
    BY <1>1 DEF DuplexInv, TrailInv
  <2>2. /\ Present(k, "requests") /\ object[k]["requests"] = names["requests"]
        /\ names["requests"] \in Objects /\ channel[k]["requests"] \in Channels
    <3>1. Present(k, "requests")
      BY <1>1 DEF DuplexInv, JoinInv, Mapped, Served, Present
    <3> QED BY <1>1, <3>1, PlaceTypes DEF DuplexInv, JoinInv, Current, Present, Segments, Queues
  <2>3. ASSUME NEW i \in DOMAIN Own(k, "requests"), ServedMessage(Own(k, "requests")[i])
        PROVE  Own(k, "requests")[i].from = k
    <3> DEFINE r == Own(k, "requests")
               m == r[i]
               j == m.from
    <3>1. r \in Seq(On(names["requests"], channel[k]["requests"]))
      BY <1>1, <2>2 DEF DuplexInv, RequestInv, InOwnChannel, Own
    <3>2. m \in On(names["requests"], channel[k]["requests"]) /\ m \in Request
      <4> HIDE DEF r
      <4>1. r[i] \in On(names["requests"], channel[k]["requests"])
        BY <2>3, <3>1 DEF r
      <4> QED BY <4>1 DEF On
    <3>3. j \in Clients /\ Served(j) /\ channel[j]["requests"] = channel[k]["requests"]
      BY <2>3, <3>2 DEF On, Newer, ServedMessage, Served, Request
    <3>4. Present(j, "requests")
      BY <1>1, <3>3 DEF DuplexInv, JoinInv, Mapped, Served, Present
    <3>5. "requests" \in Queues
      BY DEF Queues
    <3> QED BY <1>1, <2>2, <3>3, <3>4, <3>5 DEF DuplexInv, JoinInv, OwnChannels
  <2> QED BY <2>1, <2>3
<1> QED BY <1>1, DuplexInitInv, DuplexStepInv, PTL DEF DuplexSpec

(* A reply that waits for a client of this server is in the channel the     *)
(* client reads, as long as each client has the same number in both queues. *)
THEOREM RepliesReachSender == DuplexSpec => []RepliesRouted
<1>1. ASSUME DuplexInv PROVE RepliesRouted
  <2> SUFFICES ASSUME Serving, Straight, NEW c \in Channels,
                      NEW i \in DOMAIN (Replies[c] \o backPressure[c]),
                      ServedMessage((Replies[c] \o backPressure[c])[i])
               PROVE  RightChannel((Replies[c] \o backPressure[c])[i], c)
    BY DEF RepliesRouted, Serving
  <2> DEFINE a == Replies[c]
             b == backPressure[c]
             S == For(c)
  <2>1. a \in Seq(S) /\ b \in Seq(S)
    BY <1>1 DEF DuplexInv, ReplyInv, Routed
  <2> HIDE DEF a, b, S
  <2>2. \A n \in DOMAIN (a \o b) : (a \o b)[n] \in S
    BY <2>1
  <2>3. (Replies[c] \o backPressure[c])[i] \in S
    BY <2>2 DEF a, b
  <2> QED BY <2>3 DEF S, For
<1> QED BY <1>1, DuplexInitInv, DuplexStepInv, PTL DEF DuplexSpec

-----------------------------------------------------------------------------
(* Timers. *)

(* An endpoint timer that is not registered yet was never started.          *)
Unregistered == \A t \in EndpointTimers \ registered : ~active[t] /\ ~paused[t]

FollowInv == TypeOK /\ FollowsEndpoint /\ Unregistered

(* The events of a timer in its heap.                                       *)
OneEvent(t) ==
    /\ \A d \in 0 .. Duration[t] :
          heap[t][d] > 0 => heap[t][d] = 1 /\ d + since[t] >= Duration[t]
    /\ \A d, e \in 0 .. Duration[t] : heap[t][d] > 0 /\ heap[t][e] > 0 => d = e

OwnEvent ==
    \A t \in Timers :
        TypeOf[t] = "Precision" /\ active[t] /\ t \notin doubled => OneEvent(t)

IntervalInv == TypeOK /\ OwnEvent /\ NotEarly

-----------------------------------------------------------------------------
(* What a step that posts events leaves: functions of natural numbers, if   *)
(* what is taken was due.                                                   *)
LEMMA ScheduleTypes ==
    ASSUME TypeOK, NEW times \in [Timers -> Nat], NEW taken \in SUBSET Timers,
           \A t \in taken : Due(t), NEW begun, Schedule(times, taken, begun)
    PROVE  /\ \A t \in Timers : /\ heap'[t] \in [0 .. Duration[t] -> Nat]
                                /\ forwards'[t] \in [0 .. Duration[t] -> Nat]
           /\ since' \in [Timers -> Nat]
<1>1. ASSUME NEW t \in Timers PROVE heap'[t] \in [0 .. Duration[t] -> Nat]
  <2>1. heap[t] \in [0 .. Duration[t] -> Nat] /\ Duration[t] \in Nat /\ times[t] \in Nat
    BY TimerAssumption DEF TypeOK
  <2>2. t \in taken => heap[t][0] > 0
    BY DEF Due
  <2>3. heap'[t] = [d \in 0 .. Duration[t] |->
          heap[t][d] + (IF d = Duration[t] THEN times[t] ELSE 0)
                     - (IF d = 0 /\ t \in taken THEN 1 ELSE 0)]
    BY DEF Schedule
  <2>4. ASSUME NEW d \in 0 .. Duration[t]
        PROVE  heap[t][d] + (IF d = Duration[t] THEN times[t] ELSE 0)
                  - (IF d = 0 /\ t \in taken THEN 1 ELSE 0) \in Nat
    <3>1. heap[t][d] \in Nat /\ times[t] \in Nat
      BY <2>1
    <3>2. d = 0 /\ t \in taken => heap[t][d] > 0
      BY <2>2
    <3> QED BY <3>1, <3>2
  <2> QED BY <2>3, <2>4
<1>2. ASSUME NEW t \in Timers PROVE forwards'[t] \in [0 .. Duration[t] -> Nat]
  <2>1. forwards[t] \in [0 .. Duration[t] -> Nat] /\ Duration[t] \in Nat /\ times[t] \in Nat
    BY TimerAssumption DEF TypeOK
  <2>2. forwards'[t] = IF TypeOf[t] = "Precision" THEN forwards[t]
                       ELSE [forwards[t] EXCEPT ![Duration[t]] = @ + times[t]]
    BY DEF Schedule
  <2> QED BY <2>1, <2>2
<1>3. since' \in [Timers -> Nat]
  BY DEF Schedule, TypeOK
<1> QED BY <1>1, <1>2, <1>3

(* A timer nothing is posted for and nothing is taken from keeps its events.*)
LEMMA ScheduleKeeps ==
    ASSUME TypeOK, NEW times \in [Timers -> Nat], NEW taken, NEW begun,
           Schedule(times, taken, begun),
           NEW t \in Timers, times[t] = 0, t \notin taken, t \notin begun
    PROVE  since'[t] = since[t] /\ \A d \in 0 .. Duration[t] : heap'[t][d] = heap[t][d]
<1>1. heap[t] \in [0 .. Duration[t] -> Nat] /\ Duration[t] \in Nat
  BY TimerAssumption DEF TypeOK
<1>2. heap'[t] = [d \in 0 .. Duration[t] |->
        heap[t][d] + (IF d = Duration[t] THEN times[t] ELSE 0)
                   - (IF d = 0 /\ t \in taken THEN 1 ELSE 0)]
  BY DEF Schedule
<1>3. since'[t] = since[t]
  BY DEF Schedule
<1> QED BY <1>1, <1>2, <1>3, SMTT(30)

LEMMA StartTypes ==
    ASSUME TypeOK, NEW ts \in SUBSET Timers, StartTimers(ts)
    PROVE  /\ active' \in [Timers -> BOOLEAN] /\ doubled' \subseteq Timers
           /\ paused' \in [Timers -> BOOLEAN] /\ early' \subseteq Timers
           /\ refused' \subseteq Timers
           /\ \A t \in Timers : /\ heap'[t] \in [0 .. Duration[t] -> Nat]
                                /\ forwards'[t] \in [0 .. Duration[t] -> Nat]
           /\ since' \in [Timers -> Nat]
<1>0. PICK posted \in Accepted(ToPost(ts)) :
          /\ Schedule([t \in Timers |-> IF t \in posted THEN 1 ELSE 0], {}, ToPost(ts))
          /\ refused' = refused \union (ToPost(ts) \ posted)
  BY DEF StartTimers
<1> DEFINE times == [t \in Timers |-> IF t \in posted THEN 1 ELSE 0]
<1>1. times \in [Timers -> Nat] /\ Schedule(times, {}, ToPost(ts))
  BY <1>0
<1>2. /\ \A t \in Timers : /\ heap'[t] \in [0 .. Duration[t] -> Nat]
                           /\ forwards'[t] \in [0 .. Duration[t] -> Nat]
      /\ since' \in [Timers -> Nat]
  <2>1. \A t \in {} : Due(t)
    OBVIOUS
  <2> HIDE DEF times
  <2> QED BY <1>1, <2>1, ScheduleTypes
<1>3. active' \in [Timers -> BOOLEAN] /\ doubled' \subseteq Timers
  BY DEF StartTimers, TypeOK
<1>4. refused' \subseteq Timers
  BY <1>0 DEF ToPost, TypeOK
<1> QED BY <1>2, <1>3, <1>4 DEF StartTimers, TypeOK

-----------------------------------------------------------------------------
(* What the rest of TypeOK says of threads, and of timers and endpoints.    *)
ThreadTypes ==
    /\ configured \subseteq Contexts
    /\ main \in {"configuring", "starting", "returned"}
    /\ thread \in [Contexts -> {"none", "created", "active", "returned"}]
    /\ activeThread \in [Contexts -> BOOLEAN] /\ dispatched \in [Contexts -> BOOLEAN]
    /\ stage \in [Contexts -> {"precision", "tasks", "idle"}]
    /\ stopping \subseteq Contexts /\ stopped \in BOOLEAN /\ ignored \subseteq Contexts

TimerTypes ==
    /\ endpoint \in [Contexts -> {"off", "on", "ended"}] /\ closing \in [Contexts -> Nat]
    /\ registered \subseteq EndpointTimers
    /\ active \in [Timers -> BOOLEAN] /\ paused \in [Timers -> BOOLEAN]
    /\ \A t \in Timers : heap[t] \in [0 .. Duration[t] -> Nat] /\ forwards[t] \in [0 .. Duration[t] -> Nat]
    /\ since \in [Timers -> Nat]
    /\ doubled \subseteq Timers /\ own \subseteq Timers /\ early \subseteq Timers
    /\ astray \subseteq Timers /\ refused \subseteq Timers
    /\ calls \in Nat

LEMMA TypeInit == Init => TypeOK
<1>1. Init => ThreadTypes
  BY DEF Init, ThreadTypes
<1>2. ASSUME Init PROVE TimerTypes
  <2>1. ASSUME NEW t \in Timers
        PROVE  heap[t] \in [0 .. Duration[t] -> Nat] /\ forwards[t] \in [0 .. Duration[t] -> Nat]
    BY <1>2 DEF Init
  <2> QED BY <1>2, <2>1 DEF Init, TimerTypes
<1> QED BY <1>1, <1>2 DEF TypeOK, ThreadTypes, TimerTypes

LEMMA RunTypes ==
    ASSUME TypeOK, NEW t \in Timers, RunAndRePost(t)
    PROVE  ThreadTypes' /\ TimerTypes'
<1>1. ContextOf[t] \in Contexts /\ Due(t)
  BY TimerAssumption DEF RunAndRePost
<1>2. ASSUME active[t], NEW outcome \in Outcomes(t), Runs(t, outcome)
      PROVE  ThreadTypes' /\ TimerTypes'
  <2>0. PICK posted \in Nat :
            /\ Schedule([x \in Timers |-> IF x = t THEN posted ELSE 0], {t}, {t})
            /\ refused' \subseteq Timers
    <3>1. Posts(outcome) \in Nat
      BY <1>2 DEF Posts, Outcomes
    <3>2. PICK posted \in Nat :
            /\ Schedule([x \in Timers |-> IF x = t THEN posted ELSE 0], {t}, {t})
            /\ refused' = IF posted = 0 /\ Posts(outcome) > 0 THEN refused \union {t}
                          ELSE refused \ {t}
      BY <1>2, <3>1 DEF Runs
    <3>3. refused' \subseteq Timers
      BY <3>2 DEF TypeOK
    <3> QED BY <3>2, <3>3
  <2> DEFINE times == [x \in Timers |-> IF x = t THEN posted ELSE 0]
  <2>1. times \in [Timers -> Nat] /\ Schedule(times, {t}, {t})
    BY <2>0
  <2>2. \A x \in {t} : Due(x)
    BY <1>1
  <2>3. /\ \A x \in Timers : /\ heap'[x] \in [0 .. Duration[x] -> Nat]
                             /\ forwards'[x] \in [0 .. Duration[x] -> Nat]
        /\ since' \in [Timers -> Nat]
    <3> HIDE DEF times
    <3> QED BY <2>1, <2>2, ScheduleTypes
  <2>4. ThreadTypes'
    BY <1>1, <1>2 DEF TypeOK, ThreadTypes, RunAndRePost, Runs, stopVars
  <2>5. /\ active' \in [Timers -> BOOLEAN] /\ own' \subseteq Timers /\ astray' \subseteq Timers
        /\ doubled' \subseteq Timers /\ early' \subseteq Timers
    BY <1>2 DEF TypeOK, Runs, Outcomes
  <2> QED BY <2>0, <2>3, <2>4, <2>5 DEF TimerTypes, TypeOK, RunAndRePost, endpointVars
<1>3. ASSUME Drops(t)
      PROVE  ThreadTypes' /\ TimerTypes'
  <2> DEFINE times == [x \in Timers |-> 0]
  <2>1. times \in [Timers -> Nat] /\ Schedule(times, {t}, {}) /\ \A x \in {t} : Due(x)
    BY <1>1, <1>3 DEF Drops
  <2>2. /\ \A x \in Timers : /\ heap'[x] \in [0 .. Duration[x] -> Nat]
                             /\ forwards'[x] \in [0 .. Duration[x] -> Nat]
        /\ since' \in [Timers -> Nat]
    <3> HIDE DEF times
    <3> QED BY <2>1, ScheduleTypes
  <2>3. ThreadTypes'
    BY <1>1, <1>3 DEF TypeOK, ThreadTypes, RunAndRePost, Drops, stopVars
  <2> QED BY <1>3, <2>2, <2>3 DEF TimerTypes, TypeOK, RunAndRePost, Drops, endpointVars
<1> QED BY <1>2, <1>3 DEF RunAndRePost

LEMMA CallTypes ==
    ASSUME TypeOK, NEW t \in Timers, Call(t)
    PROVE  ThreadTypes' /\ TimerTypes'
<1>1. ThreadTypes'
  BY DEF TypeOK, ThreadTypes, Call, Start, Stop, Pause, Resume, CreateEndpointTimer, CallsFrom,
         MayCall, Dispatches, Running, stopVars
<1>2. ASSUME Start(t) PROVE TimerTypes'
  <2>1. Startable({t}) \in SUBSET Timers
    BY DEF Startable
  <2>2. /\ endpoint' = endpoint /\ closing' = closing /\ registered' = registered
        /\ calls' \in Nat /\ astray' = astray
        /\ own' = own \union Startable({t}) /\ StartTimers(Startable({t}))
    BY <1>2 DEF Start, CallsFrom, TypeOK, endpointVars
  <2> HIDE <1>2
  <2> QED BY <2>1, <2>2, StartTypes DEF TypeOK, TimerTypes
<1>3. ASSUME Stop(t) PROVE TimerTypes'
  BY <1>3 DEF TypeOK, TimerTypes, Stop, StopTimers, CallsFrom, endpointVars
<1>4. ASSUME Pause(t) PROVE TimerTypes'
  BY <1>4 DEF TypeOK, TimerTypes, Pause, StopTimers, CallsFrom, endpointVars
<1>5. ASSUME Resume(t) PROVE TimerTypes'
  BY <1>5 DEF TypeOK, TimerTypes, Resume, endpointVars, eventVars
<1>6. ASSUME CreateEndpointTimer(t) PROVE TimerTypes'
  <2>1. PICK ts \in SUBSET Timers : StartTimers(ts)
    BY <1>6 DEF CreateEndpointTimer, Startable
  <2>2. /\ endpoint' = endpoint /\ closing' = closing /\ own' = own /\ calls' \in Nat
        /\ registered' \subseteq EndpointTimers /\ astray' \subseteq Timers
    BY <1>6 DEF CreateEndpointTimer, CallsFrom, Startable, TypeOK
  <2> QED BY <2>1, <2>2, StartTypes DEF TypeOK, TimerTypes
<1> QED BY <1>1, <1>2, <1>3, <1>4, <1>5, <1>6 DEF Call

LEMMA EndpointTypes ==
    ASSUME TypeOK, NEW c \in Contexts, Endpoint(c)
    PROVE  ThreadTypes' /\ TimerTypes'
<1>1. ThreadTypes'
  BY DEF TypeOK, ThreadTypes, Endpoint, OnActive, CloseEndpoint, CloseAction, OnDisconnected,
         CallsFrom, MayCall, Dispatches, Running, stopVars
<1>2. ASSUME OnActive(c) PROVE TimerTypes'
  <2>1. Startable(Registered(c)) \in SUBSET Timers
    BY TimerAssumption DEF Startable, Registered, TypeOK
  <2> QED BY <1>2, <2>1, StartTypes DEF TypeOK, TimerTypes, OnActive
<1>3. ASSUME OnDisconnected(c) PROVE TimerTypes'
  BY <1>3 DEF TypeOK, TimerTypes, OnDisconnected, StopTimers
<1>4. ASSUME CloseEndpoint(c) PROVE TimerTypes'
  BY <1>4 DEF TypeOK, TimerTypes, CloseEndpoint, CallsFrom, StopTimers
<1>5. ASSUME CloseAction(c) PROVE TimerTypes'
  <2>1. endpoint' \in [Contexts -> {"off", "on", "ended"}] /\ closing' \in [Contexts -> Nat]
    BY <1>5 DEF TypeOK, CloseAction
  <2>2. Registered(c) \subseteq Timers
    BY TimerAssumption DEF Registered, TypeOK
  <2> QED BY <1>5, <2>1, <2>2 DEF TypeOK, TimerTypes, CloseAction, eventVars
<1> QED BY <1>1, <1>2, <1>3, <1>4, <1>5 DEF Endpoint

LEMMA TaskTypes ==
    ASSUME TypeOK, NEW c \in Contexts, EndTasks(c)
    PROVE  ThreadTypes' /\ TimerTypes'
<1>1. ThreadTypes'
  BY DEF TypeOK, ThreadTypes, EndTasks, At, NextCycle, stopVars
<1>2. ASSUME NEW t \in Waiting(c), Stores(t)
      PROVE  \A x \in Timers : /\ heap'[x] \in [0 .. Duration[x] -> Nat]
                               /\ forwards'[x] \in [0 .. Duration[x] -> Nat]
  <2> SUFFICES ASSUME NEW x \in Timers
               PROVE  /\ heap'[x] \in [0 .. Duration[x] -> Nat]
                      /\ forwards'[x] \in [0 .. Duration[x] -> Nat]
    OBVIOUS
  <2>1. /\ heap[x] \in [0 .. Duration[x] -> Nat] /\ forwards[x] \in [0 .. Duration[x] -> Nat]
        /\ heap[t] \in [0 .. Duration[t] -> Nat] /\ forwards[t] \in [0 .. Duration[t] -> Nat]
        /\ Duration[t] \in Nat
    BY TimerAssumption DEF TypeOK, Waiting, Of
  <2>2. PICK d \in 0 .. Duration[t] :
          /\ forwards[t][d] > 0
          /\ forwards' = [forwards EXCEPT ![t] = [forwards[t] EXCEPT ![d] = @ - 1]]
          /\ heap' = [heap EXCEPT ![t] = [heap[t] EXCEPT ![d] = @ + 1]]
    BY <1>2 DEF Stores
  <2>3. CASE x = t
    <3>1. /\ [forwards[t] EXCEPT ![d] = @ - 1] \in [0 .. Duration[t] -> Nat]
          /\ [heap[t] EXCEPT ![d] = @ + 1] \in [0 .. Duration[t] -> Nat]
      BY <2>1, <2>2, SMTT(30)
    <3> QED BY <2>1, <2>2, <2>3, <3>1
  <2>4. CASE x # t
    BY <2>1, <2>2, <2>4
  <2> QED BY <2>3, <2>4
<1>3. \A x \in Timers : /\ heap'[x] \in [0 .. Duration[x] -> Nat]
                        /\ forwards'[x] \in [0 .. Duration[x] -> Nat]
  <2>1. CASE UNCHANGED <<heap, forwards>>
    BY <2>1 DEF TypeOK
  <2> QED BY <1>2, <2>1 DEF EndTasks
<1> QED BY <1>1, <1>3 DEF TypeOK, TimerTypes, EndTasks, At, endpointVars

LEMMA TickTypes ==
    ASSUME TypeOK, Tick
    PROVE  ThreadTypes' /\ TimerTypes'
<1>1. ThreadTypes'
  BY DEF TypeOK, ThreadTypes, Tick, threadVars, stopVars
<1>2. ASSUME NEW t \in Timers
      PROVE  heap'[t] \in [0 .. Duration[t] -> Nat] /\ forwards'[t] \in [0 .. Duration[t] -> Nat]
  <2>1. heap[t] \in [0 .. Duration[t] -> Nat] /\ forwards[t] \in [0 .. Duration[t] -> Nat]
        /\ Duration[t] \in Nat
    BY TimerAssumption DEF TypeOK
  <2>2. \A events \in [0 .. Duration[t] -> Nat] : \A d \in 0 .. Duration[t] : Sooner(events, d) \in Nat
    BY <2>1 DEF Sooner
  <2> QED BY <2>1, <2>2 DEF Tick
<1>3. since' \in [Timers -> Nat]
  BY DEF Tick, TypeOK
<1> QED BY <1>1, <1>2, <1>3 DEF TypeOK, TimerTypes, Tick, endpointVars

(* The steps of the threads and of the loops that change no timer.          *)
Quiet(c) == ConfigureContext(c) \/ Thread(c) \/ EndPrecision(c) \/ EndIdle(c) \/ BareCycle(c)
QuietStep == StartAllThreads \/ Join \/ StopAllThreads \/ \E c \in Contexts : Quiet(c)

LEMMA QuietTypes ==
    ASSUME TypeOK, QuietStep
    PROVE  ThreadTypes' /\ UNCHANGED <<endpointVars, timerVars, calls>>
<1>1. CASE StartAllThreads \/ Join \/ StopAllThreads
  BY <1>1 DEF TypeOK, ThreadTypes, StartAllThreads, Join, StopAllThreads, ThreadStep, threadVars,
              stopVars
<1>2. ASSUME NEW c \in Contexts, Quiet(c)
      PROVE  ThreadTypes' /\ UNCHANGED <<endpointVars, timerVars, calls>>
  <2>1. CASE ConfigureContext(c)
    BY <2>1 DEF TypeOK, ThreadTypes, ConfigureContext, threadVars, stopVars
  <2>2. CASE CreateThread(c)
    BY <2>2 DEF TypeOK, ThreadTypes, CreateThread, ThreadStep, stopVars
  <2>3. CASE ContextStarts(c)
    BY <2>3 DEF TypeOK, ThreadTypes, ContextStarts, ThreadStep, stopVars
  <2>4. CASE StopContext(c)
    BY <2>4 DEF TypeOK, ThreadTypes, StopContext, StillToStop, ThreadStep
  <2>5. CASE EndPrecision(c)
    BY <2>5 DEF TypeOK, ThreadTypes, EndPrecision, At, stopVars, timerVars, eventVars
  <2>6. CASE EndIdle(c)
    BY <2>6 DEF TypeOK, ThreadTypes, EndIdle, At, NextCycle, stopVars, timerVars, eventVars
  <2>7. CASE BareCycle(c)
    BY <2>7 DEF TypeOK, ThreadTypes, BareCycle, At, NextCycle, stopVars, timerVars, eventVars
  <2> QED BY <1>2, <2>1, <2>2, <2>3, <2>4, <2>5, <2>6, <2>7 DEF Quiet, Thread
<1> QED BY <1>1, <1>2 DEF QuietStep

LEMMA TypeStep == TypeOK /\ [Next]_vars => TypeOK'
<1> SUFFICES ASSUME TypeOK, [Next]_vars PROVE TypeOK'
  OBVIOUS
<1>1. (ThreadTypes /\ TimerTypes)' => TypeOK'
  BY DEF TypeOK, ThreadTypes, TimerTypes
<1>2. CASE Tick
  BY <1>1, <1>2, TickTypes
<1>3. ASSUME NEW t \in Timers, Call(t) \/ RunAndRePost(t) PROVE TypeOK'
  BY <1>1, <1>3, CallTypes, RunTypes
<1>4. ASSUME NEW t \in EndpointTimers, Endpoint(ContextOf[t])
      PROVE  TypeOK'
  <2>1. ContextOf[t] \in Contexts
    BY TimerAssumption
  <2> QED BY <1>1, <1>4, <2>1, EndpointTypes
<1>5. ASSUME NEW c \in Contexts, EndTasks(c) PROVE TypeOK'
  BY <1>1, <1>5, TaskTypes
<1>6. CASE QuietStep
  <2>1. TimerTypes'
    BY <1>6, QuietTypes DEF TypeOK, TimerTypes, endpointVars, timerVars, eventVars
  <2> QED BY <1>1, <1>6, <2>1, QuietTypes
<1>7. CASE UNCHANGED vars
  BY <1>7 DEF TypeOK, vars, threadVars, stopVars, endpointVars, timerVars, eventVars
<1> QED BY <1>2, <1>3, <1>4, <1>5, <1>6, <1>7 DEF Next, QuietStep, Quiet

(* Threads, endpoints and timers keep their types: no event is counted      *)
(* below zero and none has more to go than its timer's duration.            *)
THEOREM TimerTypeCorrect == Spec => []TypeOK
<1> QED BY TypeInit, TypeStep, PTL DEF Spec

-----------------------------------------------------------------------------
(* Endpoints and their timers.                                              *)

LEMMA CallFollows ==
    ASSUME FollowInv, NEW t \in Timers, Call(t)
    PROVE  (FollowsEndpoint /\ Unregistered)'
<1>1. \A x \in registered : x \in Timers
  BY TimerAssumption DEF FollowInv, TypeOK
<1>2. CASE Start(t)
  BY <1>1, <1>2, TimerAssumption DEF FollowInv, FollowsEndpoint, Unregistered, TypeOK, Start,
     StartTimers, Startable, endpointVars
<1>3. CASE Stop(t)
  BY <1>1, <1>3, TimerAssumption DEF FollowInv, FollowsEndpoint, Unregistered, TypeOK, Stop,
     StopTimers, endpointVars
<1>4. CASE Pause(t)
  BY <1>1, <1>4, TimerAssumption DEF FollowInv, FollowsEndpoint, Unregistered, TypeOK, Pause,
     StopTimers, endpointVars
<1>5. CASE Resume(t)
  BY <1>1, <1>5, TimerAssumption DEF FollowInv, FollowsEndpoint, Unregistered, TypeOK, Resume,
     endpointVars
<1>6. CASE CreateEndpointTimer(t)
  <2>1. /\ ~active[t] /\ registered' = registered \union {t}
        /\ endpoint' = endpoint /\ own' = own /\ \A x \in astray : x \in astray'
    BY <1>6 DEF CreateEndpointTimer, FollowInv, Unregistered
  <2>2. /\ paused' = paused /\ endpoint[ContextOf[t]] \in {"off", "on", "ended"}
        /\ \A x \in Timers : active'[x] =>
              \/ active[x]
              \/ x = t /\ endpoint[ContextOf[t]] # "off" /\ ~paused[t]
                 /\ (endpoint[ContextOf[t]] = "ended" => t \in astray')
    BY <1>6, TimerAssumption
       DEF CreateEndpointTimer, StartTimers, Startable, isActive, FollowInv, TypeOK
  <2> QED BY <1>1, <2>1, <2>2, TimerAssumption DEF FollowInv, FollowsEndpoint, Unregistered
<1> QED BY <1>2, <1>3, <1>4, <1>5, <1>6 DEF Call

LEMMA EndpointFollows ==
    ASSUME FollowInv, NEW c \in Contexts, Endpoint(c)
    PROVE  (FollowsEndpoint /\ Unregistered)'
<1>1. /\ \A x \in registered : x \in Timers /\ ContextOf[x] \in Contexts
      /\ \A x \in EndpointTimers : x \in Timers
  BY TimerAssumption DEF FollowInv, TypeOK
<1>2. CASE OnActive(c)
  <2>1. /\ registered' = registered /\ own' = own /\ paused' = paused
        /\ \A x \in Contexts : endpoint'[x] = IF x = c THEN "on" ELSE endpoint[x]
        /\ \A x \in astray : x \in astray' \/ ContextOf[x] = c
        /\ \A x \in Timers : active'[x] =>
              active[x] \/ (x \in registered /\ ContextOf[x] = c /\ ~paused[x])
    BY <1>2 DEF OnActive, StartTimers, Startable, Registered, FollowInv, TypeOK
  <2> QED BY <1>1, <2>1 DEF FollowInv, FollowsEndpoint, Unregistered
<1>3. CASE OnDisconnected(c) \/ CloseEndpoint(c)
  <2>1. /\ registered' = registered /\ paused' = paused
        /\ \A x \in Contexts : x # c => endpoint'[x] = endpoint[x]
        /\ \A x \in Timers : active'[x] => active[x] /\ x \notin Registered(c)
        /\ own' = own \ Registered(c) /\ astray' = astray \ Registered(c)
    BY <1>3 DEF OnDisconnected, CloseEndpoint, StopTimers, FollowInv, TypeOK
  <2> QED BY <1>1, <2>1 DEF FollowInv, FollowsEndpoint, Unregistered, Registered
<1>4. CASE CloseAction(c)
  <2>1. /\ registered' = registered /\ paused' = paused /\ active' = active /\ own' = own
        /\ \A x \in Contexts : x # c => endpoint'[x] = endpoint[x]
        /\ astray' = IF endpoint[c] = "on" THEN astray \union Registered(c) ELSE astray
    BY <1>4 DEF CloseAction, FollowInv, TypeOK
  <2> QED BY <1>1, <2>1 DEF FollowInv, FollowsEndpoint, Unregistered, Registered
<1> QED BY <1>2, <1>3, <1>4 DEF Endpoint

LEMMA RunFollows ==
    ASSUME FollowInv, NEW t \in Timers, RunAndRePost(t)
    PROVE  (FollowsEndpoint /\ Unregistered)'
<1>1. \A x \in registered \union EndpointTimers : x \in Timers
  BY TimerAssumption DEF FollowInv, TypeOK
<1>2. endpoint' = endpoint /\ registered' = registered /\ paused' = paused
  BY DEF RunAndRePost, endpointVars
<1>3. /\ \A x \in Timers : active'[x] => active[x]
      /\ \A x \in own : x \in own' \/ (x = t /\ (~active'[t] \/ t \in own'))
      /\ \A x \in astray : x \in astray' \/ (x = t /\ (~active'[t] \/ t \in own'))
  <2>1. ASSUME active[t], NEW outcome \in Outcomes(t), Runs(t, outcome)
        PROVE  /\ \A x \in Timers : active'[x] => active[x]
               /\ \A x \in own : x \in own' \/ (x = t /\ (~active'[t] \/ t \in own'))
               /\ \A x \in astray : x \in astray' \/ (x = t /\ (~active'[t] \/ t \in own'))
    <3>1. /\ active' = [active EXCEPT ![t] = outcome \in {"runs", "restarts"}]
          /\ astray' = IF outcome = "runs" THEN astray ELSE astray \ {t}
          /\ own' = CASE outcome = "runs" -> own
                      [] outcome = "restarts" -> own \union {t}
                      [] OTHER -> own \ {t}
          /\ active \in [Timers -> BOOLEAN] /\ outcome \in {"runs", "stops", "restarts", "fails"}
      BY <2>1 DEF Runs, Outcomes, FollowInv, TypeOK
    <3> QED BY <2>1, <3>1
  <2>2. CASE Drops(t)
    BY <2>2 DEF Drops
  <2> QED BY <2>1, <2>2 DEF RunAndRePost
<1> QED BY <1>1, <1>2, <1>3 DEF FollowInv, FollowsEndpoint, Unregistered

LEMMA FollowInit == Init => FollowInv
<1> SUFFICES ASSUME Init PROVE FollowInv
  OBVIOUS
<1>1. FollowsEndpoint
  BY DEF Init, FollowsEndpoint
<1>2. Unregistered
  BY TimerAssumption DEF Init, Unregistered
<1> QED BY <1>1, <1>2, TypeInit DEF FollowInv

LEMMA FollowStep == FollowInv /\ [Next]_vars => FollowInv'
<1> SUFFICES ASSUME FollowInv, [Next]_vars PROVE (FollowsEndpoint /\ Unregistered)'
  BY TypeStep DEF FollowInv
<1>1. ASSUME NEW t \in Timers, Call(t) \/ RunAndRePost(t)
      PROVE  (FollowsEndpoint /\ Unregistered)'
  BY <1>1, CallFollows, RunFollows
<1>2. ASSUME NEW t \in EndpointTimers, Endpoint(ContextOf[t])
      PROVE  (FollowsEndpoint /\ Unregistered)'
  <2>1. ContextOf[t] \in Contexts
    BY TimerAssumption
  <2> QED BY <1>2, <2>1, EndpointFollows
<1>3. ASSUME UNCHANGED <<endpointVars, active, paused, own, astray>>
      PROVE  (FollowsEndpoint /\ Unregistered)'
  BY <1>3 DEF FollowInv, FollowsEndpoint, Unregistered, endpointVars
<1>4. CASE Tick
  BY <1>3, <1>4 DEF Tick
<1>5. ASSUME NEW c \in Contexts, EndTasks(c) PROVE (FollowsEndpoint /\ Unregistered)'
  BY <1>3, <1>5 DEF EndTasks, At
<1>6. CASE QuietStep
  <2>1. UNCHANGED <<endpointVars, timerVars>>
    BY <1>6, QuietTypes DEF FollowInv
  <2> QED BY <1>3, <2>1 DEF timerVars
<1>7. CASE UNCHANGED vars
  BY <1>3, <1>7 DEF vars, timerVars
<1> QED BY <1>1, <1>2, <1>4, <1>5, <1>6, <1>7 DEF Next, QuietStep, Quiet

(* A timer of an endpoint is active only with it, or because the            *)
(* application started it, or because it was created while isActive still   *)
(* said yes of a connection that has ended, or an old close action ended    *)
(* this one; and never while it is paused.                                  *)
THEOREM TimersFollowEndpoint == Spec => []FollowsEndpoint
<1>1. FollowInv => FollowsEndpoint
  BY DEF FollowInv
<1> QED BY FollowInit, FollowStep, <1>1, PTL DEF Spec

-----------------------------------------------------------------------------
(* The intervals of precision timers.                                       *)

(* An active timer whose events and time did not change has what it had.    *)
LEMMA Undisturbed ==
    ASSUME NEW t \in Timers, OneEvent(t), since'[t] = since[t],
           \A d \in 0 .. Duration[t] : heap'[t][d] = heap[t][d]
    PROVE  OneEvent(t)'
BY DEF OneEvent

(* A timer that had no event, or lost it, has the one that is posted.       *)
LEMMA Fresh ==
    ASSUME NEW t \in Timers, since'[t] = 0, heap'[t][Duration[t]] = 1,
           \A d \in 0 .. Duration[t] : d # Duration[t] => heap'[t][d] = 0
    PROVE  OneEvent(t)'
<1>1. Duration[t] \in Nat
  BY TimerAssumption
<1>2. ASSUME NEW d \in 0 .. Duration[t], heap'[t][d] > 0 PROVE d = Duration[t]
  BY <1>2
<1>3. \A d \in 0 .. Duration[t] : heap'[t][d] > 0 =>
         heap'[t][d] = 1 /\ d + since'[t] >= Duration[t]
  BY <1>1, <1>2
<1>4. \A d, e \in 0 .. Duration[t] : heap'[t][d] > 0 /\ heap'[t][e] > 0 => d = e
  BY <1>2
<1> QED BY <1>3, <1>4 DEF OneEvent

(* A timer that has no event is early with none.                            *)
LEMMA Eventless ==
    ASSUME NEW t \in Timers, heap'[t][Duration[t]] = 0,
           \A d \in 0 .. Duration[t] : d # Duration[t] => heap'[t][d] = 0
    PROVE  OneEvent(t)'
<1>1. \A d \in 0 .. Duration[t] : ~(heap'[t][d] > 0)
  OBVIOUS
<1> QED BY <1>1 DEF OneEvent

(* Starting timers: one that has no event gets one, or stays without one,   *)
(* one that has some is remembered.                                         *)
LEMMA StartIntervals ==
    ASSUME IntervalInv, NEW ts \in SUBSET Timers, StartTimers(ts)
    PROVE  (OwnEvent /\ NotEarly)'
<1>0. PICK posted \in Accepted(ToPost(ts)) :
          Schedule([t \in Timers |-> IF t \in posted THEN 1 ELSE 0], {}, ToPost(ts))
  BY DEF StartTimers
<1> DEFINE times == [t \in Timers |-> IF t \in posted THEN 1 ELSE 0]
<1>1. times \in [Timers -> Nat] /\ Schedule(times, {}, ToPost(ts)) /\ TypeOK
  BY <1>0 DEF IntervalInv
<1>2. NotEarly'
  BY DEF StartTimers, IntervalInv, NotEarly
<1>3. ASSUME NEW t \in Timers, TypeOf[t] = "Precision", active'[t], t \notin doubled'
      PROVE  OneEvent(t)'
  <2>1. CASE t \in ts /\ ~active[t]
    <3>1. /\ heap[t] \in [0 .. Duration[t] -> Nat] /\ forwards[t] \in [0 .. Duration[t] -> Nat]
          /\ Duration[t] \in Nat /\ Duration[t] > 0
      BY <1>1, TimerAssumption DEF TypeOK
    <3>2. ~HasEvent(t)
      BY <1>3, <2>1 DEF StartTimers
    <3>3. \A d \in 0 .. Duration[t] : heap[t][d] = 0
      BY <3>1, <3>2 DEF HasEvent
    <3>4. times[t] = 1 \/ times[t] = 0
      OBVIOUS
    <3>5. since'[t] = 0 /\ heap'[t] = [d \in 0 .. Duration[t] |->
            heap[t][d] + (IF d = Duration[t] THEN times[t] ELSE 0) - 0]
      BY <1>1, <2>1 DEF Schedule, ToPost
    <3> HIDE DEF times
    <3>6. heap'[t][Duration[t]] = times[t]
      <4>1. Duration[t] \in 0 .. Duration[t] /\ heap[t][Duration[t]] = 0
        BY <3>1, <3>3
      <4>2. heap'[t][Duration[t]] = heap[t][Duration[t]] + times[t] - 0
        BY <3>5, <4>1
      <4> QED BY <3>4, <4>1, <4>2
    <3>7. \A d \in 0 .. Duration[t] : d # Duration[t] => heap'[t][d] = 0
      BY <3>1, <3>3, <3>5
    <3>8. CASE times[t] = 1
      BY <3>5, <3>6, <3>7, <3>8, Fresh
    <3>9. CASE times[t] = 0
      BY <3>6, <3>7, <3>9, Eventless
    <3> QED BY <3>4, <3>8, <3>9
  <2>2. CASE ~(t \in ts /\ ~active[t])
    <3>1. active[t] /\ t \notin doubled
      BY <1>1, <1>3, <2>2 DEF StartTimers, TypeOK
    <3>2. OneEvent(t)
      BY <1>3, <3>1 DEF IntervalInv, OwnEvent
    <3>3. times[t] = 0 /\ t \notin ToPost(ts)
      BY <2>2 DEF Accepted, ToPost
    <3>4. since'[t] = since[t] /\ \A d \in 0 .. Duration[t] : heap'[t][d] = heap[t][d]
      <4> HIDE DEF times
      <4> QED BY <1>1, <3>3, ScheduleKeeps
    <3> QED BY <3>2, <3>4, Undisturbed
  <2> QED BY <2>1, <2>2
<1> QED BY <1>2, <1>3 DEF OwnEvent

(* Stopping timers only makes fewer of them active.                         *)
LEMMA StopIntervals ==
    ASSUME IntervalInv, NEW ts, StopTimers(ts)
    PROVE  (OwnEvent /\ NotEarly)'
<1>1. ASSUME NEW t \in Timers, TypeOf[t] = "Precision", active'[t], t \notin doubled'
      PROVE  OneEvent(t)'
  <2>1. active[t] /\ t \notin doubled /\ heap' = heap /\ since'[t] = since[t]
    BY <1>1 DEF StopTimers
  <2> QED BY <1>1, <2>1, Undisturbed DEF IntervalInv, OwnEvent
<1> QED BY <1>1 DEF OwnEvent, NotEarly, IntervalInv, StopTimers

LEMMA RunIntervals ==
    ASSUME IntervalInv, NEW t \in Timers, RunAndRePost(t)
    PROVE  (OwnEvent /\ NotEarly)'
<1>1. /\ TypeOK /\ Due(t) /\ \A x \in Timers : Duration[x] \in Nat /\ Duration[x] > 0
      /\ \A x \in Timers : heap[x] \in [0 .. Duration[x] -> Nat] /\ since[x] \in Nat
  BY TimerAssumption DEF IntervalInv, RunAndRePost, TypeOK
<1>2. ASSUME active[t], NEW outcome \in Outcomes(t), Runs(t, outcome)
      PROVE  (OwnEvent /\ NotEarly)'
  <2>0. PICK posted \in 0 .. Posts(outcome) :
            Schedule([x \in Timers |-> IF x = t THEN posted ELSE 0], {t}, {t})
    <3>1. Posts(outcome) \in 0 .. Posts(outcome)
      BY <1>2 DEF Posts, Outcomes
    <3> QED BY <1>2, <3>1 DEF Runs
  <2> DEFINE times == [x \in Timers |-> IF x = t THEN posted ELSE 0]
  <2>1. times \in [Timers -> Nat] /\ Schedule(times, {t}, {t})
    BY <2>0
  <2>2. TypeOf[t] = "Precision" /\ t \notin doubled =>
           /\ heap[t][0] = 1 /\ since[t] >= Duration[t]
           /\ \A d \in 1 .. Duration[t] : heap[t][d] = 0
    <3>1. SUFFICES ASSUME TypeOf[t] = "Precision", t \notin doubled
                   PROVE  /\ heap[t][0] = 1 /\ since[t] >= Duration[t]
                          /\ \A d \in 1 .. Duration[t] : heap[t][d] = 0
      OBVIOUS
    <3>2. OneEvent(t) /\ heap[t][0] > 0
      BY <1>1, <1>2, <3>1 DEF IntervalInv, OwnEvent, Due
    <3>3. 0 \in 0 .. Duration[t] /\ \A d \in 1 .. Duration[t] : d \in 0 .. Duration[t] /\ d # 0
      BY <1>1
    <3>4. \A d \in 1 .. Duration[t] : heap[t][d] \in Nat /\ ~(heap[t][d] > 0)
      BY <1>1, <3>2, <3>3 DEF OneEvent
    <3> QED BY <1>1, <3>2, <3>3, <3>4 DEF OneEvent
  <2>3. NotEarly'
    BY <1>1, <1>2, <2>2 DEF IntervalInv, NotEarly, Runs
  <2>4. ASSUME NEW x \in Timers, TypeOf[x] = "Precision", active'[x], x \notin doubled'
        PROVE  OneEvent(x)'
    <3>1. CASE x = t
      <4>1. outcome = "runs" /\ t \notin doubled
        BY <1>1, <1>2, <2>4, <3>1 DEF Runs, TypeOK
      <4>2. times[t] = 1 \/ times[t] = 0
        BY <4>1 DEF Posts
      <4>3. since'[t] = 0 /\ heap'[t] = [d \in 0 .. Duration[t] |->
              heap[t][d] + (IF d = Duration[t] THEN times[t] ELSE 0) - (IF d = 0 THEN 1 ELSE 0)]
        BY <2>1 DEF Schedule
      <4>4. /\ heap[t] \in [0 .. Duration[t] -> Nat] /\ Duration[t] \in Nat /\ Duration[t] > 0
            /\ heap[t][0] = 1 /\ \A d \in 1 .. Duration[t] : heap[t][d] = 0
        BY <1>1, <2>2, <2>4, <3>1, <4>1
      <4> HIDE DEF times
      <4>5. heap'[t][Duration[t]] = times[t]
        BY <4>2, <4>3, <4>4, SMTT(30)
      <4>6. \A d \in 0 .. Duration[t] : d # Duration[t] => heap'[t][d] = 0
        <5> SUFFICES ASSUME NEW d \in 0 .. Duration[t], d # Duration[t] PROVE heap'[t][d] = 0
          OBVIOUS
        <5>1. CASE d = 0
          BY <4>3, <4>4, <5>1
        <5>2. CASE d # 0
          <6>1. heap[t][d] = 0
            BY <4>4, <5>2
          <6> QED BY <4>3, <5>2, <6>1
        <5> QED BY <5>1, <5>2
      <4>7. CASE times[t] = 1
        BY <3>1, <4>3, <4>5, <4>6, <4>7, Fresh
      <4>8. CASE times[t] = 0
        BY <3>1, <4>5, <4>6, <4>8, Eventless
      <4> QED BY <4>2, <4>7, <4>8
    <3>2. CASE x # t
      <4>1. active[x] /\ x \notin doubled
        BY <1>1, <1>2, <2>4, <3>2 DEF Runs, TypeOK
      <4>2. times[x] = 0 /\ x \notin {t}
        BY <3>2
      <4>3. since'[x] = since[x] /\ \A d \in 0 .. Duration[x] : heap'[x][d] = heap[x][d]
        <5> HIDE DEF times
        <5> QED BY <1>1, <2>1, <4>2, ScheduleKeeps
      <4> QED BY <2>4, <4>1, <4>3, Undisturbed DEF IntervalInv, OwnEvent
    <3> QED BY <3>1, <3>2
  <2> QED BY <2>3, <2>4 DEF OwnEvent
<1>3. ASSUME ~active[t], Drops(t)
      PROVE  (OwnEvent /\ NotEarly)'
  <2> DEFINE times == [x \in Timers |-> 0]
  <2>1. ASSUME NEW x \in Timers, TypeOf[x] = "Precision", active'[x], x \notin doubled'
        PROVE  OneEvent(x)'
    <3>1. active[x] /\ x \notin doubled /\ x \notin {t}
      BY <1>3, <2>1 DEF Drops
    <3>2. times \in [Timers -> Nat] /\ Schedule(times, {t}, {}) /\ times[x] = 0
      BY <1>3 DEF Drops
    <3>3. since'[x] = since[x] /\ \A d \in 0 .. Duration[x] : heap'[x][d] = heap[x][d]
      <4> HIDE DEF times
      <4> QED BY <1>1, <3>1, <3>2, ScheduleKeeps
    <3> QED BY <2>1, <3>1, <3>3, Undisturbed DEF IntervalInv, OwnEvent
  <2> QED BY <1>3, <2>1 DEF OwnEvent, NotEarly, IntervalInv, Drops
<1> QED BY <1>2, <1>3 DEF RunAndRePost

(* A tick brings the event nearer by as much as time passes.                *)
LEMMA TickIntervals ==
    ASSUME IntervalInv, Tick
    PROVE  (OwnEvent /\ NotEarly)'
<1>1. ASSUME NEW t \in Timers, TypeOf[t] = "Precision", active'[t], t \notin doubled'
      PROVE  OneEvent(t)'
  <2>1. OneEvent(t)
    BY <1>1 DEF IntervalInv, OwnEvent, Tick
  <2>2. /\ heap[t] \in [0 .. Duration[t] -> Nat] /\ since[t] \in Nat
        /\ Duration[t] \in Nat /\ Duration[t] > 0
    BY TimerAssumption DEF IntervalInv, TypeOK
  <2>3. \A d \in 0 .. Duration[t] : heap'[t][d] =
           (IF d < Duration[t] THEN heap[t][d + 1] ELSE 0) + (IF d = 0 THEN heap[t][0] ELSE 0)
    <3>1. \A d \in 0 .. Duration[t] : d + 1 \in DOMAIN heap[t] <=> d < Duration[t]
      BY <2>2
    <3>2. \A d \in 0 .. Duration[t] : heap'[t][d] = Sooner(heap[t], d)
      BY DEF Tick
    <3> QED BY <3>1, <3>2 DEF Sooner
  <2>4. since'[t] = IF since[t] < Duration[t] THEN since[t] + 1 ELSE since[t]
    BY <1>1 DEF Tick
  <2>5. ASSUME NEW d \in 0 .. Duration[t], heap'[t][d] > 0
        PROVE  /\ heap'[t][d] = 1 /\ d + since'[t] >= Duration[t]
               /\ \/ d < Duration[t] /\ heap[t][d + 1] > 0
                  \/ d = 0 /\ heap[t][0] > 0
    <3>1. CASE d < Duration[t] /\ heap[t][d + 1] > 0
      <4>1. d + 1 \in 0 .. Duration[t] /\ 0 \in 0 .. Duration[t]
        BY <2>2, <3>1
      <4>2. heap[t][d + 1] = 1 /\ (d + 1) + since[t] >= Duration[t] /\ heap[t][0] = 0
        BY <2>1, <2>2, <3>1, <4>1 DEF OneEvent
      <4> QED BY <2>2, <2>3, <2>4, <3>1, <4>2
    <3>2. CASE ~(d < Duration[t] /\ heap[t][d + 1] > 0)
      <4>1. heap'[t][d] = (IF d < Duration[t] THEN heap[t][d + 1] ELSE 0)
                          + (IF d = 0 THEN heap[t][0] ELSE 0)
        BY <2>3
      <4>2. /\ d < Duration[t] => heap[t][d + 1] = 0
            /\ 0 \in 0 .. Duration[t] /\ heap[t][0] \in Nat
        <5>1. d < Duration[t] => d + 1 \in 0 .. Duration[t]
          BY <2>2
        <5> QED BY <2>2, <3>2, <5>1
      <4>3. d = 0 /\ heap[t][0] > 0 /\ heap[t][1] = 0
        BY <2>2, <2>5, <4>1, <4>2
      <4>4. heap[t][0] = 1 /\ since[t] >= Duration[t]
        BY <2>1, <2>2, <4>3 DEF OneEvent
      <4> QED BY <2>2, <2>3, <2>4, <4>3, <4>4
    <3> QED BY <3>1, <3>2
  <2>6. ASSUME NEW d \in 0 .. Duration[t], NEW e \in 0 .. Duration[t],
               heap'[t][d] > 0, heap'[t][e] > 0
        PROVE  d = e
    <3>1. /\ \/ d < Duration[t] /\ heap[t][d + 1] > 0
             \/ d = 0 /\ heap[t][0] > 0
          /\ \/ e < Duration[t] /\ heap[t][e + 1] > 0
             \/ e = 0 /\ heap[t][0] > 0
      BY <2>5, <2>6
    <3> QED BY <2>1, <2>2, <3>1 DEF OneEvent
  <2> QED BY <2>5, <2>6 DEF OneEvent
<1> QED BY <1>1 DEF OwnEvent, NotEarly, IntervalInv, Tick

(* What forwards store belongs to idle timers.                              *)
LEMMA TaskIntervals ==
    ASSUME IntervalInv, NEW c \in Contexts, EndTasks(c)
    PROVE  (OwnEvent /\ NotEarly)'
<1>1. ASSUME NEW t \in Timers, TypeOf[t] = "Precision" PROVE heap'[t] = heap[t]
  <2>1. ASSUME NEW x \in Waiting(c), Stores(x) PROVE heap'[t] = heap[t]
    <3>1. x # t
      BY <1>1, <2>1 DEF Waiting, Of
    <3> QED BY <2>1, <3>1 DEF Stores, IntervalInv
  <2> QED BY <2>1 DEF EndTasks
<1>2. UNCHANGED <<active, since, doubled, early>>
  BY DEF EndTasks, At
<1>3. ASSUME NEW t \in Timers, TypeOf[t] = "Precision", active'[t], t \notin doubled'
      PROVE  OneEvent(t)'
  BY <1>1, <1>2, <1>3, Undisturbed DEF IntervalInv, OwnEvent
<1> QED BY <1>2, <1>3 DEF OwnEvent, NotEarly, IntervalInv

LEMMA IntervalInit == Init => IntervalInv
BY TypeInit DEF Init, IntervalInv, OwnEvent, NotEarly

LEMMA IntervalStep == IntervalInv /\ [Next]_vars => IntervalInv'
<1> SUFFICES ASSUME IntervalInv, [Next]_vars PROVE (OwnEvent /\ NotEarly)'
  BY TypeStep DEF IntervalInv
<1>1. ASSUME UNCHANGED <<active, heap, since, doubled, early>>
      PROVE  (OwnEvent /\ NotEarly)'
  BY <1>1 DEF IntervalInv, OwnEvent, NotEarly, OneEvent
<1>2. ASSUME NEW t \in Timers, Call(t) PROVE (OwnEvent /\ NotEarly)'
  <2>1. CASE \E ts \in SUBSET Timers : StartTimers(ts)
    BY <2>1, StartIntervals
  <2>2. CASE StopTimers({t})
    BY <2>2, StopIntervals
  <2>3. CASE Resume(t)
    BY <1>1, <2>3 DEF Resume, eventVars
  <2>4. Start(t) \/ CreateEndpointTimer(t) => \E ts \in SUBSET Timers : StartTimers(ts)
    BY DEF Start, CreateEndpointTimer, Startable
  <2> QED BY <1>2, <2>1, <2>2, <2>3, <2>4 DEF Call, Stop, Pause
<1>3. ASSUME NEW t \in Timers, RunAndRePost(t) PROVE (OwnEvent /\ NotEarly)'
  BY <1>3, RunIntervals
<1>4. ASSUME NEW c \in Contexts, OnActive(c) PROVE (OwnEvent /\ NotEarly)'
  <2>1. Startable(Registered(c)) \in SUBSET Timers
    BY TimerAssumption DEF Startable, Registered, IntervalInv, TypeOK
  <2> QED BY <1>4, <2>1, StartIntervals DEF OnActive
<1>5. ASSUME NEW c \in Contexts, OnDisconnected(c) \/ CloseEndpoint(c)
      PROVE  (OwnEvent /\ NotEarly)'
  BY <1>5, StopIntervals DEF OnDisconnected, CloseEndpoint
<1>11. ASSUME NEW c \in Contexts, CloseAction(c) PROVE (OwnEvent /\ NotEarly)'
  BY <1>1, <1>11 DEF CloseAction, eventVars
<1>6. CASE Tick
  BY <1>6, TickIntervals
<1>7. ASSUME NEW c \in Contexts, EndTasks(c) PROVE (OwnEvent /\ NotEarly)'
  BY <1>7, TaskIntervals
<1>8. CASE QuietStep
  <2>1. UNCHANGED timerVars
    BY <1>8, QuietTypes DEF IntervalInv
  <2> QED BY <1>1, <2>1 DEF timerVars, eventVars
<1>9. CASE UNCHANGED vars
  BY <1>1, <1>9 DEF vars, timerVars, eventVars
<1>10. \A t \in EndpointTimers : ContextOf[t] \in Contexts
  BY TimerAssumption
<1> QED BY <1>2, <1>3, <1>4, <1>5, <1>6, <1>7, <1>8, <1>9, <1>10, <1>11
    DEF Next, QuietStep, Quiet, Endpoint

(* A precision timer runs no earlier than its duration after its start and  *)
(* after its last run, unless it was started with an event still pending.   *)
THEOREM TimersKeepTheirInterval == Spec => []NotEarly
<1>1. IntervalInv => NotEarly
  BY DEF IntervalInv
<1> QED BY IntervalInit, IntervalStep, <1>1, PTL DEF Spec
=============================================================================
