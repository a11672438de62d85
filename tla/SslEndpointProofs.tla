------------------------- MODULE SslEndpointProofs -------------------------
(***************************************************************************)
(* Proofs about the sends of an SSL endpoint, for any limit, any sizes and *)
(* any number of sends, connections and closes.                            *)
(***************************************************************************)
EXTENDS SslEndpoint, FiniteSetTheorems, SequenceTheorems, TLAPS

-----------------------------------------------------------------------------
(* Bytes on the wire. *)

Positions(s, x) == {k \in DOMAIN s : s[k] = x}

(* What there is on the wire: r after s and n more bytes of e. *)
Bytes == (0 .. MaxOpens) \X Ids
Repeated(e, n) == [k \in 1 .. n |-> e]
Extends(r, s, e, n) ==
    /\ r \in Seq(Bytes) /\ Len(r) = Len(s) + n
    /\ \A k \in DOMAIN s : k \in DOMAIN r /\ r[k] = s[k]
    /\ \A k \in DOMAIN r : k \in DOMAIN s \/ (k > Len(s) /\ r[k] = e)
    /\ \A x : x # e => Positions(r, x) = Positions(s, x)
    /\ Cardinality(Positions(r, e)) = Cardinality(Positions(s, e)) + n

LEMMA Extended ==
    ASSUME NEW s \in Seq(Bytes), NEW e \in Bytes, NEW n \in Nat
    PROVE  Extends(s \o Repeated(e, n), s, e, n)
<1> DEFINE T == Bytes
           t == Repeated(e, n)
           r == s \o t
<1>1. t \in Seq(T) /\ Len(t) = n /\ \A k \in 1 .. n : t[k] = e
  <2>1. t \in [1 .. n -> T] /\ \A k \in 1 .. n : t[k] = e
    BY DEF Repeated
  <2> QED BY <2>1, SeqDef
<1> HIDE DEF T, t
<1>2. /\ r \in Seq(T) /\ Len(r) = Len(s) + n
      /\ \A k \in 1 .. (Len(s) + n) : r[k] = IF k <= Len(s) THEN s[k] ELSE t[k - Len(s)]
  BY <1>1, ConcatProperties DEF T
<1> DEFINE l == Len(s)
<1>3. l \in Nat /\ DOMAIN s = 1 .. l /\ DOMAIN r = 1 .. (l + n)
  BY <1>2
<1>4. /\ \A k \in 1 .. l : r[k] = s[k]
      /\ \A k \in (l + 1) .. (l + n) : r[k] = e
  <2> HIDE DEF l
  <2>1. \A k \in 1 .. (l + n) : r[k] = IF k <= l THEN s[k] ELSE t[k - l]
    BY <1>2 DEF l
  <2>2. \A k \in 1 .. l : k \in 1 .. (l + n) /\ k <= l
    BY <1>3
  <2>3. \A k \in (l + 1) .. (l + n) : k \in 1 .. (l + n) /\ ~(k <= l) /\ k - l \in 1 .. n
    BY <1>3
  <2>4. \A k \in 1 .. l : r[k] = s[k]
    BY <2>1, <2>2
  <2>5. \A k \in (l + 1) .. (l + n) : r[k] = e
    BY <1>1, <1>3, <2>1, <2>3
  <2> QED BY <2>4, <2>5
<1> HIDE DEF l, r
<1>5. \A k : k \in 1 .. (l + n) <=> k \in 1 .. l \/ k \in (l + 1) .. (l + n)
  BY <1>3
<1>6. \A x : x # e => Positions(r, x) = Positions(s, x)
  BY <1>3, <1>4, <1>5 DEF Positions
<1>7. Cardinality(Positions(r, e)) = Cardinality(Positions(s, e)) + n
  <2> DEFINE A == Positions(s, e)
             B == (l + 1) .. (l + n)
  <2>1. Positions(r, e) = A \union B
    BY <1>3, <1>4, <1>5 DEF Positions
  <2>2. A \intersect B = {} /\ A \subseteq 1 .. l
    BY <1>3 DEF Positions
  <2>3. IsFiniteSet(A) /\ IsFiniteSet(B) /\ Cardinality(B) = n
    <3>1. IsFiniteSet(1 .. l)
      BY <1>3, FS_Interval
    <3>2. IsFiniteSet(B) /\ Cardinality(B) = n
      <4>1. l + 1 \in Int /\ l + n \in Int
        BY <1>3
      <4> DEFINE a == l + 1
                 z == l + n
      <4>2. IsFiniteSet(a .. z) /\ Cardinality(a .. z) = IF a > z THEN 0 ELSE z - a + 1
        <5> HIDE DEF a, z
        <5>1. a \in Int /\ z \in Int
          BY <4>1 DEF a, z
        <5> QED BY <5>1, FS_Interval
      <4> HIDE DEF B
      <4>3. Cardinality(a .. z) = n
        BY <1>3, <4>2
      <4> QED BY <4>2, <4>3 DEF B
    <3> HIDE DEF A, B
    <3> QED BY <2>2, <3>1, <3>2, FS_Subset
  <2> HIDE DEF A, B
  <2>4. Cardinality(A \union B) = Cardinality(A) + Cardinality(B) - 0
    BY <2>2, <2>3, FS_Union, FS_EmptySet
  <2>5. Cardinality(A) \in Nat
    BY <2>3, FS_CardinalityType
  <2>6. Cardinality(A \union B) = Cardinality(A) + n
    BY <2>3, <2>4, <2>5
  <2> QED BY <2>1, <2>6 DEF A
<1>8. \A k \in (l + 1) .. (l + n) : k > l
  BY <1>3
<1>9. /\ \A k \in DOMAIN s : k \in DOMAIN r /\ r[k] = s[k]
      /\ \A k \in DOMAIN r : k \in DOMAIN s \/ (k > l /\ r[k] = e)
  BY <1>3, <1>4, <1>5, <1>8
<1>10. Extends(r, s, e, n)
  BY <1>2, <1>6, <1>7, <1>9 DEF Extends, l, T
<1> QED BY <1>10 DEF r, t

-----------------------------------------------------------------------------
(* The sum of the queued bytes. *)

AddsUp(q, size, b) ==
    \E rest \in [1 .. (Len(q) + 1) -> 0 .. b] :
        /\ rest[1] = b /\ rest[Len(q) + 1] = 0
        /\ \A k \in DOMAIN q : rest[k] = size[q[k]] + rest[k + 1]
        /\ \A k, l \in DOMAIN rest : k <= l => rest[l] <= rest[k]

LEMMA NothingAddsUp == \A size : AddsUp(<<>>, size, 0)
<1> SUFFICES ASSUME NEW size PROVE AddsUp(<<>>, size, 0)
  OBVIOUS
<1> DEFINE rest == [k \in 1 .. 1 |-> 0]
<1>1. /\ rest \in [1 .. 1 -> 0 .. 0] /\ rest[1] = 0
      /\ \A k, l \in DOMAIN rest : rest[l] <= rest[k]
  OBVIOUS
<1> HIDE DEF rest
<1>2. Len(<<>>) + 1 = 1 /\ DOMAIN <<>> = {}
  OBVIOUS
<1> QED BY <1>1, <1>2 DEF AddsUp

LEMMA SameAddsUp ==
    ASSUME NEW q, NEW size, NEW more, NEW b, AddsUp(q, size, b),
           \A k \in DOMAIN q : more[q[k]] = size[q[k]]
    PROVE  AddsUp(q, more, b)
BY DEF AddsUp

LEMMA AppendAddsUp ==
    ASSUME NEW T, NEW q \in Seq(T), NEW size, NEW b \in Nat, AddsUp(q, size, b),
           NEW i \in T, size[i] \in Nat, \A k \in DOMAIN q : size[q[k]] \in Nat
    PROVE  AddsUp(Append(q, i), size, b + size[i])
<1> DEFINE m == Len(q)
           r == Append(q, i)
           s == size[i]
<1>1. PICK rest \in [1 .. (m + 1) -> 0 .. b] :
          /\ rest[1] = b /\ rest[m + 1] = 0
          /\ \A k \in DOMAIN q : rest[k] = size[q[k]] + rest[k + 1]
          /\ \A k, l \in DOMAIN rest : k <= l => rest[l] <= rest[k]
  BY DEF AddsUp
<1>2. /\ m \in Nat /\ DOMAIN q = 1 .. m /\ Len(r) = m + 1 /\ DOMAIN r = 1 .. (m + 1)
      /\ \A k \in 1 .. m : r[k] = q[k]
      /\ r[m + 1] = i /\ s \in Nat
  BY AppendProperties
<1> HIDE DEF m, r, s
<1> DEFINE new == [k \in 1 .. (m + 2) |-> IF k = m + 2 THEN 0 ELSE rest[k] + s]
<1>3. \A k \in 1 .. (m + 1) : rest[k] \in 0 .. b
  BY <1>1
<1>4. /\ new[m + 2] = 0 /\ \A k \in 1 .. (m + 1) : new[k] = rest[k] + s
      /\ new \in [1 .. (m + 2) -> 0 .. (b + s)]
  BY <1>2, <1>3
<1> HIDE DEF new
<1>5. new[1] = b + s
  BY <1>1, <1>2, <1>4
<1>6. ASSUME NEW k \in 1 .. (m + 1) PROVE new[k] = size[r[k]] + new[k + 1]
  <2>1. CASE k = m + 1
    BY <1>1, <1>2, <1>4, <2>1 DEF s
  <2>2. CASE k \in 1 .. m
    <3>1. rest[k] = size[q[k]] + rest[k + 1] /\ r[k] = q[k] /\ size[q[k]] \in Nat
      BY <1>1, <1>2, <2>2
    <3>2. k + 1 \in 1 .. (m + 1) /\ rest[k] \in Nat /\ rest[k + 1] \in Nat
      BY <1>2, <1>3, <2>2
    <3>3. new[k] = rest[k] + s /\ new[k + 1] = rest[k + 1] + s
      BY <1>4, <3>2
    <3> QED BY <1>2, <3>1, <3>2, <3>3
  <2> QED BY <1>2, <2>1, <2>2
<1>7. ASSUME NEW k \in 1 .. (m + 2), NEW l \in 1 .. (m + 2), k <= l PROVE new[l] <= new[k]
  <2>1. CASE l = m + 2
    BY <1>2, <1>4, <2>1
  <2>2. CASE l \in 1 .. (m + 1)
    <3>1. k \in 1 .. (m + 1) /\ rest[l] <= rest[k]
      BY <1>1, <1>2, <1>7, <2>2
    <3> QED BY <1>2, <1>3, <1>4, <2>2, <3>1
  <2> QED BY <1>2, <2>1, <2>2
<1>8. m + 1 + 1 = m + 2 /\ DOMAIN new = 1 .. (m + 2)
  BY <1>2, <1>4
<1>9. AddsUp(r, size, b + s)
  <2>1. /\ new \in [1 .. (Len(r) + 1) -> 0 .. (b + s)] /\ new[1] = b + s /\ new[Len(r) + 1] = 0
    BY <1>2, <1>4, <1>5, <1>8
  <2>2. \A k \in DOMAIN r : new[k] = size[r[k]] + new[k + 1]
    BY <1>2, <1>6
  <2>3. \A k, l \in DOMAIN new : k <= l => new[l] <= new[k]
    BY <1>7, <1>8
  <2> QED BY <2>1, <2>2, <2>3 DEF AddsUp
<1> QED BY <1>9 DEF r, s

LEMMA TailAddsUp ==
    ASSUME NEW T, NEW q \in Seq(T), q # <<>>, NEW size, NEW b \in Nat, AddsUp(q, size, b),
           size[Head(q)] \in Nat
    PROVE  /\ size[Head(q)] <= b
           /\ AddsUp(Tail(q), size, b - size[Head(q)])
<1> DEFINE m == Len(q)
           r == Tail(q)
           s == size[Head(q)]
<1>1. PICK rest \in [1 .. (m + 1) -> 0 .. b] :
          /\ rest[1] = b /\ rest[m + 1] = 0
          /\ \A k \in DOMAIN q : rest[k] = size[q[k]] + rest[k + 1]
          /\ \A k, l \in DOMAIN rest : k <= l => rest[l] <= rest[k]
  BY DEF AddsUp
<1>2. /\ m \in Nat \ {0} /\ DOMAIN q = 1 .. m /\ Len(r) = m - 1 /\ DOMAIN r = 1 .. (m - 1)
      /\ \A k \in 1 .. (m - 1) : r[k] = q[k + 1]
      /\ s = size[q[1]] /\ s \in Nat
  BY HeadTailProperties, EmptySeq
<1> HIDE DEF m, r, s
<1> DEFINE new == [k \in 1 .. m |-> rest[k + 1]]
<1>3. \A k \in 1 .. (m + 1) : rest[k] \in 0 .. b
  BY <1>1
<1>4. b = s + rest[2] /\ rest[2] = b - s /\ s <= b /\ 2 \in 1 .. (m + 1)
  <2>1. 1 \in DOMAIN q /\ 1 \in 1 .. (m + 1) /\ 2 \in 1 .. (m + 1) /\ 1 + 1 = 2
    BY <1>2
  <2>2. rest[1] = size[q[1]] + rest[2]
    BY <1>1, <2>1
  <2>3. b = s + rest[2] /\ rest[2] \in 0 .. b
    BY <1>1, <1>2, <1>3, <2>1, <2>2
  <2> QED BY <1>2, <2>1, <2>3, SMTT(30)
<1>5. \A k \in 1 .. m : k + 1 \in 1 .. (m + 1) /\ 2 <= k + 1 /\ rest[k + 1] <= rest[2]
  <2>1. \A k \in 1 .. m : k + 1 \in 1 .. (m + 1) /\ 2 <= k + 1
    BY <1>2
  <2>2. DOMAIN rest = 1 .. (m + 1)
    BY <1>1
  <2> QED BY <1>1, <1>4, <2>1, <2>2
<1>6. new \in [1 .. m -> 0 .. (b - s)] /\ \A k \in 1 .. m : new[k] = rest[k + 1]
  BY <1>2, <1>3, <1>4, <1>5, SMTT(30)
<1> HIDE DEF new
<1>7. new[1] = b - s /\ new[m] = 0
  BY <1>1, <1>2, <1>4, <1>6
<1>8. ASSUME NEW k \in 1 .. (m - 1) PROVE new[k] = size[r[k]] + new[k + 1]
  <2>1. k \in 1 .. m /\ k + 1 \in 1 .. m /\ r[k] = q[k + 1]
    BY <1>2
  <2> QED BY <1>1, <1>2, <1>6, <2>1
<1>9. ASSUME NEW k \in 1 .. m, NEW l \in 1 .. m, k <= l PROVE new[l] <= new[k]
  <2>1. k + 1 \in 1 .. (m + 1) /\ l + 1 \in 1 .. (m + 1) /\ k + 1 <= l + 1
    BY <1>2, <1>9
  <2> QED BY <1>1, <1>6, <2>1
<1>10. Len(r) + 1 = m /\ DOMAIN new = 1 .. m
  BY <1>2, <1>6
<1>11. AddsUp(r, size, b - s)
  <2>1. /\ new \in [1 .. (Len(r) + 1) -> 0 .. (b - s)] /\ new[1] = b - s /\ new[Len(r) + 1] = 0
    BY <1>6, <1>7, <1>10
  <2>2. \A k \in DOMAIN r : new[k] = size[r[k]] + new[k + 1]
    BY <1>2, <1>8
  <2>3. \A k, l \in DOMAIN new : k <= l => new[l] <= new[k]
    BY <1>9, <1>10
  <2> QED BY <2>1, <2>2, <2>3 DEF AddsUp
<1> QED BY <1>4, <1>11 DEF r, s

-----------------------------------------------------------------------------
(* The inductive invariant. *)

(* Without an active send nothing waits for it. *)
Quiet ==
    ~asyncSendInProgress =>
        activeFinishCB = None /\ pendingAsyncSends = <<>> /\ asyncBytesSent = 0

(* Nothing has happened to a send that was not accepted yet. *)
Unused ==
    /\ Len(sends) + Len(asking) + refusals <= MaxSends
    /\ \A i \in Ids : i \notin DOMAIN sends => finished[i] = 0 /\ i \notin dropped /\ i \notin doomed

(* Send a may leave before send b. *)
Before(a, b) == a <= b \/ (sends[a].way = "sync" /\ sends[a].at < b)

(* Nothing was written since bytes of send i were. *)
Latest(i) ==
    \A m \in DOMAIN wire : wire[m][2] = i =>
        \A k \in DOMAIN wire : m <= k => wire[k][2] = i

(* The bytes on the wire, the active send, and those that wait for it were  *)
(* accepted one after the other, but for a send() that others waited for.   *)
Queued ==
    /\ \A k \in DOMAIN pendingAsyncSends :
          /\ pendingAsyncSends[k] \in DOMAIN sends /\ finished[pendingAsyncSends[k]] = 0
          /\ sends[pendingAsyncSends[k]].way = "async"
    /\ \A k, l \in DOMAIN pendingAsyncSends : k < l => pendingAsyncSends[k] < pendingAsyncSends[l]
    /\ asyncSendInProgress =>
          /\ activeFinishCB \in DOMAIN sends
          /\ \A n \in DOMAIN wire : Before(wire[n][2], activeFinishCB)
          /\ \A k \in DOMAIN pendingAsyncSends : activeFinishCB < pendingAsyncSends[k]
          /\ Latest(activeFinishCB)
Traced ==
    /\ \A n \in DOMAIN wire : wire[n][1] <= connection /\ wire[n][2] \in DOMAIN sends
    /\ \A m, n \in DOMAIN wire : m < n => Before(wire[m][2], wire[n][2])
    /\ \A m, n \in DOMAIN wire : m < n /\ wire[m][2] = wire[n][2] =>
          \A k \in DOMAIN wire : m <= k /\ k <= n => wire[k][2] = wire[m][2]

(* What is known of the active send while processAsyncSendQueue calls the   *)
(* application, and otherwise.                                              *)
Called ==
    /\ stage # "idle" /\ stage # "ended" => asyncBytesSent = 0
    /\ asyncSendInProgress =>
          /\ stage = "idle" => finished[activeFinishCB] = 0
          /\ stage = "finish" => finished[activeFinishCB] > 0 \/ activeFinishCB \in doomed
          /\ stage = "lost" => activeFinishCB \in doomed

(* The buffer holds the active send, and what was written of it has left on *)
(* this connection.                                                         *)
Buffered ==
    asyncSendInProgress /\ finished[activeFinishCB] = 0 =>
        /\ outboundBuffer = BytesOf(activeFinishCB)
        /\ activeFinishCB \notin doomed =>
              Cardinality(Positions(wire, <<connection, activeFinishCB>>)) = asyncBytesSent

(* An active send was accepted after the first so many sends, and nothing   *)
(* of it is written.                                                        *)
Fresh(at) ==
    asyncSendInProgress =>
        /\ activeFinishCB > at
        /\ \A n \in DOMAIN wire : wire[n][2] # activeFinishCB

(* While send() writes, its payload is the latest; what is active then was  *)
(* sent from its callback.                                                  *)
Alone ==
    syncSend # None =>
        /\ syncSend.id = Len(sends)
        /\ Len(sends) \in DOMAIN sends /\ finished[Len(sends)] = 0
        /\ sends[Len(sends)].way = "sync"
        /\ Fresh(sends[Len(sends)].at)
        /\ asyncSendInProgress => activeFinishCB # Len(sends)
        /\ Latest(Len(sends))

(* A payload whose onPayloadSend callback runs would still pass its check,  *)
(* or others were accepted since.                                           *)
Since(at) == \E j \in DOMAIN sends : j > at /\ sends[j].way = "async"
Passed(f) ==
    /\ f.at <= Len(sends)
    /\ f.way = "async" => Backpressure + f.bytes <= MaxBackpressureBytes \/ Since(f.at)
    /\ f.way = "sync" => Fresh(f.at)
Checked == \A k \in DOMAIN asking : Passed(asking[k])

Fate(i) ==
    \/ finished[i] = 0 /\ i \notin dropped /\ i \in Held
    \/ finished[i] = 0 /\ i \in dropped /\ i \notin Held
    \/ finished[i] = 1 /\ i \notin dropped /\ i \notin Held
Fates == \A i \in DOMAIN sends : sends[i].way = "async" /\ i \notin doomed => Fate(i)

Whole(i) == \E c \in 0 .. MaxOpens : Cardinality(Positions(wire, <<c, i>>)) = BytesOf(i)
Complete == \A i \in DOMAIN sends : finished[i] > 0 /\ i \notin doomed => Whole(i)

Size == [i \in Ids |-> BytesOf(i)]
Counted ==
    /\ AddsUp(pendingAsyncSends, Size, queuedBackpressureBytes)
    /\ Backpressure <= MaxBackpressureBytes \/ (asyncSendInProgress /\ Overtaken(LastHeld))

SendInv ==
    /\ Quiet /\ Unused /\ Queued /\ Traced /\ Called /\ Buffered /\ Alone
    /\ Fates /\ Complete /\ Counted /\ Checked

Frame == [bytes : Sizes, way : {"sync", "async"}, at : Nat]

SendTypes ==
    /\ outboundBuffer \in Nat /\ asyncBytesSent \in 0 .. outboundBuffer
    /\ asyncSendInProgress \in BOOLEAN /\ activeFinishCB \in Ids \union {None}
    /\ pendingAsyncSends \in Seq(Ids) /\ queuedBackpressureBytes \in Nat
    /\ asking \in Seq(Frame) /\ sends \in Seq(Frame) /\ refusals \in Nat
    /\ finished \in [Ids -> Nat]
    /\ wire \in Seq((0 .. MaxOpens) \X Ids)
    /\ connection \in 0 .. MaxOpens

LEMMA Typed == TypeOK => SendTypes
BY SslAssumption DEF TypeOK, SendTypes, Frame

LEMMA Numbers ==
    ASSUME SendTypes
    PROVE  /\ Len(sends) \in Nat /\ DOMAIN sends = 1 .. Len(sends)
           /\ \A i \in DOMAIN sends : /\ BytesOf(i) \in Nat /\ BytesOf(i) \in Sizes
                                     /\ sends[i].at \in Nat
           /\ Len(asking) \in Nat /\ DOMAIN asking = 1 .. Len(asking)
           /\ \A k \in DOMAIN asking : asking[k] \in Frame
           /\ \A n \in DOMAIN wire : wire[n][1] \in 0 .. MaxOpens /\ wire[n][2] \in Ids
           /\ DOMAIN wire = 1 .. Len(wire) /\ Len(wire) \in Nat
           /\ Len(pendingAsyncSends) \in Nat /\ DOMAIN pendingAsyncSends = 1 .. Len(pendingAsyncSends)
           /\ \A k \in DOMAIN pendingAsyncSends : pendingAsyncSends[k] \in Ids
           /\ None \notin Nat /\ None \notin Ids /\ MaxBackpressureBytes \in Nat /\ MaxSends \in Nat
<1>1. Len(sends) \in Nat /\ DOMAIN sends = 1 .. Len(sends)
  BY DEF SendTypes
<1>2. \A i \in DOMAIN sends : BytesOf(i) \in Sizes /\ sends[i].at \in Nat
  <2>1. \A s \in Frame : s.bytes \in Sizes /\ s.at \in Nat
    BY DEF Frame
  <2>2. \A i \in DOMAIN sends : sends[i] \in Frame
    BY DEF SendTypes
  <2> QED BY <2>1, <2>2 DEF BytesOf
<1>3. \A n \in DOMAIN wire : wire[n][1] \in 0 .. MaxOpens /\ wire[n][2] \in Ids
  <2>1. \A n \in DOMAIN wire : wire[n] \in (0 .. MaxOpens) \X Ids
    BY DEF SendTypes
  <2> QED BY <2>1
<1>4. DOMAIN wire = 1 .. Len(wire) /\ Len(wire) \in Nat
  BY DEF SendTypes
<1>5. /\ Len(pendingAsyncSends) \in Nat /\ DOMAIN pendingAsyncSends = 1 .. Len(pendingAsyncSends)
      /\ \A k \in DOMAIN pendingAsyncSends : pendingAsyncSends[k] \in Ids
  BY DEF SendTypes
<1>6. None \notin Nat /\ None \notin Ids /\ MaxBackpressureBytes \in Nat /\ MaxSends \in Nat /\ Sizes \subseteq Nat
  BY SslAssumption DEF Ids
<1>7. /\ Len(asking) \in Nat /\ DOMAIN asking = 1 .. Len(asking)
      /\ \A k \in DOMAIN asking : asking[k] \in Frame
  BY DEF SendTypes
<1> QED BY <1>1, <1>2, <1>3, <1>4, <1>5, <1>6, <1>7

LEMMA SentIds == ASSUME SendTypes, SendInv PROVE DOMAIN sends \subseteq Ids
<1>1. Len(sends) <= MaxSends
  BY Numbers DEF SendInv, Unused, SendTypes
<1> QED BY <1>1, Numbers DEF Ids

LEMMA SendInit == Init => SendInv
<1> SUFFICES ASSUME Init PROVE SendInv
  OBVIOUS
<1>1. DOMAIN sends = {} /\ DOMAIN wire = {} /\ DOMAIN pendingAsyncSends = {} /\ Len(sends) = 0
      /\ DOMAIN asking = {} /\ Len(asking) = 0 /\ refusals = 0
  BY DEF Init
<1>2. Quiet /\ Unused /\ Queued /\ Traced /\ Called /\ Buffered /\ Alone /\ Fates /\ Complete
      /\ Checked
  BY <1>1, SslAssumption
     DEF Init, Quiet, Unused, Queued, Traced, Called, Buffered, Alone, Fates, Complete, Checked
<1>3. Counted
  BY NothingAddsUp, SslAssumption DEF Init, Counted, Backpressure
<1> QED BY <1>2, <1>3 DEF SendInv

-----------------------------------------------------------------------------
(* The steps, as far as they touch the sends. *)

(* Nothing but the stage changes, and the loop may end. *)
LEMMA StillStep ==
    ASSUME SendInv, UNCHANGED <<asyncVars, callVars, finished, wire, connection>>,
           stage' \in {stage, "ended"}
    PROVE  SendInv'
<1>1. UNCHANGED <<outboundBuffer, asyncBytesSent, asyncSendInProgress, activeFinishCB,
                  pendingAsyncSends, queuedBackpressureBytes, dropped>>
      /\ UNCHANGED <<asking, syncSend, sends, refusals, doomed>>
  BY DEF asyncVars, callVars
<1>2. Called'
  BY <1>1 DEF SendInv, Called
<1>3. /\ Quiet' = Quiet /\ Unused' = Unused /\ Queued' = Queued /\ Traced' = Traced
      /\ Buffered' = Buffered /\ Alone' = Alone /\ Fates' = Fates /\ Complete' = Complete
      /\ Counted' = Counted /\ Checked' = Checked
  BY <1>1 DEF Quiet, Unused, Queued, Traced, Before, Latest, Buffered, Alone, Fresh, Fates, Fate,
              Held, Complete, Whole, Counted, Backpressure, Size, BytesOf, Overtaken, LastHeld,
              Checked, Passed, Since
<1> QED BY <1>2, <1>3 DEF SendInv

(* A lost connection discards what is held. *)
LEMMA ClearStep ==
    ASSUME SendTypes, SendInv, ClearAsyncSendState,
           UNCHANGED <<asking, sends, refusals, doomed, finished, wire, connection>>,
           syncSend' \in {syncSend, None}
    PROVE  SendInv'
<1>1. /\ outboundBuffer' = 0 /\ asyncBytesSent' = 0 /\ asyncSendInProgress' = FALSE
      /\ activeFinishCB' = None /\ pendingAsyncSends' = <<>> /\ queuedBackpressureBytes' = 0
      /\ dropped' = dropped \union Held
  BY DEF ClearAsyncSendState
<1>2. Held' = {} /\ DOMAIN pendingAsyncSends' = {}
  BY <1>1 DEF Held
<1>3. \A i \in Held : i \in DOMAIN sends
  BY DEF Held, SendInv, Queued
<1>4. Quiet' /\ Queued' /\ Traced' /\ Called' /\ Buffered'
  BY <1>1, <1>2 DEF SendInv, Quiet, Queued, Traced, Before, Called, Buffered
<1>5. Unused' /\ Alone'
  BY <1>1, <1>3 DEF SendInv, Unused, Alone, Fresh, Latest
<1>6. Fates'
  BY <1>1, <1>2 DEF SendInv, Fates, Fate
<1>7. Complete'
  BY DEF SendInv, Complete, Whole, BytesOf
<1>8. Counted'
  BY <1>1, NothingAddsUp, SslAssumption DEF Counted, Backpressure
<1>9. Checked'
  <2> SUFFICES ASSUME NEW k \in DOMAIN asking PROVE Passed(asking[k])'
    BY DEF Checked
  <2>1. Passed(asking[k]) /\ asking[k] \in Frame
    BY Numbers DEF SendInv, Checked
  <2>2. asking[k].bytes \in Nat /\ Backpressure \in Nat /\ Backpressure' = 0
    <3>1. \A s \in Frame : s.bytes \in Nat
      BY SslAssumption DEF Frame
    <3>2. Backpressure \in Nat /\ Backpressure' = 0
      BY <1>1 DEF Backpressure, SendTypes
    <3> QED BY <2>1, <3>1, <3>2
  <2> QED BY <1>1, <2>1, <2>2, SslAssumption DEF Passed, Since, Fresh
<1> QED BY <1>4, <1>5, <1>6, <1>7, <1>8, <1>9 DEF SendInv

(* A new connection: what is left of a send that was written in part has    *)
(* lost its beginning.                                                      *)
LEMMA ConnectStep ==
    ASSUME SendTypes, SendInv, connection' = connection + 1, syncSend = None,
           doomed' = IF asyncBytesSent > 0 THEN doomed \union {activeFinishCB} ELSE doomed,
           UNCHANGED <<asyncVars, asking, sends, refusals, finished, wire, stage, syncSend>>
    PROVE  SendInv'
<1>1. UNCHANGED <<outboundBuffer, asyncBytesSent, asyncSendInProgress, activeFinishCB,
                  pendingAsyncSends, queuedBackpressureBytes, dropped>>
  BY DEF asyncVars
<1>2. doomed \subseteq doomed' /\ connection \in Nat /\ asyncBytesSent \in Nat
  BY DEF SendTypes
<1>3. asyncSendInProgress => activeFinishCB \in DOMAIN sends
  BY DEF SendInv, Queued
<1>4. Quiet' /\ Queued' /\ Alone' /\ Called'
  BY <1>1, <1>2 DEF SendInv, Quiet, Queued, Before, Latest, Alone, Fresh, Called
<1>5. Unused'
  BY <1>1, <1>2, <1>3 DEF SendInv, Unused, Quiet
<1>6. Traced'
  <2>1. \A n \in DOMAIN wire : wire[n][1] <= connection + 1
    BY <1>2, Numbers DEF SendInv, Traced
  <2> QED BY <2>1 DEF SendInv, Traced, Before
<1>7. Buffered'
  <2> SUFFICES ASSUME asyncSendInProgress, finished[activeFinishCB] = 0
               PROVE  /\ outboundBuffer = BytesOf(activeFinishCB)'
                      /\ activeFinishCB \notin doomed' =>
                            Cardinality(Positions(wire, <<connection', activeFinishCB>>)) = asyncBytesSent
    BY <1>1 DEF Buffered
  <2>1. outboundBuffer = BytesOf(activeFinishCB)'
    BY <1>1 DEF SendInv, Buffered, BytesOf
  <2>2. activeFinishCB \notin doomed' => asyncBytesSent = 0
    BY <1>2
  <2>3. \A n \in DOMAIN wire : wire[n][1] # connection'
    BY <1>2, Numbers DEF SendInv, Traced
  <2>4. Positions(wire, <<connection', activeFinishCB>>) = {}
    BY <2>3 DEF Positions
  <2> QED BY <2>1, <2>2, <2>4, FS_EmptySet
<1>8. Fates' /\ Complete'
  BY <1>1, <1>2 DEF SendInv, Fates, Fate, Held, Complete, Whole, BytesOf
<1>9. Counted' = Counted /\ Checked' = Checked
  BY <1>1 DEF Counted, Backpressure, Size, BytesOf, Overtaken, LastHeld, Checked, Passed, Since,
              Fresh
<1> QED BY <1>4, <1>5, <1>6, <1>7, <1>8, <1>9 DEF SendInv

(* The innermost callback returns: the others still run. *)
LEMMA AnswerStep ==
    ASSUME SendTypes, Answer
    PROVE  /\ asked \in Frame /\ asked.bytes \in Sizes /\ asked.at \in Nat
           /\ Len(asking) \in Nat \ {0} /\ Len(asking) \in DOMAIN asking
           /\ asking' \in Seq(Frame) /\ Len(asking') = Len(asking) - 1
           /\ \A k \in DOMAIN asking' : k \in DOMAIN asking /\ asking'[k] = asking[k]
           /\ syncSend = None /\ UNCHANGED <<finished, wire, connection, stage>>
<1> DEFINE q == asking
           l == Len(asking)
<1>1. q \in Seq(Frame) /\ q # <<>> /\ asking' = SubSeq(q, 1, l - 1) /\ asked = q[l]
  BY DEF Answer, asked, SendTypes
<1>2. l \in Nat \ {0} /\ DOMAIN q = 1 .. l /\ q \in [1 .. l -> Frame]
  BY <1>1, EmptySeq
<1> HIDE DEF q
<1>3. asking' = [k \in 1 .. (l - 1) |-> q[k]]
  <2>1. SubSeq(q, 1, l - 1) = [k \in 1 .. ((l - 1) - 1 + 1) |-> q[k + 1 - 1]]
    BY DEF SubSeq
  <2> HIDE DEF l
  <2>2. (l - 1) - 1 + 1 = l - 1 /\ \A k \in 1 .. (l - 1) : k + 1 - 1 = k
    BY <1>2
  <2> QED BY <1>1, <2>1, <2>2
<1> HIDE DEF l
<1>4. \A k \in 1 .. (l - 1) : k \in 1 .. l /\ q[k] \in Frame
  BY <1>2
<1>5. l - 1 \in Nat /\ asking' \in [1 .. (l - 1) -> Frame]
  BY <1>2, <1>3, <1>4
<1>6. asking' \in Seq(Frame) /\ Len(asking') = l - 1 /\ DOMAIN asking' = 1 .. (l - 1)
  BY <1>5, SeqDef, LenProperties
<1>7. asked \in Frame /\ l \in DOMAIN q
  BY <1>1, <1>2
<1>8. asked.bytes \in Sizes /\ asked.at \in Nat
  BY <1>7 DEF Frame
<1>9. syncSend = None /\ UNCHANGED <<finished, wire, connection, stage>>
  BY DEF Answer, countVars
<1> QED BY <1>2, <1>3, <1>4, <1>6, <1>7, <1>8, <1>9 DEF q, l

(* A send begins to ask. *)
LEMMA AskStep ==
    ASSUME SendTypes, SendInv, NEW bytes \in Sizes, NEW way \in {"sync", "async"}, Ask(bytes, way),
           way = "async" => Backpressure + bytes <= MaxBackpressureBytes,
           way = "sync" => ~asyncSendInProgress,
           UNCHANGED <<finished, wire, connection, stage>>
    PROVE  SendInv' /\ asking' \in Seq(Frame)
<1> DEFINE n == [bytes |-> bytes, way |-> way, at |-> Len(sends)]
           l == Len(asking)
<1>1. /\ UNCHANGED <<outboundBuffer, asyncBytesSent, asyncSendInProgress, activeFinishCB,
                     pendingAsyncSends, queuedBackpressureBytes, dropped>>
      /\ UNCHANGED <<syncSend, sends, refusals, doomed>>
      /\ asking' = Append(asking, n) /\ Len(sends) + l + refusals < MaxSends
  BY DEF Ask, asyncVars
<1>2. n \in Frame /\ n.bytes = bytes /\ n.way = way /\ n.at = Len(sends) /\ l \in Nat
      /\ refusals \in Nat /\ Len(sends) \in Nat /\ MaxSends \in Nat
  BY Numbers DEF Frame, SendTypes
<1> HIDE DEF n
<1>3. /\ asking' \in Seq(Frame) /\ Len(asking') = l + 1
      /\ \A k \in 1 .. l : asking'[k] = asking[k]
      /\ asking'[l + 1] = n /\ DOMAIN asking' = 1 .. (l + 1) /\ DOMAIN asking = 1 .. l
  BY <1>1, <1>2, AppendProperties DEF SendTypes
<1> HIDE DEF l
<1>4. Checked'
  <2> SUFFICES ASSUME NEW k \in DOMAIN asking', NEW f, f = asking'[k] PROVE Passed(f)'
    BY DEF Checked
  <2>1. CASE k \in 1 .. l
    <3>1. Passed(f)
      BY <1>3, <2>1 DEF SendInv, Checked
    <3> QED BY <1>1, <1>3, <2>1, <3>1 DEF Passed, Backpressure, Since, Fresh
  <2>2. CASE k = l + 1
    <3>1. Passed(n)
      BY <1>2 DEF Passed, Fresh
    <3> QED BY <1>1, <1>3, <2>2, <3>1 DEF Passed, Backpressure, Since, Fresh
  <2> QED BY <1>2, <1>3, <2>1, <2>2
<1>5. Unused'
  BY <1>1, <1>2, <1>3 DEF SendInv, Unused
<1>6. /\ Quiet' = Quiet /\ Queued' = Queued /\ Traced' = Traced /\ Called' = Called
      /\ Buffered' = Buffered /\ Alone' = Alone /\ Fates' = Fates /\ Complete' = Complete
      /\ Counted' = Counted
  BY <1>1 DEF Quiet, Queued, Traced, Before, Latest, Called, Buffered, Alone, Fresh, Fates, Fate,
              Held, Complete, Whole, Counted, Backpressure, Size, BytesOf, Overtaken, LastHeld
<1> QED BY <1>3, <1>4, <1>5, <1>6 DEF SendInv

(* A send is refused. *)
LEMMA RefusedStep ==
    ASSUME SendTypes, SendInv, PayloadRefused
    PROVE  SendInv'
<1>1. /\ UNCHANGED <<outboundBuffer, asyncBytesSent, asyncSendInProgress, activeFinishCB,
                     pendingAsyncSends, queuedBackpressureBytes, dropped>>
      /\ UNCHANGED <<syncSend, sends, doomed>>
      /\ Answer /\ refusals' = refusals + 1
  BY DEF PayloadRefused, asyncVars
<1>2. /\ UNCHANGED <<finished, wire, connection, stage>> /\ Len(asking') = Len(asking) - 1
      /\ \A k \in DOMAIN asking' : k \in DOMAIN asking /\ asking'[k] = asking[k]
  BY <1>1, AnswerStep
<1>3. Checked'
  <2> SUFFICES ASSUME NEW k \in DOMAIN asking', NEW f, f = asking'[k] PROVE Passed(f)'
    BY DEF Checked
  <2>1. Passed(f)
    BY <1>2 DEF SendInv, Checked
  <2> QED BY <1>1, <1>2, <2>1 DEF Passed, Backpressure, Since, Fresh
<1>4. Unused'
  BY <1>1, <1>2, Numbers DEF SendInv, Unused, SendTypes
<1>5. /\ Quiet' = Quiet /\ Queued' = Queued /\ Traced' = Traced /\ Called' = Called
      /\ Buffered' = Buffered /\ Alone' = Alone /\ Fates' = Fates /\ Complete' = Complete
      /\ Counted' = Counted
  BY <1>1, <1>2 DEF Quiet, Queued, Traced, Before, Latest, Called, Buffered, Alone, Fresh, Fates,
              Fate, Held, Complete, Whole, Counted, Backpressure, Size, BytesOf, Overtaken, LastHeld
<1> QED BY <1>3, <1>4, <1>5 DEF SendInv

(* A new number. *)
LEMMA NewSend ==
    ASSUME SendTypes, SendInv, NEW way, Accepted(way), NEW m, m = Len(sends')
    PROVE  /\ m \in Ids /\ m \in Nat /\ m = Len(sends) + 1
           /\ Len(sends') + Len(asking') + refusals' <= MaxSends
           /\ DOMAIN sends' = DOMAIN sends \union {m} /\ m \notin DOMAIN sends
           /\ sends' \in Seq(Frame)
           /\ \A i \in DOMAIN sends : sends'[i] = sends[i] /\ BytesOf(i)' = BytesOf(i) /\ i < m
           /\ sends'[m] = asked /\ sends'[m].way = way /\ BytesOf(m)' = asked.bytes
           /\ asked \in Frame /\ asked.bytes \in Sizes /\ asked.at \in Nat /\ asked.at < m
           /\ finished[m] = 0 /\ m \notin dropped /\ m \notin doomed /\ m \notin Held
           /\ \A n \in DOMAIN wire : wire[n][2] \in DOMAIN sends /\ wire[n][2] < m
           /\ \A k \in DOMAIN pendingAsyncSends : pendingAsyncSends[k] \in DOMAIN sends /\ pendingAsyncSends[k] < m
           /\ \A c : Positions(wire, <<c, m>>) = {}
<1> DEFINE l == Len(sends)
<1>1. /\ asked \in Frame /\ asked.bytes \in Sizes /\ asked.at \in Nat /\ asked.way = way
      /\ Len(asking) \in Nat \ {0} /\ Len(asking) \in DOMAIN asking /\ Len(asking') = Len(asking) - 1
      /\ refusals' = refusals /\ refusals \in Nat
  BY AnswerStep DEF Accepted, SendTypes
<1>2. /\ sends \in Seq(Frame) /\ sends' = Append(sends, asked)
      /\ l + Len(asking) + refusals <= MaxSends
  BY DEF SendTypes, Accepted, SendInv, Unused
<1>3. l \in Nat /\ MaxSends \in Nat /\ DOMAIN sends = 1 .. l
  BY Numbers
<1>4. /\ sends' \in Seq(Frame) /\ Len(sends') = l + 1
      /\ \A i \in 1 .. l : sends'[i] = sends[i]
      /\ sends'[l + 1] = asked
  BY <1>1, <1>2, AppendProperties
<1>5. DOMAIN sends' = 1 .. (l + 1)
  BY <1>4
<1>6. asked.at <= l
  BY <1>1 DEF SendInv, Checked, Passed, asked
<1> HIDE DEF l
<1>7. /\ m = l + 1 /\ m \in Nat /\ m \in Ids /\ asked.at < m
      /\ m + Len(asking') + refusals' <= MaxSends
  BY <1>1, <1>2, <1>3, <1>4, <1>6 DEF Ids
<1>8. DOMAIN sends' = DOMAIN sends \union {m} /\ m \notin DOMAIN sends /\ \A i \in DOMAIN sends : i < m
  BY <1>3, <1>5, <1>7
<1>9. \A i \in DOMAIN sends : sends'[i] = sends[i] /\ BytesOf(i)' = BytesOf(i)
  BY <1>3, <1>4 DEF BytesOf
<1>10. sends'[m] = asked /\ BytesOf(m)' = asked.bytes
  BY <1>4, <1>7 DEF BytesOf
<1>11. /\ finished[m] = 0 /\ m \notin dropped /\ m \notin doomed
       /\ \A n \in DOMAIN wire : wire[n][2] \in DOMAIN sends
       /\ \A k \in DOMAIN pendingAsyncSends : pendingAsyncSends[k] \in DOMAIN sends
  BY <1>7, <1>8 DEF SendInv, Unused, Traced, Queued
<1>12. m \notin Held
  BY <1>8, <1>11 DEF Held, SendInv, Queued
<1>13. \A c : Positions(wire, <<c, m>>) = {}
  BY <1>8, <1>11 DEF Positions
<1> QED BY <1>1, <1>4, <1>7, <1>8, <1>9, <1>10, <1>11, <1>12, <1>13 DEF l

(* What does not depend on the way the send takes. *)
LEMMA AcceptStep ==
    ASSUME SendTypes, SendInv, NEW way, Accepted(way), NEW m, m = Len(sends'),
           doomed \subseteq doomed', doomed' \subseteq doomed \union {m},
           UNCHANGED dropped
    PROVE  /\ Unused' /\ Traced' /\ Complete'
           /\ UNCHANGED <<finished, wire, connection, stage>> /\ syncSend = None
<1>1. UNCHANGED <<finished, wire, connection, stage>> /\ syncSend = None
  BY AnswerStep DEF Accepted
<1>2. Unused'
  BY <1>1, NewSend DEF SendInv, Unused
<1>3. Traced'
  <2>1. \A n \in DOMAIN wire : /\ wire[n][2] \in DOMAIN sends /\ wire[n][2] \in DOMAIN sends'
                               /\ sends'[wire[n][2]] = sends[wire[n][2]]
    BY NewSend
  <2> QED BY <1>1, <2>1 DEF SendInv, Traced, Before
<1>4. Complete'
  <2>1. \A i \in DOMAIN sends : Whole(i) => Whole(i)'
    BY <1>1, NewSend DEF Whole
  <2>2. DOMAIN sends' = DOMAIN sends \union {m} /\ finished'[m] = 0
    BY <1>1, NewSend
  <2> QED BY <1>1, <2>1, <2>2 DEF SendInv, Complete
<1> QED BY <1>1, <1>2, <1>3, <1>4

(* The payloads that still ask pass, whatever was accepted. *)
LEMMA PassedStep ==
    ASSUME SendTypes, SendInv, NEW way, Accepted(way), NEW m, m = Len(sends'),
           way = "async" \/ Backpressure' = Backpressure,
           \/ UNCHANGED <<asyncSendInProgress, activeFinishCB>>
           \/ activeFinishCB' = m
    PROVE  Checked'
<1> SUFFICES ASSUME NEW k \in DOMAIN asking', NEW f, f = asking'[k] PROVE Passed(f)'
  BY DEF Checked
<1>1. /\ k \in DOMAIN asking /\ asking'[k] = asking[k] /\ UNCHANGED wire
  BY AnswerStep DEF Accepted
<1>2. Passed(f) /\ f \in Frame
  BY <1>1, Numbers DEF SendInv, Checked
<1>3. f.at \in Nat /\ f.at <= Len(sends) /\ Len(sends) \in Nat /\ m = Len(sends) + 1 /\ f.at < m
  BY <1>2, NewSend, Numbers DEF Frame, Passed
<1>4. f.at <= Len(sends')
  BY <1>3
<1>5. f.way = "async" => Backpressure' + f.bytes <= MaxBackpressureBytes \/ Since(f.at)'
  <2>1. CASE way = "async"
    <3>1. m \in DOMAIN sends' /\ sends'[m].way = "async"
      BY <2>1, NewSend
    <3> QED BY <1>3, <3>1 DEF Since
  <2>2. CASE Backpressure' = Backpressure
    <3>1. Since(f.at) => Since(f.at)'
      BY NewSend DEF Since
    <3> QED BY <1>2, <2>2, <3>1 DEF Passed
  <2> QED BY <2>1, <2>2
<1>6. f.way = "sync" => Fresh(f.at)'
  <2>1. CASE UNCHANGED <<asyncSendInProgress, activeFinishCB>>
    BY <1>1, <1>2, <2>1 DEF Passed, Fresh
  <2>2. CASE activeFinishCB' = m
    <3>1. \A n \in DOMAIN wire : wire[n][2] # m
      BY NewSend
    <3> QED BY <1>1, <1>3, <2>2, <3>1 DEF Fresh
  <2> QED BY <2>1, <2>2
<1> QED BY <1>4, <1>5, <1>6 DEF Passed

LEMMA BeginSyncStep ==
    ASSUME SendTypes, SendInv, BeginSync
    PROVE  SendInv'
<1> SUFFICES ASSUME NEW m, m = Len(sends') PROVE SendInv'
  OBVIOUS
<1>1. /\ UNCHANGED <<outboundBuffer, asyncBytesSent, asyncSendInProgress, activeFinishCB,
                     pendingAsyncSends, queuedBackpressureBytes, dropped, doomed>>
      /\ Accepted("sync")
      /\ syncSend' = IF asked.bytes = 0 THEN None ELSE [id |-> m, left |-> asked.bytes]
  BY DEF asyncVars, BeginSync
<1>2. /\ Unused' /\ Traced' /\ Complete' /\ UNCHANGED <<finished, wire, connection, stage>>
  BY <1>1, AcceptStep
<1>3. /\ m \in DOMAIN sends' /\ finished[m] = 0 /\ sends'[m].way = "sync" /\ sends'[m] = asked
      /\ DOMAIN sends' = DOMAIN sends \union {m} /\ m \notin DOMAIN sends
      /\ \A i \in DOMAIN sends : sends'[i] = sends[i] /\ BytesOf(i)' = BytesOf(i)
      /\ \A n \in DOMAIN wire : wire[n][2] \in DOMAIN sends /\ wire[n][2] # m
      /\ \A k \in DOMAIN pendingAsyncSends : pendingAsyncSends[k] \in DOMAIN sends
  BY <1>1, NewSend
<1>4. Quiet' /\ Called' /\ Buffered'
  <2>1. asyncSendInProgress => activeFinishCB \in DOMAIN sends
    BY DEF SendInv, Queued
  <2> QED BY <1>1, <1>2, <1>3, <2>1 DEF SendInv, Quiet, Called, Buffered
<1>5. Queued'
  BY <1>1, <1>2, <1>3 DEF SendInv, Queued, Before, Latest
<1>6. Alone'
  <2>1. Fresh(asked.at)
    <3>1. Passed(asked) /\ asked.way = "sync"
      BY <1>1, AnswerStep DEF SendInv, Checked, asked, Accepted
    <3> QED BY <3>1 DEF Passed
  <2>2. \A at : at = asked.at => Fresh(at)'
    BY <1>1, <1>2, <2>1 DEF Fresh
  <2>3. asyncSendInProgress => activeFinishCB # m
    BY <1>3 DEF SendInv, Queued
  <2>4. Latest(m)'
    BY <1>2, <1>3 DEF Latest
  <2> QED BY <1>1, <1>2, <1>3, <2>2, <2>3, <2>4 DEF Alone, Fresh
<1>7. Fates'
  BY <1>1, <1>2, <1>3 DEF SendInv, Fates, Fate, Held
<1>8. Counted'
  <2>1. AddsUp(pendingAsyncSends, Size', queuedBackpressureBytes)
    <3>1. \A k \in DOMAIN pendingAsyncSends : Size'[pendingAsyncSends[k]] = Size[pendingAsyncSends[k]]
      BY <1>3, Numbers DEF Size
    <3> QED BY <3>1, SameAddsUp DEF SendInv, Counted
  <2>2. asyncSendInProgress => LastHeld \in DOMAIN sends
    BY Numbers, EmptySeq DEF SendInv, Queued, LastHeld, SendTypes
  <2>3. LastHeld' = LastHeld /\ Backpressure' = Backpressure
    BY <1>1 DEF LastHeld, Backpressure
  <2>4. asyncSendInProgress /\ Overtaken(LastHeld) => Overtaken(LastHeld)'
    <3> SUFFICES ASSUME asyncSendInProgress, Overtaken(LastHeld) PROVE Overtaken(LastHeld)'
      OBVIOUS
    <3> DEFINE b == LastHeld
    <3>1. b \in DOMAIN sends /\ b \in Nat /\ sends[b].at \in Nat /\ sends'[b] = sends[b]
      BY <1>3, <2>2, Numbers
    <3> HIDE DEF b
    <3>2. PICK j \in (sends[b].at + 1) .. (b - 1) : sends[j].way = "async"
      BY DEF Overtaken, b
    <3>3. j \in DOMAIN sends
      BY <3>1, <3>2, Numbers
    <3>4. LastHeld' = b
      BY <2>3 DEF b
    <3>5. \E n \in (sends'[b].at + 1) .. (b - 1) : sends'[n].way = "async"
      BY <1>3, <3>1, <3>2, <3>3
    <3> QED BY <3>4, <3>5 DEF Overtaken
  <2> QED BY <1>1, <2>1, <2>3, <2>4 DEF SendInv, Counted
<1>9. Checked'
  BY <1>1, PassedStep DEF Backpressure
<1> QED BY <1>2, <1>4, <1>5, <1>6, <1>7, <1>8, <1>9 DEF SendInv

LEMMA QueueAsyncStep ==
    ASSUME SendTypes, SendInv, QueueAsync
    PROVE  SendInv'
<1> SUFFICES ASSUME NEW m, m = Len(sends') PROVE SendInv'
  OBVIOUS
<1> DEFINE bytes == asked.bytes
<1>1. Accepted("async") /\ syncSend' = syncSend /\ dropped' = dropped
  BY DEF QueueAsync
<1>2. /\ m \in Ids /\ m \in Nat /\ m = Len(sends')
      /\ DOMAIN sends' = DOMAIN sends \union {m} /\ m \notin DOMAIN sends
      /\ \A i \in DOMAIN sends : sends'[i] = sends[i] /\ BytesOf(i)' = BytesOf(i)
      /\ BytesOf(m)' = bytes /\ sends'[m].way = "async" /\ sends'[m] = asked
      /\ finished[m] = 0 /\ m \notin dropped /\ m \notin doomed /\ m \notin Held
      /\ \A n \in DOMAIN wire : wire[n][2] < m /\ wire[n][2] \in DOMAIN sends
      /\ \A i \in DOMAIN sends : i < m
      /\ \A c : Positions(wire, <<c, m>>) = {}
  BY <1>1, NewSend
<1>3. /\ UNCHANGED <<finished, wire, connection, stage>> /\ syncSend = None /\ syncSend' = None
      /\ \A k \in DOMAIN pendingAsyncSends : pendingAsyncSends[k] \in DOMAIN sends
      /\ DOMAIN sends \subseteq Ids /\ bytes \in Nat /\ MaxBackpressureBytes \in Nat
  <2>1. DOMAIN sends \subseteq Ids
    <3>1. Len(sends) <= MaxSends
      BY Numbers DEF SendInv, Unused, SendTypes
    <3> QED BY <3>1, Numbers DEF Ids
  <2>2. UNCHANGED <<finished, wire, connection, stage>> /\ syncSend = None /\ bytes \in Sizes
    BY <1>1, AnswerStep DEF Accepted
  <2> QED BY <1>1, <2>1, <2>2, SslAssumption DEF SendInv, Queued
<1>4. /\ Size'[m] = bytes /\ \A k \in DOMAIN pendingAsyncSends : Size'[pendingAsyncSends[k]] = Size[pendingAsyncSends[k]]
      /\ \A k \in DOMAIN pendingAsyncSends : Size'[pendingAsyncSends[k]] \in Nat
  BY <1>2, <1>3, Numbers DEF Size
<1>5. AddsUp(pendingAsyncSends, Size', queuedBackpressureBytes) /\ queuedBackpressureBytes \in Nat
  BY <1>4, SameAddsUp DEF SendInv, Counted, SendTypes
<1>6. \/ Backpressure + bytes <= MaxBackpressureBytes
      \/ Overtaken(m)'
  <2>1. Passed(asked) /\ asked.way = "async" /\ asked.at \in Nat
    BY <1>1, AnswerStep DEF SendInv, Checked, asked, Accepted
  <2>2. ASSUME Since(asked.at) PROVE Overtaken(m)'
    <3>1. PICK j \in DOMAIN sends : j > asked.at /\ sends[j].way = "async"
      BY <2>2 DEF Since
    <3>2. j \in (asked.at + 1) .. (m - 1) /\ sends'[j].way = "async"
      <4>1. j \in Nat /\ j < m /\ sends'[j] = sends[j]
        BY <1>2, <3>1, Numbers
      <4> QED BY <1>2, <2>1, <3>1, <4>1
    <3>3. \E n \in (sends'[m].at + 1) .. (m - 1) : sends'[n].way = "async"
      BY <1>2, <3>2
    <3> QED BY <3>3 DEF Overtaken
  <2> QED BY <2>1, <2>2 DEF Passed
<1>7. CASE asyncSendInProgress
  <2>1. /\ pendingAsyncSends' = Append(pendingAsyncSends, m)
        /\ queuedBackpressureBytes' = queuedBackpressureBytes + bytes
        /\ UNCHANGED <<outboundBuffer, asyncBytesSent, asyncSendInProgress, activeFinishCB, doomed>>
    BY <1>7 DEF QueueAsync
  <2>2. Unused' /\ Traced' /\ Complete' /\ Checked'
    BY <1>1, <2>1, AcceptStep, PassedStep
  <2> DEFINE q == pendingAsyncSends
             l == Len(pendingAsyncSends)
  <2>3. /\ l \in Nat /\ DOMAIN q = 1 .. l /\ q \in Seq(Ids)
        /\ \A k \in 1 .. l : q'[k] = q[k]
        /\ DOMAIN q' = 1 .. (l + 1) /\ q'[l + 1] = m /\ Len(q') = l + 1 /\ q' # <<>>
    BY <1>2, <2>1, AppendProperties, EmptySeq DEF SendTypes
  <2>4. pendingAsyncSends = q /\ pendingAsyncSends' = q'
    OBVIOUS
  <2>5. LastHeld' = m
    BY <2>3, <2>4 DEF LastHeld
  <2> HIDE DEF q, l
  <2>6. /\ \A k : k \in DOMAIN q' <=> k \in DOMAIN q \/ k = l + 1
        /\ \A k \in DOMAIN q : q'[k] = q[k] /\ k < l + 1 /\ ~(l + 1 < k) /\ k # l + 1
        /\ q'[l + 1] = m /\ ~(l + 1 < l + 1)
    BY <2>3
  <2>7. Held' = Held \union {m}
    <3>1. \A i : (\E n \in DOMAIN q' : q'[n] = i) <=> (\E n \in DOMAIN q : q[n] = i) \/ i = m
      BY <2>6
    <3>2. Held = {i \in Ids : (activeFinishCB = i /\ finished[i] = 0) \/ \E n \in DOMAIN q : q[n] = i}
      BY <1>7, <2>4 DEF Held
    <3>3. Held' = {i \in Ids : (activeFinishCB = i /\ finished[i] = 0) \/ \E n \in DOMAIN q' : q'[n] = i}
      BY <1>3, <1>7, <2>1, <2>4 DEF Held
    <3> QED BY <1>2, <3>1, <3>2, <3>3
  <2>8. Queued'
    <3>1. \A k \in DOMAIN q' : q'[k] \in DOMAIN sends' /\ finished'[q'[k]] = 0 /\ sends'[q'[k]].way = "async"
      BY <1>2, <1>3, <2>4, <2>6 DEF SendInv, Queued
    <3>2. \A j, k \in DOMAIN q' : j < k => q'[j] < q'[k]
      BY <1>2, <1>3, <2>4, <2>6 DEF SendInv, Queued
    <3>3. /\ activeFinishCB \in DOMAIN sends' /\ Latest(activeFinishCB)'
          /\ \A n \in DOMAIN wire' : Before(wire[n][2], activeFinishCB)'
      BY <1>2, <1>3, <1>7, <2>1 DEF SendInv, Queued, Before, Latest
    <3>4. \A k \in DOMAIN q' : activeFinishCB < q'[k]
      BY <1>2, <1>3, <1>7, <2>4, <2>6 DEF SendInv, Queued
    <3> QED BY <2>1, <2>4, <3>1, <3>2, <3>3, <3>4 DEF Queued
  <2>9. Quiet' /\ Called' /\ Alone'
    BY <1>3, <1>7, <2>1 DEF SendInv, Quiet, Called, Alone
  <2>10. Buffered'
    <3>1. activeFinishCB \in DOMAIN sends
      BY <1>7 DEF SendInv, Queued
    <3> QED BY <1>2, <1>3, <1>7, <2>1, <3>1 DEF SendInv, Buffered
  <2>11. Fates'
    BY <1>1, <1>2, <1>3, <2>1, <2>7 DEF SendInv, Fates, Fate
  <2>12. Counted'
    <3>1. AddsUp(Append(pendingAsyncSends, m), Size', queuedBackpressureBytes + Size'[m])
      <4>1. pendingAsyncSends \in Seq(Ids) /\ m \in Ids /\ Size'[m] \in Nat
        BY <1>2, <1>3, <1>4 DEF SendTypes
      <4> QED BY <1>4, <1>5, <4>1, AppendAddsUp
    <3>2. Backpressure' = Backpressure + bytes
      BY <1>3, <1>5, <1>7, <2>1 DEF Backpressure, SendTypes
    <3>3. Backpressure' <= MaxBackpressureBytes \/ Overtaken(LastHeld)'
      <4>1. Overtaken(m)' => Overtaken(LastHeld)'
        BY <2>5 DEF Overtaken
      <4> QED BY <1>6, <3>2, <4>1
    <3> QED BY <1>4, <1>7, <2>1, <3>1, <3>3 DEF Counted
  <2> QED BY <2>2, <2>8, <2>9, <2>10, <2>11, <2>12 DEF SendInv
<1>8. CASE ~asyncSendInProgress
  <2>1. /\ outboundBuffer' = bytes /\ asyncBytesSent' = 0 /\ asyncSendInProgress' = TRUE
        /\ activeFinishCB' = m
        /\ doomed' = IF stage = "idle" THEN doomed ELSE doomed \union {m}
        /\ UNCHANGED <<pendingAsyncSends, queuedBackpressureBytes>>
    BY <1>8 DEF QueueAsync
  <2>2. Unused' /\ Traced' /\ Complete' /\ Checked'
    BY <1>1, <2>1, AcceptStep, PassedStep
  <2>3. pendingAsyncSends = <<>> /\ DOMAIN pendingAsyncSends = {} /\ Held = {}
    BY <1>8 DEF SendInv, Quiet, Held
  <2>4. Held' = {m}
    BY <1>2, <1>3, <2>1, <2>3 DEF Held
  <2>5. Quiet' /\ Called' /\ Alone'
    BY <1>1, <1>2, <1>3, <2>1 DEF Quiet, Called, Alone
  <2>6. Queued'
    <3>1. \A n \in DOMAIN wire : Before(wire[n][2], m)' /\ wire[n][2] # m
      <4>1. \A n \in DOMAIN wire : wire[n][2] < m /\ wire[n][2] \in Nat
        BY <1>2, Numbers DEF Ids
      <4>2. \A n \in DOMAIN wire : wire[n][2] <= m /\ wire[n][2] # m
        BY <1>2, <4>1
      <4> QED BY <1>3, <4>2 DEF Before
    <3>2. Latest(m)'
      BY <1>3, <3>1 DEF Latest
    <3> QED BY <1>2, <1>3, <2>1, <2>3, <3>1, <3>2 DEF Queued, Before, Latest
  <2>7. Buffered'
    BY <1>2, <1>3, <2>1, FS_EmptySet DEF Buffered
  <2>8. Fates'
    BY <1>1, <1>2, <1>3, <2>1, <2>3, <2>4 DEF SendInv, Fates, Fate
  <2>9. Counted'
    <3>1. LastHeld' = m
      BY <2>1, <2>3 DEF LastHeld
    <3>2. Overtaken(m)' => Overtaken(LastHeld)'
      BY <3>1 DEF Overtaken
    <3>3. Backpressure' = queuedBackpressureBytes + bytes /\ Backpressure = queuedBackpressureBytes
      BY <1>3, <1>5, <1>8, <2>1 DEF Backpressure
    <3> QED BY <1>5, <1>6, <2>1, <3>2, <3>3 DEF Counted
  <2> QED BY <2>2, <2>5, <2>6, <2>7, <2>8, <2>9 DEF SendInv
<1> QED BY <1>7, <1>8

(* Bytes of send i leave: those of the other sends stay what they were. *)
LEMMA WriteStep ==
    ASSUME SendTypes, SendInv, NEW i \in DOMAIN sends, i \in Ids, NEW n \in Nat, Written(i, n),
           \A k \in DOMAIN wire : Before(wire[k][2], i), Latest(i), UNCHANGED sends
    PROVE  /\ wire' \in Seq((0 .. MaxOpens) \X Ids)
           /\ \A k \in DOMAIN wire' :
                 /\ wire'[k][1] <= connection /\ wire'[k][2] \in DOMAIN sends
                 /\ Before(wire'[k][2], i)
                 /\ (k \in DOMAIN wire /\ wire'[k] = wire[k]) \/ wire'[k][2] = i
           /\ \A k, l \in DOMAIN wire' : k < l => Before(wire'[k][2], wire'[l][2])
           /\ \A k, l \in DOMAIN wire' : k < l /\ wire'[k][2] = wire'[l][2] =>
                 \A j \in DOMAIN wire' : k <= j /\ j <= l => wire'[j][2] = wire'[k][2]
           /\ Latest(i)'
           /\ \A c, j : j # i => Positions(wire', <<c, j>>) = Positions(wire, <<c, j>>)
           /\ Cardinality(Positions(wire', <<connection, i>>))
                = Cardinality(Positions(wire, <<connection, i>>)) + n
<1> DEFINE T == (0 .. MaxOpens) \X Ids
           e == <<connection, i>>
<1>1. wire \in Seq(T) /\ e \in T /\ wire' = wire \o [k \in 1 .. n |-> e]
  BY DEF SendTypes, Written
<1>2. /\ e[1] = connection /\ e[2] = i /\ (\A c, j : j # i => <<c, j>> # e)
      /\ connection \in Nat /\ i \in Nat
  BY DEF SendTypes, Ids
<1> HIDE DEF T, e
<1>3. /\ wire' \in Seq(T) /\ Len(wire') = Len(wire) + n
      /\ \A k \in DOMAIN wire : k \in DOMAIN wire' /\ wire'[k] = wire[k]
      /\ \A k \in DOMAIN wire' : k \in DOMAIN wire \/ (k > Len(wire) /\ wire'[k] = e)
      /\ \A x : x # e => Positions(wire', x) = Positions(wire, x)
      /\ Cardinality(Positions(wire', e)) = Cardinality(Positions(wire, e)) + n
  <2>1. wire' = wire \o Repeated(e, n) /\ wire \in Seq(Bytes) /\ e \in Bytes
    BY <1>1 DEF Repeated, T, Bytes
  <2>2. Extends(wire', wire, e, n)
    BY <2>1, Extended
  <2> QED BY <2>2 DEF Extends, T, Bytes
<1>4. ASSUME NEW k \in DOMAIN wire'
      PROVE  /\ wire'[k][1] <= connection /\ wire'[k][2] \in DOMAIN sends /\ Before(wire'[k][2], i)
             /\ (k \in DOMAIN wire /\ wire'[k] = wire[k]) \/ wire'[k][2] = i
  <2>1. CASE k \in DOMAIN wire
    BY <1>3, <2>1 DEF SendInv, Traced
  <2>2. CASE wire'[k] = e
    BY <1>2, <2>2 DEF Before
  <2> QED BY <1>3, <2>1, <2>2
<1>5. /\ DOMAIN wire' \subseteq Nat /\ DOMAIN wire = 1 .. Len(wire) /\ Len(wire) \in Nat
      /\ \A k \in DOMAIN wire' : k >= 1
  BY <1>1, <1>3
(* what comes before an old byte is old *)
<1>6. \A k, l \in DOMAIN wire' : k <= l /\ l \in DOMAIN wire => k \in DOMAIN wire
  BY <1>5
<1>7. ASSUME NEW k \in DOMAIN wire', NEW l \in DOMAIN wire', k < l
      PROVE  Before(wire'[k][2], wire'[l][2])
  <2>1. CASE l \in DOMAIN wire
    <3>1. k \in DOMAIN wire
      BY <1>5, <1>6, <1>7, <2>1
    <3> QED BY <1>3, <1>7, <2>1, <3>1 DEF SendInv, Traced
  <2>2. CASE wire'[l] = e
    BY <1>2, <1>4, <2>2
  <2> QED BY <1>3, <2>1, <2>2
<1>8. ASSUME NEW k \in DOMAIN wire', wire'[k][2] = i, NEW j \in DOMAIN wire', k <= j
      PROVE  wire'[j][2] = i
  <2>1. CASE j \in DOMAIN wire
    <3>1. k \in DOMAIN wire /\ wire[k][2] = i
      BY <1>3, <1>6, <1>8, <2>1
    <3> QED BY <1>3, <1>8, <2>1, <3>1 DEF Latest
  <2> QED BY <1>2, <1>3, <2>1
<1>9. ASSUME NEW k \in DOMAIN wire', NEW l \in DOMAIN wire', k < l, wire'[k][2] = wire'[l][2],
             NEW j \in DOMAIN wire', k <= j, j <= l
      PROVE  wire'[j][2] = wire'[k][2]
  <2>1. CASE l \in DOMAIN wire
    <3>1. k \in DOMAIN wire /\ j \in DOMAIN wire
      BY <1>5, <1>6, <1>9, <2>1
    <3>2. wire'[k] = wire[k] /\ wire'[l] = wire[l] /\ wire'[j] = wire[j]
      BY <1>3, <2>1, <3>1
    <3> QED BY <1>9, <2>1, <3>1, <3>2 DEF SendInv, Traced
  <2>2. CASE wire'[l] = e
    BY <1>2, <1>8, <1>9, <2>2
  <2> QED BY <1>3, <2>1, <2>2
<1>10. Latest(i)'
  BY <1>8 DEF Latest
<1> QED BY <1>2, <1>3, <1>4, <1>7, <1>9, <1>10 DEF T, e

LEMMA SyncWriteStep ==
    ASSUME SendTypes, SendInv, syncSend # None, NEW n \in Nat, Written(syncSend.id, n),
           syncSend' = None \/ (syncSend'.id = syncSend.id),
           UNCHANGED <<asyncVars, asking, sends, refusals, doomed, finished, connection, stage>>
    PROVE  SendInv' /\ wire' \in Seq((0 .. MaxOpens) \X Ids)
<1>1. UNCHANGED <<outboundBuffer, asyncBytesSent, asyncSendInProgress, activeFinishCB,
                  pendingAsyncSends, queuedBackpressureBytes, dropped>>
  BY DEF asyncVars
<1> DEFINE s == Len(sends)
<1>2. /\ syncSend.id = s /\ s \in DOMAIN sends /\ finished[s] = 0
      /\ sends[s].way = "sync" /\ Latest(s) /\ Fresh(sends[s].at)
      /\ asyncSendInProgress => activeFinishCB # s /\ activeFinishCB > sends[s].at
  BY DEF SendInv, Alone, Fresh
<1>3. s \in Ids /\ \A k \in DOMAIN wire : Before(wire[k][2], s)
  <2>1. s <= MaxSends /\ s \in Nat /\ s >= 1
    BY <1>2, Numbers DEF SendInv, Unused, SendTypes
  <2>2. \A k \in DOMAIN wire : wire[k][2] <= s
    BY Numbers DEF SendInv, Traced
  <2> QED BY <2>1, <2>2, Numbers DEF Before, Ids
<1>4. /\ wire' \in Seq((0 .. MaxOpens) \X Ids)
      /\ \A k \in DOMAIN wire' : /\ wire'[k][1] <= connection /\ wire'[k][2] \in DOMAIN sends
                                 /\ (k \in DOMAIN wire /\ wire'[k] = wire[k]) \/ wire'[k][2] = s
      /\ \A k, l \in DOMAIN wire' : k < l => Before(wire'[k][2], wire'[l][2])
      /\ \A k, l \in DOMAIN wire' : k < l /\ wire'[k][2] = wire'[l][2] =>
            \A j \in DOMAIN wire' : k <= j /\ j <= l => wire'[j][2] = wire'[k][2]
      /\ Latest(s)'
      /\ \A c, j : j # s => Positions(wire', <<c, j>>) = Positions(wire, <<c, j>>)
  BY <1>2, <1>3, WriteStep
<1> HIDE DEF s
<1>5. asyncSendInProgress =>
          /\ \A k \in DOMAIN wire' : Before(wire'[k][2], activeFinishCB) /\ wire'[k][2] # activeFinishCB
  BY <1>2, <1>4 DEF SendInv, Queued, Fresh, Before
<1>6. \A at : Fresh(at) => Fresh(at)'
  BY <1>1, <1>5 DEF Fresh
<1>7. Quiet' /\ Unused' /\ Called'
  BY <1>1, <1>2 DEF SendInv, Quiet, Unused, Called
<1>8. Buffered'
  BY <1>1, <1>2, <1>4 DEF SendInv, Buffered, BytesOf
<1>9. Alone'
  BY <1>1, <1>2, <1>4, <1>6 DEF Alone, s
<1>10. Queued'
  <2>1. asyncSendInProgress => Latest(activeFinishCB)'
    BY <1>1, <1>5 DEF Latest
  <2> QED BY <1>1, <1>5, <2>1 DEF SendInv, Queued, Before
<1>11. Traced'
  BY <1>4 DEF SendInv, Traced, Before
<1>12. Complete'
  <2>1. \A i : i # s /\ Whole(i) => Whole(i)'
    BY <1>4 DEF Whole, BytesOf
  <2>2. \A i \in DOMAIN sends : finished[i] > 0 => i # s
    BY <1>2
  <2> QED BY <2>1, <2>2 DEF SendInv, Complete
<1>13. Fates' = Fates /\ Counted' = Counted
  BY <1>1 DEF Fates, Fate, Held, Counted, Backpressure, Size, BytesOf, Overtaken, LastHeld
<1>14. Checked'
  <2>1. \A f : Passed(f) => Passed(f)'
    BY <1>1, <1>6 DEF Passed, Backpressure, Since
  <2>2. \A k \in DOMAIN asking : Passed(asking[k])'
    BY <2>1 DEF SendInv, Checked
  <2> QED BY <2>2 DEF Checked
<1> QED BY <1>4, <1>7, <1>8, <1>9, <1>10, <1>11, <1>12, <1>13, <1>14 DEF SendInv

(* The drive action writes bytes of the active send, perhaps its last. *)
LEMMA DriveWritesStep ==
    ASSUME SendTypes, SendInv, DriveWrites
    PROVE  SendInv' /\ wire' \in Seq((0 .. MaxOpens) \X Ids)
<1> DEFINE i == activeFinishCB
<1>1. PICK n \in 1 .. outboundBuffer - asyncBytesSent :
          /\ Written(i, n)
          /\ \/ /\ asyncBytesSent + n < outboundBuffer
                /\ asyncBytesSent' = asyncBytesSent + n
                /\ stage' \in {"idle", "ended"}
                /\ UNCHANGED <<outboundBuffer, finished>>
             \/ /\ asyncBytesSent + n = outboundBuffer
                /\ outboundBuffer' = 0 /\ asyncBytesSent' = 0
                /\ finished' = [finished EXCEPT ![i] = @ + 1]
                /\ stage' = "finish"
  BY DEF DriveWrites, Again, Repost
<1>2. /\ asyncSendInProgress /\ stage = "idle" /\ syncSend = None /\ DOMAIN asking = {}
      /\ UNCHANGED <<asyncSendInProgress, activeFinishCB, pendingAsyncSends, queuedBackpressureBytes,
                     dropped, asking, syncSend, sends, refusals, doomed, connection>>
  BY DEF DriveWrites, Runs, AtRest, countVars, callVars
<1>3. /\ i \in DOMAIN sends /\ i \in Ids /\ finished[i] = 0 /\ \A k \in DOMAIN wire : Before(wire[k][2], i)
      /\ Latest(i) /\ outboundBuffer = BytesOf(i) /\ i # None
      /\ i \notin doomed => Cardinality(Positions(wire, <<connection, i>>)) = asyncBytesSent
      /\ \A k \in DOMAIN pendingAsyncSends : i < pendingAsyncSends[k] /\ pendingAsyncSends[k] \in Nat
      /\ i \in Held /\ i \in Nat
  BY <1>2, Numbers DEF SendInv, Queued, Called, Buffered, SendTypes, Held, Ids
<1>4. n \in Nat /\ outboundBuffer \in Nat /\ asyncBytesSent \in Nat
  BY DEF SendTypes
<1>5. /\ wire' \in Seq((0 .. MaxOpens) \X Ids)
      /\ \A k \in DOMAIN wire' : /\ wire'[k][1] <= connection /\ wire'[k][2] \in DOMAIN sends
                                 /\ Before(wire'[k][2], i)
      /\ \A k, l \in DOMAIN wire' : k < l => Before(wire'[k][2], wire'[l][2])
      /\ \A k, l \in DOMAIN wire' : k < l /\ wire'[k][2] = wire'[l][2] =>
            \A j \in DOMAIN wire' : k <= j /\ j <= l => wire'[j][2] = wire'[k][2]
      /\ Latest(i)'
      /\ \A c, j : j # i => Positions(wire', <<c, j>>) = Positions(wire, <<c, j>>)
      /\ i \notin doomed => Cardinality(Positions(wire', <<connection, i>>)) = asyncBytesSent + n
  BY <1>1, <1>2, <1>3, <1>4, WriteStep
<1>6. Traced' /\ Quiet' /\ Alone' /\ Checked'
  BY <1>2, <1>5 DEF Traced, Before, Quiet, Alone, Checked
<1>9. \A k \in DOMAIN wire' : (wire'[k][2] <= i \/ (sends'[wire'[k][2]].way = "sync" /\ sends'[wire'[k][2]].at < i))
  BY <1>2, <1>5 DEF Before
<1>10. Overtaken(LastHeld)' = Overtaken(LastHeld)
  BY <1>2 DEF Overtaken, LastHeld
<1>7. CASE /\ asyncBytesSent + n < outboundBuffer /\ asyncBytesSent' = asyncBytesSent + n
           /\ stage' \in {"idle", "ended"}
           /\ UNCHANGED <<outboundBuffer, finished>>
  <2>1. Unused' /\ Called'
    BY <1>2, <1>3, <1>7 DEF SendInv, Unused, Called
  <2>6. Queued'
    BY <1>2, <1>5, <1>7, <1>9 DEF SendInv, Queued, Before, Latest
  <2>2. Buffered'
    BY <1>2, <1>3, <1>5, <1>7 DEF Buffered, BytesOf
  <2>3. Fates' = Fates
    BY <1>2, <1>7 DEF Fates, Fate, Held
  <2>4. Complete'
    BY <1>2, <1>3, <1>5, <1>7, SMTT(30) DEF SendInv, Complete, Whole, BytesOf
  <2>5. Counted'
    <3>1. Backpressure' <= Backpressure /\ Backpressure \in Nat /\ Backpressure' \in Nat
      BY <1>2, <1>4, <1>7 DEF Backpressure, SendTypes
    <3>2. AddsUp(pendingAsyncSends, Size, queuedBackpressureBytes)'
      BY <1>2 DEF SendInv, Counted, Size, BytesOf
    <3> QED BY <1>2, <1>10, <3>1, <3>2, Numbers DEF SendInv, Counted
  <2> QED BY <1>5, <1>6, <2>1, <2>2, <2>3, <2>4, <2>5, <2>6 DEF SendInv
<1>8. CASE /\ asyncBytesSent + n = outboundBuffer /\ outboundBuffer' = 0 /\ asyncBytesSent' = 0
           /\ finished' = [finished EXCEPT ![i] = @ + 1] /\ stage' = "finish"
  <2>1. finished'[i] = 1 /\ \A j \in Ids \ {i} : finished'[j] = finished[j]
    BY <1>3, <1>8 DEF SendTypes
  <2>2. \A k \in DOMAIN pendingAsyncSends : pendingAsyncSends[k] # i /\ pendingAsyncSends[k] \in Ids
    BY <1>3, Numbers
  <2>3. Unused' /\ Called' /\ Buffered'
    BY <1>2, <1>3, <1>8, <2>1 DEF SendInv, Unused, Called, Buffered
  <2>4. Queued'
    BY <1>2, <1>3, <1>5, <1>9, <2>1, <2>2 DEF SendInv, Queued, Before, Latest
  <2>5. Held' = Held \ {i}
    BY <1>2, <1>3, <2>1, <2>2 DEF Held
  <2>6. Fates'
    <3>1. \A j \in DOMAIN sends : j \in Ids
      BY SentIds
    <3> QED BY <1>2, <1>3, <2>1, <2>5, <3>1 DEF SendInv, Fates, Fate
  <2>7. Complete'
    <3>1. Whole(i)' \/ i \in doomed
      BY <1>2, <1>3, <1>5, <1>8 DEF Whole, BytesOf, SendTypes
    <3>2. \A j \in DOMAIN sends : j \in Ids
      BY SentIds
    <3>3. \A j \in DOMAIN sends : j # i /\ Whole(j) => Whole(j)'
      BY <1>2, <1>5 DEF Whole, BytesOf
    <3> QED BY <1>2, <2>1, <3>1, <3>2, <3>3 DEF SendInv, Complete
  <2>8. Counted'
    <3>1. Backpressure' <= Backpressure /\ Backpressure \in Nat /\ Backpressure' \in Nat
      BY <1>2, <1>4, <1>8 DEF Backpressure, SendTypes
    <3>2. AddsUp(pendingAsyncSends, Size, queuedBackpressureBytes)'
      BY <1>2 DEF SendInv, Counted, Size, BytesOf
    <3> QED BY <1>2, <1>10, <3>1, <3>2, Numbers DEF SendInv, Counted
  <2> QED BY <1>5, <1>6, <2>3, <2>4, <2>6, <2>7, <2>8 DEF SendInv
<1> QED BY <1>1, <1>7, <1>8

(* The active send is over, and the next one takes its place. *)
LEMMA TakeNextStep ==
    ASSUME SendTypes, SendInv, NEW rest, TakeNext(rest), AtRest,
           stage = "finish" \/ ~asyncSendInProgress,
           UNCHANGED <<callVars, finished, wire, connection, dropped>>
    PROVE  SendInv'
<1>6. UNCHANGED <<asking, syncSend, sends, refusals, doomed>> /\ stage' \in {"idle", "ended"}
  BY DEF callVars, TakeNext, Repost
<1>1. Unused' /\ Traced' /\ Alone' /\ Complete' /\ Checked'
  BY <1>6 DEF SendInv, Unused, Traced, Before, Alone, Complete, Whole, BytesOf, AtRest, Checked
<1>2. /\ asyncBytesSent = 0
      /\ asyncSendInProgress => finished[activeFinishCB] > 0 \/ activeFinishCB \in doomed
      /\ finished \in [Ids -> Nat]
  BY DEF SendInv, Quiet, Called, SendTypes
<1>3. \A i \in DOMAIN sends \ doomed : i \in Held <=> i \in Ids /\ \E k \in DOMAIN pendingAsyncSends : pendingAsyncSends[k] = i
  BY <1>2, SentIds DEF Held
<1>4. CASE pendingAsyncSends = <<>>
  <2>1. /\ asyncSendInProgress' = FALSE /\ activeFinishCB' = None
        /\ UNCHANGED <<outboundBuffer, asyncBytesSent, pendingAsyncSends, queuedBackpressureBytes>>
        /\ DOMAIN pendingAsyncSends = {}
    BY <1>4 DEF TakeNext
  <2>2. Quiet' /\ Queued' /\ Called' /\ Buffered'
    BY <1>2, <1>4, <1>6, <2>1 DEF Quiet, Queued, Called, Buffered
  <2>3. Fates'
    BY <1>3, <1>6, <2>1 DEF SendInv, Fates, Fate, Held
  <2>4. Counted'
    <3>1. AddsUp(<<>>, Size, queuedBackpressureBytes)
      BY <1>4 DEF SendInv, Counted
    <3>2. queuedBackpressureBytes = 0
      BY <3>1 DEF AddsUp
    <3>3. Backpressure' = 0
      BY <2>1, <3>2 DEF Backpressure
    <3> QED BY <1>6, <2>1, <3>3, Numbers DEF SendInv, Counted, Size, BytesOf
  <2> QED BY <1>1, <2>2, <2>3, <2>4 DEF SendInv
<1>5. CASE pendingAsyncSends # <<>>
  <2> DEFINE q == pendingAsyncSends
             h == Head(pendingAsyncSends)
  <2>1. /\ activeFinishCB' = h /\ outboundBuffer' = BytesOf(h)
        /\ queuedBackpressureBytes' = queuedBackpressureBytes - BytesOf(h)
        /\ pendingAsyncSends' = Tail(q)
        /\ asyncBytesSent' = 0 /\ asyncSendInProgress' = TRUE
    BY <1>5 DEF TakeNext, BytesOf
  <2>2. asyncSendInProgress /\ stage = "finish"
    BY <1>5 DEF SendInv, Quiet
  <2>3. /\ q \in Seq(Ids) /\ Len(q) \in Nat \ {0} /\ DOMAIN q = 1 .. Len(q) /\ h = q[1]
        /\ Tail(q) \in Seq(Ids) /\ DOMAIN Tail(q) = 1 .. (Len(q) - 1)
        /\ \A k \in 1 .. (Len(q) - 1) : Tail(q)[k] = q[k + 1]
    BY <1>5, HeadTailProperties, EmptySeq DEF SendTypes
  <2> DEFINE l == Len(q)
             r == Tail(q)
  <2>4. q = pendingAsyncSends /\ h = Head(q)
    OBVIOUS
  <2> HIDE DEF q, h, r, l
  <2>5. /\ 1 \in DOMAIN q /\ q[1] = h
        /\ \A k \in DOMAIN r : k + 1 \in DOMAIN q /\ r[k] = q[k + 1] /\ 1 < k + 1 /\ k \in Nat
        /\ \A k \in DOMAIN q : k = 1 \/ (k - 1 \in DOMAIN r /\ r[k - 1] = q[k])
    BY <2>3 DEF r, l
  <2>6. /\ h \in DOMAIN sends /\ h \in Ids /\ finished[h] = 0 /\ activeFinishCB < h
        /\ sends[h].way = "async"
        /\ \A k \in DOMAIN r : /\ r[k] \in DOMAIN sends /\ finished[r[k]] = 0 /\ h < r[k]
                              /\ sends[r[k]].way = "async"
        /\ \A j, k \in DOMAIN r : j < k => r[j] < r[k]
    <3>1. \A j, k \in DOMAIN r : j < k => j + 1 < k + 1
      BY <2>5
    <3>2. h \in Ids
      BY <2>3
    <3> QED BY <2>2, <2>4, <2>5, <3>1, <3>2 DEF SendInv, Queued
  <2>7. \A n \in DOMAIN wire : wire[n][2] # h /\ Before(wire[n][2], h)
    <3>1. activeFinishCB \in Nat /\ \A n \in DOMAIN wire : Before(wire[n][2], activeFinishCB)
      BY <2>2, Numbers DEF SendInv, Queued
    <3>2. \A n \in DOMAIN wire : /\ wire[n][2] \in Nat /\ wire[n][2] \in DOMAIN sends
                                 /\ sends[wire[n][2]].at \in Nat
      BY Numbers DEF Ids, SendInv, Traced
    <3>3. h \in Nat
      BY <2>6 DEF Ids
    <3> QED BY <2>6, <3>1, <3>2, <3>3 DEF Before
  <2>8. Queued'
    <3>1. Latest(h)
      BY <2>7 DEF Latest
    <3> QED BY <1>6, <2>1, <2>6, <2>7, <3>1 DEF Queued, Before, Latest, r
  <2>9. Quiet' /\ Called'
    BY <1>6, <2>1, <2>6 DEF Quiet, Called
  <2>10. Buffered'
    <3>1. \A n \in DOMAIN wire : wire[n][2] # h
      BY <2>7
    <3>2. Positions(wire, <<connection, h>>) = {}
      BY <3>1 DEF Positions
    <3> QED BY <1>6, <2>1, <3>2, FS_EmptySet DEF Buffered, BytesOf
  <2>11. Fates'
    <3>1. \A i : (\E k \in DOMAIN q : q[k] = i) <=> i = h \/ \E k \in DOMAIN r : r[k] = i
      BY <2>5
    <3>2. \A i \in Ids : i \in Held' <=> i = h \/ \E k \in DOMAIN r : r[k] = i
      BY <2>1, <2>6 DEF Held, r
    <3>3. \A i \in DOMAIN sends \ doomed : i \in Held <=> i \in Held'
      <4>1. \A i \in Held' : i \in Ids
        BY DEF Held
      <4> QED BY <1>3, <2>4, <3>1, <3>2, <4>1
    <3> QED BY <1>6, <3>3 DEF SendInv, Fates, Fate
  <2>12. Counted'
    <3>1. /\ AddsUp(pendingAsyncSends, Size, queuedBackpressureBytes) /\ Size[h] = BytesOf(h) /\ BytesOf(h) \in Nat
          /\ queuedBackpressureBytes \in Nat
      BY <2>6, Numbers DEF SendInv, Counted, Size, SendTypes
    <3>2. AddsUp(Tail(pendingAsyncSends), Size, queuedBackpressureBytes - BytesOf(h))
      <4>1. AddsUp(q, Size, queuedBackpressureBytes) /\ Size[Head(q)] \in Nat /\ q \in Seq(Ids) /\ q # <<>>
        BY <1>5, <2>3, <2>4, <3>1
      <4>2. AddsUp(Tail(q), Size, queuedBackpressureBytes - Size[Head(q)])
        BY <3>1, <4>1, TailAddsUp
      <4> QED BY <2>4, <3>1, <4>2
    <3>3. Backpressure' <= Backpressure /\ Backpressure' \in Nat /\ Backpressure \in Nat
      <4>1. BytesOf(h) <= queuedBackpressureBytes
        <5>1. AddsUp(q, Size, queuedBackpressureBytes) /\ Size[Head(q)] \in Nat
          BY <2>4, <3>1
        <5> QED BY <1>5, <2>3, <2>4, <3>1, <5>1, TailAddsUp
      <4> QED BY <2>1, <2>2, <3>1, <4>1 DEF Backpressure, SendTypes
    <3>4. LastHeld' = LastHeld
      <4>1. LastHeld = q[Len(q)]
        BY <1>5, <2>4 DEF LastHeld
      <4>2. CASE Tail(q) = <<>>
        <5>1. Len(Tail(q)) = Len(q) - 1
          BY <1>5, <2>3, <2>4, HeadTailProperties
        <5>2. Len(q) = 1
          <6>1. Len(<<>>) = 0
            OBVIOUS
          <6>2. Len(Tail(q)) = 0 /\ Len(q) \in Nat
            BY <2>3, <4>2, <6>1
          <6> QED BY <5>1, <6>2
        <5> QED BY <2>1, <2>5, <4>1, <4>2, <5>2 DEF LastHeld
      <4>3. CASE Tail(q) # <<>>
        <5>1. Len(Tail(q)) = Len(q) - 1 /\ Len(Tail(q)) # 0
          BY <1>5, <2>3, <2>4, <4>3, HeadTailProperties, EmptySeq
        <5>2. Len(q) - 1 \in 1 .. (Len(q) - 1) /\ Len(q) - 1 + 1 = Len(q)
          BY <2>3, <5>1
        <5> QED BY <2>1, <2>3, <4>1, <4>3, <5>1, <5>2 DEF LastHeld
      <4> QED BY <4>2, <4>3
    <3>5. Backpressure' <= MaxBackpressureBytes \/ Overtaken(LastHeld)'
      <4>1. Overtaken(LastHeld) => Overtaken(LastHeld)'
        BY <1>6, <3>4 DEF Overtaken
      <4> QED BY <3>3, <4>1, Numbers DEF SendInv, Counted
    <3> QED BY <1>6, <2>1, <2>4, <3>2, <3>5 DEF Counted, Size, BytesOf
  <2> QED BY <1>1, <2>8, <2>9, <2>10, <2>11, <2>12 DEF SendInv
<1> QED BY <1>4, <1>5

(* After a disconnect the callback of a send that was accepted in between   *)
(* is called; that send is doomed.                                          *)
LEMMA LostCallbackStep ==
    ASSUME SendTypes, SendInv, stage = "lost", activeFinishCB # None, stage' = "finish",
           finished' = [finished EXCEPT ![activeFinishCB] = @ + 1],
           UNCHANGED <<asyncVars, callVars, wire, connection>>, AtRest
    PROVE  SendInv'
<1> DEFINE i == activeFinishCB
<1>1. UNCHANGED <<outboundBuffer, asyncBytesSent, asyncSendInProgress, activeFinishCB,
                  pendingAsyncSends, queuedBackpressureBytes, dropped>>
      /\ UNCHANGED <<asking, syncSend, sends, refusals, doomed>> /\ syncSend = None
  BY DEF asyncVars, callVars, AtRest
<1>2. /\ asyncSendInProgress /\ i \in doomed /\ i \in DOMAIN sends /\ i \in Ids /\ asyncBytesSent = 0
      /\ \A k \in DOMAIN pendingAsyncSends : pendingAsyncSends[k] # i /\ pendingAsyncSends[k] \in Ids
      /\ \A j \in DOMAIN sends : j \in Ids
  <2>1. asyncSendInProgress
    BY DEF SendInv, Quiet
  <2>2. i \in doomed /\ i \in DOMAIN sends /\ i \in Ids /\ asyncBytesSent = 0
    BY <2>1 DEF SendInv, Called, Queued, SendTypes
  <2>3. \A k \in DOMAIN pendingAsyncSends : pendingAsyncSends[k] # i /\ pendingAsyncSends[k] \in Ids
    BY <2>1, <2>2, Numbers DEF SendInv, Queued, Ids
  <2>4. \A j \in DOMAIN sends : j \in Ids
    BY SentIds
  <2> QED BY <2>1, <2>2, <2>3, <2>4
<1>3. finished'[i] > 0 /\ \A j \in Ids \ {i} : finished'[j] = finished[j]
  BY <1>2 DEF SendTypes
<1>4. Quiet' /\ Unused' /\ Traced' /\ Called' /\ Alone' /\ Buffered'
  <2>1. finished'[i] # 0
    BY <1>3
  <2> QED BY <1>1, <1>2, <1>3, <2>1
         DEF SendInv, Quiet, Unused, Traced, Before, Called, Alone, Buffered
<1>5. Queued'
  BY <1>1, <1>2, <1>3 DEF SendInv, Queued, Before, Latest
<1>6. Fates' /\ Complete'
  <2>1. \A j \in Ids \ {i} : j \in Held' <=> j \in Held
    BY <1>1, <1>3 DEF Held
  <2> QED BY <1>1, <1>2, <1>3, <2>1 DEF SendInv, Fates, Fate, Complete, Whole, BytesOf
<1>7. Counted' = Counted /\ Checked'
  BY <1>1 DEF Counted, Backpressure, Size, BytesOf, Overtaken, LastHeld, Checked, AtRest
<1> QED BY <1>4, <1>5, <1>6, <1>7 DEF SendInv

-----------------------------------------------------------------------------
(* Types. *)

EndpointTypes ==
    /\ serverSide \in BOOLEAN /\ sslSocket \in BOOLEAN /\ registered \in BOOLEAN
    /\ sslState \in {"Disconnected", "ConnectingToRemote", "RemoteClientConnecting", "Connected"}
    /\ posted \in Seq(Actions) /\ stage \in Stages
    /\ connection \in 0 .. MaxOpens /\ closes \in 0 .. MaxCloses /\ awaited \in BOOLEAN

DataTypes ==
    /\ outboundBuffer \in Sizes \union {0} /\ asyncBytesSent \in 0 .. outboundBuffer
    /\ asyncSendInProgress \in BOOLEAN /\ activeFinishCB \in Ids \union {None}
    /\ pendingAsyncSends \in Seq(Ids) /\ queuedBackpressureBytes \in Nat
    /\ asking \in Seq(Frame) /\ refusals \in Nat /\ refused \in BOOLEAN
    /\ syncSend \in [id : Ids, left : Nat] \union {None}
    /\ sends \in Seq(Frame)
    /\ finished \in [Ids -> Nat] /\ dropped \subseteq Ids /\ doomed \subseteq Ids
    /\ wire \in Seq((0 .. MaxOpens) \X Ids)

LEMMA TypesSplit == (TypeOK <=> EndpointTypes /\ DataTypes) /\ (TypeOK' <=> EndpointTypes' /\ DataTypes')
BY DEF TypeOK, EndpointTypes, DataTypes, Frame

LEMMA PostedTypes ==
    ASSUME NEW p \in Seq(Actions), NEW a \in Actions
    PROVE  /\ Append(p, a) \in Seq(Actions)
           /\ p # <<>> => Tail(p) \in Seq(Actions) /\ Append(Tail(p), Head(p)) \in Seq(Actions)
                            /\ Append(Tail(p), a) \in Seq(Actions)
<1>1. Append(p, a) \in Seq(Actions)
  BY AppendProperties
<1>2. ASSUME p # <<>>
      PROVE  /\ Tail(p) \in Seq(Actions) /\ Append(Tail(p), Head(p)) \in Seq(Actions)
             /\ Append(Tail(p), a) \in Seq(Actions)
  <2>1. Tail(p) \in Seq(Actions) /\ Head(p) \in Actions
    BY <1>2, HeadTailProperties
  <2> QED BY <2>1, AppendProperties
<1> QED BY <1>1, <1>2

LEMMA ClearTypes ==
    ASSUME DataTypes, ClearAsyncSendState,
           UNCHANGED <<asking, sends, refusals, doomed, finished, wire>>,
           syncSend' \in {syncSend, None}
    PROVE  DataTypes'
<1>1. Held \subseteq Ids
  BY DEF Held
<1>2. <<>> \in Seq(Ids)
  BY EmptySeq
<1>3. /\ outboundBuffer' = 0 /\ asyncBytesSent' = 0 /\ asyncSendInProgress' = FALSE
      /\ activeFinishCB' = None /\ pendingAsyncSends' = <<>> /\ queuedBackpressureBytes' = 0
      /\ dropped' = dropped \union Held
  BY DEF ClearAsyncSendState
<1>4. /\ outboundBuffer' \in Sizes \union {0} /\ asyncBytesSent' \in 0 .. outboundBuffer'
      /\ asyncSendInProgress' \in BOOLEAN /\ activeFinishCB' \in Ids \union {None}
      /\ pendingAsyncSends' \in Seq(Ids) /\ queuedBackpressureBytes' \in Nat
  <2>1. 0 \in 0 .. 0
    OBVIOUS
  <2>2. asyncBytesSent' \in 0 .. outboundBuffer'
    BY <1>3, <2>1
  <2> QED BY <1>2, <1>3, <2>2
<1>5. /\ sends' \in Seq(Frame) /\ asking' \in Seq(Frame) /\ refusals' \in Nat
      /\ refused' \in BOOLEAN /\ finished' \in [Ids -> Nat] /\ dropped' \subseteq Ids /\ doomed' \subseteq Ids
      /\ wire' \in Seq((0 .. MaxOpens) \X Ids)
  BY <1>1, <1>3 DEF DataTypes, ClearAsyncSendState
<1>6. syncSend' \in [id : Ids, left : Nat] \union {None}
  BY DEF DataTypes
<1> QED BY <1>4, <1>5, <1>6 DEF DataTypes

LEMMA ConnectTypes ==
    ASSUME SendTypes, DataTypes, SendInv,
           doomed' = IF asyncBytesSent > 0 THEN doomed \union {activeFinishCB} ELSE doomed,
           UNCHANGED <<asyncVars, asking, sends, refusals, finished, wire, syncSend>>
    PROVE  DataTypes'
<1>1. asyncSendInProgress => activeFinishCB \in Ids
  BY Numbers DEF SendInv, Queued, SendTypes
<1>2. doomed' \subseteq Ids
  BY <1>1 DEF SendInv, Quiet, DataTypes
<1> QED BY <1>2 DEF DataTypes, asyncVars

LEMMA AnswerTypes ==
    ASSUME SendTypes, DataTypes, Answer
    PROVE  asking' \in Seq(Frame) /\ UNCHANGED <<finished, wire>>
BY AnswerStep

LEMMA QueueAsyncTypes ==
    ASSUME SendTypes, DataTypes, SendInv, QueueAsync
    PROVE  DataTypes' /\ (posted' = posted \/ posted' = Append(posted, "drive"))
<1> SUFFICES ASSUME NEW m, m = Len(sends') PROVE DataTypes' /\ (posted' = posted \/ posted' = Append(posted, "drive"))
  OBVIOUS
<1> DEFINE bytes == asked.bytes
<1>1. /\ Accepted("async") /\ syncSend' = syncSend /\ dropped' = dropped
      /\ UNCHANGED <<refusals, finished, wire>> /\ asking' \in Seq(Frame)
  BY AnswerTypes DEF QueueAsync, Accepted
<1>2. m \in Ids /\ sends' \in Seq(Frame) /\ bytes \in Sizes /\ bytes \in Nat
  BY <1>1, NewSend, SslAssumption
<1>3. Append(pendingAsyncSends, m) \in Seq(Ids)
  BY <1>2, AppendProperties DEF SendTypes
<1>4. CASE asyncSendInProgress
  <2>1. /\ pendingAsyncSends' = Append(pendingAsyncSends, m)
        /\ queuedBackpressureBytes' = queuedBackpressureBytes + bytes
        /\ UNCHANGED <<outboundBuffer, asyncBytesSent, asyncSendInProgress, activeFinishCB, doomed,
                       refused, posted>>
    BY <1>4 DEF QueueAsync
  <2>2. pendingAsyncSends' \in Seq(Ids) /\ queuedBackpressureBytes' \in Nat
    BY <1>2, <1>3, <2>1 DEF DataTypes
  <2> QED BY <1>1, <1>2, <2>1, <2>2 DEF DataTypes
<1>5. CASE ~asyncSendInProgress
  <2>1. /\ outboundBuffer' = bytes /\ asyncBytesSent' = 0 /\ asyncSendInProgress' = TRUE
        /\ activeFinishCB' = m /\ doomed' \in {doomed, doomed \union {m}}
        /\ refused' \in {refused, TRUE} /\ (posted' = posted \/ posted' = Append(posted, "drive"))
        /\ UNCHANGED <<pendingAsyncSends, queuedBackpressureBytes>>
    BY <1>5 DEF QueueAsync
  <2>2. doomed' \subseteq Ids /\ refused' \in BOOLEAN
    BY <1>2, <2>1 DEF DataTypes
  <2>3. /\ outboundBuffer' \in Sizes \union {0} /\ asyncBytesSent' \in 0 .. outboundBuffer'
        /\ asyncSendInProgress' \in BOOLEAN /\ activeFinishCB' \in Ids \union {None}
        /\ pendingAsyncSends' \in Seq(Ids) /\ queuedBackpressureBytes' \in Nat
    <3>1. 0 \in 0 .. bytes
      BY <1>2
    <3> QED BY <1>2, <2>1, <3>1 DEF DataTypes
  <2>4. posted' = posted \/ posted' = Append(posted, "drive")
    BY <2>1
  <2> HIDE DEF bytes
  <2> QED BY <1>1, <1>2, <2>2, <2>3, <2>4 DEF DataTypes
<1> QED BY <1>4, <1>5

LEMMA BeginSyncTypes ==
    ASSUME SendTypes, DataTypes, SendInv, BeginSync
    PROVE  DataTypes'
<1> SUFFICES ASSUME NEW m, m = Len(sends') PROVE DataTypes'
  OBVIOUS
<1>1. /\ Accepted("sync") /\ UNCHANGED <<asyncVars, doomed, refusals, finished, wire>>
      /\ asking' \in Seq(Frame)
      /\ syncSend' = IF asked.bytes = 0 THEN None ELSE [id |-> m, left |-> asked.bytes]
  BY AnswerTypes DEF BeginSync, Accepted
<1>2. m \in Ids /\ sends' \in Seq(Frame) /\ asked.bytes \in Nat
  BY <1>1, NewSend, SslAssumption
<1>3. syncSend' \in [id : Ids, left : Nat] \union {None}
  BY <1>1, <1>2
<1> QED BY <1>1, <1>2, <1>3 DEF DataTypes, asyncVars

LEMMA TakeNextTypes ==
    ASSUME SendTypes, DataTypes, SendInv, NEW rest \in Seq(Actions), TakeNext(rest),
           UNCHANGED <<callVars, finished, wire, dropped>>
    PROVE  DataTypes' /\ posted' \in Seq(Actions) /\ stage' \in Stages
<1>1. /\ posted' \in Seq(Actions) /\ stage' \in Stages /\ refused' = FALSE
      /\ UNCHANGED <<asking, syncSend, sends, refusals, doomed>>
  BY AppendProperties DEF TakeNext, Repost, Actions, Stages, callVars
<1>2. CASE pendingAsyncSends = <<>>
  BY <1>1, <1>2 DEF TakeNext, DataTypes
<1>3. CASE pendingAsyncSends # <<>>
  <2> DEFINE h == Head(pendingAsyncSends)
  <2>1. /\ activeFinishCB' = h /\ outboundBuffer' = BytesOf(h)
        /\ queuedBackpressureBytes' = queuedBackpressureBytes - BytesOf(h)
        /\ pendingAsyncSends' = Tail(pendingAsyncSends)
        /\ asyncBytesSent' = 0 /\ asyncSendInProgress' = TRUE
    BY <1>3 DEF TakeNext, BytesOf
  <2>2. /\ pendingAsyncSends \in Seq(Ids) /\ Tail(pendingAsyncSends) \in Seq(Ids) /\ h \in Ids
        /\ h \in DOMAIN sends
    <3>1. /\ pendingAsyncSends \in Seq(Ids) /\ Tail(pendingAsyncSends) \in Seq(Ids)
          /\ h = pendingAsyncSends[1] /\ 1 \in DOMAIN pendingAsyncSends
      BY <1>3, HeadTailProperties, EmptySeq DEF SendTypes
    <3> QED BY <3>1 DEF SendInv, Queued
  <2>3. BytesOf(h) \in Sizes /\ BytesOf(h) \in Nat /\ Size[h] = BytesOf(h)
    BY <2>2, Numbers DEF Size
  <2>4. BytesOf(h) <= queuedBackpressureBytes /\ queuedBackpressureBytes \in Nat
    BY <1>3, <2>2, <2>3, TailAddsUp DEF SendInv, Counted, SendTypes
  <2>5. queuedBackpressureBytes' \in Nat
    BY <2>1, <2>3, <2>4
  <2>6. /\ outboundBuffer' \in Sizes \union {0} /\ asyncBytesSent' \in 0 .. outboundBuffer'
        /\ asyncSendInProgress' \in BOOLEAN /\ activeFinishCB' \in Ids \union {None}
        /\ pendingAsyncSends' \in Seq(Ids)
    <3>1. 0 \in 0 .. BytesOf(h)
      BY <2>3
    <3> QED BY <2>1, <2>2, <2>3, <3>1
  <2> HIDE DEF h
  <2>7. UNCHANGED <<asking, syncSend, sends, refusals, doomed, finished, wire, dropped>> /\ refused' = FALSE
    BY <1>1
  <2> QED BY <1>1, <2>5, <2>6, <2>7 DEF DataTypes
<1> QED BY <1>2, <1>3

-----------------------------------------------------------------------------
(* All steps. *)

SslInv == TypeOK /\ SendInv

(* The application's calls. *)
LEMMA CallInv ==
    ASSUME SslInv, Call
    PROVE  SslInv'
<1>1. SendTypes /\ EndpointTypes /\ DataTypes /\ SendInv
  BY Typed, TypesSplit DEF SslInv
<1>2. CASE OpenEndpoint \/ OpenEndpointFails
  <2>1. /\ connection' = connection + 1 /\ syncSend = None
        /\ doomed' = IF asyncBytesSent > 0 THEN doomed \union {activeFinishCB} ELSE doomed
        /\ UNCHANGED <<asyncVars, asking, sends, refusals, finished, wire, stage, syncSend>>
    BY <1>2 DEF OpenEndpoint, OpenEndpointFails, MayCall
  <2>2. SendInv' /\ DataTypes'
    BY <1>1, <2>1, ConnectStep, ConnectTypes
  <2>3. EndpointTypes'
    <3>1. connection' \in 0 .. MaxOpens /\ posted' \in Seq(Actions)
      BY <1>1, <1>2, PostedTypes, SslAssumption DEF OpenEndpoint, OpenEndpointFails, EndpointTypes, Actions
    <3>2. awaited' \in BOOLEAN
      BY <1>1, <1>2 DEF OpenEndpoint, OpenEndpointFails, EndpointTypes, ClosePosted
    <3> QED BY <1>1, <1>2, <3>1, <3>2 DEF OpenEndpoint, OpenEndpointFails, EndpointTypes
  <2> QED BY <2>2, <2>3, TypesSplit DEF SslInv
<1>3. CASE CloseEndpoint
  <2>1. SendInv'
    BY <1>1, <1>3, StillStep DEF CloseEndpoint, countVars
  <2>2. DataTypes'
    BY <1>1, <1>3 DEF CloseEndpoint, callVars, asyncVars, DataTypes
  <2>3. EndpointTypes'
    <3>1. closes' \in 0 .. MaxCloses /\ posted' \in Seq(Actions)
      BY <1>1, <1>3, PostedTypes, SslAssumption DEF CloseEndpoint, EndpointTypes, Actions
    <3> QED BY <1>1, <1>3, <3>1 DEF CloseEndpoint, EndpointTypes, socketVars
  <2> QED BY <2>1, <2>2, <2>3, TypesSplit DEF SslInv
<1>4. ASSUME NEW bytes \in Sizes, CallSend(bytes) \/ CallSendAsync(bytes) PROVE SslInv'
  <2>1. /\ syncSend = None /\ UNCHANGED <<serverSide, connection, closes, sslState, stage, finished, wire>>
    BY <1>4 DEF CallSend, CallSendAsync, MayCall, countVars
  <2>2. ASSUME NEW way \in {"sync", "async"}, Ask(bytes, way),
               way = "async" => Backpressure + bytes <= MaxBackpressureBytes,
               way = "sync" => ~asyncSendInProgress
        PROVE  SslInv'
    <3>1. SendInv' /\ asking' \in Seq(Frame)
      BY <1>1, <2>1, <2>2, AskStep
    <3>2. UNCHANGED <<socketVars, posted, asyncVars, syncSend, sends, refusals, doomed>>
      BY <2>2 DEF Ask
    <3>3. DataTypes'
      BY <1>1, <2>1, <3>1, <3>2 DEF DataTypes, asyncVars
    <3>4. EndpointTypes'
      BY <1>1, <2>1, <3>2 DEF EndpointTypes, socketVars
    <3> QED BY <3>1, <3>3, <3>4, TypesSplit DEF SslInv
  <2>3. CASE ExceedLimit(bytes)
    <3>1. ClearAsyncSendState /\ UNCHANGED <<posted, asking, syncSend, sends, refusals, doomed>>
      BY <2>3 DEF ExceedLimit, OnDisconnected, callVars
    <3>2. SendInv' /\ DataTypes'
      BY <1>1, <2>1, <3>1, ClearStep, ClearTypes
    <3>3. EndpointTypes'
      BY <1>1, <2>1, <2>3, <3>1 DEF ExceedLimit, OnDisconnected, EndpointTypes
    <3> QED BY <3>2, <3>3, TypesSplit DEF SslInv
  <2>4. CASE SendAsync(bytes)
    BY <2>2, <2>3, <2>4 DEF SendAsync
  <2>5. CASE ~asyncSendInProgress /\ Ask(bytes, "sync")
    BY <2>2, <2>5
  <2> QED BY <1>4, <2>4, <2>5 DEF CallSend, CallSendAsync
<1> QED BY <1>2, <1>3, <1>4 DEF Call

(* A lost connection, whatever the loop does next. *)
LEMMA LostInv ==
    ASSUME SslInv, OnDisconnected, stage' \in Stages,
           sslState' \in {sslState, "Disconnected"}, posted' \in Seq(Actions),
           syncSend' \in {syncSend, None},
           UNCHANGED <<countVars, asking, sends, refusals, doomed, finished, wire>>
    PROVE  SslInv'
<1>1. SendTypes /\ EndpointTypes /\ DataTypes /\ SendInv
  BY Typed, TypesSplit DEF SslInv
<1>2. ClearAsyncSendState /\ connection' = connection
  BY DEF OnDisconnected, countVars
<1>3. SendInv' /\ DataTypes'
  BY <1>1, <1>2, ClearStep, ClearTypes
<1>4. EndpointTypes'
  BY <1>1 DEF EndpointTypes, OnDisconnected, countVars
<1> QED BY <1>3, <1>4, TypesSplit DEF SslInv

(* A step that leaves the sends alone. *)
LEMMA StillInv ==
    ASSUME SslInv, UNCHANGED <<asyncVars, callVars, finished, wire, connection>>,
           stage' \in {stage, "ended"}, EndpointTypes'
    PROVE  SslInv'
<1>1. SendTypes /\ DataTypes /\ SendInv
  BY Typed, TypesSplit DEF SslInv
<1>2. SendInv'
  BY <1>1, StillStep
<1>3. DataTypes'
  BY <1>1 DEF DataTypes, callVars, asyncVars
<1> QED BY <1>2, <1>3, TypesSplit DEF SslInv

LEMMA NextPayloadInv ==
    ASSUME SslInv, NEW rest \in Seq(Actions), TakeNext(rest), AtRest,
           stage = "finish" \/ ~asyncSendInProgress,
           UNCHANGED <<countVars, sslState, socketVars, dropped, callVars, finished, wire>>
    PROVE  SslInv'
<1>1. SendTypes /\ EndpointTypes /\ DataTypes /\ SendInv
  BY Typed, TypesSplit DEF SslInv
<1>2. UNCHANGED <<callVars, finished, wire, connection, dropped>>
  BY DEF countVars
<1>3. SendInv'
  BY <1>1, <1>2, TakeNextStep
<1>4. DataTypes' /\ posted' \in Seq(Actions) /\ stage' \in Stages
  BY <1>1, <1>2, TakeNextTypes
<1>5. EndpointTypes'
  BY <1>1, <1>4 DEF EndpointTypes, countVars, socketVars
<1> QED BY <1>3, <1>4, <1>5, TypesSplit DEF SslInv

(* The first of the actions on the queue runs. *)
LEMMA RunsTypes ==
    ASSUME SslInv, NEW a, Runs(a)
    PROVE  /\ Tail(posted) \in Seq(Actions) /\ Append(Tail(posted), Head(posted)) \in Seq(Actions)
           /\ stage = "idle" /\ AtRest
           /\ Again => posted' \in Seq(Actions) /\ stage' \in {"idle", "ended"}
<1>1. posted \in Seq(Actions) /\ posted # <<>>
  BY DEF SslInv, TypeOK, Runs
<1> QED BY <1>1, PostedTypes, HeadTailProperties DEF Runs, Again, Repost

LEMMA CalledOnce ==
    ASSUME NEW f \in [Ids -> Nat], NEW i
    PROVE  [f EXCEPT ![i] = f[i] + 1] \in [Ids -> Nat]
<1> DEFINE g == [f EXCEPT ![i] = f[i] + 1]
<1>1. DOMAIN g = Ids /\ g = [j \in Ids |-> IF j = i THEN f[i] + 1 ELSE f[j]]
  OBVIOUS
<1>2. ASSUME NEW j \in Ids PROVE (IF j = i THEN f[i] + 1 ELSE f[j]) \in Nat
  <2>1. f[j] \in Nat
    OBVIOUS
  <2>2. f[j] + 1 \in Nat
    BY <2>1
  <2> QED BY <2>1, <2>2
<1> HIDE DEF g
<1> QED BY <1>1, <1>2 DEF g

LEMMA DriveInv ==
    ASSUME SslInv, Drive
    PROVE  SslInv'
<1>1. SendTypes /\ EndpointTypes /\ DataTypes /\ SendInv
  BY Typed, TypesSplit DEF SslInv
<1>2. Runs("drive")
  BY DEF Drive, DriveIdle, DriveWants, DriveWrites, DriveEmpty, DriveFails
<1>3. /\ Tail(posted) \in Seq(Actions) /\ Append(Tail(posted), Head(posted)) \in Seq(Actions)
      /\ stage = "idle" /\ AtRest
      /\ Again => posted' \in Seq(Actions) /\ stage' \in {"idle", "ended"}
  BY <1>2, RunsTypes
<1>4. CASE DriveIdle
  <2>1. /\ TakeNext(Tail(posted)) /\ ~asyncSendInProgress
        /\ UNCHANGED <<countVars, sslState, socketVars, dropped, callVars, finished, wire>>
    BY <1>3, <1>4 DEF DriveIdle
  <2> QED BY <1>3, <2>1, NextPayloadInv
<1>5. CASE DriveWants
  <2>1. EndpointTypes'
    BY <1>1, <1>3, <1>5 DEF DriveWants, EndpointTypes, countVars, socketVars, Stages
  <2> QED BY <1>3, <1>5, <2>1, StillInv DEF DriveWants, countVars
<1>6. CASE DriveWrites
  <2>1. SendInv' /\ wire' \in Seq((0 .. MaxOpens) \X Ids)
    BY <1>1, <1>6, DriveWritesStep
  <2>2. PICK n \in 1 .. outboundBuffer - asyncBytesSent :
          \/ /\ asyncBytesSent + n < outboundBuffer
             /\ asyncBytesSent' = asyncBytesSent + n
             /\ Again
             /\ UNCHANGED <<outboundBuffer, finished>>
          \/ /\ outboundBuffer' = 0 /\ asyncBytesSent' = 0
             /\ Done
             /\ finished' = [finished EXCEPT ![activeFinishCB] = @ + 1]
             /\ stage' = "finish"
    BY <1>6 DEF DriveWrites
  <2>3. /\ outboundBuffer' \in Sizes \union {0} /\ asyncBytesSent' \in 0 .. outboundBuffer'
        /\ finished' \in [Ids -> Nat]
    <3>1. /\ outboundBuffer \in Nat /\ asyncBytesSent \in Nat /\ n \in Nat
          /\ outboundBuffer \in Sizes \union {0} /\ finished \in [Ids -> Nat]
      BY <1>1 DEF SendTypes, DataTypes
    <3>2. CASE /\ asyncBytesSent + n < outboundBuffer
               /\ asyncBytesSent' = asyncBytesSent + n
               /\ UNCHANGED <<outboundBuffer, finished>>
      BY <3>1, <3>2
    <3>3. CASE /\ outboundBuffer' = 0 /\ asyncBytesSent' = 0
               /\ finished' = [finished EXCEPT ![activeFinishCB] = @ + 1]
      <4>1. outboundBuffer' \in Sizes \union {0} /\ asyncBytesSent' \in 0 .. outboundBuffer'
        BY <3>3
      <4>2. finished' = [finished EXCEPT ![activeFinishCB] = finished[activeFinishCB] + 1]
        BY <3>3
      <4>3. finished' \in [Ids -> Nat]
        BY <3>1, <4>2, CalledOnce
      <4> QED BY <4>1, <4>3
    <3> QED BY <2>2, <3>2, <3>3
  <2>4. /\ UNCHANGED <<asyncSendInProgress, activeFinishCB, pendingAsyncSends,
                       queuedBackpressureBytes, dropped, refused, asking, syncSend, sends,
                       refusals, doomed>>
        /\ UNCHANGED <<countVars, sslState, socketVars>>
    BY <1>6 DEF DriveWrites, callVars
  <2>5. DataTypes'
    BY <1>1, <2>1, <2>3, <2>4 DEF DataTypes
  <2>6. EndpointTypes'
    <3>1. posted' \in Seq(Actions) /\ stage' \in Stages
      BY <1>1, <1>3, <2>2 DEF Done, EndpointTypes, Stages
    <3> QED BY <1>1, <2>4, <3>1 DEF EndpointTypes, countVars, socketVars
  <2> QED BY <2>1, <2>5, <2>6, TypesSplit DEF SslInv
<1>7. CASE DriveEmpty
  <2>1. EndpointTypes'
    BY <1>1, <1>3, <1>7 DEF DriveEmpty, Done, EndpointTypes, countVars, socketVars, Stages
  <2> QED BY <1>7, <2>1, StillInv DEF DriveEmpty, countVars
<1>8. CASE DriveFails
  <2>1. /\ OnDisconnected /\ stage' \in Stages /\ posted' \in Seq(Actions)
        /\ UNCHANGED <<countVars, sslState, asking, syncSend, sends, refusals, doomed, finished,
                       wire>>
    BY <1>3, <1>8 DEF DriveFails, Disconnected, Stages, Done, callVars
  <2> QED BY <2>1, LostInv
<1> QED BY <1>4, <1>5, <1>6, <1>7, <1>8 DEF Drive

(* The queue's actions and what goes on after a callback. *)
LEMMA LoopInv ==
    ASSUME SslInv, LoopStep
    PROVE  SslInv'
<1>1. SendTypes /\ EndpointTypes /\ DataTypes /\ SendInv
  BY Typed, TypesSplit DEF SslInv
<1>2. CASE HandshakeWants
  <2>1. EndpointTypes'
    <3>1. posted' \in Seq(Actions) /\ stage' \in {"idle", "ended"}
      BY <1>2, RunsTypes DEF HandshakeWants
    <3> QED BY <1>1, <1>2, <3>1 DEF HandshakeWants, EndpointTypes, countVars, socketVars, Stages
  <2>2. stage' \in {stage, "ended"}
    BY <1>2, RunsTypes DEF HandshakeWants
  <2> QED BY <1>2, <2>1, <2>2, StillInv DEF HandshakeWants, countVars
<1>3. CASE HandshakeEnds
  <2>1. /\ Tail(posted) \in Seq(Actions) /\ stage = "idle" /\ posted' = Tail(posted)
        /\ UNCHANGED <<countVars, callVars, finished, wire>>
    BY <1>3, RunsTypes DEF HandshakeEnds, Done
  <2>2. CASE ~sslSocket /\ UNCHANGED <<sslState, socketVars, asyncVars, stage>>
    <3>1. EndpointTypes'
      BY <1>1, <2>1, <2>2 DEF EndpointTypes, countVars, socketVars
    <3> QED BY <2>1, <2>2, <3>1, StillInv DEF countVars
  <2>3. CASE /\ sslState' = "Connected" /\ registered' = TRUE /\ awaited' = FALSE
             /\ stage' \in {"idle", "ended"}
             /\ UNCHANGED <<sslSocket, asyncVars>>
    <3>1. EndpointTypes'
      BY <1>1, <2>1, <2>3 DEF EndpointTypes, countVars, Stages
    <3> QED BY <2>1, <2>3, <3>1, StillInv DEF countVars
  <2>4. CASE sslState' = "Disconnected" /\ Disconnected("idle")
    <3>1. /\ OnDisconnected /\ stage' \in Stages
          /\ UNCHANGED <<asking, syncSend, sends, refusals, doomed>>
      BY <2>1, <2>4 DEF Disconnected, Stages, callVars
    <3> QED BY <2>1, <2>4, <3>1, LostInv
  <2> QED BY <1>3, <2>2, <2>3, <2>4 DEF HandshakeEnds
<1>4. CASE LeaveLost
  <2>1. /\ stage = "lost" /\ AtRest
        /\ UNCHANGED <<countVars, sslState, socketVars, callVars, wire>>
    BY <1>4 DEF LeaveLost
  <2>2. CASE /\ activeFinishCB # None
             /\ finished' = [finished EXCEPT ![activeFinishCB] = @ + 1]
             /\ stage' = "finish"
             /\ UNCHANGED <<asyncVars, posted>>
    <3>1. SendInv'
      BY <1>1, <2>1, <2>2, LostCallbackStep DEF countVars
    <3>2. finished' \in [Ids -> Nat]
      BY <1>1, <2>2 DEF SendTypes
    <3>3. DataTypes'
      BY <1>1, <2>1, <2>2, <3>2 DEF DataTypes, asyncVars, callVars
    <3>4. EndpointTypes'
      BY <1>1, <2>1, <2>2 DEF EndpointTypes, countVars, socketVars, Stages
    <3> QED BY <3>1, <3>3, <3>4, TypesSplit DEF SslInv
  <2>3. CASE activeFinishCB = None /\ TakeNext(posted) /\ UNCHANGED <<finished, dropped>>
    <3>1. ~asyncSendInProgress
      BY <1>1, <2>3, Numbers DEF SendInv, Queued
    <3>2. posted \in Seq(Actions)
      BY <1>1 DEF EndpointTypes
    <3> QED BY <2>1, <2>3, <3>1, <3>2, NextPayloadInv
  <2> QED BY <1>4, <2>2, <2>3 DEF LeaveLost
<1>5. CASE LeaveFinish
  <2>1. /\ stage = "finish" /\ AtRest
        /\ UNCHANGED <<countVars, sslState, socketVars, dropped, callVars, finished, wire>>
    BY <1>5 DEF LeaveFinish
  <2>2. CASE TakeNext(posted)
    <3>1. posted \in Seq(Actions)
      BY <1>1 DEF EndpointTypes
    <3> QED BY <2>1, <2>2, <3>1, NextPayloadInv
  <2>3. CASE /\ stage' = "ended"
             /\ UNCHANGED <<posted, outboundBuffer, asyncBytesSent, asyncSendInProgress,
                            activeFinishCB, pendingAsyncSends, queuedBackpressureBytes,
                            refused>>
    <3>1. EndpointTypes'
      BY <1>1, <2>1, <2>3 DEF EndpointTypes, countVars, socketVars, Stages
    <3> QED BY <2>1, <2>3, <3>1, StillInv DEF asyncVars, countVars
  <2> QED BY <1>5, <2>2, <2>3 DEF LeaveFinish
<1>6. CASE CloseAction
  <2>1. /\ posted' \in Seq(Actions) /\ stage = "idle" /\ stage' \in {"idle", "ended"}
        /\ UNCHANGED <<countVars, asyncVars, callVars, finished, wire>>
    BY <1>6, RunsTypes DEF CloseAction, Done
  <2>2. EndpointTypes'
    BY <1>1, <1>6, <2>1 DEF CloseAction, EndpointTypes, countVars, socketVars, Stages
  <2> QED BY <2>1, <2>2, StillInv DEF countVars
<1>7. CASE SyncWrite
  <2>1. /\ syncSend # None
        /\ UNCHANGED <<countVars, sslState, posted, stage, asking, sends, refusals, doomed, finished>>
    BY <1>7 DEF SyncWrite
  <2>2. syncSend \in [id : Ids, left : Nat]
    BY <1>1, <2>1 DEF DataTypes
  <2>3. ASSUME NEW n \in 1 .. syncSend.left, Written(syncSend.id, n),
               syncSend' = IF n = syncSend.left THEN None ELSE [syncSend EXCEPT !.left = @ - n],
               UNCHANGED <<socketVars, asyncVars>>
        PROVE  SslInv'
    <3>1. n \in Nat /\ syncSend.left - n \in Nat
      BY <2>2, <2>3
    <3>2. syncSend' = None \/ (syncSend' \in [id : Ids, left : Nat] /\ syncSend'.id = syncSend.id)
      BY <2>2, <2>3, <3>1
    <3>3. SendInv' /\ wire' \in Seq((0 .. MaxOpens) \X Ids)
      BY <1>1, <2>1, <2>3, <3>1, <3>2, SyncWriteStep DEF countVars
    <3>4. DataTypes'
      BY <1>1, <2>1, <2>3, <3>2, <3>3 DEF DataTypes, asyncVars
    <3>5. EndpointTypes'
      BY <1>1, <2>1, <2>3 DEF EndpointTypes, countVars, socketVars
    <3> QED BY <3>3, <3>4, <3>5, TypesSplit DEF SslInv
  <2>4. CASE OnDisconnected /\ syncSend' = None /\ wire' = wire
    <3>1. stage' \in Stages /\ posted' \in Seq(Actions)
      BY <1>1, <2>1 DEF EndpointTypes
    <3> QED BY <2>1, <2>4, <3>1, LostInv
  <2> QED BY <1>7, <2>3, <2>4 DEF SyncWrite
<1>8. CASE PayloadRefused
  <2>1. /\ Answer /\ refusals' = refusals + 1
        /\ UNCHANGED <<posted, asyncVars, syncSend, sends, doomed>>
        /\ UNCHANGED <<countVars, sslState, socketVars, stage, finished, wire>>
    BY <1>8 DEF PayloadRefused, Answer
  <2>2. SendInv' /\ asking' \in Seq(Frame)
    BY <1>1, <1>8, <2>1, RefusedStep, AnswerTypes
  <2>3. DataTypes'
    BY <1>1, <2>1, <2>2 DEF DataTypes, asyncVars
  <2>4. EndpointTypes'
    BY <1>1, <2>1 DEF EndpointTypes, countVars, socketVars
  <2> QED BY <2>2, <2>3, <2>4, TypesSplit DEF SslInv
<1>9. CASE QueueAsync
  <2>1. UNCHANGED <<countVars, sslState, socketVars, stage>>
    BY <1>9 DEF QueueAsync, Accepted, Answer
  <2>2. SendInv' /\ DataTypes' /\ (posted' = posted \/ posted' = Append(posted, "drive"))
    BY <1>1, <1>9, QueueAsyncStep, QueueAsyncTypes
  <2>3. EndpointTypes'
    <3>1. posted' \in Seq(Actions)
      BY <1>1, <2>2, PostedTypes DEF EndpointTypes, Actions
    <3> QED BY <1>1, <2>1, <3>1 DEF EndpointTypes, countVars, socketVars
  <2> QED BY <2>2, <2>3, TypesSplit DEF SslInv
<1>10. CASE BeginSync
  <2>1. UNCHANGED <<countVars, sslState, socketVars, stage, posted>>
    BY <1>10 DEF BeginSync, Accepted, Answer
  <2>2. SendInv' /\ DataTypes'
    BY <1>1, <1>10, BeginSyncStep, BeginSyncTypes
  <2>3. EndpointTypes'
    BY <1>1, <2>1 DEF EndpointTypes, countVars, socketVars
  <2> QED BY <2>2, <2>3, TypesSplit DEF SslInv
<1> QED BY <1>2, <1>3, <1>4, <1>5, <1>6, <1>7, <1>8, <1>9, <1>10, DriveInv DEF LoopStep

LEMMA StepInv ==
    ASSUME SslInv, [Next]_vars
    PROVE  SslInv'
<1>1. CASE PollLosesConnection
  <2>1. /\ OnDisconnected /\ stage' \in Stages
        /\ UNCHANGED <<countVars, posted, asking, syncSend, sends, refusals, doomed, finished, wire>>
    BY <1>1 DEF PollLosesConnection, Disconnected, Stages, callVars
  <2>2. sslState' \in {sslState, "Disconnected"} /\ posted' \in Seq(Actions)
    BY <1>1, <2>1 DEF PollLosesConnection, SslInv, TypeOK
  <2> QED BY <2>1, <2>2, LostInv
<1>2. CASE UNCHANGED vars
  <2>1. EndpointTypes'
    BY <1>2, TypesSplit DEF SslInv, EndpointTypes, vars, countVars, socketVars
  <2> QED BY <1>2, <2>1, StillInv DEF vars, countVars
<1> QED BY <1>1, <1>2, CallInv, LoopInv DEF Next, Rest

LEMMA InitInv == Init => SslInv
<1> SUFFICES ASSUME Init PROVE SslInv
  OBVIOUS
<1>1. /\ <<>> \in Seq(Ids) /\ <<>> \in Seq(Actions) /\ <<"handshake">> \in Seq(Actions)
      /\ <<>> \in Seq(Frame)
      /\ <<>> \in Seq((0 .. MaxOpens) \X Ids)
  BY EmptySeq DEF Actions
<1>2. DataTypes
  <2>1. 0 \in 0 .. 0 /\ 0 \in Nat
    OBVIOUS
  <2>2. asyncBytesSent \in 0 .. outboundBuffer /\ finished \in [Ids -> Nat]
    BY <2>1 DEF Init
  <2> QED BY <1>1, <2>1, <2>2 DEF Init, DataTypes
<1>3. EndpointTypes
  BY <1>1, SslAssumption DEF Init, EndpointTypes, Stages
<1> QED BY <1>2, <1>3, SendInit, TypesSplit DEF SslInv

(* Every reachable state satisfies the invariant. *)
LEMMA SslInvariant == Spec => []SslInv
BY InitInv, StepInv, PTL DEF Spec

-----------------------------------------------------------------------------
(* The variables have their types, whatever the application calls. *)
THEOREM Types == Spec => []TypeOK
<1>1. SslInv => TypeOK
  BY DEF SslInv
<1> QED BY <1>1, SslInvariant, PTL

(* What the endpoint takes for its back pressure is what it buffers, and it *)
(* never buffers more than the limit, unless the last payload it buffers    *)
(* was checked before others that its own onPayloadSend callback sent:      *)
(* sendAsync, the partial writes of sendAsyncCont, processAsyncSendQueue    *)
(* and clearAsyncSendState keep the count of the queued bytes true.         *)
THEOREM BackpressureKept == Spec => []BackpressureBounded
<1>1. ASSUME SslInv PROVE BackpressureBounded
  <2>1. SendTypes /\ Counted /\ Queued
    BY <1>1, Typed DEF SslInv, SendInv
  <2>2. \A k \in DOMAIN pendingAsyncSends : Size[pendingAsyncSends[k]] = BytesOf(pendingAsyncSends[k])
    BY <2>1, Numbers DEF Size
  <2>3. AddUpTo(pendingAsyncSends, queuedBackpressureBytes)
    BY <2>1, <2>2 DEF Counted, AddsUp, AddUpTo
  <2> QED BY <2>1, <2>3 DEF BackpressureBounded, Counted
<1> QED BY <1>1, SslInvariant, PTL

(* An asynchronous send that was accepted is held, or finished once, or     *)
(* discarded by a disconnect, until the loop ends: through the payloads     *)
(* that processAsyncSendQueue moves on, the callbacks it calls, and lost    *)
(* connections.                                                             *)
THEOREM SendsOnce == Spec => []EachSendOnce
<1>1. ASSUME SslInv, NEW i \in DOMAIN sends, Fate(i)
      PROVE  finished[i] + Cardinality({i} \intersect dropped) + Cardinality({i} \intersect Held) = 1
  <2>1. \A S : /\ i \in S => Cardinality({i} \intersect S) = 1
               /\ i \notin S => Cardinality({i} \intersect S) = 0
    <3>1. Cardinality({i}) = 1 /\ Cardinality({}) = 0
      BY FS_Singleton, FS_EmptySet
    <3>2. \A S : /\ i \in S => {i} \intersect S = {i}
                 /\ i \notin S => {i} \intersect S = {}
      OBVIOUS
    <3> QED BY <3>1, <3>2
  <2>2. \/ finished[i] = 0 /\ i \notin dropped /\ i \in Held
        \/ finished[i] = 0 /\ i \in dropped /\ i \notin Held
        \/ finished[i] = 1 /\ i \notin dropped /\ i \notin Held
    BY <1>1 DEF Fate
  <2> QED BY <2>1, <2>2
<1>2. SslInv => EachSendOnce
  BY <1>1 DEF SslInv, SendInv, Fates, EachSendOnce
<1> QED BY <1>2, SslInvariant, PTL

(* The bytes of sends leave in the order in which the sends were accepted,  *)
(* but that a send() leaves before what its onPayloadSend callback sent;    *)
(* send() and sendAsync() never write between the bytes of another payload; *)
(* and a finish callback means that all have left on one connection.        *)
THEOREM OrderOnWire == Spec => []WireOrder
<1>1. ASSUME SslInv PROVE WireOrder
  <2>1. Traced /\ Complete /\ SendTypes
    BY <1>1, Typed DEF SslInv, SendInv
  <2>2. \A m, n \in DOMAIN wire : \A k \in m .. n : k \in DOMAIN wire /\ m <= k /\ k <= n
    BY <2>1, Numbers
  <2>3. \A m, n \in DOMAIN wire : m < n => Before(wire[m][2], wire[n][2])
    BY <2>1 DEF Traced
  <2>4. \A m, n \in DOMAIN wire : m < n /\ wire[m][2] = wire[n][2] =>
            \A k \in m .. n : wire[k][2] = wire[m][2]
    BY <2>1, <2>2 DEF Traced
  <2>5. \A i \in DOMAIN sends : finished[i] > 0 /\ i \notin doomed =>
            \E c \in 0 .. MaxOpens : Cardinality({n \in DOMAIN wire : wire[n] = <<c, i>>}) = BytesOf(i)
    BY <2>1 DEF Complete, Whole, Positions
  <2> QED BY <2>3, <2>4, <2>5 DEF WireOrder, Before
<1> QED BY <1>1, SslInvariant, PTL
=============================================================================
