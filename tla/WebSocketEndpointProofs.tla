----------------------- MODULE WebSocketEndpointProofs -----------------------
(***************************************************************************)
(* Proofs about a WebSocket endpoint, for any number of messages and       *)
(* connections, and lengths of payloads.                                   *)
(*                                                                         *)
(* The argument: what is ahead of the parser, in its buffers and still to  *)
(* be read, is always the tokens of messages one after the other, up to    *)
(* the end of one.  The first of them is one that the parser's state       *)
(* waits for, and what the parser has kept of its message is what comes    *)
(* before it.  So it makes no difference where the reads end.              *)
(***************************************************************************)
EXTENDS WebSocketEndpoint, SequenceTheorems, TLAPS

-----------------------------------------------------------------------------
(* Lengths. *)

(* What the two casts and the three forms of the length leave of a payload  *)
(* of less than 64 KiB is its length: both headers are read as it.          *)
THEOREM LengthsSurvive == Spec => []LengthsKept
<1>1. LengthsKept
  <2> SUFFICES ASSUME NEW n \in Lengths, n < 65536
               PROVE  LengthRead(ClientHeader(n)) = n /\ LengthRead(ServerHeader(n)) = n
    BY DEF LengthsKept
  <2>1. n \in Nat
    BY WebSocketAssumption
  <2>2. n % 65536 = n
    BY <2>1
  <2>3. Cast16(n) = n
    BY <2>2 DEF Cast16
  <2> QED BY <2>1, <2>3 DEF LengthRead, ClientHeader, ServerHeader
<1> QED BY <1>1, PTL

-----------------------------------------------------------------------------
(* The frames of a message. *)

AllKinds == {"text", "empty", "fragmented", "interrupted", "ping", "close"}
Ops == {"Text", "Continuation", "Ping", "ClosedConnection"}
Token == [m : Nat, f : Nat, k : Nat]
Message == [kind : AllKinds \union {None}, connection : Nat]

(* How many frames a message has, and how many tokens one of them.          *)
Parts(kind) == IF kind = "interrupted" THEN 3 ELSE IF kind = "fragmented" THEN 2 ELSE 1
Pieces(kind) == IF kind = "text" THEN 2 ELSE IF kind \in {"empty", "close"} THEN 0 ELSE 1
Size(kind) == HeaderSize + Pieces(kind)
OpOf(kind) == IF kind = "ping" THEN "Ping" ELSE IF kind = "close" THEN "ClosedConnection" ELSE "Text"

LEMMA FrameTable ==
    ASSUME NEW kind \in AllKinds
    PROVE  /\ DOMAIN Frames(kind) = 1 .. Parts(kind) /\ Len(Frames(kind)) = Parts(kind)
           /\ \A f \in 1 .. Parts(kind) :
                 /\ Frames(kind)[f].size = Pieces(kind)
                 /\ Frames(kind)[f].fin \in BOOLEAN /\ Frames(kind)[f].op \in Ops
                 /\ kind # "interrupted" => (Frames(kind)[f].fin <=> f = Parts(kind))
           /\ Frames(kind)[1].op = OpOf(kind)
<1>1. CASE kind = "text"
  <2>1. Frames(kind) = <<Frame("Text", TRUE, 2)>>
    BY <1>1 DEF Frames
  <2>2. Len(Frames(kind)) = 1 /\ DOMAIN Frames(kind) = 1 .. 1 /\ Frames(kind)[1] = Frame("Text", TRUE, 2)
    BY <2>1
  <2>3. /\ Frames(kind)[1].size = 2 /\ Frames(kind)[1].fin = TRUE /\ Frames(kind)[1].op = "Text"
    BY <2>2 DEF Frame
  <2>4. Parts(kind) = 1 /\ Pieces(kind) = 2 /\ OpOf(kind) = "Text"
    BY <1>1 DEF Parts, Pieces, OpOf
  <2>5. 1 .. Parts(kind) = {1}
    BY <2>4
  <2> QED BY <1>1, <2>2, <2>3, <2>4, <2>5 DEF Ops
<1>2. CASE kind = "empty"
  <2>1. Frames(kind) = <<Frame("Text", TRUE, 0)>>
    BY <1>2 DEF Frames
  <2>2. /\ Len(Frames(kind)) = 1 /\ DOMAIN Frames(kind) = 1 .. 1
        /\ Frames(kind)[1] = Frame("Text", TRUE, 0)
    BY <2>1
  <2>3. /\ Frames(kind)[1].size = 0 /\ Frames(kind)[1].fin = TRUE /\ Frames(kind)[1].op = "Text"
    BY <2>2 DEF Frame
  <2>4. Parts(kind) = 1 /\ Pieces(kind) = 0 /\ OpOf(kind) = "Text"
    BY <1>2 DEF Parts, Pieces, OpOf
  <2>5. 1 .. Parts(kind) = {1}
    BY <2>4
  <2> QED BY <1>2, <2>2, <2>3, <2>4, <2>5 DEF Ops
<1>3. CASE kind = "fragmented"
  <2>1. Frames(kind) = <<Frame("Text", FALSE, 1), Frame("Continuation", TRUE, 1)>>
    BY <1>3 DEF Frames
  <2>2. /\ Len(Frames(kind)) = 2 /\ DOMAIN Frames(kind) = 1 .. 2
        /\ Frames(kind)[1] = Frame("Text", FALSE, 1) /\ Frames(kind)[2] = Frame("Continuation", TRUE, 1)
    BY <2>1
  <2>3. /\ Frames(kind)[1].size = 1 /\ Frames(kind)[1].fin = FALSE /\ Frames(kind)[1].op = "Text"
        /\ Frames(kind)[2].size = 1 /\ Frames(kind)[2].fin = TRUE /\ Frames(kind)[2].op = "Continuation"
    BY <2>2 DEF Frame
  <2>4. Parts(kind) = 2 /\ Pieces(kind) = 1 /\ OpOf(kind) = "Text"
    BY <1>3 DEF Parts, Pieces, OpOf
  <2>5. 1 .. Parts(kind) = {1, 2}
    BY <2>4
  <2> QED BY <1>3, <2>2, <2>3, <2>4, <2>5 DEF Ops
<1>4. CASE kind = "interrupted"
  <2>1. Frames(kind) = <<Frame("Text", FALSE, 1), Frame("Ping", TRUE, 1), Frame("Continuation", TRUE, 1)>>
    BY <1>4 DEF Frames
  <2>2. /\ Len(Frames(kind)) = 3 /\ DOMAIN Frames(kind) = 1 .. 3
        /\ Frames(kind)[1] = Frame("Text", FALSE, 1) /\ Frames(kind)[2] = Frame("Ping", TRUE, 1) /\ Frames(kind)[3] = Frame("Continuation", TRUE, 1)
    BY <2>1
  <2>3. /\ Frames(kind)[1].size = 1 /\ Frames(kind)[1].fin = FALSE /\ Frames(kind)[1].op = "Text"
        /\ Frames(kind)[2].size = 1 /\ Frames(kind)[2].fin = TRUE /\ Frames(kind)[2].op = "Ping"
        /\ Frames(kind)[3].size = 1 /\ Frames(kind)[3].fin = TRUE /\ Frames(kind)[3].op = "Continuation"
    BY <2>2 DEF Frame
  <2>4. Parts(kind) = 3 /\ Pieces(kind) = 1 /\ OpOf(kind) = "Text"
    BY <1>4 DEF Parts, Pieces, OpOf
  <2>5. 1 .. Parts(kind) = {1, 2, 3}
    BY <2>4
  <2> QED BY <1>4, <2>2, <2>3, <2>4, <2>5 DEF Ops
<1>5. CASE kind = "ping"
  <2>1. Frames(kind) = <<Frame("Ping", TRUE, 1)>>
    BY <1>5 DEF Frames
  <2>2. /\ Len(Frames(kind)) = 1 /\ DOMAIN Frames(kind) = 1 .. 1
        /\ Frames(kind)[1] = Frame("Ping", TRUE, 1)
    BY <2>1
  <2>3. /\ Frames(kind)[1].size = 1 /\ Frames(kind)[1].fin = TRUE /\ Frames(kind)[1].op = "Ping"
    BY <2>2 DEF Frame
  <2>4. Parts(kind) = 1 /\ Pieces(kind) = 1 /\ OpOf(kind) = "Ping"
    BY <1>5 DEF Parts, Pieces, OpOf
  <2>5. 1 .. Parts(kind) = {1}
    BY <2>4
  <2> QED BY <1>5, <2>2, <2>3, <2>4, <2>5 DEF Ops
<1>6. CASE kind = "close"
  <2>1. Frames(kind) = <<Frame("ClosedConnection", TRUE, 0)>>
    BY <1>6 DEF Frames
  <2>2. /\ Len(Frames(kind)) = 1 /\ DOMAIN Frames(kind) = 1 .. 1
        /\ Frames(kind)[1] = Frame("ClosedConnection", TRUE, 0)
    BY <2>1
  <2>3. /\ Frames(kind)[1].size = 0 /\ Frames(kind)[1].fin = TRUE /\ Frames(kind)[1].op = "ClosedConnection"
    BY <2>2 DEF Frame
  <2>4. Parts(kind) = 1 /\ Pieces(kind) = 0 /\ OpOf(kind) = "ClosedConnection"
    BY <1>6 DEF Parts, Pieces, OpOf
  <2>5. 1 .. Parts(kind) = {1}
    BY <2>4
  <2> QED BY <1>6, <2>2, <2>3, <2>4, <2>5 DEF Ops
<1> QED BY <1>1, <1>2, <1>3, <1>4, <1>5, <1>6 DEF AllKinds

LEMMA FrameTokensTable ==
    ASSUME NEW kind \in AllKinds, NEW m \in Nat, NEW f \in Nat \ {0}
    PROVE  /\ FrameTokens(m, kind, f) \in Seq(Token)
           /\ Len(FrameTokens(m, kind, f)) = IF f <= Parts(kind) THEN Size(kind) ELSE 0
           /\ \A i \in 1 .. Len(FrameTokens(m, kind, f)) :
                 FrameTokens(m, kind, f)[i] = [m |-> m, f |-> f, k |-> i]
<1> DEFINE r == [k \in 1 .. Size(kind) |-> [m |-> m, f |-> f, k |-> k]]
<1>1. Size(kind) \in Nat /\ Parts(kind) \in Nat
  BY DEF Size, HeaderSize, Pieces, Parts
<1>2. r \in [1 .. Size(kind) -> Token]
  BY DEF Token
<1>3. r \in Seq(Token) /\ Len(r) = Size(kind)
  BY <1>1, <1>2
<1>4. CASE f <= Parts(kind)
  <2>1. f \in DOMAIN Frames(kind) /\ HeaderSize + Frames(kind)[f].size = Size(kind)
    BY <1>1, <1>4, FrameTable DEF Size
  <2>2. FrameTokens(m, kind, f) = r
    BY <2>1 DEF FrameTokens
  <2> QED BY <1>3, <1>4, <2>2
<1>5. CASE ~(f <= Parts(kind))
  <2>1. f \notin DOMAIN Frames(kind)
    BY <1>1, <1>5, FrameTable
  <2>2. FrameTokens(m, kind, f) = <<>>
    BY <2>1 DEF FrameTokens
  <2> QED BY <1>5, <2>2
<1> QED BY <1>4, <1>5

(* Three sequences, one after the other. *)
LEMMA Three ==
    ASSUME NEW S, NEW a \in Seq(S), NEW b \in Seq(S), NEW c \in Seq(S)
    PROVE  /\ a \o b \o c \in Seq(S)
           /\ Len(a \o b \o c) = Len(a) + Len(b) + Len(c)
           /\ \A i \in 1 .. Len(a) + Len(b) + Len(c) : (a \o b \o c)[i] =
                 IF i <= Len(a) THEN a[i]
                 ELSE IF i <= Len(a) + Len(b) THEN b[i - Len(a)] ELSE c[i - Len(a) - Len(b)]
<1> DEFINE u == a \o b
           v == u \o c
<1>1. /\ u \in Seq(S) /\ Len(u) = Len(a) + Len(b)
      /\ \A i \in 1 .. Len(a) + Len(b) : u[i] = IF i <= Len(a) THEN a[i] ELSE b[i - Len(a)]
  BY ConcatProperties
<1>2. Len(a) \in Nat /\ Len(b) \in Nat /\ Len(c) \in Nat
  OBVIOUS
<1> HIDE DEF u
<1>3. /\ v \in Seq(S) /\ Len(v) = Len(u) + Len(c)
      /\ \A i \in 1 .. Len(u) + Len(c) : v[i] = IF i <= Len(u) THEN u[i] ELSE c[i - Len(u)]
  <2>1. u \in Seq(S)
    BY <1>1
  <2> QED BY <2>1, ConcatProperties
<1> HIDE DEF v
<1>4. ASSUME NEW i \in 1 .. Len(a) + Len(b) + Len(c)
      PROVE  v[i] = IF i <= Len(a) THEN a[i]
                    ELSE IF i <= Len(a) + Len(b) THEN b[i - Len(a)] ELSE c[i - Len(a) - Len(b)]
  <2>1. v[i] = IF i <= Len(u) THEN u[i] ELSE c[i - Len(u)]
    BY <1>1, <1>2, <1>3
  <2>2. CASE i <= Len(u)
    <3>1. i \in 1 .. Len(a) + Len(b)
      BY <1>1, <1>2, <2>2
    <3>2. i <= Len(a) => i <= Len(u)
      BY <1>1, <1>2
    <3> QED BY <1>1, <2>1, <2>2, <3>1
  <2>3. CASE ~(i <= Len(u))
    <3>1. ~(i <= Len(a)) /\ i - Len(u) = i - Len(a) - Len(b)
      BY <1>1, <1>2, <2>3
    <3> QED BY <1>1, <2>1, <2>3, <3>1
  <2> QED BY <2>2, <2>3
<1> QED BY <1>1, <1>2, <1>3, <1>4 DEF u, v

(* The tokens of a message: those of its frames, one after the other. *)
LEMMA TokensTable ==
    ASSUME NEW kind \in AllKinds, NEW m \in Nat
    PROVE  /\ Tokens(m, kind) \in Seq(Token)
           /\ Len(Tokens(m, kind)) = Parts(kind) * Size(kind)
           /\ \A i \in 1 .. Len(Tokens(m, kind)) :
                 \E f \in 1 .. Parts(kind), k \in 1 .. Size(kind) :
                    /\ i = (f - 1) * Size(kind) + k
                    /\ Tokens(m, kind)[i] = [m |-> m, f |-> f, k |-> k]
<1> DEFINE a == FrameTokens(m, kind, 1)
           b == FrameTokens(m, kind, 2)
           c == FrameTokens(m, kind, 3)
           size == Size(kind)
           parts == Parts(kind)
           u == Tokens(m, kind)
<1>1. size \in Nat /\ size >= 2 /\ parts \in {1, 2, 3}
  BY DEF Size, HeaderSize, Pieces, Parts
<1>2. /\ a \in Seq(Token) /\ Len(a) = size
      /\ \A i \in 1 .. Len(a) : a[i] = [m |-> m, f |-> 1, k |-> i]
  BY <1>1, FrameTokensTable
<1>3. /\ b \in Seq(Token) /\ Len(b) = IF parts >= 2 THEN size ELSE 0
      /\ \A i \in 1 .. Len(b) : b[i] = [m |-> m, f |-> 2, k |-> i]
  BY <1>1, FrameTokensTable
<1>4. /\ c \in Seq(Token) /\ Len(c) = IF parts >= 3 THEN size ELSE 0
      /\ \A i \in 1 .. Len(c) : c[i] = [m |-> m, f |-> 3, k |-> i]
  BY <1>1, FrameTokensTable
<1> HIDE DEF a, b, c
<1>5. /\ u \in Seq(Token) /\ Len(u) = Len(a) + Len(b) + Len(c)
      /\ \A i \in 1 .. Len(a) + Len(b) + Len(c) : u[i] =
            IF i <= Len(a) THEN a[i]
            ELSE IF i <= Len(a) + Len(b) THEN b[i - Len(a)] ELSE c[i - Len(a) - Len(b)]
  BY <1>2, <1>3, <1>4, Three DEF Tokens, a, b, c
<1> HIDE DEF u, size, parts
<1>6. Len(u) = parts * size
  <2>1. CASE parts = 1
    BY <1>1, <1>2, <1>3, <1>4, <1>5, <2>1
  <2>2. CASE parts = 2
    BY <1>1, <1>2, <1>3, <1>4, <1>5, <2>2
  <2>3. CASE parts = 3
    BY <1>1, <1>2, <1>3, <1>4, <1>5, <2>3
  <2> QED BY <1>1, <2>1, <2>2, <2>3
<1>7. ASSUME NEW i \in 1 .. Len(u)
      PROVE  \E f \in 1 .. parts, k \in 1 .. size :
                i = (f - 1) * size + k /\ u[i] = [m |-> m, f |-> f, k |-> k]
  <2>0. i \in 1 .. Len(a) + Len(b) + Len(c) /\ i \in Nat
    BY <1>1, <1>2, <1>3, <1>4, <1>5
  <2>1. CASE i <= Len(a)
    <3>1. i \in 1 .. Len(a) /\ i \in 1 .. size /\ i = (1 - 1) * size + i /\ 1 \in 1 .. parts
      BY <1>1, <1>2, <2>0, <2>1
    <3>2. u[i] = [m |-> m, f |-> 1, k |-> i]
      BY <1>2, <1>5, <2>0, <2>1, <3>1
    <3> QED BY <3>1, <3>2
  <2>2. CASE ~(i <= Len(a)) /\ i <= Len(a) + Len(b)
    <3>1. parts >= 2 /\ Len(b) = size
      BY <1>1, <1>2, <1>3, <2>0, <2>2
    <3>2. i - Len(a) \in 1 .. Len(b) /\ i - Len(a) \in 1 .. size
          /\ i = (2 - 1) * size + (i - Len(a)) /\ 2 \in 1 .. parts
      BY <1>1, <1>2, <1>3, <2>0, <2>2, <3>1
    <3>3. u[i] = [m |-> m, f |-> 2, k |-> i - Len(a)]
      BY <1>3, <1>5, <2>0, <2>2, <3>2
    <3> QED BY <3>2, <3>3
  <2>3. CASE ~(i <= Len(a)) /\ ~(i <= Len(a) + Len(b))
    <3>1. parts >= 3 /\ Len(c) = size /\ Len(b) = size
      BY <1>1, <1>2, <1>3, <1>4, <2>0, <2>3
    <3>2. i - Len(a) - Len(b) \in 1 .. Len(c) /\ i - Len(a) - Len(b) \in 1 .. size
          /\ i = (3 - 1) * size + (i - Len(a) - Len(b)) /\ 3 \in 1 .. parts
      BY <1>1, <1>2, <1>3, <1>4, <2>0, <2>3, <3>1
    <3>3. u[i] = [m |-> m, f |-> 3, k |-> i - Len(a) - Len(b)]
      BY <1>4, <1>5, <2>0, <2>3, <3>2
    <3> QED BY <3>2, <3>3
  <2> QED BY <2>1, <2>2, <2>3
<1> QED BY <1>5, <1>6, <1>7 DEF u, size, parts

-----------------------------------------------------------------------------
(* Types. *)

(* A token of a message of a history, or the upgrade.                       *)
InMessage(t, history) ==
    /\ t.m \in DOMAIN history /\ history[t.m].kind \in AllKinds
    /\ t.f \in 1 .. Parts(history[t.m].kind) /\ t.k \in 1 .. Size(history[t.m].kind)
Sent(history) == {t \in Token : t = Upgrade \/ InMessage(t, history)}
Key == [m : Nat, f : Nat]
Delivery == [op : Ops, payload : Seq(Token), open : BOOLEAN, timed : BOOLEAN, plain : BOOLEAN]

StateTypes ==
    /\ serverSide \in BOOLEAN /\ upgraded \in BOOLEAN /\ handshake \in {"none", "queued", "sent"}
    /\ frameReadTime \in BOOLEAN /\ calling \in BOOLEAN /\ open \in BOOLEAN
    /\ polling \in {"nothing", "http", "frames"}
    /\ loop \in {"running", "ended", "passthrough", "misread"}
FrameTypes ==
    /\ pendingContent \in Nat /\ finalFrame \in BOOLEAN /\ firstOp \in Ops \union {None}
    /\ continuation \in Seq(Token) /\ maskingKey \in Key \union {None}
TokenTypes ==
    /\ prepended \in Seq(Sent(messages)) /\ input \in Seq(Sent(messages))
    /\ stream \in Seq(Sent(messages))
HistoryTypes ==
    /\ connection \in Nat /\ messages \in Seq(Message) /\ delivered \in Seq(Delivery)
    /\ \A m \in 1 .. Len(messages) : messages[m].connection <= connection
Types == StateTypes /\ FrameTypes /\ TokenTypes /\ HistoryTypes

LEMMA SentTokens ==
    ASSUME NEW history, NEW s \in Seq(Sent(history))
    PROVE  s \in Seq(Token) /\ \A i \in 1 .. Len(s) : s[i] \in Token /\ (s[i] = Upgrade \/ InMessage(s[i], history))
<1>1. Sent(history) \subseteq Token
  BY DEF Sent
<1>2. s \in Seq(Token)
  BY <1>1, SeqMonotonic
<1>3. \A i \in 1 .. Len(s) : s[i] \in Sent(history)
  BY ElementOfSeq
<1> QED BY <1>2, <1>3 DEF Sent

(* A message more keeps what the tokens are. *)
LEMMA SentMore ==
    ASSUME NEW history \in Seq(Message), NEW message \in Message
    PROVE  /\ Append(history, message) \in Seq(Message)
           /\ Len(Append(history, message)) = Len(history) + 1
           /\ DOMAIN history = 1 .. Len(history) /\ Len(history) \in Nat
           /\ DOMAIN Append(history, message) = 1 .. Len(history) + 1
           /\ \A m \in 1 .. Len(history) : Append(history, message)[m] = history[m]
           /\ Append(history, message)[Len(history) + 1] = message
           /\ \A t \in Token : InMessage(t, history) => InMessage(t, Append(history, message))
           /\ Sent(history) \subseteq Sent(Append(history, message))
<1> DEFINE longer == Append(history, message)
<1>1. /\ longer \in Seq(Message) /\ Len(longer) = Len(history) + 1
      /\ DOMAIN history = 1 .. Len(history) /\ Len(history) \in Nat
      /\ DOMAIN longer = 1 .. Len(history) + 1
      /\ \A m \in 1 .. Len(history) : longer[m] = history[m]
      /\ longer[Len(history) + 1] = message
  OBVIOUS
<1> HIDE DEF longer
<1>2. \A t \in Token : InMessage(t, history) => InMessage(t, longer)
  BY <1>1 DEF InMessage
<1>3. Sent(history) \subseteq Sent(longer)
  BY <1>2 DEF Sent
<1> QED BY <1>1, <1>2, <1>3 DEF longer

LEMMA TokensSent ==
    ASSUME NEW history, NEW m \in Nat, m \in DOMAIN history, history[m].kind \in AllKinds
    PROVE  Tokens(m, history[m].kind) \in Seq(Sent(history))
<1> DEFINE kind == history[m].kind
           u == Tokens(m, kind)
<1>1. /\ u \in Seq(Token)
      /\ \A i \in 1 .. Len(u) :
            \E f \in 1 .. Parts(kind), k \in 1 .. Size(kind) : u[i] = [m |-> m, f |-> f, k |-> k]
  BY TokensTable, ZenonT(30)
<1> HIDE DEF u
<1>2. ASSUME NEW i \in 1 .. Len(u) PROVE u[i] \in Sent(history)
  <2>1. PICK f \in 1 .. Parts(kind), k \in 1 .. Size(kind) : u[i] = [m |-> m, f |-> f, k |-> k]
    BY <1>1
  <2>2. u[i] \in Token
    BY <1>1, ElementOfSeq
  <2> QED BY <2>1, <2>2 DEF Sent, InMessage
<1>3. u \in [1 .. Len(u) -> Sent(history)] /\ Len(u) \in Nat
  BY <1>1, <1>2
<1>4. u \in Seq(Sent(history))
  BY <1>3
<1> QED BY <1>4 DEF u

(* Parts of sequences. *)
LEMMA Cut ==
    ASSUME NEW S, NEW s \in Seq(S), NEW n \in Nat, n <= Len(s)
    PROVE  /\ SubSeq(s, 1, n) \in Seq(S) /\ Len(SubSeq(s, 1, n)) = n
           /\ \A i \in 1 .. n : SubSeq(s, 1, n)[i] = s[i]
           /\ SubSeq(s, n + 1, Len(s)) \in Seq(S) /\ Len(SubSeq(s, n + 1, Len(s))) = Len(s) - n
           /\ \A i \in 1 .. Len(s) - n : SubSeq(s, n + 1, Len(s))[i] = s[i + n]
<1>1. Len(s) \in Nat /\ \A i \in 1 .. Len(s) : s[i] \in S
  OBVIOUS
<1> DEFINE a == SubSeq(s, 1, n)
           b == SubSeq(s, n + 1, Len(s))
<1>2. /\ a \in Seq(S) /\ Len(a) = IF 1 <= n THEN n - 1 + 1 ELSE 0
      /\ \A i \in 1 .. n - 1 + 1 : a[i] = s[1 + i - 1]
  <2>1. \A i \in 1 .. n : s[i] \in S
    BY <1>1
  <2> QED BY <2>1, SubSeqProperties
<1>3. /\ b \in Seq(S) /\ Len(b) = IF n + 1 <= Len(s) THEN Len(s) - (n + 1) + 1 ELSE 0
      /\ \A i \in 1 .. Len(s) - (n + 1) + 1 : b[i] = s[(n + 1) + i - 1]
  <2>1. \A i \in n + 1 .. Len(s) : s[i] \in S
    BY <1>1
  <2> QED BY <1>1, <2>1, SubSeqProperties
<1> HIDE DEF a, b
<1>4. Len(a) = n /\ \A i \in 1 .. n : a[i] = s[i]
  BY <1>2
<1>5. Len(b) = Len(s) - n /\ \A i \in 1 .. Len(s) - n : b[i] = s[i + n]
  BY <1>1, <1>3
<1> QED BY <1>2, <1>3, <1>4, <1>5 DEF a, b

(* The payload of a frame that is in a read. *)
LEMMA CutInside ==
    ASSUME NEW S, NEW s \in Seq(S), NEW from \in Nat \ {0}, NEW n \in Nat, n <= Len(s)
    PROVE  /\ SubSeq(s, from, n) \in Seq(S)
           /\ Len(SubSeq(s, from, n)) = IF from <= n THEN n - from + 1 ELSE 0
           /\ \A i \in 1 .. n - from + 1 : SubSeq(s, from, n)[i] = s[from + i - 1]
<1>1. Len(s) \in Nat /\ \A i \in from .. n : s[i] \in S
  OBVIOUS
<1> QED BY <1>1, SubSeqProperties

LEMMA TypesInit == Init => Types
<1> SUFFICES ASSUME Init PROVE Types
  OBVIOUS
<1>1. StateTypes
  BY DEF Init, StateTypes
<1>2. FrameTypes
  <2>1. <<>> \in Seq(Token)
    BY EmptySeq
  <2> QED BY <2>1 DEF Init, FrameTypes
<1>3. TokenTypes
  BY DEF Init, TokenTypes
<1>4. HistoryTypes
  BY DEF Init, HistoryTypes
<1> QED BY <1>1, <1>2, <1>3, <1>4 DEF Types

(* What the end of a frame does to the types. *)
LEMMA FrameEndsTypes ==
    ASSUME Types, ParseUnchanged, NEW fin \in BOOLEAN, NEW op \in Ops \union {None}, NEW payload \in Seq(Token),
           NEW key \in Key \union {None}, NEW rest \in Seq(Sent(messages)),
           FrameEnds(fin, op, payload, key, rest)
    PROVE  Types'
<1>1. continuation \o payload \in Seq(Token) /\ <<>> \in Seq(Token) /\ <<>> \in Seq(Sent(messages))
  BY ConcatProperties, EmptySeq DEF Types, FrameTypes
<1>0. FrameTypes'
  <2>1. CASE /\ continuation' = continuation \o payload
             /\ pendingContent' = 0 /\ finalFrame' = fin /\ firstOp' = op /\ maskingKey' = key
    BY <1>1, <2>1 DEF FrameTypes
  <2>2. CASE Lose /\ firstOp' = op
    BY <1>1, <2>2 DEF FrameTypes, Lose, ResetWebsocketState
  <2>3. CASE /\ maskingKey' = IF op = "Text" THEN None ELSE key
             /\ continuation' = IF continuation = <<>> THEN <<>> ELSE continuation \o payload
             /\ pendingContent' = 0 /\ finalFrame' = fin /\ firstOp' = op
    <3>1. continuation' \in Seq(Token) /\ maskingKey' \in Key \union {None}
      BY <1>1, <2>3
    <3> QED BY <2>3, <3>1 DEF FrameTypes
  <2> QED BY <2>1, <2>2, <2>3 DEF FrameEnds
<1>2. CASE UNCHANGED delivered /\ UNCHANGED calling
  <2>1. TokenTypes' /\ HistoryTypes'
    BY <1>1, <1>2 DEF Types, TokenTypes, HistoryTypes, ParseUnchanged, FrameEnds, Lose
  <2>2. StateTypes'
    BY <1>2, ZenonT(30) DEF Types, StateTypes, ParseUnchanged, FrameEnds, Lose, ResetWebsocketState
  <2> QED BY <1>0, <2>1, <2>2 DEF Types
<1>3. CASE CallHandler(op, continuation \o payload, key) /\ op \in {"Text", "Ping"}
  <2>2. StateTypes'
    BY <1>3 DEF Types, StateTypes, ParseUnchanged, FrameEnds, Lose, ResetWebsocketState, CallHandler
  <2>3. TokenTypes'
    BY <1>1 DEF Types, TokenTypes, ParseUnchanged, FrameEnds, Lose
  <2>4. open' \in BOOLEAN /\ frameReadTime' \in BOOLEAN
    BY <2>2 DEF StateTypes
  <2> DEFINE plain == IF op = "Text" THEN Unmasked(continuation \o payload, key)
                      ELSE ~serverSide \/ continuation \o payload = <<>>
             d == [op |-> op, payload |-> continuation \o payload, open |-> open',
                   timed |-> frameReadTime', plain |-> plain]
  <2>5. plain \in BOOLEAN
    BY DEF Unmasked
  <2> HIDE DEF plain
  <2>6. d \in Delivery
    BY <1>1, <1>3, <2>4, <2>5 DEF Delivery, Ops
  <2>7. delivered' = Append(delivered, d)
    BY <1>3 DEF CallHandler, plain
  <2> HIDE DEF d
  <2>8. delivered' \in Seq(Delivery)
    BY <2>6, <2>7 DEF Types, HistoryTypes
  <2>9. HistoryTypes'
    BY <2>8 DEF Types, HistoryTypes, ParseUnchanged, FrameEnds, Lose
  <2> QED BY <1>0, <2>2, <2>3, <2>9 DEF Types
<1> QED BY <1>2, <1>3 DEF FrameEnds

LEMMA NextFrameTypes == Types /\ NextFrame => Types'
<1> SUFFICES ASSUME Types, NextFrame PROVE Types'
  OBVIOUS
<1> DEFINE t == input[1]
           kind == messages[t.m].kind
           frame == FrameOf(t)
           size == HeaderSize + frame.size
           key == IF serverSide THEN KeyOf(t) ELSE maskingKey
           op == IF firstOp = None THEN frame.op ELSE firstOp
<1>1. /\ Len(input) >= 2 /\ t.k = 1 /\ ParseUnchanged
      /\ \/ /\ Len(input) < size
            /\ pendingContent' = size - Len(input)
            /\ finalFrame' = frame.fin /\ firstOp' = op /\ maskingKey' = key
            /\ continuation' = continuation \o SubSeq(input, HeaderSize + 1, Len(input))
            /\ input' = <<>>
            /\ UNCHANGED <<upgraded, handshake, frameReadTime, open, stream, situations,
                           calling, delivered>>
         \/ /\ Len(input) >= size
            /\ FrameEnds(frame.fin, op, SubSeq(input, HeaderSize + 1, size), key,
                         SubSeq(input, size + 1, Len(input)))
  BY DEF NextFrame, AtFrame, HeaderSize
<1>2. input \in Seq(Sent(messages)) /\ Len(input) \in Nat /\ messages \in Seq(Message)
  BY DEF Types, TokenTypes, HistoryTypes
<1>3. input \in Seq(Token) /\ t \in Token /\ (t = Upgrade \/ InMessage(t, messages))
  <2>1. 1 \in 1 .. Len(input)
    BY <1>1, <1>2
  <2> QED BY <1>2, <2>1, SentTokens
<1>4. InMessage(t, messages)
  BY <1>1, <1>3 DEF Upgrade
<1>5. /\ frame.fin \in BOOLEAN /\ frame.op \in Ops /\ frame.size = Pieces(kind) /\ Pieces(kind) \in Nat
      /\ size \in Nat
  <2>1. kind \in AllKinds /\ t.f \in 1 .. Parts(kind)
    BY <1>4 DEF InMessage
  <2>2. frame = Frames(kind)[t.f]
    BY DEF FrameOf
  <2> HIDE DEF kind, frame
  <2> QED BY <2>1, <2>2, FrameTable DEF Pieces, HeaderSize
<1>6. op \in Ops /\ key \in Key \union {None}
  BY <1>3, <1>5 DEF Types, FrameTypes, StateTypes, KeyOf, Key, Token
<1> HIDE DEF t, frame, op, key, kind, size
<1>7. CASE Len(input) < size
  <2>9. ~(Len(input) >= size)
    BY <1>2, <1>5, <1>7
  <2>0. /\ pendingContent' = size - Len(input)
        /\ finalFrame' = frame.fin /\ firstOp' = op /\ maskingKey' = key
        /\ continuation' = continuation \o SubSeq(input, HeaderSize + 1, Len(input))
        /\ input' = <<>> /\ ParseUnchanged
        /\ UNCHANGED <<upgraded, handshake, frameReadTime, open, stream, situations, calling,
                       delivered>>
    BY <1>1, <2>9
  <2>1. SubSeq(input, HeaderSize + 1, Len(input)) \in Seq(Token)
    BY <1>1, <1>2, <1>3, CutInside DEF HeaderSize
  <2>2. continuation' \in Seq(Token)
    <3>1. continuation \in Seq(Token)
      BY DEF Types, FrameTypes
    <3> QED BY <2>0, <2>1, <3>1, ConcatProperties
  <2>3. pendingContent' \in Nat
    BY <1>2, <1>5, <1>7, <2>0
  <2>4. FrameTypes'
    BY <1>5, <1>6, <2>0, <2>2, <2>3 DEF FrameTypes
  <2>5. StateTypes' /\ HistoryTypes'
    BY <2>0 DEF Types, StateTypes, HistoryTypes, ParseUnchanged
  <2>6. TokenTypes'
    BY <2>0 DEF Types, TokenTypes, ParseUnchanged
  <2> QED BY <2>4, <2>5, <2>6 DEF Types
<1>8. CASE Len(input) >= size
  <2>1. SubSeq(input, HeaderSize + 1, size) \in Seq(Token)
    BY <1>2, <1>3, <1>5, <1>8, CutInside DEF HeaderSize
  <2>2. SubSeq(input, size + 1, Len(input)) \in Seq(Sent(messages))
    BY <1>2, <1>5, <1>8, Cut
  <2>3. FrameEnds(frame.fin, op, SubSeq(input, HeaderSize + 1, size), key,
                  SubSeq(input, size + 1, Len(input)))
    BY <1>1, <1>2, <1>5, <1>8
  <2> QED BY <1>1, <1>5, <1>6, <2>1, <2>2, <2>3, FrameEndsTypes
<1> QED BY <1>2, <1>5, <1>7, <1>8

LEMMA PendingFrameTypes == Types /\ PendingFrame => Types'
<1> SUFFICES ASSUME Types, PendingFrame PROVE Types'
  OBVIOUS
<1>1. /\ pendingContent > 0 /\ input # <<>> /\ ParseUnchanged
      /\ \/ /\ Len(input) < pendingContent
            /\ pendingContent' = pendingContent - Len(input)
            /\ continuation' = continuation \o input
            /\ input' = <<>>
            /\ UNCHANGED <<upgraded, handshake, finalFrame, firstOp, maskingKey, frameReadTime,
                           open, stream, situations, calling, delivered>>
         \/ /\ Len(input) >= pendingContent
            /\ FrameEnds(finalFrame, firstOp, SubSeq(input, 1, pendingContent), maskingKey,
                         SubSeq(input, pendingContent + 1, Len(input)))
  BY DEF PendingFrame, InFrames, Parsing
<1>2. /\ input \in Seq(Sent(messages)) /\ Len(input) \in Nat /\ pendingContent \in Nat
      /\ continuation \in Seq(Token)
  BY DEF Types, TokenTypes, FrameTypes
<1>3. input \in Seq(Token)
  BY <1>2, SentTokens
<1>4. CASE Len(input) < pendingContent
  <2>0. /\ pendingContent' = pendingContent - Len(input)
        /\ continuation' = continuation \o input
        /\ input' = <<>> /\ ParseUnchanged
        /\ UNCHANGED <<upgraded, handshake, finalFrame, firstOp, maskingKey, frameReadTime,
                       open, stream, situations, calling, delivered>>
    BY <1>1, <1>2, <1>4
  <2>1. continuation' \in Seq(Token)
    BY <1>2, <1>3, <2>0, ConcatProperties
  <2>2. pendingContent' \in Nat
    BY <1>2, <1>4, <2>0
  <2>3. FrameTypes'
    BY <2>0, <2>1, <2>2 DEF Types, FrameTypes
  <2>4. StateTypes' /\ HistoryTypes'
    BY <2>0 DEF Types, StateTypes, HistoryTypes, ParseUnchanged
  <2>5. TokenTypes'
    BY <2>0 DEF Types, TokenTypes, ParseUnchanged
  <2> QED BY <2>3, <2>4, <2>5 DEF Types
<1>5. CASE Len(input) >= pendingContent
  <2>1. FrameEnds(finalFrame, firstOp, SubSeq(input, 1, pendingContent), maskingKey,
                  SubSeq(input, pendingContent + 1, Len(input)))
    BY <1>1, <1>2, <1>5
  <2>2. SubSeq(input, 1, pendingContent) \in Seq(Token)
    BY <1>2, <1>3, <1>5, Cut
  <2>3. SubSeq(input, pendingContent + 1, Len(input)) \in Seq(Sent(messages))
    BY <1>2, <1>5, Cut
  <2>4. firstOp \in Ops \union {None} /\ finalFrame \in BOOLEAN /\ maskingKey \in Key \union {None}
    BY DEF Types, FrameTypes
  <2> QED BY <1>1, <2>1, <2>2, <2>3, <2>4, FrameEndsTypes
<1> QED BY <1>2, <1>4, <1>5

(* A read takes some of the stream. *)
LEMMA ReadTypes == Types /\ Read => Types'
<1> SUFFICES ASSUME Types, Read PROVE Types'
  OBVIOUS
<1>1. PICK n \in 1 .. Len(stream) :
         /\ input' = prepended \o SubSeq(stream, 1, n)
         /\ stream' = SubSeq(stream, n + 1, Len(stream))
  BY DEF Read
<1>2. prepended \in Seq(Sent(messages)) /\ stream \in Seq(Sent(messages)) /\ Len(stream) \in Nat
  BY DEF Types, TokenTypes
<1>3. /\ SubSeq(stream, 1, n) \in Seq(Sent(messages))
      /\ SubSeq(stream, n + 1, Len(stream)) \in Seq(Sent(messages))
  <2>1. n \in Nat /\ n <= Len(stream)
    BY <1>2
  <2> QED BY <1>2, <2>1, Cut
<1>4. input' \in Seq(Sent(messages)) /\ stream' \in Seq(Sent(messages)) /\ <<>> \in Seq(Sent(messages))
  BY <1>1, <1>2, <1>3, ConcatProperties, EmptySeq
<1>5. TokenTypes'
  BY <1>4 DEF Read, TokenTypes
<1>6. StateTypes'
  <2>1. frameReadTime' \in BOOLEAN
    BY DEF Read
  <2> QED BY <2>1 DEF Read, Types, StateTypes
<1>7. FrameTypes' /\ HistoryTypes'
  BY DEF Read, Types, FrameTypes, HistoryTypes, frameVars
<1> QED BY <1>5, <1>6, <1>7 DEF Types

LEMMA PeerTypes ==
    ASSUME Types,
           NEW kind \in AllKinds \union {None}, NEW more \in Seq(Sent(messages')),
           messages' = Append(messages, [kind |-> kind, connection |-> connection]),
           stream' = stream \o more,
           UNCHANGED <<serverSide, upgraded, handshake, frameVars, frameReadTime, prepended,
                       input, polling, calling, loop, open, connection, delivered>>
    PROVE  Types'
<1> DEFINE message == [kind |-> kind, connection |-> connection]
<1>1. message \in Message /\ messages \in Seq(Message) /\ connection \in Nat
  BY DEF Message, Types, HistoryTypes
<1>2. /\ messages' \in Seq(Message) /\ Len(messages') = Len(messages) + 1 /\ Len(messages) \in Nat
      /\ \A m \in 1 .. Len(messages) : messages'[m] = messages[m]
      /\ messages'[Len(messages) + 1] = message
      /\ Sent(messages) \subseteq Sent(messages')
  BY <1>1, SentMore
<1>3. /\ prepended \in Seq(Sent(messages')) /\ input \in Seq(Sent(messages'))
      /\ stream \in Seq(Sent(messages'))
  BY <1>2, SeqMonotonic DEF Types, TokenTypes
<1>4. stream' \in Seq(Sent(messages'))
  BY <1>3, ConcatProperties
<1>5. TokenTypes'
  BY <1>3, <1>4 DEF TokenTypes
<1>6. HistoryTypes'
  <2>1. \A m \in 1 .. Len(messages') : messages'[m].connection <= connection
    BY <1>1, <1>2 DEF Types, HistoryTypes
  <2> QED BY <1>1, <1>2, <2>1 DEF Types, HistoryTypes
<1>7. StateTypes' /\ FrameTypes'
  BY DEF Types, StateTypes, FrameTypes, frameVars
<1> QED BY <1>5, <1>6, <1>7 DEF Types

LEMMA TypesStep == Types /\ [Next]_vars => Types'
<1> SUFFICES ASSUME Types, [Next]_vars PROVE Types'
  OBVIOUS
<1>0. <<>> \in Seq(Token) /\ <<>> \in Seq(Sent(messages)) /\ Upgrade \in Token
  BY EmptySeq DEF Upgrade, Token
<1>1. CASE Read
  BY <1>1, ReadTypes
<1>2. CASE NextFrame
  BY <1>2, NextFrameTypes
<1>3. CASE PendingFrame
  BY <1>3, PendingFrameTypes
<1>4. CASE PeerUpgrades
  <2>1. Upgrade \in Sent(messages')
    BY <1>0 DEF Sent
  <2>2. <<Upgrade>> \in Seq(Sent(messages'))
    BY <2>1
  <2>3. stream' = stream \o <<Upgrade>>
    BY <1>4, <1>0 DEF PeerUpgrades, Types, TokenTypes
  <2>4. messages' = Append(messages, [kind |-> None, connection |-> connection])
    BY <1>4 DEF PeerUpgrades
  <2> QED BY <1>4, <2>2, <2>3, <2>4, PeerTypes DEF PeerUpgrades, callVars
<1>5. ASSUME NEW kind \in Kinds, PeerSends(kind) PROVE Types'
  <2> DEFINE message == [kind |-> kind, connection |-> connection]
  <2>1. kind \in AllKinds /\ message \in Message /\ messages \in Seq(Message)
    BY WebSocketAssumption DEF AllKinds, Message, Types, HistoryTypes
  <2>2. messages' = Append(messages, message)
    BY <1>5 DEF PeerSends
  <2>3. /\ Len(messages') = Len(messages) + 1 /\ Len(messages) \in Nat
        /\ DOMAIN messages' = 1 .. Len(messages) + 1
        /\ messages'[Len(messages) + 1] = message
    BY <2>1, <2>2, SentMore
  <2>4. Tokens(Len(messages'), kind) \in Seq(Sent(messages'))
    <3>1. messages'[Len(messages')].kind = kind /\ Len(messages') \in DOMAIN messages' /\ Len(messages') \in Nat
      BY <2>3
    <3> QED BY <2>1, <3>1, TokensSent
  <2>5. stream' = stream \o Tokens(Len(messages'), kind)
    BY <1>5 DEF PeerSends
  <2> QED BY <1>5, <2>1, <2>2, <2>4, <2>5, PeerTypes DEF PeerSends
<1>6. CASE PollReturns \/ GetUpgraded \/ ShiftIncompleteHeader \/ Misread \/ HandlerReturns
  <2>1. StateTypes'
    <3>1. CASE PollReturns
      BY <3>1 DEF PollReturns, callVars, peerVars, frameVars, Types, StateTypes
    <3>2. CASE GetUpgraded
      BY <3>2 DEF GetUpgraded, callVars, peerVars, frameVars, Types, StateTypes
    <3>3. CASE ShiftIncompleteHeader \/ Misread
      BY <3>3 DEF ShiftIncompleteHeader, Misread, callVars, peerVars, frameVars, Types, StateTypes
    <3>4. CASE HandlerReturns
      BY <3>4 DEF HandlerReturns, callVars, peerVars, frameVars, Types, StateTypes
    <3> QED BY <1>6, <3>1, <3>2, <3>3, <3>4
  <2>2. FrameTypes'
    BY <1>6, <1>0 DEF PollReturns, GetUpgraded, ShiftIncompleteHeader, Misread, HandlerReturns,
       callVars, peerVars, frameVars, Types, FrameTypes
  <2>3. TokenTypes'
    BY <1>6, <1>0 DEF PollReturns, GetUpgraded, ShiftIncompleteHeader, Misread, HandlerReturns,
       callVars, peerVars, frameVars, Types, TokenTypes
  <2>4. HistoryTypes'
    BY <1>6 DEF PollReturns, GetUpgraded, ShiftIncompleteHeader, Misread, HandlerReturns,
       callVars, peerVars, frameVars, Types, HistoryTypes
  <2> QED BY <2>1, <2>2, <2>3, <2>4 DEF Types
<1>7. CASE CloseEndpoint \/ LoseConnection \/ OpenEndpoint \/ WriteHandshake
  <2>1. StateTypes'
    BY <1>7 DEF CloseEndpoint, LoseConnection, OpenEndpoint, WriteHandshake, Unread, Lose,
       ResetWebsocketState, frameVars, Types, StateTypes
  <2>2. FrameTypes'
    <3>1. CASE Lose /\ UNCHANGED firstOp
      BY <1>0, <3>1 DEF Lose, ResetWebsocketState, Types, FrameTypes
    <3>2. CASE UNCHANGED frameVars
      BY <3>2 DEF frameVars, Types, FrameTypes
    <3> QED BY <1>7, <3>1, <3>2 DEF CloseEndpoint, LoseConnection, OpenEndpoint, WriteHandshake
  <2>3. TokenTypes'
    BY <1>7, <1>0 DEF CloseEndpoint, LoseConnection, OpenEndpoint, WriteHandshake, Unread, Lose,
       ResetWebsocketState, frameVars, Types, TokenTypes
  <2>4. HistoryTypes'
    <3>1. connection' \in Nat /\ connection <= connection' /\ UNCHANGED <<messages, delivered>>
          /\ connection \in Nat
      BY <1>7 DEF CloseEndpoint, LoseConnection, OpenEndpoint, WriteHandshake, Unread, Lose,
         Types, HistoryTypes
    <3>2. \A m \in 1 .. Len(messages) : messages[m].connection \in Nat
      <4>1. messages \in Seq(Message)
        BY DEF Types, HistoryTypes
      <4>2. \A m \in 1 .. Len(messages) : messages[m] \in Message
        BY <4>1, ElementOfSeq
      <4> QED BY <4>2 DEF Message
    <3> QED BY <3>1, <3>2 DEF Types, HistoryTypes
  <2> QED BY <2>1, <2>2, <2>3, <2>4 DEF Types
<1>8. CASE UNCHANGED vars
  <2>1. StateTypes' /\ FrameTypes'
    BY <1>8 DEF vars, peerVars, callVars, frameVars, Types, StateTypes, FrameTypes
  <2>2. TokenTypes' /\ HistoryTypes'
    BY <1>8 DEF vars, peerVars, callVars, frameVars, Types, TokenTypes, HistoryTypes
  <2> QED BY <2>1, <2>2 DEF Types
<1> QED BY <1>1, <1>2, <1>3, <1>4, <1>5, <1>6, <1>7, <1>8 DEF Next, ParseStep

(* The buffers hold tokens of the messages of the peer, and what belongs to *)
(* a frame that has not been read to its end has its type: no read, cut or  *)
(* connection makes the parser's counters or opcodes something else.        *)
THEOREM SocketTypeCorrect == Spec => []Types
BY TypesInit, TypesStep, PTL DEF Spec

-----------------------------------------------------------------------------
(* What is ahead of the parser. *)

(* Tokens as a peer sends them, from some token on, none left out: the rest *)
(* of a frame, then the next frame of the message, then another message.    *)
EndsFrame(t, history) == t.k = Size(history[t.m].kind)
Ends(t, history) == t = Upgrade \/ (EndsFrame(t, history) /\ t.f = Parts(history[t.m].kind))
Follows(u, t, history) ==
    \/ u # Upgrade /\ ~EndsFrame(u, history) /\ t = [m |-> u.m, f |-> u.f, k |-> u.k + 1]
    \/ u # Upgrade /\ EndsFrame(u, history) /\ ~Ends(u, history)
       /\ t = [m |-> u.m, f |-> u.f + 1, k |-> 1]
    \/ Ends(u, history) /\ t.m > u.m /\ t.f = 1 /\ t.k = 1
Orderly(s, history) ==
    /\ \A i \in 1 .. Len(s) : s[i] = Upgrade \/ InMessage(s[i], history)
    /\ \A i \in 1 .. Len(s) - 1 : Follows(s[i], s[i + 1], history)
    /\ \A i, j \in 1 .. Len(s) : i < j => s[i].m <= s[j].m

LEMMA OrderlySuffix ==
    ASSUME NEW s \in Seq(Token), NEW r \in Seq(Token), NEW history, Orderly(s, history),
           NEW n \in 0 .. Len(s), Len(r) = Len(s) - n, \A i \in 1 .. Len(r) : r[i] = s[i + n]
    PROVE  Orderly(r, history)
<1>1. Len(s) \in Nat /\ Len(r) \in Nat /\ n \in Nat
  OBVIOUS
<1>2. ASSUME NEW i \in 1 .. Len(r)
      PROVE  r[i] = Upgrade \/ InMessage(r[i], history)
  <2>1. i + n \in 1 .. Len(s) /\ r[i] = s[i + n]
    BY <1>1
  <2> QED BY <2>1 DEF Orderly
<1>3. ASSUME NEW i \in 1 .. Len(r) - 1
      PROVE  Follows(r[i], r[i + 1], history)
  <2>1. i \in 1 .. Len(r) /\ i + 1 \in 1 .. Len(r) /\ i + n \in 1 .. Len(s) - 1
    BY <1>1
  <2>2. r[i] = s[i + n] /\ r[i + 1] = s[(i + n) + 1]
    BY <1>1, <2>1
  <2> QED BY <2>1, <2>2 DEF Orderly
<1>4. ASSUME NEW i \in 1 .. Len(r), NEW j \in 1 .. Len(r), i < j
      PROVE  r[i].m <= r[j].m
  <2>1. i + n \in 1 .. Len(s) /\ j + n \in 1 .. Len(s) /\ i + n < j + n
    BY <1>1, <1>4
  <2> QED BY <2>1 DEF Orderly
<1> QED BY <1>2, <1>3, <1>4 DEF Orderly

(* Any longer history will do. *)
LEMMA OrderlyLonger ==
    ASSUME NEW history \in Seq(Message), NEW message \in Message, NEW s \in Seq(Token),
           Orderly(s, history)
    PROVE  /\ Orderly(s, Append(history, message))
           /\ \A i \in 1 .. Len(s) : Ends(s[i], history) <=> Ends(s[i], Append(history, message))
<1> DEFINE longer == Append(history, message)
<1>1. /\ DOMAIN history = 1 .. Len(history) /\ Len(history) \in Nat
      /\ DOMAIN longer = 1 .. Len(history) + 1
      /\ \A m \in 1 .. Len(history) : longer[m] = history[m]
      /\ \A t \in Token : InMessage(t, history) => InMessage(t, longer)
  BY SentMore
<1> HIDE DEF longer
<1>2. \A i \in 1 .. Len(s) : s[i] \in Token /\ (s[i] = Upgrade \/ InMessage(s[i], history))
  BY ElementOfSeq DEF Orderly
<1>3. ASSUME NEW t \in Token, t = Upgrade \/ InMessage(t, history)
      PROVE  /\ Ends(t, history) <=> Ends(t, longer)
             /\ \A u : Follows(t, u, history) => Follows(t, u, longer)
  <2>1. CASE t = Upgrade
    BY <2>1 DEF Ends, Follows
  <2>2. CASE InMessage(t, history)
    <3>1. longer[t.m] = history[t.m]
      BY <1>1, <2>2 DEF InMessage
    <3>2. EndsFrame(t, history) <=> EndsFrame(t, longer)
      BY <3>1 DEF EndsFrame
    <3>3. Ends(t, history) <=> Ends(t, longer)
      BY <3>1, <3>2 DEF Ends
    <3> QED BY <3>2, <3>3 DEF Follows
  <2> QED BY <1>3, <2>1, <2>2
<1>4. ASSUME NEW i \in 1 .. Len(s) - 1 PROVE Follows(s[i], s[i + 1], longer)
  <2>1. i \in 1 .. Len(s)
    OBVIOUS
  <2>2. Follows(s[i], s[i + 1], history)
    BY DEF Orderly
  <2> QED BY <1>2, <1>3, <2>1, <2>2
<1>5. Orderly(s, longer)
  BY <1>1, <1>2, <1>4 DEF Orderly
<1> QED BY <1>2, <1>3, <1>5 DEF longer

(* The tokens of one message. *)
LEMMA MessageOrderly ==
    ASSUME NEW history, NEW m \in Nat \ {0}, m \in DOMAIN history, history[m].kind \in AllKinds,
           NEW u, u = Tokens(m, history[m].kind)
    PROVE  /\ u \in Seq(Token) /\ Len(u) \in Nat \ {0} /\ Orderly(u, history)
           /\ \A i \in 1 .. Len(u) : u[i].m = m
           /\ u[1] = [m |-> m, f |-> 1, k |-> 1] /\ Ends(u[Len(u)], history)
<1> DEFINE kind == history[m].kind
           size == Size(kind)
           parts == Parts(kind)
           Place(i, f, k) == /\ f \in 1 .. parts /\ k \in 1 .. size /\ i = (f - 1) * size + k
                             /\ u[i] = [m |-> m, f |-> f, k |-> k]
<1>1. /\ u \in Seq(Token) /\ Len(u) = parts * size
      /\ \A i \in 1 .. Len(u) : \E f \in 1 .. parts, k \in 1 .. size : Place(i, f, k)
  BY TokensTable
<1>2. size \in Nat /\ size >= 2 /\ parts \in {1, 2, 3}
  BY DEF Size, HeaderSize, Pieces, Parts
<1>3. Len(u) \in Nat \ {0} /\ Len(u) >= 2
  BY <1>1, <1>2
<1>4. \A t : t.m = m => (EndsFrame(t, history) <=> t.k = size)
  BY DEF EndsFrame
<1>5. \A f, k : [m |-> m, f |-> f, k |-> k] # Upgrade
  BY DEF Upgrade
<1>6. \A f, k : Ends([m |-> m, f |-> f, k |-> k], history) <=> k = size /\ f = parts
  BY <1>4, <1>5 DEF Ends
<1> HIDE DEF size, parts
<1>7. ASSUME NEW i \in 1 .. Len(u), NEW f, NEW k, Place(i, f, k)
      PROVE  InMessage(u[i], history) /\ u[i].m = m
  BY <1>7 DEF InMessage, size, parts
<1>8. ASSUME NEW i \in 1 .. Len(u) - 1 PROVE Follows(u[i], u[i + 1], history)
  <2>1. i \in 1 .. Len(u) /\ i + 1 \in 1 .. Len(u)
    BY <1>3
  <2>2. PICK f \in 1 .. parts, k \in 1 .. size : Place(i, f, k)
    BY <1>1, <2>1
  <2>3. PICK g \in 1 .. parts, l \in 1 .. size : Place(i + 1, g, l)
    BY <1>1, <2>1
  <2>4. f \in {1, 2, 3} /\ g \in {1, 2, 3} /\ (g - 1) * size + l = (f - 1) * size + k + 1
    BY <1>2, <2>2, <2>3
  <2>5. (1 - 1) * size = 0 /\ (2 - 1) * size = size /\ (3 - 1) * size = size + size
    BY <1>2
  <2>6. CASE k < size
    <3>1. g = f /\ l = k + 1
      BY <1>2, <2>4, <2>5, <2>6
    <3>2. u[i] = [m |-> m, f |-> f, k |-> k] /\ u[i + 1] = [m |-> m, f |-> f, k |-> k + 1]
      BY <2>2, <2>3, <3>1
    <3>3. u[i] # Upgrade /\ ~EndsFrame(u[i], history)
      BY <1>2, <1>4, <1>5, <2>6, <3>2
    <3> QED BY <3>2, <3>3 DEF Follows
  <2>7. CASE k = size
    <3>1. g = f + 1 /\ l = 1
      BY <1>2, <2>4, <2>5, <2>7
    <3>2. u[i] = [m |-> m, f |-> f, k |-> size] /\ u[i + 1] = [m |-> m, f |-> f + 1, k |-> 1]
      BY <2>2, <2>3, <2>7, <3>1
    <3>3. f # parts
      BY <1>2, <3>1
    <3>4. u[i] # Upgrade /\ EndsFrame(u[i], history) /\ ~Ends(u[i], history)
      BY <1>4, <1>5, <1>6, <3>2, <3>3
    <3> QED BY <3>2, <3>4 DEF Follows
  <2> QED BY <1>2, <2>6, <2>7
<1>9. u[1] = [m |-> m, f |-> 1, k |-> 1]
  <2>1. 1 \in 1 .. Len(u)
    BY <1>3
  <2>2. PICK f \in 1 .. parts, k \in 1 .. size : Place(1, f, k)
    BY <1>1, <2>1
  <2>3. f \in {1, 2, 3} /\ (f - 1) * size + k = 1
    BY <1>2, <2>2
  <2>4. (1 - 1) * size = 0 /\ (2 - 1) * size = size /\ (3 - 1) * size = size + size
    BY <1>2
  <2>5. f = 1 /\ k = 1
    BY <1>2, <2>3, <2>4
  <2> QED BY <2>2, <2>5
<1>10. Ends(u[Len(u)], history)
  <2>1. Len(u) \in 1 .. Len(u)
    BY <1>3
  <2>2. PICK f \in 1 .. parts, k \in 1 .. size : Place(Len(u), f, k)
    BY <1>1, <2>1
  <2>3. f \in {1, 2, 3} /\ (f - 1) * size + k = parts * size /\ f <= parts
    BY <1>1, <1>2, <2>2
  <2>4. /\ (1 - 1) * size = 0 /\ (2 - 1) * size = size /\ (3 - 1) * size = size + size
        /\ 1 * size = size /\ 2 * size = size + size /\ 3 * size = size + size + size
    BY <1>2
  <2>5. f = parts /\ k = size
    BY <1>2, <2>3, <2>4
  <2> QED BY <1>6, <2>2, <2>5
<1>11. \A i \in 1 .. Len(u) : InMessage(u[i], history) /\ u[i].m = m
  BY <1>1, <1>7
<1>12. Orderly(u, history)
  BY <1>8, <1>11 DEF Orderly
<1> QED BY <1>1, <1>3, <1>9, <1>10, <1>11, <1>12

(* The tokens of a new message behind what is ahead. *)
LEMMA OrderlyJoined ==
    ASSUME NEW history, NEW s \in Seq(Token), Orderly(s, history),
           s # <<>> => Ends(s[Len(s)], history),
           NEW u \in Seq(Token), Orderly(u, history), NEW m \in Nat,
           u # <<>>, \A i \in 1 .. Len(u) : u[i].m = m,
           u[1] = [m |-> m, f |-> 1, k |-> 1], Ends(u[Len(u)], history),
           \A i \in 1 .. Len(s) : s[i].m < m
    PROVE  /\ s \o u \in Seq(Token) /\ Orderly(s \o u, history) /\ s \o u # <<>>
           /\ Ends((s \o u)[Len(s \o u)], history)
<1> DEFINE r == s \o u
<1>1. /\ r \in Seq(Token) /\ Len(r) = Len(s) + Len(u)
      /\ \A i \in 1 .. Len(s) + Len(u) : r[i] = IF i <= Len(s) THEN s[i] ELSE u[i - Len(s)]
  BY ConcatProperties
<1>2. Len(s) \in Nat /\ Len(u) \in Nat \ {0} /\ (s = <<>> => Len(s) = 0) /\ (s # <<>> => Len(s) > 0)
  BY EmptySeq
<1> HIDE DEF r
<1>3. \A i \in 1 .. Len(s) : r[i] = s[i]
  BY <1>1, <1>2
<1>4. ASSUME NEW j \in 1 .. Len(u) PROVE r[Len(s) + j] = u[j]
  <2>1. Len(s) + j \in 1 .. Len(s) + Len(u) /\ ~(Len(s) + j <= Len(s)) /\ (Len(s) + j) - Len(s) = j
    BY <1>2
  <2> QED BY <1>1, <2>1
<1>5. ASSUME NEW i \in 1 .. Len(r)
      PROVE  \/ i \in 1 .. Len(s)
             \/ \E j \in 1 .. Len(u) : i = Len(s) + j
  <2>1. CASE i > Len(s)
    <3>1. i - Len(s) \in 1 .. Len(u) /\ i = Len(s) + (i - Len(s))
      BY <1>1, <1>2, <2>1
    <3> QED BY <3>1
  <2> QED BY <1>1, <1>2, <2>1
<1>6. ASSUME NEW i \in 1 .. Len(r) PROVE r[i] = Upgrade \/ InMessage(r[i], history)
  BY <1>3, <1>4, <1>5 DEF Orderly
<1>7. ASSUME NEW i \in 1 .. Len(r) - 1 PROVE Follows(r[i], r[i + 1], history)
  <2>1. CASE i < Len(s)
    <3>1. i \in 1 .. Len(s) - 1 /\ i \in 1 .. Len(s) /\ i + 1 \in 1 .. Len(s)
      BY <1>1, <1>2, <2>1
    <3>2. Follows(s[i], s[i + 1], history)
      BY <3>1 DEF Orderly
    <3> QED BY <1>3, <3>1, <3>2
  <2>2. CASE i = Len(s)
    <3>1. i \in 1 .. Len(s) /\ 1 \in 1 .. Len(u) /\ s # <<>>
      BY <1>1, <1>2, <2>2
    <3>2. r[i] = s[Len(s)] /\ r[i + 1] = u[1]
      BY <1>3, <1>4, <2>2, <3>1
    <3>3. Ends(s[Len(s)], history) /\ s[Len(s)].m < m
      BY <2>2, <3>1
    <3>4. u[1].m = m /\ u[1].f = 1 /\ u[1].k = 1 /\ s[Len(s)].m \in Nat
      <4>1. s[Len(s)] \in Token
        BY <2>2, <3>1, ElementOfSeq
      <4> QED BY <4>1 DEF Token
    <3> QED BY <3>2, <3>3, <3>4 DEF Follows
  <2>3. CASE i > Len(s)
    <3>1. PICK j \in 1 .. Len(u) : i = Len(s) + j
      <4>1. i \in 1 .. Len(r) /\ i \notin 1 .. Len(s)
        BY <1>1, <1>2, <2>3
      <4> QED BY <1>5, <4>1
    <3>2. j \in 1 .. Len(u) - 1 /\ j + 1 \in 1 .. Len(u) /\ i + 1 = Len(s) + (j + 1)
      BY <1>1, <1>2, <3>1
    <3>3. Follows(u[j], u[j + 1], history)
      BY <3>2 DEF Orderly
    <3> QED BY <1>4, <3>1, <3>2, <3>3
  <2> QED BY <1>1, <1>2, <2>1, <2>2, <2>3
<1>8. ASSUME NEW i \in 1 .. Len(r), NEW j \in 1 .. Len(r), i < j PROVE r[i].m <= r[j].m
  <2>0. \A a \in 1 .. Len(s) : s[a] \in Token /\ s[a].m \in Nat /\ s[a].m < m
    <3>1. \A a \in 1 .. Len(s) : s[a] \in Token
      BY ElementOfSeq
    <3> QED BY <3>1 DEF Token
  <2>1. CASE j \in 1 .. Len(s)
    <3>1. i \in 1 .. Len(s)
      BY <1>2, <1>8, <2>1
    <3> QED BY <1>3, <1>8, <2>1, <3>1 DEF Orderly
  <2>2. CASE \E b \in 1 .. Len(u) : j = Len(s) + b
    <3>1. r[j].m = m
      BY <1>4, <2>2
    <3>2. CASE i \in 1 .. Len(s)
      <4>1. r[i].m \in Nat /\ r[i].m < m
        BY <1>3, <2>0, <3>2
      <4> QED BY <3>1, <4>1
    <3>3. CASE \E a \in 1 .. Len(u) : i = Len(s) + a
      <4>1. r[i].m = m
        BY <1>4, <3>3
      <4> QED BY <3>1, <4>1
    <3> QED BY <1>5, <3>2, <3>3
  <2> QED BY <1>5, <2>1, <2>2
<1>9. r # <<>> /\ Ends(r[Len(r)], history)
  <2>1. Len(u) \in 1 .. Len(u) /\ Len(r) = Len(s) + Len(u) /\ Len(r) # 0
    BY <1>1, <1>2
  <2>2. r[Len(r)] = u[Len(u)]
    BY <1>4, <2>1
  <2>3. r # <<>>
    BY <2>1
  <2> QED BY <2>2, <2>3
<1>10. Orderly(r, history)
  BY <1>6, <1>7, <1>8 DEF Orderly
<1> QED BY <1>1, <1>9, <1>10 DEF r

(* The tokens of a frame are read one after the other, and then the next    *)
(* frame or the next message.                                               *)
LEMMA RestOfFrame ==
    ASSUME NEW history, NEW u \in Seq(Token), Orderly(u, history), u # <<>>,
           NEW t, t = u[1], InMessage(t, history), t # Upgrade,
           NEW n \in Nat, n <= Len(u), t.k + n - 1 <= Size(history[t.m].kind)
    PROVE  /\ \A i \in 1 .. n : u[i] = [m |-> t.m, f |-> t.f, k |-> t.k + i - 1]
           /\ t.m \in Nat /\ t.f \in Nat /\ t.k \in Nat
<1> DEFINE size == Size(history[t.m].kind)
<1>1. size \in Nat /\ size <= 4
  BY DEF Size, HeaderSize, Pieces
<1>2. Len(u) \in Nat \ {0} /\ 1 \in 1 .. Len(u)
  BY EmptySeq
<1>3. t \in Token /\ t.m \in Nat /\ t.f \in Nat /\ t.k \in 1 .. size
  <2>1. t \in Token
    BY <1>2, ElementOfSeq
  <2> QED BY <2>1 DEF Token, InMessage
<1> HIDE DEF size
<1>4. ASSUME NEW i \in 1 .. n - 1, u[i] = [m |-> t.m, f |-> t.f, k |-> t.k + i - 1]
      PROVE  u[i + 1] = [m |-> t.m, f |-> t.f, k |-> t.k + i]
  <2>1. i \in 1 .. Len(u) - 1 /\ t.k + n - 1 <= size /\ t.k + i - 1 < size
    BY <1>1, <1>2, <1>3 DEF size
  <2>2. Follows(u[i], u[i + 1], history)
    BY <2>1 DEF Orderly
  <2>3. ~EndsFrame(u[i], history)
    BY <1>1, <1>3, <1>4, <2>1 DEF EndsFrame, size
  <2>4. u[i] # Upgrade
    <3>1. t.m # 0 \/ t.f # 0 \/ t.k # 0
      BY <1>3
    <3> QED BY <1>3, <1>4 DEF Upgrade
  <2>5. u[i + 1] = [m |-> u[i].m, f |-> u[i].f, k |-> u[i].k + 1]
    BY <2>2, <2>3, <2>4 DEF Follows, Ends
  <2> QED BY <1>3, <1>4, <2>5
<1>5. n <= 4 /\ t.k + n - 1 <= size
  BY <1>1, <1>3 DEF size
<1>6. n >= 1 => u[1] = [m |-> t.m, f |-> t.f, k |-> t.k + 1 - 1]
  BY <1>3 DEF Token
<1>7. n >= 2 => u[2] = [m |-> t.m, f |-> t.f, k |-> t.k + 2 - 1]
  <2>1. n >= 2 => u[1 + 1] = [m |-> t.m, f |-> t.f, k |-> t.k + 1]
    <3> SUFFICES ASSUME n >= 2 PROVE u[1 + 1] = [m |-> t.m, f |-> t.f, k |-> t.k + 1]
      OBVIOUS
    <3>1. 1 \in 1 .. n - 1
      OBVIOUS
    <3> QED BY <1>4, <1>6, <3>1
  <2> QED BY <1>3, <2>1
<1>8. n >= 3 => u[3] = [m |-> t.m, f |-> t.f, k |-> t.k + 3 - 1]
  <2>1. n >= 3 => u[2 + 1] = [m |-> t.m, f |-> t.f, k |-> t.k + 2]
    <3> SUFFICES ASSUME n >= 3 PROVE u[2 + 1] = [m |-> t.m, f |-> t.f, k |-> t.k + 2]
      OBVIOUS
    <3>1. 2 \in 1 .. n - 1
      OBVIOUS
    <3> QED BY <1>4, <1>7, <3>1
  <2> QED BY <1>3, <2>1
<1>9. n >= 4 => u[4] = [m |-> t.m, f |-> t.f, k |-> t.k + 4 - 1]
  <2>1. n >= 4 => u[3 + 1] = [m |-> t.m, f |-> t.f, k |-> t.k + 3]
    <3> SUFFICES ASSUME n >= 4 PROVE u[3 + 1] = [m |-> t.m, f |-> t.f, k |-> t.k + 3]
      OBVIOUS
    <3>1. 3 \in 1 .. n - 1
      OBVIOUS
    <3> QED BY <1>4, <1>8, <3>1
  <2> QED BY <1>3, <2>1
<1>10. ASSUME NEW i \in 1 .. n PROVE u[i] = [m |-> t.m, f |-> t.f, k |-> t.k + i - 1]
  <2>1. i \in {1, 2, 3, 4} /\ n >= i
    BY <1>5
  <2> QED BY <1>6, <1>7, <1>8, <1>9, <2>1
<1> QED BY <1>3, <1>10

LEMMA AfterFrame ==
    ASSUME NEW history, NEW u \in Seq(Token), Orderly(u, history), u # <<>>,
           u # <<>> => Ends(u[Len(u)], history),
           NEW t, t = u[1], InMessage(t, history), t # Upgrade,
           NEW n \in Nat \ {0}, n <= Len(u), t.k + n - 1 <= Size(history[t.m].kind)
    PROVE  /\ t.k + n - 1 < Size(history[t.m].kind) =>
                 /\ n < Len(u) /\ u[n + 1] = [m |-> t.m, f |-> t.f, k |-> t.k + n]
           /\ t.k + n - 1 = Size(history[t.m].kind) /\ t.f < Parts(history[t.m].kind) =>
                 /\ n < Len(u) /\ u[n + 1] = [m |-> t.m, f |-> t.f + 1, k |-> 1]
           /\ t.k + n - 1 = Size(history[t.m].kind) /\ t.f = Parts(history[t.m].kind) /\ n < Len(u) =>
                 /\ u[n + 1].f = 1 /\ u[n + 1].k = 1
                 /\ \A j \in n + 1 .. Len(u) : t.m < u[j].m
<1> DEFINE size == Size(history[t.m].kind)
           parts == Parts(history[t.m].kind)
<1>1. size \in Nat /\ parts \in Nat
  BY DEF Size, HeaderSize, Pieces, Parts
<1>2. Len(u) \in Nat \ {0} /\ n \in 1 .. Len(u) /\ n \in 1 .. n
  BY EmptySeq
<1>3. u[n] = [m |-> t.m, f |-> t.f, k |-> t.k + n - 1] /\ t.m \in Nat /\ t.f \in Nat /\ t.k \in Nat
  BY <1>2, RestOfFrame
<1>4. /\ u[n] # Upgrade
      /\ EndsFrame(u[n], history) <=> t.k + n - 1 = size
      /\ Ends(u[n], history) <=> t.k + n - 1 = size /\ t.f = parts
  <2>1. t.k >= 1 /\ t.f >= 1
    BY <1>3 DEF InMessage
  <2>2. u[n] # Upgrade
    BY <1>3, <2>1 DEF Upgrade
  <2>3. EndsFrame(u[n], history) <=> t.k + n - 1 = size
    BY <1>3 DEF EndsFrame
  <2> QED BY <1>3, <2>2, <2>3 DEF Ends
<1>5. n < Len(u) => Follows(u[n], u[n + 1], history)
  BY <1>2 DEF Orderly
<1>6. n = Len(u) => Ends(u[n], history)
  BY <1>2
<1> HIDE DEF size, parts
<1>7. ASSUME t.k + n - 1 < size
      PROVE  n < Len(u) /\ u[n + 1] = [m |-> t.m, f |-> t.f, k |-> t.k + n]
  <2>1. ~EndsFrame(u[n], history) /\ ~Ends(u[n], history)
    BY <1>1, <1>3, <1>4, <1>7
  <2>2. n < Len(u)
    BY <1>2, <1>6, <2>1
  <2>3. u[n + 1] = [m |-> u[n].m, f |-> u[n].f, k |-> u[n].k + 1]
    BY <1>5, <2>1, <2>2 DEF Follows
  <2> QED BY <1>3, <2>2, <2>3
<1>8. ASSUME t.k + n - 1 = size, t.f < parts
      PROVE  n < Len(u) /\ u[n + 1] = [m |-> t.m, f |-> t.f + 1, k |-> 1]
  <2>1. EndsFrame(u[n], history) /\ ~Ends(u[n], history)
    BY <1>1, <1>3, <1>4, <1>8
  <2>2. n < Len(u)
    BY <1>2, <1>6, <2>1
  <2>3. u[n + 1] = [m |-> u[n].m, f |-> u[n].f + 1, k |-> 1]
    BY <1>5, <2>1, <2>2 DEF Follows
  <2> QED BY <1>3, <2>2, <2>3
<1>9. ASSUME t.k + n - 1 = size, t.f = parts, n < Len(u)
      PROVE  u[n + 1].f = 1 /\ u[n + 1].k = 1 /\ \A j \in n + 1 .. Len(u) : t.m < u[j].m
  <2>1. EndsFrame(u[n], history) /\ Ends(u[n], history)
    BY <1>4, <1>9
  <2>2. u[n + 1].m > u[n].m /\ u[n + 1].f = 1 /\ u[n + 1].k = 1
    BY <1>5, <1>9, <2>1 DEF Follows
  <2>3. ASSUME NEW j \in n + 1 .. Len(u) PROVE t.m < u[j].m
    <3>1. j \in 1 .. Len(u) /\ n + 1 \in 1 .. Len(u) /\ (j = n + 1 \/ n + 1 < j)
      BY <1>2, <1>9
    <3>2. u[n + 1].m \in Nat /\ u[j].m \in Nat
      <4>1. u[n + 1] \in Token /\ u[j] \in Token
        BY <3>1, ElementOfSeq
      <4> QED BY <4>1 DEF Token
    <3>3. u[n + 1].m <= u[j].m
      <4>1. CASE j = n + 1
        BY <3>2, <4>1
      <4>2. CASE n + 1 < j
        BY <3>1, <4>2 DEF Orderly
      <4> QED BY <3>1, <4>1, <4>2
    <3> QED BY <1>3, <2>2, <3>2, <3>3, SMTT(30)
  <2> QED BY <2>2, <2>3
<1> QED BY <1>7, <1>8, <1>9 DEF size, parts

(* What was kept of earlier reads, the rest of this one, and what has not   *)
(* been read.                                                               *)
Held == IF input = <<>> THEN prepended ELSE input
Ahead == Held \o stream

LEMMA Joined ==
    ASSUME NEW S, NEW a \in Seq(S), NEW b \in Seq(S)
    PROVE  /\ a \o b \in Seq(S) /\ Len(a \o b) = Len(a) + Len(b)
           /\ Len(a) \in Nat /\ Len(b) \in Nat
           /\ \A i \in 1 .. Len(a) : (a \o b)[i] = a[i]
           /\ \A i \in 1 .. Len(b) : (a \o b)[Len(a) + i] = b[i]
           /\ (a \o b = <<>>) <=> (a = <<>> /\ b = <<>>)
           /\ (a \o b = <<>>) <=> (Len(a \o b) = 0)
<1> DEFINE u == a \o b
<1>1. /\ u \in Seq(S) /\ Len(u) = Len(a) + Len(b)
      /\ \A i \in 1 .. Len(a) + Len(b) : u[i] = IF i <= Len(a) THEN a[i] ELSE b[i - Len(a)]
  BY ConcatProperties
<1>2. Len(a) \in Nat /\ Len(b) \in Nat
  OBVIOUS
<1>3. \A s \in Seq(S) : (s = <<>>) <=> (Len(s) = 0)
  BY EmptySeq
<1> HIDE DEF u
<1>4. \A i \in 1 .. Len(a) : u[i] = a[i]
  BY <1>1, <1>2
<1>5. ASSUME NEW i \in 1 .. Len(b) PROVE u[Len(a) + i] = b[i]
  <2>1. Len(a) + i \in 1 .. Len(a) + Len(b) /\ ~(Len(a) + i <= Len(a)) /\ (Len(a) + i) - Len(a) = i
    BY <1>2
  <2> QED BY <1>1, <2>1
<1>6. (u = <<>>) <=> (a = <<>> /\ b = <<>>)
  BY <1>1, <1>2, <1>3
<1> QED BY <1>1, <1>2, <1>3, <1>4, <1>5, <1>6 DEF u

LEMMA AheadFacts ==
    ASSUME TokenTypes
    PROVE  /\ Ahead \in Seq(Token) /\ Len(Ahead) \in Nat
           /\ (Ahead = <<>>) <=> (Len(Ahead) = 0)
           /\ Ahead = <<>> <=> Held = <<>> /\ stream = <<>>
           /\ \A i \in 1 .. Len(Ahead) : Ahead[i] \in Token
           /\ prepended \in Seq(Token) /\ input \in Seq(Token) /\ stream \in Seq(Token)
<1>1. prepended \in Seq(Token) /\ input \in Seq(Token) /\ stream \in Seq(Token)
  BY SentTokens DEF TokenTypes
<1>2. Held \in Seq(Token)
  BY <1>1 DEF Held
<1>3. /\ Ahead \in Seq(Token) /\ ((Ahead = <<>>) <=> (Len(Ahead) = 0))
      /\ (Ahead = <<>> <=> Held = <<>> /\ stream = <<>>)
  BY <1>1, <1>2, Joined DEF Ahead
<1>4. \A i \in 1 .. Len(Ahead) : Ahead[i] \in Token
  BY <1>3, ElementOfSeq
<1> QED BY <1>1, <1>3, <1>4

(* The first tokens of the read are consumed. *)
LEMMA AheadTaken ==
    ASSUME TokenTypes, input # <<>>, prepended = <<>>, NEW n \in Nat, n <= Len(input),
           input' = SubSeq(input, n + 1, Len(input)), UNCHANGED <<prepended, stream>>
    PROVE  /\ Ahead' \in Seq(Token) /\ Len(Ahead') = Len(Ahead) - n
           /\ Len(input) \in 1 .. Len(Ahead)
           /\ \A i \in 1 .. Len(Ahead') : Ahead'[i] = Ahead[i + n]
           /\ \A i \in 1 .. Len(input) : Ahead[i] = input[i]
           /\ (Ahead' = <<>>) <=> (Len(Ahead') = 0)
           /\ n = Len(input) => input' = <<>>
<1>1. /\ input \in Seq(Token) /\ stream \in Seq(Token) /\ Len(input) \in Nat \ {0}
      /\ Len(stream) \in Nat
  BY AheadFacts, EmptySeq
<1>2. /\ input' \in Seq(Token) /\ Len(input') = Len(input) - n
      /\ \A i \in 1 .. Len(input) - n : input'[i] = input[i + n]
  BY <1>1, Cut
<1>3. Held = input /\ Held' = input' /\ stream' = stream
  BY DEF Held
<1>4. /\ Len(Ahead) = Len(input) + Len(stream)
      /\ \A i \in 1 .. Len(input) : Ahead[i] = input[i]
      /\ \A i \in 1 .. Len(stream) : Ahead[Len(input) + i] = stream[i]
  BY <1>1, <1>3, Joined DEF Ahead
<1>5. Ahead' = input' \o stream
  BY <1>3 DEF Ahead
<1>6. /\ Ahead' \in Seq(Token) /\ Len(Ahead') = Len(input') + Len(stream)
      /\ \A i \in 1 .. Len(input') : Ahead'[i] = input'[i]
      /\ \A i \in 1 .. Len(stream) : Ahead'[Len(input') + i] = stream[i]
      /\ (Ahead' = <<>>) <=> (Len(Ahead') = 0)
  <2>1. /\ input' \o stream \in Seq(Token) /\ Len(input' \o stream) = Len(input') + Len(stream)
        /\ \A i \in 1 .. Len(input') : (input' \o stream)[i] = input'[i]
        /\ \A i \in 1 .. Len(stream) : (input' \o stream)[Len(input') + i] = stream[i]
        /\ (input' \o stream = <<>>) <=> (Len(input' \o stream) = 0)
    <3>1. input' \in Seq(Token) /\ stream \in Seq(Token)
      BY <1>1, <1>2
    <3>2. \A a, b \in Seq(Token) :
             /\ a \o b \in Seq(Token) /\ Len(a \o b) = Len(a) + Len(b)
             /\ \A i \in 1 .. Len(a) : (a \o b)[i] = a[i]
             /\ \A i \in 1 .. Len(b) : (a \o b)[Len(a) + i] = b[i]
             /\ (a \o b = <<>>) <=> (Len(a \o b) = 0)
      BY Joined
    <3> QED BY <3>1, <3>2
  <2> QED BY <1>5, <2>1
<1>7. ASSUME NEW i \in 1 .. Len(Ahead') PROVE Ahead'[i] = Ahead[i + n]
  <2>1. CASE i <= Len(input')
    <3>1. i \in 1 .. Len(input') /\ i \in 1 .. Len(input) - n /\ i + n \in 1 .. Len(input)
      BY <1>1, <1>2, <1>6, <2>1
    <3> QED BY <1>2, <1>4, <1>6, <3>1
  <2>2. CASE i > Len(input')
    <3>1. PICK j \in 1 .. Len(stream) : i = Len(input') + j
      <4>1. i - Len(input') \in 1 .. Len(stream) /\ i = Len(input') + (i - Len(input'))
        BY <1>1, <1>2, <1>6, <2>2
      <4> QED BY <4>1
    <3>2. i + n = Len(input) + j
      BY <1>1, <1>2, <3>1
    <3> QED BY <1>4, <1>6, <3>1, <3>2
  <2> QED BY <1>1, <1>2, <1>6, <2>1, <2>2
<1>8. n = Len(input) => input' = <<>>
  BY <1>2, EmptySeq
<1> QED BY <1>1, <1>2, <1>4, <1>6, <1>7, <1>8

(* Reading moves the end of what was read, nothing else. *)
LEMMA AheadRead ==
    ASSUME TokenTypes, Read
    PROVE  Ahead' = Ahead /\ input' # <<>>
<1>1. PICK n \in 1 .. Len(stream) :
         /\ input' = prepended \o SubSeq(stream, 1, n)
         /\ stream' = SubSeq(stream, n + 1, Len(stream))
  BY DEF Read
<1>2. prepended \in Seq(Token) /\ stream \in Seq(Token) /\ Len(stream) \in Nat
  BY AheadFacts
<1> DEFINE a == SubSeq(stream, 1, n)
           b == SubSeq(stream, n + 1, Len(stream))
<1>3. a \in Seq(Token) /\ b \in Seq(Token) /\ Len(a) = n
  BY <1>2, Cut
<1>4. a \o b = stream
  <2>1. 1 \in 1 .. Len(stream) + 1 /\ n \in 1 - 1 .. Len(stream) /\ Len(stream) \in n .. Len(stream)
    BY <1>2
  <2>2. a \o b = SubSeq(stream, 1, Len(stream))
    BY <1>2, <2>1, ConcatAdjacentSubSeq
  <2> QED BY <1>2, <2>2, SubSeqFull
<1> HIDE DEF a, b
<1>5. input' = prepended \o a /\ stream' = b
  BY <1>1 DEF a, b
<1>6. a # <<>>
  BY <1>3, EmptySeq
<1>7. input' # <<>>
  <2>1. \A u, v \in Seq(Token) : u \o v = <<>> => v = <<>>
    BY Joined
  <2>2. prepended \in Seq(Token)
    BY <1>2
  <2> QED BY <1>3, <1>5, <1>6, <2>1, <2>2, Zenon
<1>8. Held' = prepended \o a
  BY <1>5, <1>7 DEF Held
<1>9. (prepended \o a) \o b = prepended \o (a \o b)
  <2>1. \A u, v, w \in Seq(Token) : (u \o v) \o w = u \o (v \o w)
    BY ConcatAssociative
  <2>2. prepended \in Seq(Token)
    BY <1>2
  <2> QED BY <1>3, <2>1, <2>2, Zenon
<1>10. input = <<>>
  BY DEF Read
<1> QED BY <1>4, <1>5, <1>7, <1>8, <1>9, <1>10 DEF Ahead, Held

-----------------------------------------------------------------------------
(* The payload of a message, and what has been read of it. *)

Handleable == {"text", "empty", "fragmented", "ping", "close"}
(* The tokens of payload of a message that come before a token of it.       *)
ReadOf(t) ==
    IF t.f = 1 /\ t.k <= HeaderSize + 1 THEN <<>>
    ELSE <<[m |-> t.m, f |-> 1, k |-> HeaderSize + 1]>>

LEMMA PayloadTable ==
    ASSUME NEW m \in Nat, messages[m].kind \in Handleable
    PROVE  /\ PayloadOf(m) \in Seq(Token)
           /\ Len(PayloadOf(m)) = Parts(messages[m].kind) * Pieces(messages[m].kind)
           /\ \A i \in 1 .. Len(PayloadOf(m)) : PayloadOf(m)[i] =
                 IF messages[m].kind = "fragmented" /\ i = 2 THEN [m |-> m, f |-> 2, k |-> 3]
                 ELSE [m |-> m, f |-> 1, k |-> i + 2]
<1> DEFINE kind == messages[m].kind
           parts == Parts(kind)
           pieces == Pieces(kind)
<1>1. /\ kind \in AllKinds /\ parts \in {1, 2} /\ pieces \in {0, 1, 2} /\ Size(kind) = 2 + pieces
      /\ parts = 2 <=> kind = "fragmented"
      /\ kind = "fragmented" => pieces = 1
  BY DEF Handleable, AllKinds, Parts, Pieces, Size, HeaderSize
<1>2. ASSUME NEW f \in Nat \ {0}
      PROVE  /\ FramePayload(m, f) \in Seq(Token)
             /\ Len(FramePayload(m, f)) = IF f <= parts THEN pieces ELSE 0
             /\ \A i \in 1 .. Len(FramePayload(m, f)) :
                   FramePayload(m, f)[i] = [m |-> m, f |-> f, k |-> i + 2]
  <2> DEFINE u == FrameTokens(m, kind, f)
  <2>1. /\ u \in Seq(Token) /\ Len(u) = IF f <= parts THEN Size(kind) ELSE 0
        /\ \A i \in 1 .. Len(u) : u[i] = [m |-> m, f |-> f, k |-> i]
    BY <1>1, FrameTokensTable
  <2>2. FramePayload(m, f) = SubSeq(u, 3, Len(u))
    BY DEF FramePayload, HeaderSize
  <2> HIDE DEF u, kind, parts, pieces
  <2>3. Len(u) \in Nat
    BY <2>1
  <2>4. /\ SubSeq(u, 3, Len(u)) \in Seq(Token)
        /\ Len(SubSeq(u, 3, Len(u))) = IF 3 <= Len(u) THEN Len(u) - 3 + 1 ELSE 0
        /\ \A i \in 1 .. Len(u) - 3 + 1 : SubSeq(u, 3, Len(u))[i] = u[3 + i - 1]
    BY <2>1, <2>3, CutInside
  <2>5. Len(SubSeq(u, 3, Len(u))) = IF f <= parts THEN pieces ELSE 0
    BY <1>1, <2>1, <2>4
  <2>6. ASSUME NEW i \in 1 .. Len(SubSeq(u, 3, Len(u)))
        PROVE  SubSeq(u, 3, Len(u))[i] = [m |-> m, f |-> f, k |-> i + 2]
    <3>1. i \in 1 .. Len(u) - 3 + 1 /\ i + 2 \in 1 .. Len(u) /\ 3 + i - 1 = i + 2
      BY <2>3, <2>4
    <3> QED BY <2>1, <2>4, <3>1
  <2> QED BY <2>2, <2>4, <2>5, <2>6
<1> DEFINE a == FramePayload(m, 1)
           b == FramePayload(m, 2)
           c == FramePayload(m, 3)
           u == PayloadOf(m)
<1>3. /\ a \in Seq(Token) /\ Len(a) = pieces
      /\ \A i \in 1 .. Len(a) : a[i] = [m |-> m, f |-> 1, k |-> i + 2]
  BY <1>1, <1>2
<1>4. /\ b \in Seq(Token) /\ Len(b) = IF parts = 2 THEN pieces ELSE 0
      /\ \A i \in 1 .. Len(b) : b[i] = [m |-> m, f |-> 2, k |-> i + 2]
  BY <1>1, <1>2
<1>5. c \in Seq(Token) /\ Len(c) = 0
  BY <1>1, <1>2
<1> HIDE DEF a, b, c
<1>6. /\ u \in Seq(Token) /\ Len(u) = Len(a) + Len(b) + Len(c)
      /\ \A i \in 1 .. Len(a) + Len(b) + Len(c) : u[i] =
            IF i <= Len(a) THEN a[i]
            ELSE IF i <= Len(a) + Len(b) THEN b[i - Len(a)] ELSE c[i - Len(a) - Len(b)]
  BY <1>3, <1>4, <1>5, Three DEF PayloadOf, a, b, c
<1> HIDE DEF u, kind, parts, pieces
<1>7. Len(u) = parts * pieces
  <2>1. CASE parts = 1
    BY <1>1, <1>3, <1>4, <1>5, <1>6, <2>1
  <2>2. CASE parts = 2
    BY <1>1, <1>3, <1>4, <1>5, <1>6, <2>2
  <2> QED BY <1>1, <2>1, <2>2
<1>8. ASSUME NEW i \in 1 .. Len(u)
      PROVE  u[i] = IF kind = "fragmented" /\ i = 2 THEN [m |-> m, f |-> 2, k |-> 3]
                    ELSE [m |-> m, f |-> 1, k |-> i + 2]
  <2>1. CASE i <= Len(a)
    <3>1. i \in 1 .. Len(a) /\ i \in 1 .. Len(a) + Len(b) + Len(c) /\ ~(kind = "fragmented" /\ i = 2)
      BY <1>1, <1>3, <1>6, <2>1
    <3> QED BY <1>3, <1>6, <2>1, <3>1
  <2>2. CASE ~(i <= Len(a))
    <3>1. parts = 2 /\ pieces = 1 /\ kind = "fragmented"
      BY <1>1, <1>3, <1>4, <1>5, <1>6, <2>2
    <3>2. i = 2 /\ i - Len(a) = 1 /\ 1 \in 1 .. Len(b) /\ i <= Len(a) + Len(b)
          /\ i \in 1 .. Len(a) + Len(b) + Len(c)
      BY <1>3, <1>4, <1>5, <1>6, <2>2, <3>1
    <3> QED BY <1>4, <1>6, <2>2, <3>1, <3>2
  <2> QED BY <2>1, <2>2
<1> QED BY <1>6, <1>7, <1>8 DEF u, kind, parts, pieces

(* A read has n tokens of a frame of a message, from the k-th on.           *)
Gathers(m, kind, size, parts, f, k, n, s, from, c, pay, all) ==
    /\ m \in Nat /\ kind \in Handleable /\ kind = messages[m].kind
    /\ size = Size(kind) /\ parts = Parts(kind) /\ f \in 1 .. parts /\ k \in 1 .. size /\ k # HeaderSize
    /\ n \in Nat \ {0} /\ k + n - 1 <= size /\ (k = 1 => n >= HeaderSize)
    /\ s \in Seq(Token) /\ n <= Len(s)
    /\ \A i \in 1 .. n : s[i] = [m |-> m, f |-> f, k |-> k + i - 1]
    /\ from = IF k = 1 THEN HeaderSize + 1 ELSE 1
    /\ c = ReadOf([m |-> m, f |-> f, k |-> k])
    /\ pay = SubSeq(s, from, n) /\ all = c \o pay

HasRead(m, size, parts, f, k, n, all) ==
    /\ k + n - 1 < size => all = ReadOf([m |-> m, f |-> f, k |-> k + n])
    /\ k + n - 1 = size /\ f < parts => all = ReadOf([m |-> m, f |-> f + 1, k |-> 1])
    /\ k + n - 1 = size /\ f = parts => all = PayloadOf(m)

(* What a read has of a frame, behind what had been read of the message, is *)
(* what has been read of the message then.                                  *)
LEMMA Gathered ==
    ASSUME NEW m, NEW kind, NEW size, NEW parts, NEW f, NEW k, NEW n, NEW s, NEW from, NEW c,
           NEW pay, NEW all, Gathers(m, kind, size, parts, f, k, n, s, from, c, pay, all)
    PROVE  HasRead(m, size, parts, f, k, n, all)
<1> USE DEF Gathers
<1>0. PICK pieces : pieces = Pieces(kind)
  OBVIOUS
<1>1. /\ size = 2 + pieces /\ pieces \in {0, 1, 2} /\ parts \in {1, 2}
      /\ parts = 2 <=> kind = "fragmented"
      /\ kind = "fragmented" => pieces = 1
  BY <1>0 DEF Handleable, Parts, Pieces, Size, HeaderSize
<1>2. /\ f \in 1 .. parts /\ k \in 1 .. size /\ k # 2 /\ k + n - 1 <= size /\ n \in Nat /\ n > 0
      /\ k = 1 => n >= 2
      /\ from = IF k = 1 THEN 3 ELSE 1
      /\ f \in Nat /\ k \in Nat /\ from \in Nat \ {0} /\ size \in Nat
  BY <1>1 DEF HeaderSize
<1>3. PICK first : first = IF k = 1 THEN 3 ELSE k
  OBVIOUS
<1>4. PICK clen : clen = IF f = 1 /\ k <= 3 THEN 0 ELSE 1
  OBVIOUS
<1>5. PICK plen : plen = k + n - first
  OBVIOUS
<1>6. /\ first \in 3 .. 4 /\ clen \in {0, 1} /\ plen \in 0 .. 2
      /\ first = k + from - 1 /\ plen = n - from + 1
  <2>1. CASE k = 1
    BY <1>1, <1>2, <1>3, <1>4, <1>5, <2>1
  <2>2. CASE k # 1
    <3>0. size <= 4
      BY <1>1
    <3>1. k \in {3, 4}
      BY <1>2, <2>2, <3>0
    <3>2. n \in {1, 2}
      BY <1>2, <3>0, <3>1
    <3> QED BY <1>1, <1>2, <1>3, <1>4, <1>5, <2>2, <3>1, <3>2
  <2> QED BY <2>1, <2>2
<1>60. /\ m \in Nat /\ kind \in Handleable /\ kind = messages[m].kind
       /\ size = Size(kind) /\ parts = Parts(kind)
  OBVIOUS
<1>61. /\ s \in Seq(Token) /\ n <= Len(s)
       /\ \A i \in 1 .. n : s[i] = [m |-> m, f |-> f, k |-> k + i - 1]
       /\ pay = SubSeq(s, from, n)
  OBVIOUS
<1>62. c = ReadOf([m |-> m, f |-> f, k |-> k]) /\ all = c \o pay
  OBVIOUS
<1> HIDE DEF Gathers
<1>7. PICK three : three = [m |-> m, f |-> 1, k |-> 3]
  OBVIOUS
<1>8. three \in Token /\ <<three>> \in Seq(Token) /\ Len(<<three>>) = 1 /\ <<three>>[1] = three
  <2>1. m \in Nat
    BY <1>60
  <2> QED BY <1>7, <2>1 DEF Token
<1>9. \A g \in Nat, j \in Nat :
         ReadOf([m |-> m, f |-> g, k |-> j]) = IF g = 1 /\ j <= 3 THEN <<>> ELSE <<three>>
  BY <1>7 DEF ReadOf, HeaderSize
<1>10. c = IF f = 1 /\ k <= 3 THEN <<>> ELSE <<three>>
  BY <1>2, <1>9, <1>62
<1>11. c \in Seq(Token) /\ Len(c) = clen /\ (clen = 1 => c[1] = three)
  BY <1>4, <1>8, <1>10, EmptySeq
<1>12. /\ pay \in Seq(Token) /\ Len(pay) = plen
       /\ \A i \in 1 .. plen : pay[i] = [m |-> m, f |-> f, k |-> first + i - 1]
  <2>1. /\ pay \in Seq(Token) /\ Len(pay) = IF from <= n THEN n - from + 1 ELSE 0
        /\ \A i \in 1 .. n - from + 1 : pay[i] = s[from + i - 1]
    BY <1>2, <1>61, CutInside
  <2>2. Len(pay) = plen
    BY <1>2, <1>6, <2>1
  <2>3. ASSUME NEW i \in 1 .. plen PROVE pay[i] = [m |-> m, f |-> f, k |-> first + i - 1]
    <3>0. i \in 1 .. n - from + 1 /\ i \in Int /\ from \in Int /\ from >= 1 /\ n \in Int /\ k \in Int
      BY <1>2, <1>6
    <3>1. /\ i \in 1 .. n - from + 1 /\ from + i - 1 \in 1 .. n
          /\ k + (from + i - 1) - 1 = first + i - 1
      <4>1. from + i - 1 \in 1 .. n
        BY <3>0
      <4>2. k + (from + i - 1) - 1 = (k + from - 1) + i - 1
        BY <3>0
      <4> QED BY <1>6, <3>0, <4>1, <4>2
    <3>2. s[from + i - 1] = [m |-> m, f |-> f, k |-> k + (from + i - 1) - 1]
      BY <1>61, <3>1
    <3> QED BY <2>1, <3>1, <3>2
  <2> QED BY <2>1, <2>2, <2>3
<1>13. /\ all \in Seq(Token) /\ Len(all) = clen + plen
       /\ \A i \in 1 .. clen + plen : all[i] =
             IF i <= clen THEN three ELSE [m |-> m, f |-> f, k |-> first + (i - clen) - 1]
  <2>1. /\ all \in Seq(Token) /\ Len(all) = Len(c) + Len(pay)
        /\ \A i \in 1 .. Len(c) : all[i] = c[i]
        /\ \A i \in 1 .. Len(pay) : all[Len(c) + i] = pay[i]
    <3>1. c \in Seq(Token) /\ pay \in Seq(Token)
      BY <1>11, <1>12
    <3>2. \A a, b \in Seq(Token) :
             /\ a \o b \in Seq(Token) /\ Len(a \o b) = Len(a) + Len(b)
             /\ \A i \in 1 .. Len(a) : (a \o b)[i] = a[i]
             /\ \A i \in 1 .. Len(b) : (a \o b)[Len(a) + i] = b[i]
      BY Joined
    <3>3. /\ c \o pay \in Seq(Token) /\ Len(c \o pay) = Len(c) + Len(pay)
          /\ \A i \in 1 .. Len(c) : (c \o pay)[i] = c[i]
          /\ \A i \in 1 .. Len(pay) : (c \o pay)[Len(c) + i] = pay[i]
      BY <3>1, <3>2
    <3> QED BY <1>62, <3>3
  <2>2. ASSUME NEW i \in 1 .. clen + plen
        PROVE  all[i] = IF i <= clen THEN three ELSE [m |-> m, f |-> f, k |-> first + (i - clen) - 1]
    <3>1. CASE i <= clen
      <4>1. clen = 1 /\ i = 1 /\ 1 \in 1 .. Len(c)
        BY <1>6, <1>11, <3>1
      <4> QED BY <1>11, <2>1, <3>1, <4>1
    <3>2. CASE ~(i <= clen)
      <4>0. clen \in Int /\ plen \in Int /\ i \in Int /\ i <= clen + plen /\ i > clen
        BY <1>6, <3>2
      <4>1. i - clen \in 1 .. plen /\ i = clen + (i - clen)
        <5>1. \A x, y, z \in Int : z > x /\ z <= x + y => z - x \in 1 .. y /\ z = x + (z - x)
          OBVIOUS
        <5> QED BY <4>0, <5>1, Zenon
      <4>2. all[Len(c) + (i - clen)] = pay[i - clen]
        BY <1>12, <2>1, <4>1
      <4>3. all[i] = pay[i - clen]
        BY <1>11, <4>1, <4>2
      <4> QED BY <1>12, <3>2, <4>1, <4>3
    <3> QED BY <3>1, <3>2
  <2> QED BY <1>11, <1>12, <2>1, <2>2
<1>14. Len(all) = 0 => all = <<>>
  BY <1>13, EmptySeq
<1>15. Len(all) = 1 /\ all[1] = three => all = <<three>>
  <2> SUFFICES ASSUME Len(all) = 1, all[1] = three PROVE all = <<three>>
    OBVIOUS
  <2>1. \A i \in 1 .. Len(all) : all[i] = <<three>>[i]
    BY <1>8
  <2> QED BY <1>8, <1>13, <2>1, SeqEqual
<1>16. ASSUME clen + plen = 1, clen = 0 => f = 1 /\ first = 3
       PROVE  all = <<three>>
  <2>1. Len(all) = 1 /\ 1 \in 1 .. clen + plen
    <3>1. Len(all) = clen + plen
      BY <1>13
    <3>2. Len(all) = 1
      BY <1>16, <3>1, Zenon
    <3>3. 1 \in 1 .. 1
      OBVIOUS
    <3> QED BY <1>16, <3>2, <3>3, Zenon
  <2>2. all[1] = three
    <3>0. all[1] = IF 1 <= clen THEN three ELSE [m |-> m, f |-> f, k |-> first + (1 - clen) - 1]
      BY <1>13, <2>1
    <3>1. CASE clen = 1
      <4>1. 1 <= clen
        BY <3>1
      <4> QED BY <3>0, <4>1, Zenon
    <3>2. CASE clen = 0
      <4>1. first + (1 - clen) - 1 = 3 /\ ~(1 <= clen)
        BY <1>16, <3>2
      <4> QED BY <1>7, <1>16, <3>0, <3>2, <4>1
    <3> QED BY <1>6, <3>1, <3>2
  <2> QED BY <1>15, <2>1, <2>2
<1>17. ASSUME k + n - 1 < size PROVE all = ReadOf([m |-> m, f |-> f, k |-> k + n])
  <2>0. k + n \in Nat
    BY <1>2
  <2>1. CASE f = 1 /\ k + n <= 3
    <3>1. k = 1 /\ clen = 0 /\ plen = 0
      BY <1>1, <1>2, <1>3, <1>4, <1>5, <1>17, <2>1
    <3>2. all = <<>>
      BY <1>13, <1>14, <3>1
    <3> QED BY <1>2, <1>9, <2>0, <2>1, <3>2
  <2>2. CASE ~(f = 1 /\ k + n <= 3)
    <3>1. clen + plen = 1 /\ (clen = 0 => f = 1 /\ first = 3)
      <4>1. pieces \in {1, 2} /\ k \in {1, 3} /\ size \in {3, 4}
        BY <1>1, <1>2, <1>17
      <4>2. CASE parts = 2
        <5>1. size = 3 /\ k = 1 /\ n = 2 /\ f = 2
          BY <1>1, <1>2, <1>17, <2>2, <4>1, <4>2
        <5> QED BY <1>3, <1>4, <1>5, <5>1
      <4>3. CASE parts = 1
        <5>1. f = 1 /\ size = 4 /\ k + n = 4
          BY <1>1, <1>2, <1>17, <2>2, <4>1, <4>3
        <5> QED BY <1>2, <1>3, <1>4, <1>5, <4>1, <5>1
      <4> QED BY <1>1, <4>2, <4>3
    <3>2. all = <<three>>
      BY <1>16, <3>1
    <3> QED BY <1>2, <1>9, <2>0, <2>2, <3>2
  <2> QED BY <2>1, <2>2
<1>18. ASSUME k + n - 1 = size, f < parts PROVE all = ReadOf([m |-> m, f |-> f + 1, k |-> 1])
  <2>1. f = 1 /\ size = 3 /\ k \in {1, 3} /\ f + 1 = 2 /\ k + n = 4
    BY <1>1, <1>2, <1>18
  <2>2. clen + plen = 1 /\ (clen = 0 => f = 1 /\ first = 3)
    BY <1>2, <1>3, <1>4, <1>5, <2>1
  <2>3. all = <<three>>
    BY <1>16, <2>2
  <2>4. ReadOf([m |-> m, f |-> 2, k |-> 1]) = <<three>>
    <3>1. ReadOf([m |-> m, f |-> 2, k |-> 1]) = IF 2 = 1 /\ 1 <= 3 THEN <<>> ELSE <<three>>
      BY <1>9
    <3> QED BY <3>1
  <2> QED BY <2>1, <2>3, <2>4
<1>19. ASSUME k + n - 1 = size, f = parts PROVE all = PayloadOf(m)
  <2>0. PICK u : u = PayloadOf(m)
    OBVIOUS
  <2>1. /\ u \in Seq(Token) /\ Len(u) = parts * pieces
        /\ \A i \in 1 .. Len(u) : u[i] =
              IF kind = "fragmented" /\ i = 2 THEN [m |-> m, f |-> 2, k |-> 3]
              ELSE [m |-> m, f |-> 1, k |-> i + 2]
    BY <1>0, <1>60, <2>0, PayloadTable
  <2>2. Len(u) = IF parts = 2 THEN 2 ELSE pieces
    <3>1. CASE parts = 1
      BY <1>1, <2>1, <3>1
    <3>2. CASE parts = 2
      BY <1>1, <2>1, <3>2
    <3> QED BY <1>1, <3>1, <3>2
  <2>3. clen + plen = IF parts = 2 THEN 2 ELSE pieces
    <3>1. CASE k = 1
      BY <1>1, <1>2, <1>3, <1>4, <1>5, <1>19, <3>1
    <3>2. CASE k = 3
      BY <1>1, <1>2, <1>3, <1>4, <1>5, <1>19, <3>2
    <3>3. CASE k = 4
      BY <1>1, <1>2, <1>3, <1>4, <1>5, <1>19, <3>3
    <3> QED BY <1>1, <1>2, <3>1, <3>2, <3>3
  <2>4. ASSUME NEW i \in 1 .. clen + plen PROVE all[i] = u[i]
    <3>0. i \in 1 .. Len(u) /\ i \in {1, 2}
      BY <1>1, <2>2, <2>3
    <3>9. /\ all[i] = IF i <= clen THEN three ELSE [m |-> m, f |-> f, k |-> first + (i - clen) - 1]
          /\ u[i] = IF kind = "fragmented" /\ i = 2 THEN [m |-> m, f |-> 2, k |-> 3]
                    ELSE [m |-> m, f |-> 1, k |-> i + 2]
      BY <1>13, <2>1, <3>0
    <3>1. CASE parts = 2
      <4>1. /\ clen = 1 /\ first = 3 /\ f = 2 /\ kind = "fragmented"
        BY <1>1, <1>2, <1>3, <1>4, <1>19, <3>1
      <4>2. CASE i = 1
        <5>0. i <= clen /\ i + 2 = 3 /\ i # 2
          BY <4>1, <4>2
        <5>1. all[i] = three /\ i + 2 = 3 /\ u[i] = [m |-> m, f |-> 1, k |-> i + 2]
          BY <3>9, <5>0, Zenon
        <5> QED BY <1>7, <5>1
      <4>3. CASE i = 2
        <5>1. first + (i - clen) - 1 = 3 /\ ~(i <= clen)
          BY <4>1, <4>3
        <5> QED BY <3>9, <4>1, <4>3, <5>1
      <4> QED BY <3>0, <4>2, <4>3
    <3>2. CASE parts = 1
      <4>1. f = 1 /\ kind # "fragmented"
        BY <1>1, <1>19, <3>2
      <4>2. (clen = 0 /\ first = 3) \/ (clen = 1 /\ first = 4)
        BY <1>1, <1>2, <1>3, <1>4, <4>1
      <4>3. u[i] = [m |-> m, f |-> 1, k |-> i + 2]
        BY <3>9, <4>1
      <4>4. all[i] = IF i <= clen THEN three ELSE [m |-> m, f |-> 1, k |-> first + (i - clen) - 1]
        BY <3>9, <4>1
      <4>5. CASE i <= clen
        <5>1. i = 1 /\ i + 2 = 3
          BY <3>0, <4>2, <4>5
        <5> QED BY <1>7, <4>3, <4>4, <4>5, <5>1
      <4>6. CASE ~(i <= clen)
        <5>1. first + (i - clen) - 1 = i + 2
          BY <3>0, <4>2
        <5> QED BY <4>3, <4>4, <4>6, <5>1
      <4> QED BY <4>5, <4>6
    <3> QED BY <1>1, <3>1, <3>2
  <2>5. Len(all) = Len(u) /\ \A i \in 1 .. Len(all) : all[i] = u[i]
    BY <1>13, <2>2, <2>3, <2>4
  <2> QED BY <1>13, <2>0, <2>1, <2>5, SeqEqual
<1> QED BY <1>17, <1>18, <1>19 DEF HasRead

-----------------------------------------------------------------------------
(* The invariant. *)

(* The messages and situations MessagesWhole is about.                      *)
Good == AllHandled /\ situations \subseteq {"records"}
Kind(t) == messages[t.m].kind

(* Where the parser is, by the next token ahead of it.                      *)
(* Of a message that was cut off at most the opcode is left.                *)
Clear == pendingContent = 0 /\ continuation = <<>>
Begin == Clear /\ firstOp = None
AtStart(t) == t.f = 1 /\ t.k = 1 /\ (calling \/ (Clear /\ firstOp \in {None, OpOf(Kind(t))}))
AtFragment(t) ==
    /\ t.f > 1 /\ t.k = 1 /\ ~calling
    /\ pendingContent = 0 /\ firstOp = "Text" /\ continuation = ReadOf(t)
InFrame(t) ==
    /\ t.k > HeaderSize /\ ~calling
    /\ pendingContent = Size(Kind(t)) - t.k + 1
    /\ finalFrame = FrameOf(t).fin /\ firstOp = OpOf(Kind(t)) /\ continuation = ReadOf(t)
    /\ serverSide => maskingKey = KeyOf(t)
Fits == IF Ahead = <<>> THEN calling \/ Begin \/ (Clear /\ Unused)
        ELSE AtStart(Ahead[1]) \/ AtFragment(Ahead[1]) \/ InFrame(Ahead[1])

(* Which buffers and counters may hold something, by what the loop is doing *)
(* and whether the connection is there.                                     *)
Phase ==
    /\ calling => polling = "frames" /\ pendingContent = 0
    /\ input # <<>> => polling # "nothing" /\ open /\ prepended = <<>>
                       /\ (polling = "frames" <=> upgraded)
    /\ input # <<>> /\ polling = "frames" /\ ~calling => frameReadTime \/ "records" \in situations
    /\ ~open => stream = <<>> /\ pendingContent = 0 /\ (calling \/ continuation = <<>>) /\ ~upgraded
    /\ open /\ ~upgraded => prepended = <<>> /\ Clear /\ ~calling
(* The upgrade comes before the frames of a connection.                     *)
Upgrading ==
    open => /\ ~PeerUpgraded => ~upgraded /\ Ahead = <<>>
            /\ PeerUpgraded /\ ~upgraded => Ahead # <<>> /\ Ahead[1] = Upgrade
            /\ upgraded /\ Ahead # <<>> => Ahead[1] # Upgrade
(* If an opcode is left, the first message of a connection has it too.      *)
Leftover ==
    open /\ ~upgraded =>
        \/ firstOp = None
        \/ Len(Ahead) <= 1 /\ Unused
        \/ Len(Ahead) > 1 /\ firstOp = OpOf(Kind(Ahead[2]))
(* What is ahead is orderly and whole, and fits the parser.                 *)
FramesInv ==
    /\ Orderly(Ahead, messages) /\ (Ahead # <<>> => Ends(Ahead[Len(Ahead)], messages))
    /\ upgraded => Fits

(* What was given to the handler, and what is ahead of it.                  *)
Gave(from) ==
    /\ from \in [DOMAIN delivered -> Content]
    /\ \A i \in DOMAIN delivered : Whole(delivered[i], from[i])
    /\ \A i, j \in DOMAIN delivered : i < j => from[i] < from[j]
Before(from) ==
    \A i \in DOMAIN delivered, n \in 1 .. Len(Ahead) : Ahead[n] # Upgrade => from[i] < Ahead[n].m
Given == \E from : Gave(from) /\ (loop = "running" /\ open => Before(from))

(* As long as nothing unusual has happened, the parser is in step with its  *)
(* peer.                                                                    *)
Inner ==
    /\ loop # "misread"
    /\ loop = "running" => Phase /\ Upgrading /\ Leftover /\ (open => FramesInv)
    /\ Given
Inv == Good => Inner

LEMMA InvWhole == Inv => MessagesWhole
<1> SUFFICES ASSUME Inv, Good
             PROVE  /\ loop # "misread"
                    /\ \E from \in [DOMAIN delivered -> Content] :
                          /\ \A i \in DOMAIN delivered : Whole(delivered[i], from[i])
                          /\ \A i, j \in DOMAIN delivered : i < j => from[i] < from[j]
  BY DEF MessagesWhole, Good
<1>1. PICK from : Gave(from)
  BY DEF Inv, Inner, Given
<1> QED BY <1>1 DEF Inv, Inner, Gave

LEMMA EmptyOrderly == \A history : Orderly(<<>>, history)
<1>1. 1 .. 0 = {} /\ 1 .. 0 - 1 = {}
  OBVIOUS
<1> QED BY <1>1, EmptySeq DEF Orderly

LEMMA InvInit == Init => Inv
<1> SUFFICES ASSUME Init PROVE Inner
  BY DEF Inv
<1>1. Ahead = <<>>
  <2>1. <<>> \o <<>> = <<>>
    OBVIOUS
  <2> QED BY <2>1 DEF Init, Ahead, Held
<1>2. Phase
  BY DEF Init, Phase, Clear
<1>3. Upgrading
  BY <1>1 DEF Init, Upgrading, PeerUpgraded
<1>4. FramesInv /\ Leftover
  BY <1>1, EmptyOrderly DEF Init, FramesInv, Leftover
<1>5. Given
  <2> DEFINE from == [i \in DOMAIN delivered |-> 0]
  <2>1. DOMAIN delivered = {}
    BY DEF Init
  <2>2. from \in [DOMAIN delivered -> Content]
    BY <2>1
  <2>3. Gave(from) /\ Before(from)
    BY <2>1, <2>2 DEF Gave, Before
  <2> QED BY <2>3 DEF Given
<1> QED BY <1>2, <1>3, <1>4, <1>5 DEF Init, Inner

(* The histories only grow. *)
LEMMA HistoryGrows ==
    ASSUME Types, [Next]_vars
    PROVE  /\ situations \subseteq situations' /\ serverSide' = serverSide
           /\ DOMAIN messages \subseteq DOMAIN messages'
           /\ \A m \in DOMAIN messages : messages'[m] = messages[m]
<1>1. CASE PeerUpgrades \/ \E kind \in Kinds : PeerSends(kind)
  <2>1. PICK kind \in AllKinds \union {None} :
           messages' = Append(messages, [kind |-> kind, connection |-> connection])
    BY <1>1, WebSocketAssumption DEF PeerUpgrades, PeerSends, AllKinds
  <2>2. messages \in Seq(Message) /\ [kind |-> kind, connection |-> connection] \in Message
    BY DEF Types, HistoryTypes, Message
  <2>3. situations \subseteq situations' /\ serverSide' = serverSide
    BY <1>1 DEF PeerUpgrades, PeerSends, callVars
  <2> QED BY <2>1, <2>2, <2>3, SentMore
<1>2. CASE UNCHANGED messages
  <2>1. situations \subseteq situations' /\ serverSide' = serverSide
    BY DEF Next, ParseStep, Read, PollReturns, GetUpgraded, ShiftIncompleteHeader, NextFrame,
       PendingFrame, Misread, HandlerReturns, OpenEndpoint, CloseEndpoint, LoseConnection,
       WriteHandshake, PeerUpgrades, PeerSends, FrameEnds, ParseUnchanged, Unread, callVars, vars
  <2> QED BY <1>2, <2>1
<1>3. UNCHANGED messages \/ PeerUpgrades \/ \E kind \in Kinds : PeerSends(kind)
  BY DEF Next, ParseStep, Read, PollReturns, GetUpgraded, ShiftIncompleteHeader, NextFrame,
     PendingFrame, Misread, HandlerReturns, OpenEndpoint, CloseEndpoint, LoseConnection,
     WriteHandshake, ParseUnchanged, Unread, peerVars, vars
<1> QED BY <1>1, <1>2, <1>3

LEMMA GoodBefore == Types /\ [Next]_vars /\ Good' => Good
<1> SUFFICES ASSUME Types, [Next]_vars, Good' PROVE Good
  OBVIOUS
<1>1. /\ situations \subseteq situations' /\ serverSide' = serverSide
      /\ DOMAIN messages \subseteq DOMAIN messages'
      /\ \A m \in DOMAIN messages : messages'[m] = messages[m]
  BY HistoryGrows
<1>2. ASSUME NEW m \in DOMAIN messages PROVE Handled(m)
  <2>1. Handled(m)' /\ messages'[m] = messages[m]
    BY <1>1 DEF Good, AllHandled
  <2> QED BY <1>1, <2>1 DEF Handled
<1> QED BY <1>1, <1>2 DEF Good, AllHandled

(* A message that is there keeps its payload, and what was whole stays so.  *)
LEMMA SamePayload ==
    ASSUME NEW m, messages'[m] = messages[m]
    PROVE  PayloadOf(m)' = PayloadOf(m)
BY DEF PayloadOf, FramePayload

LEMMA WholeKept ==
    ASSUME NEW m, messages'[m] = messages[m], situations \subseteq situations', NEW d, Whole(d, m)
    PROVE  Whole(d, m)'
<1>1. PayloadOf(m)' = PayloadOf(m)
  BY SamePayload
<1> QED BY <1>1 DEF Whole

LEMMA GaveKept ==
    ASSUME NEW from, Gave(from), delivered' = delivered, situations \subseteq situations',
           DOMAIN messages \subseteq DOMAIN messages',
           \A m \in DOMAIN messages : messages'[m] = messages[m]
    PROVE  Gave(from)'
<1>1. Content \subseteq Content'
  BY DEF Content
<1>2. from \in [DOMAIN delivered -> Content]
  BY DEF Gave
<1>3. from \in [DOMAIN delivered -> Content']
  BY <1>1, <1>2
<1>4. ASSUME NEW i \in DOMAIN delivered PROVE Whole(delivered[i], from[i])'
  <2>1. from[i] \in DOMAIN messages /\ Whole(delivered[i], from[i])
    BY <1>2 DEF Gave, Content
  <2>2. Whole(delivered[i], from[i])'
    <3> DEFINE d == delivered[i]
               m == from[i]
    <3>1. messages'[m] = messages[m] /\ Whole(d, m) /\ d = delivered'[i]
      BY <2>1
    <3> QED BY <3>1, WholeKept DEF Whole
  <2> QED BY <2>2
<1> QED BY <1>3, <1>4 DEF Gave
-----------------------------------------------------------------------------
(* Steps that read no frame. *)

LEMMA AheadNext ==
    ASSUME TokenTypes'
    PROVE  Ahead' \in Seq(Token) /\ \A n \in 1 .. Len(Ahead') : Ahead'[n] \in Token
<1>1. prepended' \in Seq(Token) /\ input' \in Seq(Token) /\ stream' \in Seq(Token)
  BY SentTokens DEF TokenTypes
<1>2. Held' \in Seq(Token)
  BY <1>1 DEF Held
<1>3. \A a, b \in Seq(Token) : a \o b \in Seq(Token)
  BY Joined
<1>4. Ahead' \in Seq(Token)
  BY <1>1, <1>2, <1>3 DEF Ahead
<1> QED BY <1>4, ElementOfSeq

(* Nothing more is given to the handler. *)
LEMMA GivenKept ==
    ASSUME Types, [Next]_vars, Given, delivered' = delivered,
           loop' = "running" /\ open' =>
             /\ loop = "running" /\ open
             /\ \A n \in 1 .. Len(Ahead') : Ahead'[n] # Upgrade =>
                   \/ Ahead'[n].m > Len(messages)
                   \/ \E j \in 1 .. Len(Ahead) : Ahead'[n] = Ahead[j]
    PROVE  Given'
<1>1. PICK from : Gave(from) /\ (loop = "running" /\ open => Before(from))
  BY DEF Given
<1>2. Gave(from)'
  BY <1>1, GaveKept, HistoryGrows
<1>3. ASSUME loop' = "running" /\ open' PROVE Before(from)'
  <2> SUFFICES ASSUME NEW i \in DOMAIN delivered, NEW n \in 1 .. Len(Ahead'), Ahead'[n] # Upgrade
               PROVE  from[i] < Ahead'[n].m
    BY DEF Before
  <2>1. Before(from)
    BY <1>1, <1>3
  <2>2. from[i] \in 1 .. Len(messages)
    <3>1. DOMAIN messages = 1 .. Len(messages)
      BY DEF Types, HistoryTypes
    <3> QED BY <1>1, <3>1 DEF Gave, Content
  <2>3. CASE \E j \in 1 .. Len(Ahead) : Ahead'[n] = Ahead[j]
    BY <2>1, <2>3 DEF Before
  <2>4. CASE Ahead'[n].m > Len(messages)
    <3>1. Ahead'[n].m \in Nat /\ Len(messages) \in Nat
      <4>1. Types'
        BY TypesStep
      <4>2. Ahead'[n] \in Token
        BY <4>1, AheadNext DEF Types
      <4> QED BY <4>2 DEF Token, Types, HistoryTypes
    <3> QED BY <2>2, <2>4, <3>1
  <2> QED BY <1>3, <2>3, <2>4
<1> QED BY <1>2, <1>3 DEF Given

LEMMA ReadStep ==
    ASSUME Types, Good, Inner, Read
    PROVE  Inner'
<1>1. Ahead' = Ahead /\ input' # <<>>
  BY AheadRead DEF Types
<1>2. loop = "running" /\ open /\ Phase /\ Upgrading /\ Leftover /\ FramesInv /\ Given
  BY DEF Inner, Read
<1>3. Phase'
  BY <1>1, <1>2 DEF Read, Phase, Clear, frameVars
<1>4. Upgrading'
  BY <1>1, <1>2 DEF Read, Upgrading, PeerUpgraded
<1>7. Leftover'
  BY <1>1, <1>2 DEF Read, Leftover, Unused, Kind, frameVars
<1>5. FramesInv'
  BY <1>1, <1>2 DEF Read, FramesInv, Fits, AtStart, AtFragment, InFrame, Begin, Clear, Unused,
     frameVars, Kind, FrameOf, ReadOf, KeyOf
<1>6. Given'
  <2>1. [Next]_vars
    BY DEF Next
  <2> QED BY <1>1, <1>2, <2>1, GivenKept DEF Read
<1> QED BY <1>2, <1>3, <1>4, <1>5, <1>6, <1>7 DEF Inner, Read

LEMMA PollReturnsStep ==
    ASSUME Types, Good, Inner, PollReturns
    PROVE  Inner'
<1>1. Ahead' = Ahead
  BY DEF PollReturns, Ahead, Held, peerVars
<1>2. loop = "running" /\ Phase /\ Upgrading /\ Leftover /\ (open => FramesInv) /\ Given
  BY DEF Inner, PollReturns
<1>3. Phase'
  BY <1>2 DEF PollReturns, Phase, Clear, frameVars, callVars, peerVars
<1>4. Upgrading'
  BY <1>1, <1>2 DEF PollReturns, Upgrading, PeerUpgraded, peerVars
<1>7. Leftover'
  BY <1>1, <1>2 DEF PollReturns, Leftover, Unused, Kind, frameVars, peerVars
<1>5. open' => FramesInv'
  BY <1>1, <1>2 DEF PollReturns, FramesInv, Fits, AtStart, AtFragment, InFrame, Begin, Clear, Unused, frameVars,
     callVars, peerVars, Kind, FrameOf, ReadOf, KeyOf
<1>6. Given'
  <2>1. [Next]_vars
    BY DEF Next
  <2> QED BY <1>1, <1>2, <2>1, GivenKept DEF PollReturns, peerVars
<1> QED BY <1>2, <1>3, <1>4, <1>5, <1>6, <1>7 DEF Inner, PollReturns, callVars

LEMMA ShiftStep ==
    ASSUME Types, Good, Inner, ShiftIncompleteHeader
    PROVE  Inner'
<1>1. /\ loop = "running" /\ input # <<>> /\ polling = "frames" /\ ~calling
      /\ Phase /\ Upgrading /\ Leftover /\ (open => FramesInv) /\ Given
  BY DEF Inner, ShiftIncompleteHeader, InFrames, Parsing
<1>2. open /\ upgraded /\ prepended = <<>>
  BY <1>1 DEF Phase
<1>3. Ahead' = Ahead
  BY <1>1, <1>2 DEF ShiftIncompleteHeader, Ahead, Held, peerVars
<1>4. Phase'
  BY <1>1, <1>2 DEF ShiftIncompleteHeader, Phase, Clear, frameVars, callVars, peerVars
<1>5. Upgrading'
  BY <1>1, <1>3 DEF ShiftIncompleteHeader, Upgrading, PeerUpgraded, peerVars
<1>6. FramesInv'
  BY <1>1, <1>2, <1>3 DEF ShiftIncompleteHeader, FramesInv, Fits, AtStart, AtFragment, InFrame,
     Begin, Clear, Unused, frameVars, callVars, peerVars, Kind, FrameOf, ReadOf, KeyOf
<1>8. Leftover'
  BY <1>2 DEF ShiftIncompleteHeader, Leftover
<1>7. Given'
  <2>1. [Next]_vars
    BY DEF Next, ParseStep
  <2> QED BY <1>1, <1>2, <1>3, <2>1, GivenKept DEF ShiftIncompleteHeader, peerVars
<1> QED BY <1>1, <1>4, <1>5, <1>6, <1>7, <1>8 DEF Inner, ShiftIncompleteHeader, callVars

LEMMA HandlerReturnsStep ==
    ASSUME Types, Good, Inner, HandlerReturns
    PROVE  Inner'
<1>1. loop = "running" /\ calling /\ Phase /\ Upgrading /\ (open => FramesInv) /\ Given
  BY DEF Inner, HandlerReturns
<1>2. Ahead' = Ahead
  BY DEF HandlerReturns, Ahead, Held, peerVars
<1>3. Phase'
  BY <1>1 DEF HandlerReturns, Phase, Clear, peerVars
<1>4. Upgrading'
  BY <1>1, <1>2 DEF HandlerReturns, Upgrading, PeerUpgraded, peerVars
<1>5. open' => FramesInv'
  <2>1. Begin' /\ ~calling'
    BY <1>1 DEF HandlerReturns, Begin, Clear, Phase
  <2>2. FramesInv /\ upgraded /\ Ahead # <<>> => Ahead[1].f = 1 /\ Ahead[1].k = 1
    BY <1>1 DEF FramesInv, Fits, AtStart, AtFragment, InFrame
  <2> QED BY <1>1, <1>2, <2>1, <2>2 DEF HandlerReturns, FramesInv, Fits, AtStart,
     Begin, peerVars
<1>7. Leftover'
  BY DEF HandlerReturns, Leftover
<1>6. Given'
  <2>1. [Next]_vars
    BY DEF Next
  <2> QED BY <1>1, <1>2, <2>1, GivenKept DEF HandlerReturns, peerVars
<1> QED BY <1>1, <1>3, <1>4, <1>5, <1>6, <1>7 DEF Inner, HandlerReturns

LEMMA WriteHandshakeStep ==
    ASSUME Types, Good, Inner, WriteHandshake
    PROVE  Inner'
<1>1. loop = "running" /\ Phase /\ Upgrading /\ Leftover /\ (open => FramesInv) /\ Given
  BY DEF Inner, WriteHandshake, Idle
<1>2. Ahead' = Ahead
  BY DEF WriteHandshake, Unread, Ahead, Held
<1>3. Phase'
  BY <1>1 DEF WriteHandshake, Unread, Phase, Clear, frameVars
<1>4. Upgrading'
  BY <1>1, <1>2 DEF WriteHandshake, Unread, Upgrading, PeerUpgraded
<1>5. open' => FramesInv'
  BY <1>1, <1>2 DEF WriteHandshake, Unread, FramesInv, Fits, AtStart, AtFragment, InFrame, Begin,
     Clear, Unused, frameVars, Kind, FrameOf, ReadOf, KeyOf
<1>7. Leftover'
  BY <1>1, <1>2 DEF WriteHandshake, Unread, Leftover, Unused, Kind, frameVars
<1>6. Given'
  <2>1. [Next]_vars
    BY DEF Next
  <2> QED BY <1>1, <1>2, <2>1, GivenKept DEF WriteHandshake, Unread
<1> QED BY <1>1, <1>3, <1>4, <1>5, <1>6, <1>7 DEF Inner, WriteHandshake, Unread

(* The connection is lost, with no read that is not finished. *)
LEMMA LoseStep ==
    ASSUME Types, Good, Inner, [Next]_vars, Lose, loop = "running", input = <<>>,
           UNCHANGED firstOp, Unread
    PROVE  Inner'
<1>1. Phase /\ Given
  BY DEF Inner
<1>2. Phase'
  BY <1>1 DEF Lose, ResetWebsocketState, Unread, Phase
<1>3. Upgrading' /\ Leftover' /\ ~open'
  BY DEF Lose, Upgrading, Leftover
<1>4. Given'
  BY <1>1, <1>3, GivenKept DEF Unread
<1> QED BY <1>2, <1>3, <1>4 DEF Inner, Unread

LEMMA CloseStep ==
    ASSUME Types, Good, Inner, Good', CloseEndpoint \/ LoseConnection
    PROVE  Inner'
<1>1. /\ loop = "running" /\ Lose /\ UNCHANGED firstOp /\ Unread
  BY DEF CloseEndpoint, LoseConnection, Idle
<1>2. input = <<>>
  <2>1. CASE CloseEndpoint
    <3>1. input # <<>> => "closedInRead" \in situations'
      BY <2>1 DEF CloseEndpoint
    <3> QED BY <3>1 DEF Good
  <2>2. CASE LoseConnection
    BY <2>2 DEF LoseConnection, Idle, Inner, Phase
  <2> QED BY <2>1, <2>2
<1> QED BY <1>1, <1>2, LoseStep DEF Next

LEMMA OpenStep ==
    ASSUME Types, Good, Inner, Good', OpenEndpoint
    PROVE  Inner'
<1>1. /\ loop = "running" /\ polling = "nothing" /\ ~open /\ Phase /\ Given
  BY DEF Inner, OpenEndpoint, Idle
<1>2. prepended = <<>> /\ pendingContent = 0
  <2>1. prepended # <<>> => "leftover" \in situations'
    BY DEF OpenEndpoint
  <2> QED BY <1>1, <2>1 DEF Good, Phase
<1>3. input = <<>> /\ ~calling /\ continuation = <<>> /\ ~upgraded
  BY <1>1 DEF Phase
<1>4. Ahead' = <<>>
  <2>1. Ahead' = <<>> \o <<>>
    BY <1>2, <1>3 DEF OpenEndpoint, Unread, Ahead, Held
  <2>2. <<>> \o <<>> = <<>>
    OBVIOUS
  <2> QED BY <2>1, <2>2
<1>5. Phase'
  BY <1>1, <1>2, <1>3 DEF OpenEndpoint, Unread, Phase, Clear, frameVars
<1>6. ASSUME NEW m \in DOMAIN messages, messages[m].connection = connection + 1 PROVE FALSE
  <2>1. m \in 1 .. Len(messages) /\ connection \in Nat
    BY DEF Types, HistoryTypes
  <2>2. messages[m].connection <= connection
    BY <2>1 DEF Types, HistoryTypes
  <2> QED BY <1>6, <2>1, <2>2
<1>7. Upgrading' /\ Leftover'
  <2>1. ~PeerUpgraded' /\ Unused'
    BY <1>6 DEF PeerUpgraded, Unused, OpenEndpoint, Unread
  <2>2. Len(Ahead') <= 1
    BY <1>4
  <2> QED BY <1>3, <1>4, <2>1, <2>2 DEF OpenEndpoint, Upgrading, Leftover
<1>8. FramesInv'
  BY <1>3, <1>4, EmptyOrderly DEF OpenEndpoint, FramesInv
<1>9. Given'
  <2>1. PICK from : Gave(from)
    BY <1>1 DEF Given
  <2>2. Gave(from)'
    <3>1. [Next]_vars
      BY DEF Next
    <3> QED BY <2>1, <3>1, GaveKept, HistoryGrows DEF OpenEndpoint, Unread
  <2>3. Before(from)'
    <3>1. 1 .. Len(Ahead') = {}
      BY <1>4, EmptySeq
    <3> QED BY <3>1 DEF Before
  <2> QED BY <2>2, <2>3 DEF Given
<1> QED BY <1>1, <1>5, <1>7, <1>8, <1>9 DEF Inner, OpenEndpoint, Unread
-----------------------------------------------------------------------------
(* The upgrade, and what the peer sends. *)

LEMMA AheadHeld ==
    ASSUME TokenTypes, input # <<>>
    PROVE  /\ Len(input) \in 1 .. Len(Ahead) /\ \A i \in 1 .. Len(input) : Ahead[i] = input[i]
           /\ input \in Seq(Token) /\ Len(input) \in Nat \ {0} /\ Ahead # <<>>
<1>1. input \in Seq(Token) /\ stream \in Seq(Token) /\ Len(input) \in Nat \ {0} /\ Len(stream) \in Nat
  BY AheadFacts, EmptySeq
<1>2. Ahead = input \o stream
  BY DEF Ahead, Held
<1>3. /\ Len(Ahead) = Len(input) + Len(stream) /\ \A i \in 1 .. Len(input) : Ahead[i] = input[i]
      /\ (Ahead = <<>>) <=> (Len(Ahead) = 0)
  BY <1>1, <1>2, Joined
<1> QED BY <1>1, <1>3

(* What the parser finds in a read, once upgraded. *)
LEMMA ParsingFacts ==
    ASSUME Types, Good, Inner, InFrames, NEW t, t = input[1]
    PROVE  /\ loop = "running" /\ ~calling /\ input # <<>> /\ polling = "frames"
           /\ open /\ upgraded /\ prepended = <<>> /\ (frameReadTime \/ "records" \in situations)
           /\ t \in Token /\ t # Upgrade /\ InMessage(t, messages) /\ Ahead[1] = t /\ Ahead # <<>>
           /\ Kind(t) \in Handleable /\ (serverSide => Kind(t) \in {"text", "empty", "close"})
           /\ Orderly(Ahead, messages) /\ Ends(Ahead[Len(Ahead)], messages)
           /\ AtStart(t) \/ AtFragment(t) \/ InFrame(t)
<1>1. loop = "running" /\ ~calling /\ input # <<>> /\ polling = "frames"
  BY DEF InFrames, Parsing
<1>2. Phase /\ Upgrading /\ (open => FramesInv)
  BY <1>1 DEF Inner
<1>3. open /\ upgraded /\ prepended = <<>> /\ (frameReadTime \/ "records" \in situations)
  BY <1>1, <1>2 DEF Phase
<1>4. /\ Len(input) \in 1 .. Len(Ahead) /\ (\A i \in 1 .. Len(input) : Ahead[i] = input[i])
      /\ Ahead # <<>> /\ Len(input) \in Nat \ {0}
  BY <1>1, AheadHeld DEF Types
<1>5. 1 \in 1 .. Len(Ahead) /\ 1 \in 1 .. Len(input)
  BY <1>4
<1>6. Ahead[1] = t /\ t \in Token
  BY <1>4, <1>5, AheadFacts DEF Types
<1>7. Orderly(Ahead, messages) /\ Ends(Ahead[Len(Ahead)], messages) /\ Fits
  BY <1>2, <1>3, <1>4 DEF FramesInv
<1>8. t # Upgrade
  BY <1>2, <1>3, <1>4, <1>6 DEF Upgrading
<1>9. InMessage(t, messages)
  BY <1>5, <1>6, <1>7, <1>8 DEF Orderly
<1>10. Kind(t) \in Handleable /\ (serverSide => Kind(t) \in {"text", "empty", "close"})
  <2>1. t.m \in DOMAIN messages /\ messages[t.m].kind # None
    BY <1>9, WebSocketAssumption DEF InMessage, AllKinds
  <2>2. Handled(t.m)
    BY <2>1 DEF Good, AllHandled
  <2> QED BY <2>1, <2>2 DEF Handled, Handleable, Kind
<1>11. AtStart(t) \/ AtFragment(t) \/ InFrame(t)
  BY <1>4, <1>6, <1>7 DEF Fits
<1> QED BY <1>1, <1>3, <1>4, <1>6, <1>7, <1>8, <1>9, <1>10, <1>11

LEMMA GetUpgradedStep ==
    ASSUME Types, Good, Inner, GetUpgraded
    PROVE  Inner'
<1>1. /\ loop = "running" /\ ~calling /\ input # <<>> /\ polling = "http" /\ input[1] = Upgrade
      /\ Phase /\ Upgrading /\ Leftover /\ (open => FramesInv) /\ Given
  BY DEF Inner, GetUpgraded, Parsing
<1>2. open /\ ~upgraded /\ prepended = <<>> /\ Clear
  BY <1>1 DEF Phase
<1>3. /\ Len(input) \in 1 .. Len(Ahead) /\ (\A i \in 1 .. Len(input) : Ahead[i] = input[i])
      /\ input \in Seq(Token) /\ Len(input) \in Nat \ {0} /\ Ahead # <<>>
  BY <1>1, AheadHeld DEF Types
<1>4. PeerUpgraded
  BY <1>2, <1>1, <1>3 DEF Upgrading
<1>5. [Next]_vars
  BY DEF Next, ParseStep
<1>6. CASE Len(input) > 1
  <2>1. loop' = "passthrough"
    BY <1>6 DEF GetUpgraded
  <2>2. Given'
    BY <1>1, <1>5, <2>1, GivenKept DEF GetUpgraded
  <2> QED BY <2>1, <2>2 DEF Inner
<1>7. CASE ~(Len(input) > 1)
  <2>1. Len(input) = 1 /\ loop' = "running" /\ input' = <<>>
    BY <1>3, <1>7 DEF GetUpgraded
  <2>2. input' = SubSeq(input, 1 + 1, Len(input))
    <3>1. /\ SubSeq(input, 1 + 1, Len(input)) \in Seq(Token)
          /\ Len(SubSeq(input, 1 + 1, Len(input))) = Len(input) - 1
      BY <1>3, <2>1, Cut
    <3> QED BY <2>1, <3>1, EmptySeq
  <2>3. /\ Ahead' \in Seq(Token) /\ Len(Ahead') = Len(Ahead) - 1
        /\ \A i \in 1 .. Len(Ahead') : Ahead'[i] = Ahead[i + 1]
        /\ (Ahead' = <<>>) <=> (Len(Ahead') = 0)
    BY <1>1, <1>2, <1>3, <2>1, <2>2, AheadTaken DEF Types, GetUpgraded, peerVars
  <2>4. Len(Ahead) \in Nat /\ Ahead \in Seq(Token)
    BY AheadFacts DEF Types
  <2>5. Ahead[1] = Upgrade
    <3>1. 1 \in 1 .. Len(input)
      BY <2>1
    <3> QED BY <1>1, <1>3, <3>1
  <2>6. messages' = messages /\ open'
    BY <1>2 DEF GetUpgraded, peerVars
  <2>7. Orderly(Ahead', messages)
    <3>1. Orderly(Ahead, messages)
      BY <1>1, <1>2 DEF FramesInv
    <3>2. 1 \in 0 .. Len(Ahead)
      BY <1>3, <2>4
    <3> QED BY <2>3, <2>4, <3>1, <3>2, OrderlySuffix
  <2>8. Ahead' # <<>> => Ends(Ahead'[Len(Ahead')], messages)
    <3> SUFFICES ASSUME Ahead' # <<>> PROVE Ends(Ahead'[Len(Ahead')], messages)
      OBVIOUS
    <3>1. Len(Ahead') \in 1 .. Len(Ahead') /\ Len(Ahead') + 1 = Len(Ahead)
      BY <2>3, <2>4
    <3>2. Ends(Ahead[Len(Ahead)], messages)
      BY <1>1, <1>2, <1>3 DEF FramesInv
    <3> QED BY <2>3, <3>1, <3>2
  <2>9. Ahead' # <<>> => Ahead'[1].f = 1 /\ Ahead'[1].k = 1
    <3> SUFFICES ASSUME Ahead' # <<>> PROVE Ahead'[1].f = 1 /\ Ahead'[1].k = 1
      OBVIOUS
    <3>1. 1 \in 1 .. Len(Ahead') /\ 1 \in 1 .. Len(Ahead) - 1
      BY <2>3, <2>4
    <3>2. Follows(Ahead[1], Ahead[2], messages)
      BY <1>1, <1>2, <3>1 DEF FramesInv, Orderly
    <3>3. Ahead[2].f = 1 /\ Ahead[2].k = 1
      BY <2>5, <3>2 DEF Follows, Ends
    <3> QED BY <2>3, <3>1, <3>3
  <2>10. Clear' /\ ~calling' /\ upgraded' /\ firstOp' = firstOp
    BY <1>1, <1>2 DEF GetUpgraded, Clear, frameVars
  <2>11. Phase'
    BY <1>1, <2>1, <2>6, <2>10 DEF GetUpgraded, Phase
  <2>12. Upgrading'
    <3>1. PeerUpgraded'
      BY <1>4 DEF GetUpgraded, PeerUpgraded, peerVars
    <3>2. Ahead' # <<>> => Ahead'[1] # Upgrade
      BY <2>9 DEF Upgrade
    <3> QED BY <2>10, <3>1, <3>2 DEF Upgrading
  <2>13. FramesInv'
    <3>1. CASE Ahead' = <<>>
      <4>0. Len(Ahead') = 0
        BY <2>3, <3>1
      <4>1. ~(Len(Ahead) > 1)
        <5>1. PICK a : a = Len(Ahead)
          OBVIOUS
        <5>2. a \in Nat /\ a - 1 = 0
          BY <2>3, <2>4, <4>0, <5>1
        <5>3. ~(a > 1)
          BY <5>2
        <5> QED BY <5>1, <5>3
      <4>2. firstOp = None \/ Unused
        BY <1>1, <1>2, <4>1 DEF Leftover
      <4>3. Begin' \/ (Clear /\ Unused)'
        BY <2>10, <4>2 DEF Begin, Unused, GetUpgraded, peerVars
      <4> QED BY <2>6, <2>7, <2>8, <3>1, <4>3 DEF FramesInv, Fits
    <3>2. CASE Ahead' # <<>>
      <4>1. Len(Ahead) > 1 /\ 1 \in 1 .. Len(Ahead')
        BY <2>3, <2>4, <3>2
      <4>2. Ahead'[1] = Ahead[2]
        BY <2>3, <4>1
      <4>3. firstOp \in {None, OpOf(Kind(Ahead[2]))}
        BY <1>1, <1>2, <2>4, <4>1 DEF Leftover
      <4>5. AtStart(Ahead[1])'
        BY <2>6, <2>9, <2>10, <3>2, <4>2, <4>3 DEF AtStart, Kind
      <4> QED BY <2>6, <2>7, <2>8, <3>2, <4>5 DEF FramesInv, Fits
    <3> QED BY <3>1, <3>2
  <2>15. Leftover'
    BY <2>10 DEF Leftover
  <2>14. Given'
    <3>1. \A n \in 1 .. Len(Ahead') : n + 1 \in 1 .. Len(Ahead) /\ Ahead'[n] = Ahead[n + 1]
      BY <2>3, <2>4
    <3> QED BY <1>1, <1>2, <1>5, <3>1, GivenKept DEF GetUpgraded
  <2> QED BY <2>1, <2>11, <2>12, <2>13, <2>14, <2>15 DEF Inner
<1> QED BY <1>6, <1>7

(* What is ahead is what the parser expects. *)
LEMMA NoMisread ==
    ASSUME Types, Good, Inner, Misread
    PROVE  FALSE
<1>1. CASE polling = "http" /\ Head(input) # Upgrade
  <2>1. loop = "running" /\ input # <<>> /\ Phase /\ Upgrading
    BY DEF Misread, Parsing, Inner
  <2>2. open /\ ~upgraded
    BY <1>1, <2>1 DEF Phase
  <2>3. /\ 1 \in 1 .. Len(input) /\ Ahead[1] = input[1] /\ Ahead # <<>>
    <3>1. /\ Len(input) \in 1 .. Len(Ahead) /\ (\A i \in 1 .. Len(input) : Ahead[i] = input[i])
          /\ Len(input) \in Nat \ {0} /\ Ahead # <<>>
      BY <2>1, AheadHeld DEF Types
    <3>2. 1 \in 1 .. Len(input)
      BY <3>1
    <3> QED BY <3>1, <3>2
  <2>4. Ahead[1] = Upgrade
    BY <2>1, <2>2, <2>3 DEF Upgrading
  <2>5. Head(input) = input[1]
    <3>1. input \in Seq(Token)
      BY AheadFacts DEF Types
    <3> QED BY <2>1, <3>1
  <2> QED BY <1>1, <2>3, <2>4, <2>5
<1>2. CASE InFrames /\ pendingContent = 0 /\ ~AtFrame
  <2>0. PICK t : t = input[1]
    OBVIOUS
  <2>1. /\ input # <<>> /\ t \in Token /\ t # Upgrade /\ InMessage(t, messages) /\ Ahead[1] = t
        /\ Ahead # <<>> /\ Orderly(Ahead, messages)
        /\ AtStart(t) \/ AtFragment(t) \/ InFrame(t)
    BY <1>2, <2>0, ParsingFacts
  <2>2. /\ Len(input) \in 1 .. Len(Ahead) /\ (\A i \in 1 .. Len(input) : Ahead[i] = input[i])
        /\ Len(input) \in Nat \ {0}
    BY <2>1, AheadHeld DEF Types
  <2>3. Size(Kind(t)) \in Nat /\ Size(Kind(t)) >= 2
    BY DEF Size, HeaderSize, Pieces
  <2>4. t.k = 1
    <3>1. t.k \in 1 .. Size(Kind(t))
      BY <2>1 DEF InMessage, Kind
    <3>2. ~InFrame(t)
      BY <1>2, <2>3, <3>1 DEF InFrame
    <3> QED BY <2>1, <3>2 DEF AtStart, AtFragment
  <2>5. ASSUME Len(input) > 1 PROVE input[2] = [m |-> t.m, f |-> t.f, k |-> 2]
    <3>1. 2 \in 1 .. Len(input) /\ 2 <= Len(Ahead) /\ t.k + 2 - 1 <= Size(Kind(t)) /\ 2 \in 1 .. 2
      BY <2>2, <2>3, <2>4, <2>5
    <3>2. Ahead \in Seq(Token)
      BY AheadFacts DEF Types
    <3>3. \A i \in 1 .. 2 : Ahead[i] = [m |-> t.m, f |-> t.f, k |-> t.k + i - 1]
      BY <2>1, <3>1, <3>2, RestOfFrame DEF Kind
    <3>4. t.k + 2 - 1 = 2
      BY <2>4
    <3> QED BY <2>2, <3>1, <3>3, <3>4
  <2>6. [t EXCEPT !.k = 2] = [m |-> t.m, f |-> t.f, k |-> 2]
    BY <2>1 DEF Token
  <2> QED BY <1>2, <2>0, <2>4, <2>5, <2>6 DEF AtFrame
<1> QED BY <1>1, <1>2 DEF Misread

LEMMA PeerUpgradesStep ==
    ASSUME Types, Good, Inner, PeerUpgrades
    PROVE  Inner'
<1> DEFINE message == [kind |-> None, connection |-> connection]
<1>1. open /\ ~PeerUpgraded /\ messages' = Append(messages, message) /\ stream' = Append(stream, Upgrade)
  BY DEF PeerUpgrades
<1>2. /\ messages \in Seq(Message) /\ message \in Message /\ stream \in Seq(Token)
  BY AheadFacts DEF Types, HistoryTypes, Message
<1>3. /\ DOMAIN messages = 1 .. Len(messages) /\ Len(messages) \in Nat
      /\ DOMAIN messages' = 1 .. Len(messages) + 1
      /\ messages'[Len(messages) + 1] = message
  BY <1>1, <1>2, SentMore
<1>4. [Next]_vars
  BY DEF Next
<1>5. CASE loop # "running"
  <2>1. loop' = loop
    BY DEF PeerUpgrades, callVars
  <2>2. Given'
    BY <1>4, <1>5, <2>1, GivenKept DEF PeerUpgrades, Inner
  <2> QED BY <1>5, <2>1, <2>2 DEF Inner
<1>6. CASE loop = "running"
  <2>1. Phase /\ Upgrading /\ Leftover /\ FramesInv /\ Given
    BY <1>1, <1>6 DEF Inner
  <2>2. ~upgraded /\ Ahead = <<>>
    BY <1>1, <2>1 DEF Upgrading
  <2>3. Held = <<>> /\ stream = <<>>
    BY <2>2, AheadFacts DEF Types
  <2>4. Held' = <<>>
    BY <2>3 DEF PeerUpgrades, Held
  <2>5. Ahead' = <<Upgrade>>
    <3>1. Ahead' = <<>> \o Append(<<>>, Upgrade)
      BY <1>1, <2>3, <2>4 DEF Ahead
    <3>2. <<>> \o Append(<<>>, Upgrade) = <<Upgrade>>
      OBVIOUS
    <3> QED BY <3>1, <3>2
  <2>6. Len(Ahead') = 1 /\ Ahead'[1] = Upgrade /\ Ahead' # <<>>
    BY <2>5
  <2>7. Phase'
    BY <1>1, <2>1 DEF PeerUpgrades, Phase, Clear, frameVars, callVars
  <2>8. PeerUpgraded'
    <3>1. Len(messages) + 1 \in DOMAIN messages'
      BY <1>3
    <3> QED BY <1>3, <3>1 DEF PeerUpgraded, PeerUpgrades
  <2>9. Upgrading'
    BY <2>2, <2>6, <2>8 DEF Upgrading, PeerUpgrades
  <2>10. FramesInv'
    <3>1. Orderly(Ahead', messages')
      <4>1. /\ \A i \in 1 .. Len(Ahead') : Ahead'[i] = Upgrade
            /\ 1 .. Len(Ahead') - 1 = {}
            /\ \A i, j \in 1 .. Len(Ahead') : ~(i < j)
        BY <2>6
      <4> QED BY <4>1 DEF Orderly
    <3>2. Ends(Ahead'[Len(Ahead')], messages')
      BY <2>6 DEF Ends
    <3> QED BY <2>2, <3>1, <3>2 DEF FramesInv, PeerUpgrades
  <2>12. Leftover'
    <3>1. ~(Len(Ahead) > 1) /\ Len(Ahead') <= 1
      BY <2>2, <2>6, EmptySeq
    <3>2. firstOp = None \/ Unused
      BY <1>1, <2>1, <2>2, <3>1 DEF Leftover
    <3>3. Unused => Unused'
      BY <1>1, <1>2, <1>3, SentMore DEF Unused, PeerUpgrades
    <3> QED BY <3>1, <3>2, <3>3 DEF Leftover, PeerUpgrades, frameVars
  <2>11. Given'
    <3>1. \A n \in 1 .. Len(Ahead') : Ahead'[n] = Upgrade
      BY <2>6
    <3>2. UNCHANGED <<loop, delivered, open>>
      BY DEF PeerUpgrades, callVars
    <3> QED BY <1>1, <1>4, <1>6, <2>1, <3>1, <3>2, GivenKept
  <2> QED BY <1>6, <2>7, <2>9, <2>10, <2>11, <2>12 DEF Inner, PeerUpgrades, callVars
<1> QED BY <1>5, <1>6

LEMMA PeerSendsStep ==
    ASSUME Types, Good, Inner, Good', NEW kind \in Kinds, PeerSends(kind)
    PROVE  Inner'
<1> DEFINE message == [kind |-> kind, connection |-> connection]
           m == Len(messages) + 1
           u == Tokens(m, kind)
<1>0. kind \in AllKinds
  BY WebSocketAssumption DEF AllKinds
<1>1. open /\ PeerUpgraded /\ messages' = Append(messages, message) /\ UNCHANGED <<loop, delivered, open>>
  BY DEF PeerSends
<1>2. /\ messages \in Seq(Message) /\ message \in Message /\ stream \in Seq(Token) /\ Ahead \in Seq(Token)
      /\ Len(Ahead) \in Nat /\ ((Ahead = <<>>) <=> (Len(Ahead) = 0))
      /\ \A i \in 1 .. Len(Ahead) : Ahead[i] \in Token
  BY <1>0, AheadFacts DEF Types, HistoryTypes, Message
<1>3. /\ DOMAIN messages = 1 .. Len(messages) /\ Len(messages) \in Nat
      /\ DOMAIN messages' = 1 .. Len(messages) + 1 /\ Len(messages') = Len(messages) + 1
      /\ messages'[Len(messages) + 1] = message
      /\ \A i \in 1 .. Len(messages) : messages'[i] = messages[i]
  BY <1>1, <1>2, SentMore
<1>4. [Next]_vars
  BY DEF Next
<1>5. CASE loop # "running"
  <2>2. Given'
    BY <1>1, <1>4, <1>5, GivenKept DEF Inner
  <2> QED BY <1>1, <1>5, <2>2 DEF Inner
<1>6. CASE loop = "running"
  <2>1. Phase /\ Upgrading /\ Leftover /\ FramesInv /\ Given
    BY <1>1, <1>6 DEF Inner
  <2>2. /\ u \in Seq(Token) /\ Len(u) \in Nat \ {0} /\ Orderly(u, messages')
        /\ (\A i \in 1 .. Len(u) : u[i].m = m)
        /\ u[1] = [m |-> m, f |-> 1, k |-> 1] /\ Ends(u[Len(u)], messages')
    <3>1. m \in Nat \ {0} /\ m \in DOMAIN messages' /\ messages'[m].kind = kind
      BY <1>3
    <3> HIDE DEF m
    <3> QED BY <1>0, <3>1, MessageOrderly
  <2>3. stream' = stream \o u
    BY <1>3 DEF PeerSends
  <2> HIDE DEF u
  <2>4. Ahead' = Ahead \o u
    <3>1. Held' = Held
      BY DEF PeerSends, Held
    <3>2. Held \in Seq(Token)
      BY AheadFacts DEF Types, Held
    <3>3. \A a, b, c \in Seq(Token) : (a \o b) \o c = a \o (b \o c)
      BY ConcatAssociative
    <3> QED BY <1>2, <2>2, <2>3, <3>1, <3>2, <3>3 DEF Ahead
  <2>5. /\ Len(Ahead') = Len(Ahead) + Len(u) /\ Ahead' # <<>>
        /\ \A i \in 1 .. Len(Ahead) : Ahead'[i] = Ahead[i]
        /\ \A i \in 1 .. Len(u) : Ahead'[Len(Ahead) + i] = u[i]
    <3>1. \A a, b \in Seq(Token) :
             /\ a \o b \in Seq(Token) /\ Len(a \o b) = Len(a) + Len(b)
             /\ \A i \in 1 .. Len(a) : (a \o b)[i] = a[i]
             /\ \A i \in 1 .. Len(b) : (a \o b)[Len(a) + i] = b[i]
             /\ (a \o b = <<>>) <=> (Len(a \o b) = 0)
      BY Joined
    <3>2. /\ Ahead' \in Seq(Token) /\ Len(Ahead') = Len(Ahead) + Len(u)
          /\ \A i \in 1 .. Len(Ahead) : Ahead'[i] = Ahead[i]
          /\ \A i \in 1 .. Len(u) : Ahead'[Len(Ahead) + i] = u[i]
          /\ (Ahead' = <<>>) <=> (Len(Ahead') = 0)
      BY <1>2, <2>2, <2>4, <3>1
    <3> QED BY <1>2, <2>2, <3>2, SMTT(30)
  <2>6. /\ Orderly(Ahead, messages')
        /\ \A i \in 1 .. Len(Ahead) : Ends(Ahead[i], messages) <=> Ends(Ahead[i], messages')
    BY <1>1, <1>2, <2>1, OrderlyLonger DEF FramesInv
  <2>7. \A i \in 1 .. Len(Ahead) : Ahead[i] = Upgrade \/ (InMessage(Ahead[i], messages) /\ Ahead[i].m \in 1 .. Len(messages))
    BY <1>3, <2>1 DEF FramesInv, Orderly, InMessage
  <2>8. Orderly(Ahead', messages') /\ Ends(Ahead'[Len(Ahead')], messages')
    <3>1. Ahead # <<>> => Ends(Ahead[Len(Ahead)], messages')
      <4> SUFFICES ASSUME Ahead # <<>> PROVE Ends(Ahead[Len(Ahead)], messages')
        OBVIOUS
      <4>1. Len(Ahead) \in 1 .. Len(Ahead)
        BY <1>2
      <4> QED BY <2>1, <2>6, <4>1 DEF FramesInv
    <3>2. \A i \in 1 .. Len(Ahead) : Ahead[i].m < m
      BY <1>3, <2>7 DEF Upgrade
    <3>3. m \in Nat /\ u # <<>>
      BY <1>3, <2>2, EmptySeq
    <3>4. Orderly(Ahead \o u, messages') /\ Ends((Ahead \o u)[Len(Ahead \o u)], messages')
      <4> HIDE DEF m
      <4> QED BY <1>2, <2>2, <2>6, <3>1, <3>2, <3>3, OrderlyJoined
    <3> QED BY <2>4, <3>4
  <2>9. Phase'
    BY <1>1, <2>1 DEF PeerSends, Phase, Clear, frameVars
  <2>17. Unused => firstOp \in {None, OpOf(kind)}
    <3>1. Unused /\ firstOp \notin {None, Frames(kind)[1].op} => "leftover" \in situations'
      BY DEF PeerSends
    <3>2. Frames(kind)[1].op = OpOf(kind)
      BY <1>0, FrameTable
    <3> QED BY <3>1, <3>2 DEF Good
  <2>18. messages'[m].kind = kind
    BY <1>3
  <2>10. Ahead = <<>> => Ahead'[1].f = 1 /\ Ahead'[1].k = 1 /\ Ahead'[1] # Upgrade
    <3> SUFFICES ASSUME Ahead = <<>> PROVE Ahead'[1].f = 1 /\ Ahead'[1].k = 1 /\ Ahead'[1] # Upgrade
      OBVIOUS
    <3>1. 1 \in 1 .. Len(u) /\ Len(Ahead) + 1 = 1
      BY <1>2, <2>2
    <3>2. Ahead'[1] = [m |-> m, f |-> 1, k |-> 1]
      BY <2>2, <2>5, <3>1
    <3> QED BY <3>2 DEF Upgrade
  <2>11. Ahead # <<>> => Ahead'[1] = Ahead[1] /\ 1 \in 1 .. Len(Ahead)
    BY <1>2, <2>5
  <2>12. PeerUpgraded'
    BY <1>1, <1>3 DEF PeerUpgraded, PeerSends
  <2>13. Upgrading'
    BY <1>1, <2>1, <2>5, <2>10, <2>11, <2>12 DEF Upgrading, PeerSends
  <2>14. upgraded' => Fits'
    <3> SUFFICES ASSUME upgraded PROVE Fits'
      BY DEF PeerSends
    <3>1. Fits
      BY <2>1 DEF FramesInv
    <3>2. CASE Ahead = <<>>
      <4>1. Ahead'[1] = [m |-> m, f |-> 1, k |-> 1]
        <5>1. 1 \in 1 .. Len(u) /\ Len(Ahead) + 1 = 1
          BY <1>2, <2>2, <3>2
        <5> QED BY <2>2, <2>5, <5>1
      <4>2. calling \/ (Clear /\ firstOp \in {None, OpOf(kind)})
        BY <2>17, <3>1, <3>2 DEF Fits, Begin
      <4>3. Kind(Ahead[1])' = kind
        BY <2>18, <4>1 DEF Kind
      <4>4. AtStart(Ahead[1])'
        BY <4>1, <4>2, <4>3 DEF AtStart, Clear, PeerSends, frameVars
      <4> QED BY <2>5, <4>4 DEF Fits
    <3>3. CASE Ahead # <<>>
      <4>0. PICK t : t = Ahead[1]
        OBVIOUS
      <4>1. t # Upgrade /\ t.m \in 1 .. Len(messages) /\ Ahead'[1] = t
        BY <1>1, <2>1, <2>7, <2>11, <3>3, <4>0 DEF Upgrading
      <4>2. messages'[t.m] = messages[t.m]
        BY <1>3, <4>1
      <4>3. AtStart(t) \/ AtFragment(t) \/ InFrame(t)
        BY <3>1, <3>3, <4>0 DEF Fits
      <4>4. AtStart(t)' \/ AtFragment(t)' \/ InFrame(t)'
        BY <4>2, <4>3 DEF AtStart, AtFragment, InFrame, Clear, PeerSends, frameVars,
           Kind, FrameOf, ReadOf, KeyOf
      <4> QED BY <2>5, <4>1, <4>4 DEF Fits, AtStart, AtFragment, InFrame, Clear, Kind, FrameOf, ReadOf, KeyOf
    <3> QED BY <3>2, <3>3
  <2>15. FramesInv'
    BY <2>8, <2>14 DEF FramesInv
  <2>19. Leftover'
    <3> SUFFICES ASSUME ~upgraded, firstOp # None
                 PROVE  Len(Ahead') > 1 /\ firstOp = OpOf(messages'[Ahead'[2].m].kind)
      BY DEF Leftover, Kind, PeerSends, frameVars
    <3>1. Ahead # <<>> /\ Ahead[1] = Upgrade
      BY <1>1, <2>1 DEF Upgrading
    <3>2. CASE Len(Ahead) > 1 /\ firstOp = OpOf(Kind(Ahead[2]))
      <4>1. 2 \in 1 .. Len(Ahead) /\ 1 \in 1 .. Len(Ahead) - 1
        BY <1>2, <3>2
      <4>2. Ahead[2] # Upgrade
        <5>1. Follows(Ahead[1], Ahead[2], messages)
          BY <2>1, <4>1 DEF FramesInv, Orderly
        <5> QED BY <3>1, <5>1 DEF Follows, Ends, Upgrade
      <4>3. messages'[Ahead[2].m] = messages[Ahead[2].m]
        BY <1>3, <2>7, <4>1, <4>2
      <4>4. Len(Ahead') > 1 /\ Ahead'[2] = Ahead[2]
        BY <1>2, <2>2, <2>5, <4>1
      <4> QED BY <3>2, <4>3, <4>4 DEF Kind
    <3>3. CASE Len(Ahead) <= 1 /\ Unused
      <4>0. Len(Ahead) # 0
        BY <1>2, <3>1
      <4>1. Len(Ahead) = 1 /\ 1 \in 1 .. Len(u)
        <5>1. PICK a, b : a = Len(Ahead) /\ b = Len(u)
          OBVIOUS
        <5>2. a \in Nat /\ a <= 1 /\ a # 0 /\ b \in Nat \ {0}
          BY <1>2, <2>2, <3>3, <4>0, <5>1
        <5>3. a = 1 /\ 1 \in 1 .. b
          BY <5>2
        <5> QED BY <5>1, <5>3
      <4>2. Len(Ahead') > 1 /\ Ahead'[1 + 1] = u[1]
        BY <2>2, <2>5, <4>1
      <4>3. Ahead'[2].m = m
        BY <2>2, <4>2
      <4> QED BY <2>17, <2>18, <3>3, <4>2, <4>3
    <3> QED BY <1>1, <2>1, <3>2, <3>3 DEF Leftover
  <2>16. Given'
    <3>1. ASSUME NEW n \in 1 .. Len(Ahead')
          PROVE  Ahead'[n].m > Len(messages) \/ \E j \in 1 .. Len(Ahead) : Ahead'[n] = Ahead[j]
      <4>1. CASE n <= Len(Ahead)
        <5>1. n \in 1 .. Len(Ahead)
          BY <1>2, <4>1
        <5> QED BY <2>5, <5>1
      <4>2. CASE ~(n <= Len(Ahead))
        <5>1. n - Len(Ahead) \in 1 .. Len(u) /\ Len(Ahead) + (n - Len(Ahead)) = n
          BY <1>2, <2>2, <2>5, <4>2
        <5>2. Ahead'[n].m = m
          BY <2>2, <2>5, <5>1
        <5> QED BY <1>3, <5>2
      <4> QED BY <4>1, <4>2
    <3> QED BY <1>1, <1>4, <1>6, <2>1, <3>1, GivenKept
  <2> QED BY <1>1, <1>6, <2>9, <2>13, <2>15, <2>16, <2>19 DEF Inner
<1> QED BY <1>5, <1>6
-----------------------------------------------------------------------------
(* Reading a frame. *)

(* The tokens of the frame that are in this read, and the token after them. *)
LEMMA ReadOfFrame ==
    ASSUME Types, Good, Inner, InFrames, NEW t, t = input[1],
           NEW n \in Nat \ {0}, n <= Len(input), t.k + n - 1 <= Size(Kind(t))
    PROVE  /\ \A i \in 1 .. n : input[i] = [m |-> t.m, f |-> t.f, k |-> t.k + i - 1]
           /\ t.k + n - 1 < Size(Kind(t)) =>
                 n < Len(Ahead) /\ Ahead[n + 1] = [m |-> t.m, f |-> t.f, k |-> t.k + n]
           /\ t.k + n - 1 = Size(Kind(t)) /\ t.f < Parts(Kind(t)) =>
                 n < Len(Ahead) /\ Ahead[n + 1] = [m |-> t.m, f |-> t.f + 1, k |-> 1]
           /\ t.k + n - 1 = Size(Kind(t)) /\ t.f = Parts(Kind(t)) /\ n < Len(Ahead) =>
                 /\ Ahead[n + 1].f = 1 /\ Ahead[n + 1].k = 1
                 /\ \A j \in n + 1 .. Len(Ahead) : t.m < Ahead[j].m
           /\ n <= Len(Ahead)
<1>1. /\ input # <<>> /\ t # Upgrade /\ InMessage(t, messages) /\ Ahead[1] = t /\ Ahead # <<>>
      /\ Orderly(Ahead, messages) /\ Ends(Ahead[Len(Ahead)], messages)
  BY ParsingFacts
<1>2. /\ Len(input) \in 1 .. Len(Ahead) /\ (\A i \in 1 .. Len(input) : Ahead[i] = input[i])
  BY <1>1, AheadHeld DEF Types
<1>3. Ahead \in Seq(Token) /\ Len(Ahead) \in Nat
  BY AheadFacts DEF Types
<1>4. n \in Nat /\ n <= Len(Ahead) /\ \A i \in 1 .. n : Ahead[i] = input[i]
  BY <1>2, <1>3
<1>5. PICK u, history : u = Ahead /\ history = messages
  OBVIOUS
<1>6. /\ u \in Seq(Token) /\ Orderly(u, history) /\ u # <<>> /\ (u # <<>> => Ends(u[Len(u)], history))
      /\ t = u[1] /\ InMessage(t, history) /\ t # Upgrade /\ n \in Nat /\ n \in Nat \ {0}
      /\ n <= Len(u) /\ t.k + n - 1 <= Size(history[t.m].kind) /\ Kind(t) = history[t.m].kind
  BY <1>1, <1>3, <1>4, <1>5 DEF Kind
<1>7. \A i \in 1 .. n : u[i] = [m |-> t.m, f |-> t.f, k |-> t.k + i - 1]
  BY <1>6, RestOfFrame
<1>8. /\ t.k + n - 1 < Size(history[t.m].kind) =>
            /\ n < Len(u) /\ u[n + 1] = [m |-> t.m, f |-> t.f, k |-> t.k + n]
      /\ t.k + n - 1 = Size(history[t.m].kind) /\ t.f < Parts(history[t.m].kind) =>
            /\ n < Len(u) /\ u[n + 1] = [m |-> t.m, f |-> t.f + 1, k |-> 1]
      /\ t.k + n - 1 = Size(history[t.m].kind) /\ t.f = Parts(history[t.m].kind) /\ n < Len(u) =>
            /\ u[n + 1].f = 1 /\ u[n + 1].k = 1
            /\ \A j \in n + 1 .. Len(u) : t.m < u[j].m
  BY <1>6, AfterFrame, Zenon
<1> QED BY <1>4, <1>5, <1>6, <1>7, <1>8, Zenon

(* What has been read of the message with it. *)
LEMMA ReadOfMessage ==
    ASSUME Types, Good, Inner, InFrames, NEW t, t = input[1],
           NEW n \in Nat \ {0}, n <= Len(input), t.k + n - 1 <= Size(Kind(t)),
           t.k # HeaderSize, t.k = 1 => n >= HeaderSize,
           NEW from, from = IF t.k = 1 THEN HeaderSize + 1 ELSE 1,
           NEW all, all = ReadOf(t) \o SubSeq(input, from, n)
    PROVE  /\ t.k + n - 1 < Size(Kind(t)) => all = ReadOf([m |-> t.m, f |-> t.f, k |-> t.k + n])
           /\ t.k + n - 1 = Size(Kind(t)) /\ t.f < Parts(Kind(t)) =>
                 all = ReadOf([m |-> t.m, f |-> t.f + 1, k |-> 1])
           /\ t.k + n - 1 = Size(Kind(t)) /\ t.f = Parts(Kind(t)) => all = PayloadOf(t.m)
<1>1. t \in Token /\ InMessage(t, messages) /\ Kind(t) \in Handleable
  BY ParsingFacts
<1>2. PICK kind, size, parts, m, f, k, pay, c :
         /\ kind = Kind(t) /\ size = Size(Kind(t)) /\ parts = Parts(Kind(t))
         /\ m = t.m /\ f = t.f /\ k = t.k /\ pay = SubSeq(input, from, n) /\ c = ReadOf(t)
  OBVIOUS
<1>3. /\ m \in Nat /\ t = [m |-> m, f |-> f, k |-> k] /\ kind \in Handleable /\ kind = messages[m].kind
      /\ size = Size(kind) /\ parts = Parts(kind) /\ f \in 1 .. parts /\ k \in 1 .. size
      /\ k # HeaderSize
  BY <1>1, <1>2 DEF Token, InMessage, Kind
<1>4. k + n - 1 <= size /\ (k = 1 => n >= HeaderSize) /\ from = (IF k = 1 THEN HeaderSize + 1 ELSE 1)
  BY <1>2
<1>5. \A i \in 1 .. n : input[i] = [m |-> m, f |-> f, k |-> k + i - 1]
  BY <1>2, ReadOfFrame
<1>6. input \in Seq(Token) /\ n <= Len(input) /\ n \in Nat \ {0}
  BY AheadFacts DEF Types
<1>7. c = ReadOf([m |-> m, f |-> f, k |-> k]) /\ pay = SubSeq(input, from, n) /\ all = c \o pay
  BY <1>2, <1>3
<1>8. HasRead(m, size, parts, f, k, n, all)
  <2>1. Gathers(m, kind, size, parts, f, k, n, input, from, c, pay, all)
    BY <1>3, <1>4, <1>5, <1>6, <1>7 DEF Gathers
  <2> QED BY <2>1, Gathered
<1> QED BY <1>2, <1>8 DEF HasRead

(* The read ends inside a frame: what it has of it is kept. *)
LEMMA FrameGoesOn ==
    ASSUME Types, Good, Inner, [Next]_vars, InFrames, NEW t, t = input[1],
           NEW n, n = Len(input), t.k # HeaderSize, t.k = 1 => n >= HeaderSize,
           t.k + n - 1 < Size(Kind(t)), continuation = ReadOf(t),
           NEW from, from = IF t.k = 1 THEN HeaderSize + 1 ELSE 1,
           continuation' = continuation \o SubSeq(input, from, n),
           pendingContent' = Size(Kind(t)) - (t.k + n) + 1, finalFrame' = FrameOf(t).fin,
           firstOp' = OpOf(Kind(t)), serverSide => maskingKey' = KeyOf(t),
           input' = <<>>, ParseUnchanged,
           UNCHANGED <<upgraded, frameReadTime, open, stream, situations, calling, delivered>>
    PROVE  Inner'
<1>1. /\ loop = "running" /\ ~calling /\ input # <<>> /\ polling = "frames"
      /\ open /\ upgraded /\ prepended = <<>> /\ (frameReadTime \/ "records" \in situations)
      /\ t \in Token /\ t # Upgrade /\ InMessage(t, messages) /\ Ahead[1] = t /\ Ahead # <<>>
      /\ Kind(t) \in Handleable
      /\ Orderly(Ahead, messages) /\ Ends(Ahead[Len(Ahead)], messages)
  BY ParsingFacts
<1>2. /\ Len(input) \in 1 .. Len(Ahead) /\ (\A i \in 1 .. Len(input) : Ahead[i] = input[i])
      /\ input \in Seq(Token) /\ n \in Nat \ {0}
  BY <1>1, AheadHeld DEF Types
<1>3. /\ messages' = messages /\ serverSide' = serverSide /\ loop' = loop /\ connection' = connection
      /\ prepended' = prepended /\ polling' = polling
  BY DEF ParseUnchanged
<1>4. Ahead \in Seq(Token) /\ Len(Ahead) \in Nat
  BY AheadFacts DEF Types
<1>5. /\ t.m \in Nat /\ t.f \in 1 .. Parts(Kind(t)) /\ t.k \in 1 .. Size(Kind(t))
      /\ t = [m |-> t.m, f |-> t.f, k |-> t.k] /\ t.f \in Nat /\ t.k \in Nat
      /\ Size(Kind(t)) \in Nat
  <2>1. t.m \in Nat /\ t = [m |-> t.m, f |-> t.f, k |-> t.k] /\ t.f \in Nat /\ t.k \in Nat
    BY <1>1 DEF Token
  <2>2. Size(Kind(t)) \in Nat
    BY DEF Size, Pieces, HeaderSize
  <2> QED BY <1>1, <2>1, <2>2 DEF InMessage, Kind
<1>8. PICK next : next = [m |-> t.m, f |-> t.f, k |-> t.k + n]
  OBVIOUS
<1>9. n < Len(Ahead) /\ Ahead[n + 1] = next
  <2>1. n <= Len(input) /\ t.k + n - 1 <= Size(Kind(t))
    BY <1>2, <1>5
  <2> QED BY <1>2, <1>8, <2>1, ReadOfFrame
<1>10. continuation' = ReadOf(next)
  <2>1. n <= Len(input) /\ t.k + n - 1 <= Size(Kind(t))
    BY <1>2, <1>5
  <2> QED BY <1>2, <1>8, <2>1, ReadOfMessage
<1>11. input' = SubSeq(input, n + 1, Len(input))
  <2>1. Len(SubSeq(input, n + 1, Len(input))) = 0 /\ SubSeq(input, n + 1, Len(input)) \in Seq(Token)
    BY <1>2, Cut
  <2> QED BY <2>1, EmptySeq
<1>12. /\ Ahead' \in Seq(Token) /\ Len(Ahead') = Len(Ahead) - n
       /\ \A i \in 1 .. Len(Ahead') : Ahead'[i] = Ahead[i + n]
       /\ (Ahead' = <<>>) <=> (Len(Ahead') = 0)
  <2>1. n \in Nat /\ n <= Len(input) /\ TokenTypes /\ UNCHANGED <<prepended, stream>>
    BY <1>2, <1>3 DEF Types
  <2> QED BY <1>1, <1>11, <2>1, AheadTaken, Zenon
<1>13. Ahead' # <<>> /\ Ahead'[1] = next
  <2>1. 1 \in 1 .. Len(Ahead') /\ 1 + n = n + 1
    BY <1>2, <1>4, <1>9, <1>12
  <2> QED BY <1>9, <1>12, <2>1
<1>14. Orderly(Ahead', messages)
  <2>1. n \in 0 .. Len(Ahead)
    BY <1>2, <1>4
  <2> QED BY <1>1, <1>4, <1>12, <2>1, OrderlySuffix
<1>15. Ends(Ahead'[Len(Ahead')], messages)
  <2>1. Len(Ahead') \in 1 .. Len(Ahead') /\ Len(Ahead') + n = Len(Ahead)
    BY <1>2, <1>4, <1>9, <1>12
  <2> QED BY <1>1, <1>12, <2>1
<1>16. InFrame(next)'
  <2>1. next.m = t.m /\ next.f = t.f /\ next.k = t.k + n
    BY <1>8
  <2>2. next.k > HeaderSize
    BY <1>2, <1>5, <2>1 DEF HeaderSize
  <2>3. /\ Kind(next)' = Kind(t) /\ FrameOf(next)' = FrameOf(t) /\ KeyOf(next)' = KeyOf(t)
        /\ ReadOf(next)' = ReadOf(next)
    BY <1>3, <2>1 DEF Kind, FrameOf, KeyOf, ReadOf
  <2>4. ~calling'
    BY <1>1
  <2>5. /\ pendingContent' = Size(Kind(t)) - next.k + 1
    BY <2>1
  <2> QED BY <1>3, <1>10, <2>2, <2>3, <2>4, <2>5 DEF InFrame
<1>17. FramesInv'
  <2>1. Fits'
    BY <1>13, <1>16 DEF Fits, InFrame, Kind, FrameOf, KeyOf, ReadOf
  <2> QED BY <1>3, <1>14, <1>15, <2>1 DEF FramesInv
<1>18. Phase'
  BY <1>1, <1>3 DEF Phase
<1>19. Upgrading'
  <2>1. PeerUpgraded' <=> PeerUpgraded
    BY <1>3 DEF PeerUpgraded
  <2>2. PeerUpgraded
    BY <1>1 DEF Inner, Upgrading
  <2>3. next # Upgrade
    BY <1>2, <1>5, <1>8 DEF Upgrade
  <2> QED BY <1>1, <1>13, <2>1, <2>2, <2>3 DEF Upgrading
<1>20. Given'
  <2>1. \A j \in 1 .. Len(Ahead') : j + n \in 1 .. Len(Ahead) /\ Ahead'[j] = Ahead[j + n]
    <3>1. \A j \in 1 .. Len(Ahead) - n : j + n \in 1 .. Len(Ahead)
      BY <1>2, <1>4
    <3> QED BY <1>12, <3>1, Zenon
  <2> QED BY <1>1, <2>1, GivenKept DEF Inner
<1>21. Leftover'
  BY <1>1 DEF Leftover
<1> QED BY <1>1, <1>3, <1>17, <1>18, <1>19, <1>20, <1>21 DEF Inner
(* What is ahead once n tokens of the read are consumed. *)
LEMMA AheadAfter ==
    ASSUME Types, Good, Inner, InFrames, NEW n \in Nat \ {0}, n <= Len(input),
           input' = SubSeq(input, n + 1, Len(input)), UNCHANGED <<prepended, stream>>
    PROVE  /\ Orderly(Ahead', messages) /\ (Ahead' # <<>> => Ends(Ahead'[Len(Ahead')], messages))
           /\ Ahead' # <<>> => n < Len(Ahead) /\ Ahead'[1] = Ahead[n + 1]
           /\ n < Len(Ahead) => Ahead' # <<>>
           /\ \A j \in 1 .. Len(Ahead') : j + n \in n + 1 .. Len(Ahead) /\ Ahead'[j] = Ahead[j + n]
<1>0. PICK t : t = input[1]
  OBVIOUS
<1>1. /\ input # <<>> /\ prepended = <<>> /\ Ahead # <<>>
      /\ Orderly(Ahead, messages) /\ Ends(Ahead[Len(Ahead)], messages)
  BY <1>0, ParsingFacts
<1>2. /\ Ahead' \in Seq(Token) /\ Len(Ahead') = Len(Ahead) - n /\ Len(input) \in 1 .. Len(Ahead)
      /\ \A i \in 1 .. Len(Ahead') : Ahead'[i] = Ahead[i + n]
      /\ (Ahead' = <<>>) <=> (Len(Ahead') = 0)
  BY <1>1, AheadTaken DEF Types
<1>3. Ahead \in Seq(Token) /\ Len(Ahead) \in Nat /\ n \in 0 .. Len(Ahead)
  <2>1. Ahead \in Seq(Token) /\ Len(Ahead) \in Nat
    BY AheadFacts DEF Types
  <2> QED BY <1>2, <2>1
<1>4. Orderly(Ahead', messages)
  BY <1>1, <1>2, <1>3, OrderlySuffix
<1>5. \A j \in 1 .. Len(Ahead') : j + n \in n + 1 .. Len(Ahead) /\ Ahead'[j] = Ahead[j + n]
  <2>1. \A j \in 1 .. Len(Ahead) - n : j + n \in n + 1 .. Len(Ahead)
    BY <1>3
  <2> QED BY <1>2, <2>1
<1>6. ASSUME Ahead' # <<>>
      PROVE  /\ Ends(Ahead'[Len(Ahead')], messages)
             /\ n < Len(Ahead) /\ Ahead'[1] = Ahead[n + 1]
  <2>1. /\ Len(Ahead') \in 1 .. Len(Ahead') /\ Len(Ahead') + n = Len(Ahead) /\ n < Len(Ahead)
        /\ 1 \in 1 .. Len(Ahead') /\ 1 + n = n + 1
    BY <1>2, <1>3, <1>6
  <2> QED BY <1>1, <1>2, <2>1
<1>7. n < Len(Ahead) => Ahead' # <<>>
  BY <1>2, <1>3
<1> QED BY <1>4, <1>5, <1>6, <1>7

(* A fragment has been read: the next frame of its message follows. *)
LEMMA FragmentKept ==
    ASSUME Types, Good, Inner, [Next]_vars, InFrames, NEW t, t = input[1],
           NEW n \in Nat \ {0}, n <= Len(input), t.k + n - 1 = Size(Kind(t)),
           t.f < Parts(Kind(t)), continuation' = ReadOf([m |-> t.m, f |-> t.f + 1, k |-> 1]),
           pendingContent' = 0, firstOp' = OpOf(Kind(t)),
           input' = SubSeq(input, n + 1, Len(input)), ParseUnchanged,
           UNCHANGED <<upgraded, frameReadTime, open, stream, situations, calling, delivered>>
    PROVE  Inner'
<1>1. /\ loop = "running" /\ ~calling /\ input # <<>> /\ polling = "frames"
      /\ open /\ upgraded /\ prepended = <<>> /\ (frameReadTime \/ "records" \in situations)
      /\ t \in Token /\ InMessage(t, messages) /\ Kind(t) \in Handleable /\ Ahead # <<>>
  BY ParsingFacts
<1>2. /\ messages' = messages /\ serverSide' = serverSide /\ loop' = loop /\ connection' = connection
      /\ prepended' = prepended /\ polling' = polling
  BY DEF ParseUnchanged
<1>3. PICK next : next = [m |-> t.m, f |-> t.f + 1, k |-> 1]
  OBVIOUS
<1>4. n < Len(Ahead) /\ Ahead[n + 1] = next
  <2>1. t.k + n - 1 <= Size(Kind(t))
    BY DEF Size, Pieces, HeaderSize
  <2> QED BY <1>3, <2>1, ReadOfFrame
<1>5. /\ Orderly(Ahead', messages) /\ (Ahead' # <<>> => Ends(Ahead'[Len(Ahead')], messages))
      /\ Ahead' # <<>> /\ Ahead'[1] = next
      /\ \A j \in 1 .. Len(Ahead') : j + n \in n + 1 .. Len(Ahead) /\ Ahead'[j] = Ahead[j + n]
  BY <1>2, <1>4, AheadAfter
<1>6. AtFragment(next)'
  <2>1. next.f > 1 /\ next.k = 1
    BY <1>1, <1>3 DEF Token, InMessage
  <2>2. OpOf(Kind(t)) = "Text"
    BY <1>1 DEF InMessage, Token, Parts, OpOf, Handleable, Kind
  <2>3. ReadOf(next)' = ReadOf(next)
    BY DEF ReadOf
  <2> QED BY <1>1, <1>3, <2>1, <2>2, <2>3 DEF AtFragment
<1>7. FramesInv'
  <2>1. Fits'
    BY <1>5, <1>6 DEF Fits, AtFragment, ReadOf
  <2> QED BY <1>2, <1>5, <2>1 DEF FramesInv
<1>8. Phase'
  BY <1>1, <1>2 DEF Phase
<1>9. Upgrading'
  <2>1. PeerUpgraded' /\ next # Upgrade
    BY <1>1, <1>2, <1>3 DEF Inner, Upgrading, PeerUpgraded, Upgrade
  <2> QED BY <1>1, <1>5, <2>1 DEF Upgrading
<1>10. Given'
  <2>1. \A j \in 1 .. Len(Ahead') : \E i \in 1 .. Len(Ahead) : Ahead'[j] = Ahead[i]
    <3>1. n + 1 .. Len(Ahead) \subseteq 1 .. Len(Ahead)
      OBVIOUS
    <3> QED BY <1>5, <3>1
  <2> QED BY <1>1, <2>1, GivenKept DEF Inner
<1>11. Leftover'
  BY <1>1 DEF Leftover
<1> QED BY <1>1, <1>2, <1>7, <1>8, <1>9, <1>10, <1>11 DEF Inner

(* The connection is lost in a frame. *)
LEMMA FrameLost ==
    ASSUME Types, Good, Inner, [Next]_vars, InFrames, Lose, input' = <<>>, ParseUnchanged,
           UNCHANGED <<situations, calling, delivered>>
    PROVE  Inner'
<1>1. loop = "running" /\ ~calling /\ Phase /\ Given
  BY DEF InFrames, Parsing, Inner
<1>2. Phase'
  BY <1>1 DEF Lose, ResetWebsocketState, ParseUnchanged, Phase
<1>3. Upgrading' /\ Leftover' /\ ~open'
  BY DEF Lose, Upgrading, Leftover
<1>4. Given'
  BY <1>1, <1>3, GivenKept
<1> QED BY <1>1, <1>2, <1>3, <1>4 DEF Inner, ParseUnchanged
(* The payload of a message is unmasked with the key of its last frame. *)
LEMMA PayloadUnmasked ==
    ASSUME Types, NEW t \in Token, InMessage(t, messages), Kind(t) \in Handleable,
           t.f = Parts(Kind(t)), NEW key, serverSide => key = KeyOf(t),
           serverSide => Kind(t) \in {"text", "empty", "close"}
    PROVE  Unmasked(PayloadOf(t.m), key)
<1> SUFFICES ASSUME NEW i \in DOMAIN PayloadOf(t.m), serverSide
             PROVE  KeyOf(PayloadOf(t.m)[i]) = key
  BY DEF Unmasked
<1>1. t.m \in Nat /\ messages[t.m].kind \in Handleable /\ messages[t.m].kind # "fragmented" /\ t.f = 1
  BY DEF Token, Kind, Parts
<1>2. /\ PayloadOf(t.m) \in Seq(Token)
      /\ \A j \in 1 .. Len(PayloadOf(t.m)) : PayloadOf(t.m)[j] = [m |-> t.m, f |-> 1, k |-> j + 2]
  BY <1>1, PayloadTable
<1>3. i \in 1 .. Len(PayloadOf(t.m))
  BY <1>2
<1>4. PayloadOf(t.m)[i] = [m |-> t.m, f |-> 1, k |-> i + 2]
  BY <1>2, <1>3
<1> QED BY <1>1, <1>4 DEF KeyOf

(* One more delivery, of a later message. *)
Adds(from, d, m) ==
    /\ Gave(from) /\ m \in Content /\ Whole(d, m) /\ \A i \in DOMAIN delivered : from[i] < m
    /\ delivered' = Append(delivered, d) /\ messages' = messages /\ situations' = situations
Longer(from, m, longer) ==
    /\ Gave(longer)'
    /\ \A i \in DOMAIN delivered' : (i \in DOMAIN delivered /\ longer[i] = from[i]) \/ longer[i] = m

LEMMA GaveMore ==
    ASSUME Types, NEW from, NEW d, NEW m, Adds(from, d, m)
    PROVE  \E longer : Longer(from, m, longer)
<1> USE DEF Adds
<1>0. PICK longer : longer = [i \in DOMAIN delivered' |-> IF i \in DOMAIN delivered THEN from[i] ELSE m]
  OBVIOUS
<1>1. /\ delivered \in Seq(Delivery) /\ DOMAIN delivered = 1 .. Len(delivered) /\ Len(delivered) \in Nat
      /\ DOMAIN delivered' = 1 .. Len(delivered) + 1
      /\ \A i \in 1 .. Len(delivered) : delivered'[i] = delivered[i]
      /\ delivered'[Len(delivered) + 1] = d
  BY DEF Types, HistoryTypes
<1>2. \A j : PayloadOf(j)' = PayloadOf(j)
  BY SamePayload
<1>3. \A e, j : Whole(e, j)' <=> Whole(e, j)
  BY <1>2 DEF Whole
<1>4. Content' = Content /\ from \in [DOMAIN delivered -> Content]
  BY DEF Content, Gave
<1>5. longer \in [DOMAIN delivered' -> Content']
  BY <1>0, <1>4
<1>6. ASSUME NEW i \in DOMAIN delivered' PROVE Whole(delivered'[i], longer[i])
  <2>1. CASE i \in 1 .. Len(delivered)
    BY <1>0, <1>1, <2>1 DEF Gave
  <2>2. CASE i = Len(delivered) + 1
    <3>1. i \notin DOMAIN delivered
      BY <1>1, <2>2
    <3> QED BY <1>0, <1>1, <2>2, <3>1
  <2> QED BY <1>1, <2>1, <2>2
<1>7. ASSUME NEW i \in DOMAIN delivered', NEW j \in DOMAIN delivered', i < j
      PROVE  longer[i] < longer[j]
  <2>1. i \in DOMAIN delivered /\ longer[i] = from[i]
    BY <1>0, <1>1, <1>7
  <2>2. CASE j \in DOMAIN delivered
    BY <1>0, <1>7, <2>1, <2>2 DEF Gave
  <2>3. CASE j \notin DOMAIN delivered
    BY <1>0, <2>1, <2>3
  <2> QED BY <2>2, <2>3
<1>8. Gave(longer)'
  <2>1. \A i \in DOMAIN delivered' : Whole(delivered[i], longer[i])'
    BY <1>3, <1>6 DEF Whole
  <2> QED BY <1>5, <1>7, <2>1 DEF Gave
<1>9. \A i \in DOMAIN delivered' : (i \in DOMAIN delivered /\ longer[i] = from[i]) \/ longer[i] = m
  BY <1>0
<1> QED BY <1>8, <1>9 DEF Longer

LEMMA MessageGiven ==
    ASSUME Types, Good, Inner, [Next]_vars, InFrames, NEW t, t = input[1],
           NEW n \in Nat \ {0}, n <= Len(input), t.k + n - 1 = Size(Kind(t)),
           t.f = Parts(Kind(t)), NEW op, op = OpOf(Kind(t)), op \in {"Text", "Ping"},
           NEW payload, payload = PayloadOf(t.m), NEW key, serverSide => key = KeyOf(t),
           CallHandler(op, payload, key), pendingContent' = 0,
           input' = SubSeq(input, n + 1, Len(input)), ParseUnchanged,
           UNCHANGED <<upgraded, frameReadTime, open, stream, situations>>
    PROVE  Inner'
<1>1. /\ loop = "running" /\ ~calling /\ input # <<>> /\ polling = "frames"
      /\ open /\ upgraded /\ prepended = <<>> /\ (frameReadTime \/ "records" \in situations)
      /\ t \in Token /\ t # Upgrade /\ InMessage(t, messages) /\ Ahead[1] = t /\ Ahead # <<>>
      /\ Kind(t) \in Handleable /\ (serverSide => Kind(t) \in {"text", "empty", "close"})
  BY ParsingFacts
<1>2. /\ messages' = messages /\ serverSide' = serverSide /\ loop' = loop /\ connection' = connection
      /\ prepended' = prepended /\ polling' = polling /\ calling'
  BY DEF ParseUnchanged, CallHandler
<1>3. /\ Orderly(Ahead', messages) /\ (Ahead' # <<>> => Ends(Ahead'[Len(Ahead')], messages))
      /\ Ahead' # <<>> => n < Len(Ahead) /\ Ahead'[1] = Ahead[n + 1]
      /\ \A j \in 1 .. Len(Ahead') : j + n \in n + 1 .. Len(Ahead) /\ Ahead'[j] = Ahead[j + n]
  BY <1>2, AheadAfter
<1>4. /\ n < Len(Ahead) => /\ Ahead[n + 1].f = 1 /\ Ahead[n + 1].k = 1
                           /\ \A j \in n + 1 .. Len(Ahead) : t.m < Ahead[j].m
      /\ n <= Len(Ahead)
  <2>1. t.k + n - 1 <= Size(Kind(t))
    BY DEF Size, Pieces, HeaderSize
  <2> QED BY <2>1, ReadOfFrame
<1>5. FramesInv'
  <2>1. Fits'
    <3>1. Ahead' # <<>> => Ahead'[1].f = 1 /\ Ahead'[1].k = 1
      BY <1>3, <1>4
    <3> QED BY <1>2, <3>1 DEF Fits, AtStart
  <2> QED BY <1>2, <1>3, <2>1 DEF FramesInv
<1>6. Phase'
  BY <1>1, <1>2 DEF Phase
<1>7. Upgrading'
  <2>1. PeerUpgraded'
    BY <1>1, <1>2 DEF Inner, Upgrading, PeerUpgraded
  <2>2. Ahead' # <<>> => Ahead'[1] # Upgrade
    BY <1>3, <1>4 DEF Upgrade
  <2> QED BY <1>1, <2>1, <2>2 DEF Upgrading
<1> DEFINE d == [op |-> op, payload |-> payload, open |-> open', timed |-> frameReadTime',
                 plain |-> IF op = "Text" THEN Unmasked(payload, key)
                           ELSE ~serverSide \/ payload = <<>>]
<1>8. delivered' = Append(delivered, d)
  BY DEF CallHandler
<1>9. Whole(d, t.m) /\ t.m \in Content
  <2>1. t.m \in DOMAIN messages /\ Kind(t) = messages[t.m].kind
    BY <1>1 DEF InMessage, Kind
  <2>2. Kind(t) # "close" /\ Kind(t) # None
    BY <1>1, WebSocketAssumption DEF OpOf, Handleable
  <2>3. op = IF Kind(t) = "ping" THEN "Ping" ELSE "Text"
    BY <2>2 DEF OpOf
  <2>4. Unmasked(payload, key)
    BY <1>1, PayloadUnmasked
  <2>5. op # "Text" => ~serverSide
    BY <1>1, <2>3
  <2>6. d.plain
    BY <2>4, <2>5
  <2>7. d.payload = PayloadOf(t.m) /\ d.open /\ (d.timed \/ "records" \in situations) /\ d.op = op
    BY <1>1
  <2> HIDE DEF d
  <2> QED BY <2>1, <2>2, <2>3, <2>6, <2>7 DEF Whole, Content
<1> HIDE DEF d
<1>10. PICK from : Gave(from) /\ Before(from)
  BY <1>1 DEF Inner, Given
<1>11. \A i \in DOMAIN delivered : from[i] < t.m
  <2>1. 1 \in 1 .. Len(Ahead)
    BY <1>1, AheadFacts DEF Types
  <2> QED BY <1>1, <1>10, <2>1 DEF Before
<1>12. PICK longer : Longer(from, t.m, longer)
  <2>1. Adds(from, d, t.m)
    BY <1>2, <1>8, <1>9, <1>10, <1>11 DEF Adds
  <2> QED BY <2>1, GaveMore
<1>13. /\ Gave(longer)'
       /\ \A i \in DOMAIN delivered' : (i \in DOMAIN delivered /\ longer[i] = from[i]) \/ longer[i] = t.m
  BY <1>12 DEF Longer
<1>14. Before(longer)'
  <2> SUFFICES ASSUME NEW i \in DOMAIN delivered', NEW j \in 1 .. Len(Ahead'), Ahead'[j] # Upgrade
               PROVE  longer[i] < Ahead'[j].m
    BY DEF Before
  <2>1. j + n \in n + 1 .. Len(Ahead) /\ Ahead'[j] = Ahead[j + n]
    BY <1>3
  <2>2. j + n \in 1 .. Len(Ahead) /\ n < Len(Ahead)
    <3>1. Len(Ahead) \in Nat
      BY AheadFacts DEF Types
    <3> QED BY <2>1, <3>1
  <2>3. CASE i \in DOMAIN delivered /\ longer[i] = from[i]
    BY <1>10, <2>1, <2>2, <2>3, SMTT(30) DEF Before
  <2>4. CASE longer[i] = t.m
    BY <1>4, <2>1, <2>2, <2>4
  <2> QED BY <1>13, <2>3, <2>4
<1>15. Given'
  BY <1>13, <1>14 DEF Given
<1>16. Leftover'
  BY <1>1 DEF Leftover
<1> QED BY <1>1, <1>2, <1>5, <1>6, <1>7, <1>15, <1>16 DEF Inner

(* The frame has been read to its end. *)
LEMMA FrameDone ==
    ASSUME Types, Good, Inner, [Next]_vars, Good', InFrames, NEW t, t = input[1],
           NEW n \in Nat \ {0}, n <= Len(input), t.k + n - 1 = Size(Kind(t)),
           t.k # HeaderSize, t.k = 1 => n >= HeaderSize, continuation = ReadOf(t),
           NEW from, from = IF t.k = 1 THEN HeaderSize + 1 ELSE 1,
           NEW key, serverSide => key = KeyOf(t), ParseUnchanged,
           FrameEnds(FrameOf(t).fin, OpOf(Kind(t)), SubSeq(input, from, n), key,
                     SubSeq(input, n + 1, Len(input)))
    PROVE  Inner'
<1>1. t \in Token /\ InMessage(t, messages) /\ Kind(t) \in Handleable /\ t.f \in 1 .. Parts(Kind(t))
  BY ParsingFacts DEF InMessage, Kind
<1>2. PICK fin, op, pay, rest, all :
         /\ fin = FrameOf(t).fin /\ op = OpOf(Kind(t)) /\ pay = SubSeq(input, from, n)
         /\ rest = SubSeq(input, n + 1, Len(input)) /\ all = continuation \o pay
  OBVIOUS
<1>3. FrameEnds(fin, op, pay, key, rest)
  BY <1>2
<1>4. fin <=> t.f = Parts(Kind(t))
  <2>1. Kind(t) \in AllKinds /\ Kind(t) # "interrupted" /\ FrameOf(t) = Frames(Kind(t))[t.f]
    BY <1>1 DEF Handleable, AllKinds, FrameOf, Kind
  <2> QED BY <1>1, <1>2, <2>1, FrameTable
<1>5. /\ t.f < Parts(Kind(t)) => all = ReadOf([m |-> t.m, f |-> t.f + 1, k |-> 1])
      /\ t.f = Parts(Kind(t)) => all = PayloadOf(t.m)
  <2>1. t.k + n - 1 <= Size(Kind(t))
    BY DEF Size, Pieces, HeaderSize
  <2>2. all = ReadOf(t) \o SubSeq(input, from, n)
    BY <1>2
  <2> QED BY <2>1, <2>2, ReadOfMessage
<1>6. CASE ~fin
  <2>1. /\ continuation' = all /\ pendingContent' = 0 /\ firstOp' = op /\ input' = rest
        /\ UNCHANGED <<upgraded, frameReadTime, open, stream, situations, calling, delivered>>
    BY <1>2, <1>3, <1>6 DEF FrameEnds
  <2>2. t.f < Parts(Kind(t))
    BY <1>1, <1>4, <1>6 DEF Parts
  <2> QED BY <1>2, <1>5, <2>1, <2>2, FragmentKept
<1>7. CASE fin /\ op \in {"ClosedConnection", "Continuation"}
  <2>1. Lose /\ input' = <<>> /\ UNCHANGED <<situations, calling, delivered>>
    BY <1>3, <1>7 DEF FrameEnds
  <2> QED BY <2>1, FrameLost
<1>8. CASE /\ fin /\ op \in {"Text", "Ping"} /\ pendingContent' = 0 /\ input' = rest
           /\ UNCHANGED <<upgraded, frameReadTime, open, stream, situations>>
           /\ CallHandler(op, all, key)
  BY <1>2, <1>4, <1>5, <1>8, MessageGiven
<1>9. CASE situations' = situations \union {"pongLost"}
  BY <1>9 DEF Good
<1> QED BY <1>2, <1>3, <1>6, <1>7, <1>8, <1>9 DEF FrameEnds
LEMMA NextFrameStep ==
    ASSUME Types, Good, Inner, [Next]_vars, Good', NextFrame
    PROVE  Inner'
<1>1. PICK t, n, size, key, op, from :
         /\ t = input[1] /\ n = Len(input) /\ size = HeaderSize + FrameOf(t).size
         /\ key = (IF serverSide THEN KeyOf(t) ELSE maskingKey)
         /\ op = (IF firstOp = None THEN FrameOf(t).op ELSE firstOp)
         /\ from = HeaderSize + 1
  OBVIOUS
<1>2. /\ InFrames /\ pendingContent = 0 /\ n >= 2 /\ t.k = 1 /\ ParseUnchanged
      /\ \/ /\ n < size
            /\ pendingContent' = size - n
            /\ finalFrame' = FrameOf(t).fin /\ firstOp' = op /\ maskingKey' = key
            /\ continuation' = continuation \o SubSeq(input, from, n)
            /\ input' = <<>>
            /\ UNCHANGED <<upgraded, handshake, frameReadTime, open, stream, situations,
                           calling, delivered>>
         \/ /\ n >= size
            /\ FrameEnds(FrameOf(t).fin, op, SubSeq(input, from, size), key,
                         SubSeq(input, size + 1, Len(input)))
  BY <1>1 DEF NextFrame, AtFrame, HeaderSize
<1>3. /\ ~calling /\ input # <<>> /\ InMessage(t, messages) /\ Kind(t) \in Handleable /\ t \in Token
      /\ AtStart(t) \/ AtFragment(t) \/ InFrame(t)
  BY <1>1, <1>2, ParsingFacts
<1>4. n \in Nat \ {0} /\ n <= Len(input)
  BY <1>1, <1>3, AheadHeld DEF Types
<1>5. Kind(t) \in AllKinds /\ t.f \in 1 .. Parts(Kind(t)) /\ FrameOf(t) = Frames(Kind(t))[t.f]
  BY <1>3 DEF InMessage, FrameOf, Kind
<1>6. size = Size(Kind(t)) /\ size \in Nat /\ size >= 2 /\ (t.f = 1 => FrameOf(t).op = OpOf(Kind(t)))
      /\ FrameOf(t).op # None
  <2>1. size = Size(Kind(t)) /\ FrameOf(t).op \in Ops
    BY <1>1, <1>5, FrameTable DEF Size
  <2>2. size \in Nat /\ size >= 2
    BY <2>1 DEF Size, Pieces, HeaderSize
  <2>3. t.f = 1 => FrameOf(t).op = OpOf(Kind(t))
    BY <1>5, FrameTable
  <2> QED BY <2>1, <2>2, <2>3, WebSocketAssumption DEF Ops
<1>7. continuation = ReadOf(t) /\ op = OpOf(Kind(t))
  <2>1. CASE AtStart(t)
    <3>1. t.f = 1 /\ Clear /\ firstOp \in {None, OpOf(Kind(t))}
      BY <1>3, <2>1 DEF AtStart
    <3> QED BY <1>1, <1>2, <1>6, <3>1 DEF Clear, ReadOf, HeaderSize
  <2>2. CASE AtFragment(t)
    <3>1. t.f > 1 /\ firstOp = "Text" /\ continuation = ReadOf(t)
      BY <2>2 DEF AtFragment
    <3>2. Kind(t) = "fragmented"
      BY <1>3, <1>5, <3>1 DEF Parts, Handleable
    <3>3. OpOf(Kind(t)) = "Text"
      BY <3>2 DEF OpOf
    <3>4. "Text" # None
      BY WebSocketAssumption
    <3> QED BY <1>1, <3>1, <3>3, <3>4
  <2>3. ~InFrame(t)
    BY <1>2 DEF InFrame, HeaderSize
  <2> QED BY <1>3, <2>1, <2>2, <2>3
<1>8. /\ from = (IF t.k = 1 THEN HeaderSize + 1 ELSE 1) /\ t.k # HeaderSize
      /\ serverSide => key = KeyOf(t)
  BY <1>1, <1>2 DEF HeaderSize
<1>9. CASE n < size
  <2>1. /\ pendingContent' = Size(Kind(t)) - (t.k + n) + 1
        /\ finalFrame' = FrameOf(t).fin /\ firstOp' = OpOf(Kind(t)) /\ maskingKey' = key
        /\ continuation' = continuation \o SubSeq(input, from, n)
        /\ input' = <<>>
        /\ UNCHANGED <<upgraded, frameReadTime, open, stream, situations, calling, delivered>>
    <3>1. ~(n >= size)
      BY <1>4, <1>6, <1>9
    <3>2. size - n = size - (1 + n) + 1
      BY <1>4, <1>6
    <3> QED BY <1>2, <1>6, <1>7, <3>1, <3>2
  <2>2. /\ t.k + n - 1 < Size(Kind(t)) /\ (t.k = 1 => n >= HeaderSize)
        /\ serverSide => maskingKey' = KeyOf(t)
    BY <1>2, <1>4, <1>6, <1>8, <1>9, <2>1 DEF HeaderSize
  <2> QED BY <1>1, <1>2, <1>7, <1>8, <2>1, <2>2, FrameGoesOn
<1>10. CASE ~(n < size)
  <2>1. FrameEnds(FrameOf(t).fin, OpOf(Kind(t)), SubSeq(input, from, size), key,
                  SubSeq(input, size + 1, Len(input)))
    BY <1>2, <1>7, <1>10
  <2>2. /\ size \in Nat \ {0} /\ size <= Len(input) /\ t.k + size - 1 = Size(Kind(t))
        /\ (t.k = 1 => size >= HeaderSize)
    BY <1>1, <1>2, <1>4, <1>6, <1>10 DEF HeaderSize
  <2> QED BY <1>1, <1>2, <1>7, <1>8, <2>1, <2>2, FrameDone
<1> QED BY <1>9, <1>10

LEMMA PendingFrameStep ==
    ASSUME Types, Good, Inner, [Next]_vars, Good', PendingFrame
    PROVE  Inner'
<1>1. PICK t, n, from, p : t = input[1] /\ n = Len(input) /\ from = 1 /\ p = pendingContent
  OBVIOUS
<1>2. /\ InFrames /\ p > 0 /\ ParseUnchanged
      /\ \/ /\ n < p
            /\ pendingContent' = p - n
            /\ continuation' = continuation \o input
            /\ input' = <<>>
            /\ UNCHANGED <<upgraded, handshake, finalFrame, firstOp, maskingKey, frameReadTime,
                           open, stream, situations, calling, delivered>>
         \/ /\ n >= p
            /\ FrameEnds(finalFrame, firstOp, SubSeq(input, 1, p), maskingKey,
                         SubSeq(input, p + 1, Len(input)))
  BY <1>1 DEF PendingFrame
<1>3. /\ ~calling /\ input # <<>> /\ InMessage(t, messages) /\ t \in Token
      /\ AtStart(t) \/ AtFragment(t) \/ InFrame(t)
  BY <1>1, <1>2, ParsingFacts
<1>4. /\ n \in Nat \ {0} /\ n <= Len(input) /\ input \in Seq(Token) /\ p \in Nat
  BY <1>1, <1>3, AheadHeld DEF Types, FrameTypes
<1>5. InFrame(t)
  BY <1>1, <1>2, <1>3 DEF AtStart, AtFragment, Clear
<1>6. /\ t.k \in Nat /\ t.k > 2 /\ p = Size(Kind(t)) - t.k + 1 /\ Size(Kind(t)) \in Nat
      /\ finalFrame = FrameOf(t).fin /\ firstOp = OpOf(Kind(t)) /\ continuation = ReadOf(t)
      /\ serverSide => maskingKey = KeyOf(t)
  <2>1. t.k \in Nat /\ Size(Kind(t)) \in Nat
    BY <1>3 DEF Token, Size, Pieces, HeaderSize
  <2> QED BY <1>1, <1>5, <2>1 DEF InFrame, HeaderSize
<1>7. from = (IF t.k = 1 THEN HeaderSize + 1 ELSE 1) /\ t.k # HeaderSize /\ t.k # 1
  BY <1>1, <1>6 DEF HeaderSize
<1>8. CASE n < p
  <2>0. ~(n >= p)
    BY <1>4, <1>8
  <2>1. /\ pendingContent' = p - n /\ finalFrame' = FrameOf(t).fin /\ firstOp' = OpOf(Kind(t))
        /\ maskingKey' = maskingKey /\ continuation' = continuation \o input /\ input' = <<>>
        /\ UNCHANGED <<upgraded, frameReadTime, open, stream, situations, calling, delivered>>
    BY <1>2, <1>6, <2>0
  <2>2. SubSeq(input, from, n) = input
    BY <1>1, <1>4, SubSeqFull
  <2>3. pendingContent' = Size(Kind(t)) - (t.k + n) + 1 /\ t.k + n - 1 < Size(Kind(t))
    BY <1>4, <1>6, <1>8, <2>1, SMTT(30)
  <2>4. /\ continuation' = continuation \o SubSeq(input, from, n)
        /\ serverSide => maskingKey' = KeyOf(t)
        /\ t.k = 1 => n >= HeaderSize
    BY <1>6, <1>7, <2>1, <2>2
  <2> QED BY <1>1, <1>2, <1>6, <1>7, <2>1, <2>3, <2>4, FrameGoesOn
<1>9. CASE ~(n < p)
  <2>1. FrameEnds(FrameOf(t).fin, OpOf(Kind(t)), SubSeq(input, from, p), maskingKey,
                  SubSeq(input, p + 1, Len(input)))
    BY <1>1, <1>2, <1>6, <1>9
  <2>2. /\ p \in Nat \ {0} /\ p <= Len(input) /\ t.k + p - 1 = Size(Kind(t))
        /\ (t.k = 1 => p >= HeaderSize)
    BY <1>1, <1>2, <1>4, <1>6, <1>7, <1>9
  <2> QED BY <1>1, <1>2, <1>6, <1>7, <2>1, <2>2, FrameDone
<1> QED BY <1>8, <1>9

-----------------------------------------------------------------------------
(* The invariant, and what it is for. *)

LEMMA InvStep == Types /\ Inv /\ [Next]_vars => Inv'
<1> SUFFICES ASSUME Types, Inv, [Next]_vars, Good' PROVE Inner'
  BY DEF Inv
<1>1. Good /\ Inner
  BY GoodBefore DEF Inv
<1>2. CASE Read
  BY <1>1, <1>2, ReadStep
<1>3. CASE PollReturns
  BY <1>1, <1>3, PollReturnsStep
<1>4. CASE GetUpgraded
  BY <1>1, <1>4, GetUpgradedStep
<1>5. CASE ShiftIncompleteHeader
  BY <1>1, <1>5, ShiftStep
<1>6. CASE NextFrame
  BY <1>1, <1>6, NextFrameStep
<1>7. CASE PendingFrame
  BY <1>1, <1>7, PendingFrameStep
<1>8. CASE Misread
  BY <1>1, <1>8, NoMisread
<1>9. CASE HandlerReturns
  BY <1>1, <1>9, HandlerReturnsStep
<1>10. CASE OpenEndpoint
  BY <1>1, <1>10, OpenStep
<1>11. CASE CloseEndpoint \/ LoseConnection
  BY <1>1, <1>11, CloseStep
<1>12. CASE WriteHandshake
  BY <1>1, <1>12, WriteHandshakeStep
<1>13. CASE PeerUpgrades
  BY <1>1, <1>13, PeerUpgradesStep
<1>14. CASE \E kind \in Kinds : PeerSends(kind)
  BY <1>1, <1>14, PeerSendsStep
<1>15. CASE UNCHANGED vars
  <2>1. Ahead' = Ahead
    BY <1>15 DEF vars, peerVars, Ahead, Held
  <2>2. Phase' <=> Phase
    BY <1>15 DEF vars, frameVars, callVars, peerVars, Phase, Clear
  <2>3. Upgrading' <=> Upgrading
    BY <1>15, <2>1 DEF vars, peerVars, Upgrading, PeerUpgraded
  <2>6. Leftover' <=> Leftover
    BY <1>15, <2>1 DEF vars, frameVars, peerVars, Leftover, Unused, Kind
  <2>4. FramesInv' <=> FramesInv
    BY <1>15, <2>1 DEF vars, frameVars, callVars, peerVars, FramesInv, Fits, AtStart, AtFragment,
       InFrame, Begin, Clear, Unused, Kind, FrameOf, ReadOf, KeyOf
  <2>5. Given'
    BY <1>1, <1>15, <2>1, GivenKept DEF vars, callVars, peerVars, Inner
  <2> QED BY <1>1, <1>15, <2>2, <2>3, <2>4, <2>5, <2>6 DEF vars, callVars, peerVars, Inner
<1> QED BY <1>2, <1>3, <1>4, <1>5, <1>6, <1>7, <1>8, <1>9, <1>10, <1>11, <1>12, <1>13, <1>14,
     <1>15 DEF Next, ParseStep

(* Among messages this endpoint handles, and outside the situations the     *)
(* runs show it loses, what the payload handler is given are messages of    *)
(* the peer: whole, in order, once each, with their opcode, unmasked and on *)
(* an open connection, however reads cut them and however often the         *)
(* connection is lost in the middle of one and opened again, as long as the *)
(* first message then has the opcode that was left, if one was.             *)
THEOREM WholeMessages == Spec => []MessagesWhole
<1>1. Init => Inv /\ Types
  BY InvInit, TypesInit
<1>2. Types /\ Inv /\ [Next]_vars => Types' /\ Inv'
  BY InvStep, TypesStep
<1>3. Inv => MessagesWhole
  BY InvWhole
<1> QED BY <1>1, <1>2, <1>3, PTL DEF Spec
=============================================================================
