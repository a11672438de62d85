------------------------- MODULE HttpEndpointProofs -------------------------
(***************************************************************************)
(* Proofs about an HTTP endpoint, for any number of messages, sends and    *)
(* connections and files of any number of buffers.                         *)
(***************************************************************************)
EXTENDS HttpEndpoint, FiniteSetTheorems, SequenceTheorems, WellFoundedInduction, TLAPS

-----------------------------------------------------------------------------
(* The form of messages. *)

AllKinds == {"none", "empty", "length", "chunked", "bad"}
(* Two more tokens. *)
LEMMA TwoMore ==
    ASSUME NEW S, NEW s \in Seq(S), NEW u \in S, NEW v \in S
    PROVE  /\ s \o <<u, v>> \in Seq(S)
           /\ Len(s \o <<u, v>>) = Len(s) + 2
           /\ \A i \in 1 .. Len(s) : (s \o <<u, v>>)[i] = s[i]
           /\ (s \o <<u, v>>)[Len(s) + 1] = u
           /\ (s \o <<u, v>>)[Len(s) + 2] = v
<1>1. <<u, v>> \in Seq(S) /\ Len(<<u, v>>) = 2 /\ <<u, v>>[1] = u /\ <<u, v>>[2] = v
  OBVIOUS
<1>2. Len(s) \in Nat
  OBVIOUS
<1> DEFINE t == <<u, v>>
<1>3. /\ s \o t \in Seq(S) /\ Len(s \o t) = Len(s) + Len(t)
      /\ \A i \in 1 .. Len(s) + Len(t) : (s \o t)[i] = IF i <= Len(s) THEN s[i] ELSE t[i - Len(s)]
  BY <1>1, ConcatProperties
<1>4. Len(t) = 2 /\ t[1] = u /\ t[2] = v
  BY <1>1
<1> HIDE DEF t
<1>5. /\ s \o t \in Seq(S) /\ Len(s \o t) = Len(s) + 2
      /\ \A i \in 1 .. Len(s) : (s \o t)[i] = s[i]
      /\ (s \o t)[Len(s) + 1] = u /\ (s \o t)[Len(s) + 2] = v
  BY <1>2, <1>3, <1>4
<1> QED BY <1>5 DEF t

Whats == {"start", "end", "bad", "Content-Length-0", "Content-Length-2",
          "Transfer-Encoding", "size", "crlf", "last", "data"}
Piece == [what : Whats, eol : BOOLEAN]

(* What the place k of a message of each kind holds. *)
What(kind, k) ==
    IF k <= 2 THEN IF kind = "bad" THEN "bad" ELSE "start"
    ELSE IF k <= 4 THEN CASE kind = "none" -> "end"
                          [] kind = "empty" -> "Content-Length-0"
                          [] kind = "length" -> "Content-Length-2"
                          [] OTHER -> "Transfer-Encoding"
    ELSE IF k <= 6 THEN "end"
    ELSE IF k <= 8 THEN IF kind = "length" THEN "data" ELSE "size"
    ELSE IF k <= 10 THEN "data"
    ELSE IF k <= 12 THEN "crlf"
    ELSE IF k <= 14 THEN "last"
    ELSE "end"
Size(kind) ==
    CASE kind = "none" -> 4 [] kind = "empty" -> 6 [] kind = "length" -> 8
      [] kind = "chunked" -> 16 [] OTHER -> 2
Eol(k) == k \in {2, 4, 6, 8, 10, 12, 14, 16}


(* The two tokens of a line. *)
First(what) == [what |-> what, eol |-> FALSE]
Second(what) == [what |-> what, eol |-> TRUE]

LEMMA TokensOfLine ==
    ASSUME NEW what \in Whats
    PROVE  /\ First(what) \in Piece /\ Second(what) \in Piece
           /\ Line(what) = <<First(what), Second(what)>>
BY DEF Piece, First, Second, Line

LEMMA OneLine ==
    ASSUME NEW what \in Whats
    PROVE  /\ Line(what) \in Seq(Piece) /\ Len(Line(what)) = 2
           /\ Line(what)[1] = First(what) /\ Line(what)[2] = Second(what)
<1>1. /\ First(what) \in Piece /\ Second(what) \in Piece
      /\ Line(what) = <<First(what), Second(what)>>
  BY TokensOfLine
<1>2. ASSUME NEW u \in Piece, NEW v \in Piece
      PROVE  /\ <<u, v>> \in Seq(Piece) /\ Len(<<u, v>>) = 2
             /\ <<u, v>>[1] = u /\ <<u, v>>[2] = v
  OBVIOUS
<1> QED BY <1>1, <1>2

LEMMA LineMore ==
    ASSUME NEW s \in Seq(Piece), NEW n \in Nat, Len(s) = n, NEW what \in Whats
    PROVE  /\ s \o Line(what) \in Seq(Piece)
           /\ Len(s \o Line(what)) = n + 2
           /\ \A i \in 1 .. n : (s \o Line(what))[i] = s[i]
           /\ (s \o Line(what))[n + 1] = First(what)
           /\ (s \o Line(what))[n + 2] = Second(what)
<1>1. /\ First(what) \in Piece /\ Second(what) \in Piece
      /\ Line(what) = <<First(what), Second(what)>>
  BY TokensOfLine
<1>2. /\ s \o <<First(what), Second(what)>> \in Seq(Piece)
      /\ Len(s \o <<First(what), Second(what)>>) = Len(s) + 2
      /\ \A i \in 1 .. Len(s) : (s \o <<First(what), Second(what)>>)[i] = s[i]
      /\ (s \o <<First(what), Second(what)>>)[Len(s) + 1] = First(what)
      /\ (s \o <<First(what), Second(what)>>)[Len(s) + 2] = Second(what)
  BY <1>1, TwoMore
<1> QED BY <1>1, <1>2

LEMMA DataMore ==
    ASSUME NEW s \in Seq(Piece), NEW n \in Nat, Len(s) = n
    PROVE  /\ s \o <<Data, Data>> \in Seq(Piece)
           /\ Len(s \o <<Data, Data>>) = n + 2
           /\ \A i \in 1 .. n : (s \o <<Data, Data>>)[i] = s[i]
           /\ (s \o <<Data, Data>>)[n + 1] = First("data")
           /\ (s \o <<Data, Data>>)[n + 2] = First("data")
<1>1. Data \in Piece /\ Data = First("data")
  BY DEF Data, First, Piece, Whats
<1>2. /\ s \o <<Data, Data>> \in Seq(Piece)
      /\ Len(s \o <<Data, Data>>) = Len(s) + 2
      /\ \A i \in 1 .. Len(s) : (s \o <<Data, Data>>)[i] = s[i]
      /\ (s \o <<Data, Data>>)[Len(s) + 1] = Data
      /\ (s \o <<Data, Data>>)[Len(s) + 2] = Data
  BY <1>1, TwoMore
<1> QED BY <1>1, <1>2

LEMMA HeaderLines ==
    ASSUME NEW what \in Whats
    PROVE  /\ Header(what) \in Seq(Piece) /\ Len(Header(what)) = 6
           /\ Header(what)[1] = First("start") /\ Header(what)[2] = Second("start")
           /\ Header(what)[3] = First(what) /\ Header(what)[4] = Second(what)
           /\ Header(what)[5] = First("end") /\ Header(what)[6] = Second("end")
<1>0. "start" \in Whats /\ "end" \in Whats
  BY DEF Whats
<1>1. /\ Line("start") \in Seq(Piece) /\ Len(Line("start")) = 2
      /\ Line("start")[1] = First("start") /\ Line("start")[2] = Second("start")
  BY <1>0, OneLine
<1> DEFINE four == Line("start") \o Line(what)
<1>2. /\ four \in Seq(Piece) /\ Len(four) = 2 + 2 /\ \A i \in 1 .. 2 : four[i] = Line("start")[i]
      /\ four[2 + 1] = First(what) /\ four[2 + 2] = Second(what)
  BY <1>1, LineMore
<1> HIDE DEF four
<1>2a. four \in Seq(Piece) /\ Len(four) = 4 /\ 4 \in Nat
  BY <1>2
<1> DEFINE six == four \o Line("end")
<1>3. /\ six \in Seq(Piece) /\ Len(six) = 4 + 2 /\ \A i \in 1 .. 4 : six[i] = four[i]
      /\ six[4 + 1] = First("end") /\ six[4 + 2] = Second("end")
  BY <1>0, <1>2a, LineMore
<1>4. Header(what) = six
  BY <1>1, <1>2 DEF Header, four
<1> HIDE DEF six
<1> QED BY <1>1, <1>2, <1>3, <1>4

LEMMA ShapeTable ==
    ASSUME NEW kind \in AllKinds
    PROVE  /\ Len(Shape(kind)) = Size(kind)
           /\ \A k \in 1 .. Size(kind) :
                 Shape(kind)[k] = IF Eol(k) /\ What(kind, k) # "data" THEN Second(What(kind, k))
                                  ELSE First(What(kind, k))
<1>0. /\ "start" \in Whats /\ "end" \in Whats /\ "bad" \in Whats /\ "Content-Length-0" \in Whats
      /\ "Content-Length-2" \in Whats /\ "Transfer-Encoding" \in Whats /\ "size" \in Whats
      /\ "crlf" \in Whats /\ "last" \in Whats
  BY DEF Whats
<1>10. CASE kind = "none"
  <2>1. Shape(kind) = Line("start") \o Line("end")
    BY <1>10 DEF Shape
  <2>2. /\ Line("start") \in Seq(Piece) /\ Len(Line("start")) = 2
        /\ Line("start")[1] = First("start") /\ Line("start")[2] = Second("start")
    BY <1>0, OneLine
  <2>2a. 2 \in Nat
    OBVIOUS
  <2> DEFINE first == Line("start")
             s == first \o Line("end")
  <2> HIDE DEF first
  <2>2b. first \in Seq(Piece) /\ Len(first) = 2
    BY <2>2 DEF first
  <2>3. /\ Len(s) = 2 + 2 /\ \A i \in 1 .. 2 : s[i] = first[i]
        /\ s[2 + 1] = First("end") /\ s[2 + 2] = Second("end")
    BY <1>0, <2>2a, <2>2b, LineMore
  <2>4. Shape(kind) = s
    BY <2>1 DEF first
  <2> HIDE DEF s
  <2>5. ASSUME NEW k \in 1 .. 4
        PROVE  Shape(kind)[k] = IF Eol(k) /\ What(kind, k) # "data" THEN Second(What(kind, k))
                                ELSE First(What(kind, k))
    BY <1>10, <2>2, <2>3, <2>4 DEF What, Eol, first
  <2> QED BY <2>5, <1>10, <2>3, <2>4 DEF Size
<1>11. CASE kind = "empty"
  <2>1. Shape(kind) = Header("Content-Length-0")
    BY <1>11 DEF Shape
  <2>2. /\ Len(Shape(kind)) = 6
        /\ Shape(kind)[1] = First("start") /\ Shape(kind)[2] = Second("start")
        /\ Shape(kind)[3] = First("Content-Length-0") /\ Shape(kind)[4] = Second("Content-Length-0")
        /\ Shape(kind)[5] = First("end") /\ Shape(kind)[6] = Second("end")
    BY <1>0, <2>1, HeaderLines
  <2>3. ASSUME NEW k \in 1 .. 6
        PROVE  Shape(kind)[k] = IF Eol(k) /\ What(kind, k) # "data" THEN Second(What(kind, k))
                                ELSE First(What(kind, k))
    BY <1>11, <2>2 DEF What, Eol
  <2> QED BY <2>3, <1>11, <2>2 DEF Size
<1>12. CASE kind = "length"
  <2> DEFINE s == Header("Content-Length-2")
  <2>1. Shape(kind) = s \o <<Data, Data>>
    BY <1>12 DEF Shape
  <2>2. /\ s \in Seq(Piece) /\ Len(s) = 6
        /\ s[1] = First("start") /\ s[2] = Second("start")
        /\ s[3] = First("Content-Length-2") /\ s[4] = Second("Content-Length-2")
        /\ s[5] = First("end") /\ s[6] = Second("end")
    BY <1>0, HeaderLines
  <2> HIDE DEF s
  <2>2a. s \in Seq(Piece) /\ Len(s) = 6 /\ 6 \in Nat
    BY <2>2
  <2> DEFINE s8 == s \o <<Data, Data>>
  <2>3. /\ Len(s8) = 6 + 2 /\ \A i \in 1 .. 6 : s8[i] = s[i]
        /\ s8[6 + 1] = First("data") /\ s8[6 + 2] = First("data")
    BY <2>2a, DataMore
  <2>4. Shape(kind) = s8
    BY <2>1
  <2> HIDE DEF s8
  <2>5. ASSUME NEW k \in 1 .. 8
        PROVE  Shape(kind)[k] = IF Eol(k) /\ What(kind, k) # "data" THEN Second(What(kind, k))
                                ELSE First(What(kind, k))
    BY <1>12, <2>2, <2>3, <2>4 DEF What, Eol
  <2> QED BY <2>5, <1>12, <2>3, <2>4 DEF Size
<1>13. CASE kind = "chunked"
  <2> DEFINE s6 == Header("Transfer-Encoding")
             s8 == s6 \o Line("size")
             s10 == s8 \o <<Data, Data>>
             s12 == s10 \o Line("crlf")
             s14 == s12 \o Line("last")
             s16 == s14 \o Line("end")
  <2>1. Shape(kind) = s16
    BY <1>13 DEF Shape
  <2>6. /\ s6 \in Seq(Piece) /\ Len(s6) = 6
        /\ s6[1] = First("start") /\ s6[2] = Second("start")
        /\ s6[3] = First("Transfer-Encoding") /\ s6[4] = Second("Transfer-Encoding")
        /\ s6[5] = First("end") /\ s6[6] = Second("end")
    BY <1>0, HeaderLines
  <2> HIDE DEF s6
  <2>6a. s6 \in Seq(Piece) /\ Len(s6) = 6 /\ 6 \in Nat
    BY <2>6
  <2>8. /\ s8 \in Seq(Piece) /\ Len(s8) = 6 + 2 /\ \A i \in 1 .. 6 : s8[i] = s6[i]
        /\ s8[6 + 1] = First("size") /\ s8[6 + 2] = Second("size")
    BY <1>0, <2>6a, LineMore, ZenonT(60)
  <2> HIDE DEF s8
  <2>8a. s8 \in Seq(Piece) /\ Len(s8) = 8 /\ 8 \in Nat
    BY <2>8
  <2>10. /\ s10 \in Seq(Piece) /\ Len(s10) = 8 + 2 /\ \A i \in 1 .. 8 : s10[i] = s8[i]
         /\ s10[8 + 1] = First("data") /\ s10[8 + 2] = First("data")
    BY <2>8a, DataMore
  <2> HIDE DEF s10
  <2>10a. s10 \in Seq(Piece) /\ Len(s10) = 10 /\ 10 \in Nat
    BY <2>10
  <2>12. /\ s12 \in Seq(Piece) /\ Len(s12) = 10 + 2 /\ \A i \in 1 .. 10 : s12[i] = s10[i]
         /\ s12[10 + 1] = First("crlf") /\ s12[10 + 2] = Second("crlf")
    BY <1>0, <2>10a, LineMore, ZenonT(60)
  <2> HIDE DEF s12
  <2>12a. s12 \in Seq(Piece) /\ Len(s12) = 12 /\ 12 \in Nat
    BY <2>12
  <2>14. /\ s14 \in Seq(Piece) /\ Len(s14) = 12 + 2 /\ \A i \in 1 .. 12 : s14[i] = s12[i]
         /\ s14[12 + 1] = First("last") /\ s14[12 + 2] = Second("last")
    BY <1>0, <2>12a, LineMore, ZenonT(60)
  <2> HIDE DEF s14
  <2>14a. s14 \in Seq(Piece) /\ Len(s14) = 14 /\ 14 \in Nat
    BY <2>14
  <2>16. /\ s16 \in Seq(Piece) /\ Len(s16) = 14 + 2 /\ \A i \in 1 .. 14 : s16[i] = s14[i]
         /\ s16[14 + 1] = First("end") /\ s16[14 + 2] = Second("end")
    BY <1>0, <2>14a, LineMore, ZenonT(60)
  <2> HIDE DEF s16
  <2>17. Len(Shape(kind)) = 16 /\ Size(kind) = 16
    BY <1>13, <2>1, <2>16 DEF Size
  <2>18. ASSUME NEW k \in 1 .. 16
         PROVE  s16[k] = IF k <= 6 THEN s6[k] ELSE IF k <= 8 THEN s8[k] ELSE IF k <= 10 THEN s10[k]
                         ELSE IF k <= 12 THEN s12[k] ELSE IF k <= 14 THEN s14[k] ELSE s16[k]
    BY <2>8, <2>10, <2>12, <2>14, <2>16
  <2>19. ASSUME NEW k \in 1 .. 16
         PROVE  s16[k] = IF Eol(k) /\ What(kind, k) # "data" THEN Second(What(kind, k))
                         ELSE First(What(kind, k))
    BY <1>13, <2>6, <2>8, <2>10, <2>12, <2>14, <2>16, <2>18 DEF What, Eol
  <2> QED BY <2>1, <2>17, <2>19
<1>14. CASE kind = "bad"
  <2>1. Shape(kind) = Line("bad")
    BY <1>14 DEF Shape
  <2>2. /\ Len(Shape(kind)) = 2
        /\ Shape(kind)[1] = First("bad") /\ Shape(kind)[2] = Second("bad")
    BY <1>0, <2>1, OneLine
  <2> QED BY <1>14, <2>2 DEF Size, What, Eol
<1> QED BY <1>10, <1>11, <1>12, <1>13, <1>14 DEF AllKinds

(* The body of a message is what its shape calls data. *)
LEMMA DataPlaces ==
    ASSUME NEW kind \in AllKinds, NEW k \in 1 .. Size(kind)
    PROVE  What(kind, k) = "data" <=> \E i \in DOMAIN DataAt(kind) : DataAt(kind)[i] = k
<1>1. CASE kind = "length"
  <2>1. DataAt(kind) = <<7, 8>>
    BY <1>1 DEF DataAt
  <2>2. \A i \in {1, 2} : i \in DOMAIN DataAt(kind) /\ DataAt(kind)[i] = 6 + i
    BY <2>1
  <2>3. DOMAIN DataAt(kind) = 1 .. 2
    BY <2>1
  <2> QED BY <1>1, <2>2, <2>3 DEF What, Size
<1>2. CASE kind = "chunked"
  <2>1. DataAt(kind) = <<9, 10>>
    BY <1>2 DEF DataAt
  <2>2. \A i \in {1, 2} : i \in DOMAIN DataAt(kind) /\ DataAt(kind)[i] = 8 + i
    BY <2>1
  <2>3. DOMAIN DataAt(kind) = 1 .. 2
    BY <2>1
  <2> QED BY <1>2, <2>2, <2>3 DEF What, Size
<1>3. CASE kind \notin {"length", "chunked"}
  <2>1. DataAt(kind) = <<>>
    BY <1>3 DEF DataAt
  <2>2. DOMAIN DataAt(kind) = {}
    BY <2>1
  <2> QED BY <1>3, <2>2 DEF What, Size, AllKinds
<1> QED BY <1>1, <1>2, <1>3

Token == [m : Nat, k : Nat]

LEMMA BodyFacts ==
    ASSUME NEW m \in Nat
    PROVE  /\ messages[m].kind = "length" =>
                 BodyOf(m) = <<[m |-> m, k |-> 7], [m |-> m, k |-> 8]>>
           /\ messages[m].kind = "chunked" =>
                 BodyOf(m) = <<[m |-> m, k |-> 9], [m |-> m, k |-> 10]>>
           /\ messages[m].kind \in {"none", "empty", "bad"} => BodyOf(m) = <<>>
           /\ BodyOf(m) \in Seq(Token)
<1>1. CASE messages[m].kind = "length"
  <2>1. DataAt(messages[m].kind) = <<7, 8>>
    BY <1>1 DEF DataAt
  <2>2. BodyOf(m) = [i \in 1 .. 2 |-> [m |-> m, k |-> <<7, 8>>[i]]]
    BY <2>1 DEF BodyOf
  <2>3. BodyOf(m) = <<[m |-> m, k |-> 7], [m |-> m, k |-> 8]>>
    BY <2>2
  <2>4. [m |-> m, k |-> 7] \in Token /\ [m |-> m, k |-> 8] \in Token
    BY DEF Token
  <2> QED BY <1>1, <2>3, <2>4
<1>2. CASE messages[m].kind = "chunked"
  <2>1. DataAt(messages[m].kind) = <<9, 10>>
    BY <1>2 DEF DataAt
  <2>2. BodyOf(m) = [i \in 1 .. 2 |-> [m |-> m, k |-> <<9, 10>>[i]]]
    BY <2>1 DEF BodyOf
  <2>3. BodyOf(m) = <<[m |-> m, k |-> 9], [m |-> m, k |-> 10]>>
    BY <2>2
  <2>4. [m |-> m, k |-> 9] \in Token /\ [m |-> m, k |-> 10] \in Token
    BY DEF Token
  <2> QED BY <1>2, <2>3, <2>4
<1>3. CASE messages[m].kind \notin {"length", "chunked"}
  <2>1. DataAt(messages[m].kind) = <<>>
    BY <1>3 DEF DataAt
  <2>2. BodyOf(m) = [i \in {} |-> [m |-> m, k |-> <<>>[i]]]
    BY <2>1 DEF BodyOf
  <2>3. BodyOf(m) = <<>>
    BY <2>2
  <2> QED BY <1>3, <2>3
<1> QED BY <1>1, <1>2, <1>3

-----------------------------------------------------------------------------
(* The order of tokens. *)

Ends(t, history) == t.k = Size(history[t.m].kind)

Follows(u, t, history) ==
    \/ ~Ends(u, history) /\ t.m = u.m /\ t.k = u.k + 1
    \/ Ends(u, history) /\ t.m > u.m /\ t.k = 1

(* Tokens of messages of a history as a peer sends them: from some token    *)
(* on, none left out.                                                       *)
Orderly(s, history) ==
    /\ \A i \in 1 .. Len(s) :
          s[i].m \in DOMAIN history /\ s[i].k \in 1 .. Size(history[s[i].m].kind)
    /\ \A i \in 1 .. Len(s) - 1 : Follows(s[i], s[i + 1], history)
    /\ \A i, j \in 1 .. Len(s) : i < j => s[i].m <= s[j].m

LEMMA OrderlySuffix ==
    ASSUME NEW s \in Seq(Token), NEW r \in Seq(Token), NEW history, Orderly(s, history),
           NEW n \in 0 .. Len(s), Len(r) = Len(s) - n, \A i \in 1 .. Len(r) : r[i] = s[i + n]
    PROVE  Orderly(r, history)
<1>1. Len(s) \in Nat /\ Len(r) \in Nat /\ n \in Nat
  OBVIOUS
<1>2. ASSUME NEW i \in 1 .. Len(r)
      PROVE  r[i].m \in DOMAIN history /\ r[i].k \in 1 .. Size(history[r[i].m].kind)
  <2>1. i + n \in 1 .. Len(s) /\ r[i] = s[i + n]
    BY <1>1
  <2> QED BY <2>1 DEF Orderly
<1>3. ASSUME NEW i \in 1 .. Len(r) - 1
      PROVE  Follows(r[i], r[i + 1], history)
  <2>1. i \in 1 .. Len(r) /\ i + 1 \in 1 .. Len(r) /\ i + n \in 1 .. Len(s) - 1
    BY <1>1
  <2>2. r[i] = s[i + n] /\ r[i + 1] = s[(i + n) + 1]
    BY <1>1, <2>1
  <2> QED BY <2>1, <2>2 DEF Orderly
<1>4. ASSUME NEW i \in 1 .. Len(r), NEW j \in 1 .. Len(r), i < j
      PROVE  r[i].m <= r[j].m
  <2>1. i + n \in 1 .. Len(s) /\ j + n \in 1 .. Len(s) /\ i + n < j + n
    BY <1>1, <1>4
  <2> QED BY <2>1 DEF Orderly
<1> QED BY <1>2, <1>3, <1>4 DEF Orderly

LEMMA OrderlyPrefix ==
    ASSUME NEW s \in Seq(Token), NEW r \in Seq(Token), NEW history, Orderly(s, history),
           Len(r) <= Len(s), \A i \in 1 .. Len(r) : r[i] = s[i]
    PROVE  Orderly(r, history)
<1>1. Len(s) \in Nat /\ Len(r) \in Nat
  OBVIOUS
<1>2. \A i \in 1 .. Len(r) : i \in 1 .. Len(s)
  BY <1>1
<1>3. ASSUME NEW i \in 1 .. Len(r) - 1
      PROVE  Follows(r[i], r[i + 1], history)
  <2>1. i \in 1 .. Len(r) /\ i + 1 \in 1 .. Len(r) /\ i \in 1 .. Len(s) - 1
    BY <1>1
  <2>2. r[i] = s[i] /\ r[i + 1] = s[i + 1]
    BY <2>1
  <2> QED BY <2>1, <2>2 DEF Orderly
<1> QED BY <1>2, <1>3 DEF Orderly

(* A whole message more, after tokens that end with a message. *)
LEMMA OrderlyMore ==
    ASSUME NEW s \in Seq(Token), NEW t \in Seq(Token), NEW history, NEW longer,
           NEW last \in Nat, Orderly(s, history),
           DOMAIN history = 1 .. last, DOMAIN longer = 1 .. last + 1,
           \A m \in 1 .. last : longer[m].kind = history[m].kind,
           longer[last + 1].kind \in AllKinds,
           s # <<>> => Ends(s[Len(s)], history),
           Len(t) = Size(longer[last + 1].kind),
           \A i \in 1 .. Len(t) : t[i] = [m |-> last + 1, k |-> i]
    PROVE  /\ Orderly(s \o t, longer) /\ s \o t # <<>>
           /\ Ends((s \o t)[Len(s \o t)], longer)
<1> DEFINE u == s \o t
<1>1. /\ u \in Seq(Token) /\ Len(u) = Len(s) + Len(t)
      /\ \A i \in 1 .. Len(s) + Len(t) : u[i] = IF i <= Len(s) THEN s[i] ELSE t[i - Len(s)]
  BY ConcatProperties
<1>2. Len(s) \in Nat /\ Len(t) \in Nat /\ Len(t) >= 1 /\ Len(u) \in Nat
  BY <1>1 DEF Size, AllKinds
<1> HIDE DEF u
<1>3. \A i \in 1 .. Len(s) : u[i] = s[i] /\ s[i].m \in 1 .. last /\ s[i].m \in Nat
                              /\ s[i].k \in 1 .. Size(history[s[i].m].kind)
  BY <1>1, <1>2 DEF Orderly
<1>4. ASSUME NEW i \in 1 .. Len(t)
      PROVE  u[Len(s) + i] = [m |-> last + 1, k |-> i]
  <2>1. /\ Len(s) + i \in 1 .. Len(s) + Len(t) /\ ~(Len(s) + i <= Len(s))
        /\ (Len(s) + i) - Len(s) = i
    BY <1>2
  <2>2. u[Len(s) + i] = t[(Len(s) + i) - Len(s)]
    BY <1>1, <2>1
  <2> QED BY <2>1, <2>2
<1>5. ASSUME NEW i \in 1 .. Len(u)
      PROVE  u[i].m \in DOMAIN longer /\ u[i].k \in 1 .. Size(longer[u[i].m].kind)
  <2>1. CASE i <= Len(s)
    <3>1. i \in 1 .. Len(s)
      BY <1>2, <2>1
    <3>2. u[i].m \in 1 .. last /\ u[i].k \in 1 .. Size(history[u[i].m].kind)
      BY <1>3, <3>1
    <3> QED BY <3>2
  <2>2. CASE i > Len(s)
    <3>1. i - Len(s) \in 1 .. Len(t) /\ Len(s) + (i - Len(s)) = i
      BY <1>1, <1>2, <2>2
    <3>2. u[i] = [m |-> last + 1, k |-> i - Len(s)]
      BY <1>4, <3>1
    <3> QED BY <3>1, <3>2
  <2> QED BY <1>1, <1>2, <2>1, <2>2
<1>6. ASSUME NEW i \in 1 .. Len(u) - 1
      PROVE  Follows(u[i], u[i + 1], longer)
  <2>1. CASE i < Len(s)
    <3>1. i \in 1 .. Len(s) /\ i + 1 \in 1 .. Len(s) /\ i \in 1 .. Len(s) - 1
      BY <1>2, <2>1
    <3>2. Follows(s[i], s[i + 1], history)
      BY <3>1 DEF Orderly
    <3> QED BY <1>3, <3>1, <3>2 DEF Follows, Ends
  <2>2. CASE i = Len(s)
    <3>1. u[i] = s[Len(s)] /\ s[Len(s)].m \in 1 .. last
      BY <1>2, <1>3, <2>2
    <3>2. u[i + 1] = [m |-> last + 1, k |-> 1]
      BY <1>2, <1>4, <2>2
    <3>3. Ends(u[i], longer)
      <4>1. s # <<>>
        BY <1>2, <2>2
      <4> QED BY <3>1, <4>1 DEF Ends
    <3> QED BY <3>1, <3>2, <3>3 DEF Follows
  <2>3. CASE i > Len(s)
    <3> DEFINE j == i - Len(s)
    <3>1. j \in 1 .. Len(t) - 1 /\ j \in 1 .. Len(t) /\ j + 1 \in 1 .. Len(t) /\ Len(s) + j = i
          /\ Len(s) + (j + 1) = i + 1
      BY <1>1, <1>2, <2>3
    <3>2. u[i] = [m |-> last + 1, k |-> j] /\ u[i + 1] = [m |-> last + 1, k |-> j + 1]
      BY <1>4, <3>1
    <3> HIDE DEF j
    <3>3. j # Size(longer[last + 1].kind)
      BY <1>2, <3>1
    <3> QED BY <3>2, <3>3 DEF Follows, Ends
  <2> QED BY <1>1, <1>2, <2>1, <2>2, <2>3
<1>7. ASSUME NEW i \in 1 .. Len(u), NEW j \in 1 .. Len(u), i < j
      PROVE  u[i].m <= u[j].m
  <2>1. ASSUME NEW n \in 1 .. Len(u), n > Len(s) PROVE u[n].m = last + 1
    <3>1. n - Len(s) \in 1 .. Len(t) /\ Len(s) + (n - Len(s)) = n
      BY <1>1, <1>2, <2>1
    <3> QED BY <1>4, <3>1
  <2>2. CASE j <= Len(s)
    BY <1>2, <1>3, <1>7, <2>2 DEF Orderly
  <2>3. CASE j > Len(s) /\ i <= Len(s)
    BY <1>2, <1>3, <2>1, <2>3
  <2>4. CASE i > Len(s)
    BY <1>2, <1>7, <2>1, <2>4
  <2> QED BY <1>2, <2>2, <2>3, <2>4
<1>8. u[Len(u)] = [m |-> last + 1, k |-> Len(t)]
  BY <1>1, <1>2, <1>4
<1>9. Orderly(u, longer) /\ u # <<>> /\ Ends(u[Len(u)], longer)
  <2>1. u # <<>>
    BY <1>1, <1>2
  <2>2. Ends(u[Len(u)], longer)
    BY <1>8 DEF Ends
  <2> QED BY <1>5, <1>6, <1>7, <2>1, <2>2 DEF Orderly
<1> QED BY <1>9 DEF u

LEMMA TokensOfMessage ==
    ASSUME NEW m \in Nat, NEW kind \in AllKinds
    PROVE  /\ Tokens(m, kind) \in Seq(Token) /\ Len(Tokens(m, kind)) = Size(kind)
           /\ \A i \in 1 .. Size(kind) : Tokens(m, kind)[i] = [m |-> m, k |-> i]
<1>1. Len(Shape(kind)) = Size(kind) /\ Size(kind) \in Nat
  BY ShapeTable DEF Size, AllKinds
<1>2. Tokens(m, kind) = [k \in 1 .. Size(kind) |-> [m |-> m, k |-> k]]
  BY <1>1 DEF Tokens
<1>3. \A k \in 1 .. Size(kind) : [m |-> m, k |-> k] \in Token
  BY <1>1 DEF Token
<1>4. Tokens(m, kind) \in [1 .. Size(kind) -> Token]
  BY <1>2, <1>3
<1>5. Tokens(m, kind) \in Seq(Token) /\ Len(Tokens(m, kind)) = Size(kind)
  BY <1>1, <1>4
<1> QED BY <1>2, <1>5

(* What a line or a token is. *)
LEMMA TokenTable ==
    ASSUME NEW t, t.m \in DOMAIN messages, messages[t.m].kind \in AllKinds,
           t.k \in 1 .. Size(messages[t.m].kind)
    PROVE  /\ Is(t).what = What(messages[t.m].kind, t.k)
           /\ (Is(t).eol <=> Eol(t.k) /\ What(messages[t.m].kind, t.k) # "data")
<1> DEFINE kind == messages[t.m].kind
           k == t.k
<1>1. Is(t) = Shape(kind)[k] /\ kind \in AllKinds /\ k \in 1 .. Size(kind)
  BY DEF Is
<1> HIDE DEF kind, k
<1>2. Is(t) = IF Eol(k) /\ What(kind, k) # "data" THEN Second(What(kind, k)) ELSE First(What(kind, k))
  BY <1>1, ShapeTable
<1>3. Is(t).what = What(kind, k) /\ (Is(t).eol <=> Eol(k) /\ What(kind, k) # "data")
  BY <1>2 DEF First, Second
<1> QED BY <1>3 DEF kind, k

-----------------------------------------------------------------------------
(* Types. *)

Message == [kind : AllKinds, connection : Nat, answers : Nat \union {None}]
Delivery == [m : Nat \union {None}, body : Seq(Token), options : Nat \union {None}]

ParserTypes ==
    /\ serverSide \in BOOLEAN /\ calling \in BOOLEAN /\ open \in BOOLEAN
    /\ state \in Reading \union (IF serverSide THEN {"AwaitingClientRequest"}
                                ELSE {"AwaitingUserRequest", "AwaitingResponse"})
    /\ loop \in {"running", "ended"} /\ closing \in Nat
    /\ activeHeaders \in Nat \union {None}
    /\ contentSize \in {None, 0, 2} /\ chunkSize \in {None, 0, 1, 2}
    /\ state = "ReadingContent" => contentSize = 2
    /\ calling => state \notin Reading

BufferTypes ==
    /\ httpBody \in Seq(Token) /\ chunkedBody \in Seq(Token)
    /\ prepended \in Seq(Token) /\ input \in Seq(Token) /\ stream \in Seq(Token)
    /\ prepended = <<>> \/ input = <<>>
    /\ state = "ReadingHeaders" => httpBody = <<>>
    /\ state = "ReadingContent" => Len(httpBody) < 2

HistoryTypes ==
    /\ messages \in Seq(Message) /\ delivered \in Seq(Delivery)
    /\ connection \in Nat
    /\ pendingResponseOptions \in Seq(Nat)
    /\ serverSide => pendingResponseOptions = <<>> /\ "overtaken" \notin situations
    /\ ~serverSide => \A m \in 1 .. Len(messages) : messages[m].kind # "bad"

Types == ParserTypes /\ BufferTypes /\ HistoryTypes

LEMMA TypesInit == Init => Types
<1> SUFFICES ASSUME Init PROVE Types
  OBVIOUS
<1>1. <<>> \in Seq(Token) /\ <<>> \in Seq(Message) /\ <<>> \in Seq(Delivery) /\ <<>> \in Seq(Nat)
      /\ Len(<<>>) = 0
  OBVIOUS
<1>2. ParserTypes
  BY DEF Init, ParserTypes, Reading
<1>3. BufferTypes
  BY <1>1 DEF Init, BufferTypes
<1>4. HistoryTypes
  BY <1>1 DEF Init, HistoryTypes
<1> QED BY <1>2, <1>3, <1>4 DEF Types

LEMMA Taken ==
    ASSUME input \in Seq(Token), NEW n \in Nat, n <= Len(input), Take(n)
    PROVE  /\ input' \in Seq(Token) /\ Len(input') = Len(input) - n
           /\ \A i \in 1 .. Len(input') : input'[i] = input[i + n]
<1>1. Len(input) \in Nat /\ \A i \in n + 1 .. Len(input) : input[i] \in Token
  OBVIOUS
<1> DEFINE r == SubSeq(input, n + 1, Len(input))
<1>2. /\ r \in Seq(Token) /\ Len(r) = IF n + 1 <= Len(input) THEN Len(input) - (n + 1) + 1 ELSE 0
      /\ \A i \in 1 .. Len(input) - (n + 1) + 1 : r[i] = input[(n + 1) + i - 1]
  BY <1>1, SubSeqProperties
<1>3. input' = r
  BY DEF Take
<1> HIDE DEF r
<1>4. Len(r) = Len(input) - n
  BY <1>1, <1>2
<1>5. \A i \in 1 .. Len(r) : r[i] = input[i + n]
  BY <1>1, <1>2, <1>4
<1> QED BY <1>2, <1>3, <1>4, <1>5

LEMMA LineTaken ==
    ASSUME input \in Seq(Token), NEW sorts, NextLine(sorts), Take(2)
    PROVE  /\ input' \in Seq(Token) /\ Len(input') = Len(input) - 2 /\ Len(input) >= 2
           /\ \A i \in 1 .. Len(input') : input'[i] = input[i + 2]
           /\ input[1] \in Token
<1>1. Len(input) >= 2 /\ Len(input) \in Nat /\ input[1] \in Token
  BY DEF NextLine
<1> QED BY <1>1, Taken

LEMMA SomeTaken ==
    ASSUME input \in Seq(Token), NEW n \in Nat, n <= Len(input)
    PROVE  /\ SubSeq(input, 1, n) \in Seq(Token) /\ Len(SubSeq(input, 1, n)) = n
           /\ \A i \in 1 .. n : SubSeq(input, 1, n)[i] = input[i]
<1>1. Len(input) \in Nat /\ \A i \in 1 .. n : input[i] \in Token
  OBVIOUS
<1> DEFINE r == SubSeq(input, 1, n)
<1>2. /\ r \in Seq(Token) /\ Len(r) = IF 1 <= n THEN n - 1 + 1 ELSE 0
      /\ \A i \in 1 .. n - 1 + 1 : r[i] = input[1 + i - 1]
  BY <1>1, SubSeqProperties
<1> HIDE DEF r
<1>3. Len(r) = n /\ \A i \in 1 .. n : r[i] = input[i]
  BY <1>1, <1>2
<1> QED BY <1>2, <1>3 DEF r

(* What dispatching does. *)
LEMMA DispatchTypes ==
    ASSUME ParserTypes, HistoryTypes, NEW body \in Seq(Token), DispatchPayload(body)
    PROVE  /\ calling' = TRUE /\ state' \notin Reading
           /\ state' \in (IF serverSide THEN {"AwaitingClientRequest"}
                          ELSE {"AwaitingUserRequest", "AwaitingResponse"})
           /\ delivered' \in Seq(Delivery)
           /\ pendingResponseOptions' \in Seq(Nat)
           /\ serverSide => pendingResponseOptions' = <<>>
           /\ \E options \in Nat \union {None} :
                 delivered' = Append(delivered, [m |-> activeHeaders, body |-> body,
                                                 options |-> options])
<1>1. ASSUME NEW options \in Nat \union {None}
      PROVE  [m |-> activeHeaders, body |-> body, options |-> options] \in Delivery
  BY DEF ParserTypes, Delivery
<1>2. \A d \in Delivery : Append(delivered, d) \in Seq(Delivery)
  BY DEF HistoryTypes
<1>3. pendingResponseOptions \in Seq(Nat) /\ calling' = TRUE
  BY DEF HistoryTypes, DispatchPayload
<1>4. CASE serverSide /\ state' = "AwaitingClientRequest" /\ UNCHANGED pendingResponseOptions
           /\ delivered' = Append(delivered, [m |-> activeHeaders, body |-> body, options |-> None])
  BY <1>1, <1>2, <1>3, <1>4 DEF HistoryTypes, Reading
<1>5. CASE /\ ~serverSide /\ pendingResponseOptions # <<>>
           /\ pendingResponseOptions' = Tail(pendingResponseOptions)
           /\ state' = IF Len(pendingResponseOptions) = 1 THEN "AwaitingUserRequest"
                       ELSE "AwaitingResponse"
           /\ delivered' = Append(delivered, [m |-> activeHeaders, body |-> body,
                                              options |-> Head(pendingResponseOptions)])
  <2>1. /\ Head(pendingResponseOptions) \in Nat /\ Tail(pendingResponseOptions) \in Seq(Nat)
        /\ Len(Tail(pendingResponseOptions)) = Len(pendingResponseOptions) - 1
    BY <1>3, <1>5, HeadTailProperties
  <2> QED BY <1>1, <1>2, <1>3, <1>5, <2>1 DEF Reading
<1>6. CASE /\ ~serverSide /\ pendingResponseOptions = <<>>
           /\ state' = "AwaitingUserRequest" /\ UNCHANGED pendingResponseOptions
           /\ delivered' = Append(delivered,
                 [m |-> activeHeaders, body |-> body,
                  options |-> IF delivered = <<>> THEN None ELSE Last(delivered).options])
  <2>1. (IF delivered = <<>> THEN None ELSE Last(delivered).options) \in Nat \union {None}
    <3>1. CASE delivered = <<>>
      BY <3>1
    <3>2. CASE delivered # <<>>
      <4>1. delivered \in Seq(Delivery)
        BY DEF HistoryTypes
      <4>2. delivered[Len(delivered)] \in Delivery
        BY <3>2, <4>1
      <4> QED BY <3>2, <4>2 DEF Last, Delivery
    <3> QED BY <3>1, <3>2
  <2> QED BY <1>1, <1>2, <1>3, <1>6, <2>1 DEF Reading
<1> QED BY <1>4, <1>5, <1>6 DEF DispatchPayload

(* A step that leaves the parser, its buffers and the histories alone. *)
LEMMA TypesStill ==
    ASSUME Types,
           UNCHANGED <<serverSide, parserVars, prepended, input, stream, open, connection, messages,
                       delivered, pendingResponseOptions>>,
           calling' = calling \/ calling' = FALSE, loop' \in {"running", "ended"},
           closing' \in Nat,
           serverSide => situations' = situations
    PROVE  Types'
<1>0. calling' \in BOOLEAN /\ (calling' => calling)
  <2>1. calling \in BOOLEAN
    BY DEF Types, ParserTypes
  <2>2. CASE calling' = calling
    BY <2>1, <2>2
  <2>3. CASE calling' = FALSE
    BY <2>3
  <2> QED BY <2>2, <2>3
<1>1. ParserTypes'
  BY <1>0 DEF Types, ParserTypes, parserVars
<1>2. BufferTypes'
  BY DEF Types, BufferTypes, parserVars
<1>3. HistoryTypes'
  BY DEF Types, HistoryTypes, parserVars
<1> QED BY <1>1, <1>2, <1>3 DEF Types

LEMMA StartLineTypes == Types /\ StartLine => Types'
<1> SUFFICES ASSUME Types, StartLine PROVE Types'
  OBVIOUS
<1>1. ParserTypes /\ BufferTypes /\ HistoryTypes
  BY DEF Types
<1>2. /\ AwaitingStart /\ NextLine({"start"}) /\ Take(2) /\ input # <<>>
      /\ contentSize' = None /\ chunkSize' = None /\ httpBody' = <<>> /\ activeHeaders' = input[1].m
      /\ state' = "ReadingHeaders" /\ chunkedBody' = chunkedBody /\ ~calling
      /\ ReadUnchanged /\ NoDispatch
      /\ serverSide => situations' = situations
  BY DEF StartLine, Parsing
<1>3. input' \in Seq(Token) /\ input[1].m \in Nat
  BY <1>1, <1>2, LineTaken DEF BufferTypes, Token
<1>4. prepended = <<>>
  BY <1>1, <1>2 DEF BufferTypes
<1>5. ParserTypes'
  BY <1>1, <1>2, <1>3 DEF ParserTypes, ReadUnchanged, NoDispatch, peerVars, connectionVars, Reading
<1>6. BufferTypes'
  BY <1>1, <1>2, <1>3, <1>4 DEF BufferTypes, ReadUnchanged, peerVars, connectionVars
<1>7. HistoryTypes'
  BY <1>1, <1>2 DEF HistoryTypes, ReadUnchanged, NoDispatch, peerVars, connectionVars, AwaitingStart
<1> QED BY <1>5, <1>6, <1>7 DEF Types

(* What closing the connection of the base does. *)
LEMMA ConnectionClosed ==
    ASSUME Types, CloseConnection
    PROVE  /\ open' \in BOOLEAN /\ closing' \in Nat /\ stream' \in Seq(Token)
           /\ \/ open' = FALSE /\ stream' = <<>>
              \/ UNCHANGED <<open, stream>>
<1>1. open \in BOOLEAN /\ closing \in Nat /\ stream \in Seq(Token) /\ <<>> \in Seq(Token)
  BY DEF Types, ParserTypes, BufferTypes
<1>2. CASE open' = FALSE /\ stream' = <<>> /\ UNCHANGED closing
  BY <1>1, <1>2
<1>3. CASE closing' = closing + 1 /\ UNCHANGED <<open, stream>>
  BY <1>1, <1>3
<1>4. CASE UNCHANGED connectionVars
  BY <1>1, <1>4 DEF connectionVars
<1> QED BY <1>2, <1>3, <1>4 DEF CloseConnection

LEMMA InvalidRequestTypes == Types /\ InvalidRequest => Types'
<1> SUFFICES ASSUME Types, InvalidRequest PROVE Types'
  OBVIOUS
<1>1. ParserTypes /\ BufferTypes /\ HistoryTypes
  BY DEF Types
<1>2. /\ state = "AwaitingClientRequest" /\ NextLine({"bad"}) /\ Take(2) /\ input # <<>>
      /\ ResetIncomingHttpState(pendingResponseOptions)
      /\ CloseConnection /\ ~calling
      /\ UNCHANGED <<serverSide, prepended, loop, connection, messages, situations>>
      /\ NoDispatch
  BY DEF InvalidRequest, Parsing
<1>2a. open' \in BOOLEAN /\ closing' \in Nat /\ stream' \in Seq(Token)
  BY <1>2, ConnectionClosed
<1>3. serverSide
  BY <1>1, <1>2 DEF ParserTypes, Reading
<1>4. input' \in Seq(Token)
  BY <1>1, <1>2, LineTaken DEF BufferTypes
<1>5. /\ contentSize' = None /\ chunkSize' = None /\ httpBody' = <<>> /\ activeHeaders' = None
      /\ state' = "AwaitingClientRequest" /\ chunkedBody' = chunkedBody
  BY <1>2, <1>3 DEF ResetIncomingHttpState
<1>6. ParserTypes'
  BY <1>1, <1>2, <1>2a, <1>3, <1>5 DEF ParserTypes, NoDispatch, Reading
<1>7. BufferTypes'
  BY <1>1, <1>2, <1>2a, <1>4, <1>5 DEF BufferTypes, Reading
<1>8. HistoryTypes'
  BY <1>1, <1>2, <1>3 DEF HistoryTypes, NoDispatch
<1> QED BY <1>6, <1>7, <1>8 DEF Types

(* A line or some content is consumed and the message goes on. *)
LEMMA GoesOnTypes ==
    ASSUME Types, input # <<>>, ~calling, ReadUnchanged, NoDispatch, input' \in Seq(Token),
           httpBody' \in Seq(Token), chunkedBody' \in Seq(Token), activeHeaders' \in Nat \union {None},
           situations' \in {situations, situations \union {"misread"}},
           state \in Reading, state' \in Reading, state' = "ReadingContent" => contentSize' = 2,
           contentSize' \in {None, 0, 2}, chunkSize' \in {None, 0, 1, 2},
           state' = "ReadingHeaders" => httpBody' = <<>>,
           state' = "ReadingContent" => Len(httpBody') < 2
    PROVE  Types'
<1>1. ParserTypes /\ BufferTypes /\ HistoryTypes
  BY DEF Types
<1>2. prepended = <<>>
  BY <1>1 DEF BufferTypes
<1>3. ParserTypes'
  BY <1>1 DEF ParserTypes, ReadUnchanged, NoDispatch, peerVars, connectionVars
<1>4. BufferTypes'
  BY <1>1, <1>2 DEF BufferTypes, ReadUnchanged, peerVars, connectionVars
<1>5. HistoryTypes'
  BY <1>1 DEF HistoryTypes, ReadUnchanged, NoDispatch, peerVars, connectionVars, Reading
<1> QED BY <1>3, <1>4, <1>5 DEF Types

(* A message is dispatched. *)
LEMMA DispatchedTypes ==
    ASSUME Types, input # <<>>, NEW body \in Seq(Token), DispatchPayload(body), ReadUnchanged,
           input' \in Seq(Token), httpBody' \in Seq(Token), chunkedBody' \in Seq(Token),
           activeHeaders' \in Nat \union {None},
           situations' \in {situations, situations \union {"misread"}},
           contentSize' \in {None, 0, 2}, chunkSize' \in {None, 0, 1, 2}
    PROVE  Types'
<1>1. ParserTypes /\ BufferTypes /\ HistoryTypes
  BY DEF Types
<1>2. prepended = <<>>
  BY <1>1 DEF BufferTypes
<1>3. /\ calling' = TRUE /\ state' \notin Reading
      /\ state' \in (IF serverSide THEN {"AwaitingClientRequest"}
                     ELSE {"AwaitingUserRequest", "AwaitingResponse"})
      /\ delivered' \in Seq(Delivery)
      /\ pendingResponseOptions' \in Seq(Nat)
      /\ serverSide => pendingResponseOptions' = <<>>
  BY <1>1, DispatchTypes
<1>4. ParserTypes'
  BY <1>1, <1>3 DEF ParserTypes, ReadUnchanged, peerVars, connectionVars, Reading
<1>5. BufferTypes'
  BY <1>1, <1>2, <1>3 DEF BufferTypes, ReadUnchanged, peerVars, connectionVars, Reading
<1>6. HistoryTypes'
  BY <1>1, <1>3 DEF HistoryTypes, ReadUnchanged, peerVars, connectionVars
<1> QED BY <1>4, <1>5, <1>6 DEF Types

LEMMA HeaderLineTypes == Types /\ HeaderLine => Types'
<1> SUFFICES ASSUME Types, HeaderLine PROVE Types'
  OBVIOUS
<1>1. /\ ~calling /\ input # <<>> /\ ReadUnchanged /\ NoDispatch /\ UNCHANGED <<parserVars, situations>>
      /\ state = "ReadingHeaders" /\ Take(2)
      /\ NextLine({"Content-Length-0", "Content-Length-2", "Transfer-Encoding"})
  BY DEF HeaderLine, Parsing
<1>2. ParserTypes /\ BufferTypes
  BY DEF Types
<1>3. input' \in Seq(Token)
  BY <1>1, <1>2, LineTaken DEF BufferTypes
<1>4. /\ httpBody' \in Seq(Token) /\ chunkedBody' \in Seq(Token) /\ activeHeaders' \in Nat \union {None}
      /\ contentSize' \in {None, 0, 2} /\ chunkSize' \in {None, 0, 1, 2} /\ state' = state
      /\ httpBody' = <<>>
  BY <1>1, <1>2 DEF BufferTypes, ParserTypes, parserVars
<1> QED BY <1>1, <1>3, <1>4, GoesOnTypes DEF Reading

(* The end of a header, whatever fields of it were read. *)
LEMMA FramedTypes ==
    ASSUME Types, input # <<>>, ~calling, state = "ReadingHeaders", NEW kind, Framed(kind),
           ReadUnchanged, input' \in Seq(Token),
           situations' \in {situations, situations \union {"misread"}}
    PROVE  Types'
<1>1. UNCHANGED <<activeHeaders, chunkSize, httpBody, chunkedBody>>
  BY DEF Framed
<1>2. ParserTypes /\ BufferTypes
  BY DEF Types
<1>4. /\ httpBody' \in Seq(Token) /\ chunkedBody' \in Seq(Token)
      /\ contentSize \in {None, 0, 2} /\ chunkSize' \in {None, 0, 1, 2} /\ <<>> \in Seq(Token)
      /\ activeHeaders' \in Nat \union {None}
  BY <1>1, <1>2 DEF BufferTypes, ParserTypes
<1>4a. httpBody' = <<>> /\ Len(<<>>) = 0
  BY <1>1, <1>2 DEF BufferTypes
<1>5. CASE /\ kind \in {"none", "empty"}
           /\ DispatchPayload(<<>>)
           /\ contentSize' = IF kind = "empty" THEN 0 ELSE contentSize
  <2>1. contentSize' \in {None, 0, 2}
    BY <1>4, <1>5
  <2> QED BY <1>4, <1>5, <2>1, DispatchedTypes
<1>6. CASE /\ kind = "length"
           /\ contentSize' = Len(DataAt(kind)) /\ state' = "ReadingContent"
           /\ NoDispatch
  <2>1. DataAt(kind) = <<7, 8>>
    BY <1>6 DEF DataAt
  <2>2. contentSize' = 2
    BY <1>6, <2>1
  <2> QED BY <1>4, <1>4a, <1>6, <2>2, GoesOnTypes DEF Reading
<1>7. CASE kind = "chunked" /\ state' = "ReadingChunks" /\ NoDispatch /\ UNCHANGED contentSize
  BY <1>4, <1>4a, <1>7, GoesOnTypes DEF Reading
<1> QED BY <1>5, <1>6, <1>7 DEF Framed

LEMMA EndOfHeadersTypes == Types /\ EndOfHeaders => Types'
<1> SUFFICES ASSUME Types, EndOfHeaders PROVE Types'
  OBVIOUS
<1>1. /\ ~calling /\ input # <<>> /\ ReadUnchanged /\ UNCHANGED situations
      /\ state = "ReadingHeaders" /\ NextLine({"end"}) /\ Take(2)
      /\ Framed(messages[activeHeaders].kind)
  BY DEF EndOfHeaders, Parsing
<1>2. input' \in Seq(Token)
  BY <1>1, LineTaken DEF Types, BufferTypes
<1> QED BY <1>1, <1>2, FramedTypes

(* readContent takes what is missing, or all there is. *)
LEMMA ContentTaken ==
    ASSUME Types, ReadContent
    PROVE  \E taken \in Nat :
              /\ taken <= Len(input) /\ Take(taken)
              /\ httpBody' = httpBody \o SubSeq(input, 1, taken) /\ httpBody' \in Seq(Token)
              /\ Len(httpBody') = Len(httpBody) + taken
              /\ \/ taken = 2 - Len(httpBody) /\ DispatchPayload(httpBody')
                 \/ taken = Len(input) /\ taken < 2 - Len(httpBody) /\ NoDispatch /\ state' = state
<1>1. ParserTypes /\ BufferTypes
  BY DEF Types
<1>2. contentSize = 2 /\ Len(httpBody) < 2 /\ Len(httpBody) \in Nat /\ Len(input) \in Nat
      /\ httpBody \in Seq(Token) /\ input \in Seq(Token)
  BY <1>1 DEF ReadContent, ParserTypes, BufferTypes
<1> DEFINE missing == 2 - Len(httpBody)
           taken == IF Len(input) < missing THEN Len(input) ELSE missing
<1>3. taken \in Nat /\ taken <= Len(input)
  BY <1>2
<1>4. /\ httpBody' = httpBody \o SubSeq(input, 1, taken) /\ Take(taken)
      /\ \/ taken = missing /\ DispatchPayload(httpBody')
         \/ taken < missing /\ NoDispatch /\ state' = state
  BY <1>2 DEF ReadContent
<1>5. taken < missing => taken = Len(input)
  BY <1>2
<1>6. missing = 2 - Len(httpBody)
  OBVIOUS
<1> HIDE DEF taken, missing
<1>7. SubSeq(input, 1, taken) \in Seq(Token) /\ Len(SubSeq(input, 1, taken)) = taken
  BY <1>2, <1>3, SomeTaken
<1>8. httpBody' \in Seq(Token) /\ Len(httpBody') = Len(httpBody) + taken
  BY <1>2, <1>4, <1>7, ConcatProperties
<1> QED BY <1>3, <1>4, <1>5, <1>6, <1>8

LEMMA ReadContentTypes == Types /\ ReadContent => Types'
<1> SUFFICES ASSUME Types, ReadContent PROVE Types'
  OBVIOUS
<1>1. PICK taken \in Nat :
         /\ taken <= Len(input) /\ Take(taken)
         /\ httpBody' = httpBody \o SubSeq(input, 1, taken) /\ httpBody' \in Seq(Token)
         /\ Len(httpBody') = Len(httpBody) + taken
         /\ \/ taken = 2 - Len(httpBody) /\ DispatchPayload(httpBody')
            \/ taken = Len(input) /\ taken < 2 - Len(httpBody) /\ NoDispatch /\ state' = state
  BY ContentTaken
<1>2. ParserTypes /\ BufferTypes
  BY DEF Types
<1>3. /\ state = "ReadingContent" /\ contentSize = 2 /\ ~calling /\ input # <<>> /\ ReadUnchanged
      /\ UNCHANGED <<activeHeaders, contentSize, chunkSize, chunkedBody, situations>>
  BY <1>2 DEF ReadContent, Parsing, ParserTypes
<1>4. input' \in Seq(Token) /\ Len(httpBody) \in Nat
  BY <1>1, <1>2, Taken DEF BufferTypes
<1>5. /\ chunkedBody' \in Seq(Token) /\ contentSize' \in {None, 0, 2}
      /\ chunkSize' \in {None, 0, 1, 2} /\ activeHeaders' \in Nat \union {None}
  BY <1>2, <1>3 DEF BufferTypes, ParserTypes
<1>6. CASE DispatchPayload(httpBody')
  BY <1>1, <1>3, <1>4, <1>5, <1>6, DispatchedTypes
<1>7. CASE taken < 2 - Len(httpBody) /\ NoDispatch /\ state' = state
  <2>1. Len(httpBody') < 2
    BY <1>1, <1>4, <1>7
  <2> QED BY <1>1, <1>3, <1>4, <1>5, <1>7, <2>1, GoesOnTypes DEF Reading
<1> QED BY <1>1, <1>6, <1>7

LEMMA ChunkSizeTypes == Types /\ ChunkSize => Types'
<1> SUFFICES ASSUME Types, ChunkSize PROVE Types'
  OBVIOUS
<1>1. ParserTypes /\ BufferTypes
  BY DEF Types
<1>2. /\ ~calling /\ input # <<>> /\ ReadUnchanged /\ NoDispatch /\ Take(2)
      /\ UNCHANGED <<state, activeHeaders, contentSize, chunkedBody, httpBody, situations>>
      /\ state = "ReadingChunks" /\ chunkSize' \in {None, 0, 1, 2}
      /\ \E sorts : NextLine(sorts)
  <2>1. ~calling /\ input # <<>> /\ state = "ReadingChunks"
    BY DEF ChunkSize, Parsing
  <2>2. /\ ReadUnchanged /\ NoDispatch /\ Take(2)
        /\ UNCHANGED <<state, activeHeaders, contentSize, chunkedBody, httpBody, situations>>
        /\ chunkSize' \in {None, 0, 1, 2}
    BY DEF ChunkSize, ChunkLength
  <2>3. NextLine({"crlf"}) \/ NextLine({"size"}) \/ NextLine({"last"})
    BY DEF ChunkSize
  <2> QED BY <2>1, <2>2, <2>3
<1>3. input' \in Seq(Token)
  BY <1>1, <1>2, LineTaken DEF BufferTypes
<1>4. /\ httpBody' \in Seq(Token) /\ chunkedBody' \in Seq(Token)
      /\ contentSize' \in {None, 0, 2} /\ activeHeaders' \in Nat \union {None}
  BY <1>1, <1>2 DEF BufferTypes, ParserTypes
<1> QED BY <1>2, <1>3, <1>4, GoesOnTypes DEF Reading

LEMMA ChunkDataTypes == Types /\ ChunkData => Types'
<1> SUFFICES ASSUME Types, ChunkData PROVE Types'
  OBVIOUS
<1>1. ParserTypes /\ BufferTypes
  BY DEF Types
<1>2. /\ ~calling /\ input # <<>> /\ ReadUnchanged /\ NoDispatch
      /\ UNCHANGED <<state, activeHeaders, contentSize, situations>>
      /\ state = "ReadingChunks"
  BY DEF ChunkData, Parsing
<1>3. chunkSize \in {1, 2} /\ Len(input) \in Nat /\ input \in Seq(Token)
  BY <1>1 DEF ChunkData, ParserTypes, BufferTypes
<1>4. /\ contentSize' \in {None, 0, 2} /\ httpBody \in Seq(Token) /\ chunkedBody \in Seq(Token)
      /\ activeHeaders' \in Nat \union {None}
  BY <1>1, <1>2 DEF BufferTypes, ParserTypes
<1>5. CASE /\ Len(input) < chunkSize
           /\ chunkedBody' = chunkedBody \o input
           /\ chunkSize' = chunkSize - Len(input)
           /\ Take(Len(input))
           /\ UNCHANGED httpBody
  <2>1. input' \in Seq(Token)
    BY <1>3, <1>5, Taken
  <2>2. chunkSize' \in {None, 0, 1, 2}
    BY <1>3, <1>5
  <2>3. chunkedBody' \in Seq(Token)
    BY <1>3, <1>4, <1>5, ConcatProperties
  <2> QED BY <1>2, <1>4, <1>5, <2>1, <2>2, <2>3, GoesOnTypes DEF Reading
<1>6. CASE /\ Len(input) >= chunkSize
           /\ httpBody' = httpBody \o chunkedBody \o SubSeq(input, 1, chunkSize)
           /\ chunkedBody' = <<>> /\ chunkSize' = None
           /\ Take(chunkSize)
  <2>1. input' \in Seq(Token) /\ SubSeq(input, 1, chunkSize) \in Seq(Token)
    BY <1>3, <1>6, Taken, SomeTaken
  <2>2. httpBody \o chunkedBody \in Seq(Token)
    BY <1>4, ConcatProperties
  <2>3. httpBody' \in Seq(Token)
    BY <1>6, <2>1, <2>2, ConcatProperties
  <2>4. chunkedBody' \in Seq(Token)
    BY <1>6
  <2> QED BY <1>2, <1>4, <1>6, <2>1, <2>3, <2>4, GoesOnTypes DEF Reading
<1> QED BY <1>5, <1>6 DEF ChunkData

LEMMA LastChunkTypes == Types /\ LastChunk => Types'
<1> SUFFICES ASSUME Types, LastChunk PROVE Types'
  OBVIOUS
<1>1. ParserTypes /\ BufferTypes
  BY DEF Types
<1>2. /\ input # <<>> /\ ReadUnchanged /\ DispatchPayload(httpBody) /\ NextLine({"end"}) /\ Take(2)
      /\ UNCHANGED <<activeHeaders, contentSize, httpBody, situations>>
      /\ chunkedBody' = <<>> /\ chunkSize' = None
  BY DEF LastChunk, EndOfChunks, Parsing
<1>3. input' \in Seq(Token)
  BY <1>1, <1>2, LineTaken DEF BufferTypes
<1>4. /\ httpBody' \in Seq(Token) /\ chunkedBody' \in Seq(Token) /\ httpBody \in Seq(Token)
      /\ contentSize' \in {None, 0, 2} /\ chunkSize' \in {None, 0, 1, 2}
      /\ activeHeaders' \in Nat \union {None}
  BY <1>1, <1>2 DEF BufferTypes, ParserTypes
<1> QED BY <1>2, <1>3, <1>4, DispatchedTypes

(* The first of the lines at hand ends in the read. *)
LEMMA LineEnds ==
    ASSUME input \in Seq(Token), HasLine
    PROVE  /\ LineEnd \in 1 .. Len(input) /\ Is(input[LineEnd]).eol
           /\ \A i \in 1 .. LineEnd - 1 : ~Is(input[i]).eol
<1> DEFINE T == {n \in 1 .. Len(input) : Is(input[n]).eol}
<1>1. DOMAIN input = 1 .. Len(input) /\ Len(input) \in Nat
  OBVIOUS
<1>2. T \subseteq Nat /\ T # {}
  BY <1>1 DEF HasLine
<1>3. PICK n \in T : \A i \in T : ~(<<i, n>> \in OpToRel(<, Nat))
  BY <1>2, NatLessThanWellFounded, WFMin
<1>4. ASSUME NEW i \in 1 .. n - 1 PROVE ~Is(input[i]).eol
  <2>0. n \in 1 .. Len(input)
    BY <1>3
  <2>1. i \in Nat /\ n \in Nat /\ i < n /\ i \in 1 .. Len(input)
    BY <1>1, <2>0
  <2> QED BY <1>3, <2>1 DEF OpToRel
<1>5. n \in DOMAIN input /\ Is(input[n]).eol
  BY <1>1, <1>3
<1>6. /\ LineEnd \in DOMAIN input /\ Is(input[LineEnd]).eol
      /\ \A i \in 1 .. LineEnd - 1 : ~Is(input[i]).eol
  BY <1>4, <1>5 DEF LineEnd
<1> QED BY <1>1, <1>6

LEMMA MisreadTypes == Types /\ Misread => Types'
<1> SUFFICES ASSUME Types, Misread PROVE Types'
  OBVIOUS
<1>1. ParserTypes /\ BufferTypes /\ HistoryTypes /\ <<>> \in Seq(Token)
  BY DEF Types
<1>2. /\ ~calling /\ input # <<>> /\ HasLine /\ situations' = situations \union {"misread"}
      /\ UNCHANGED <<environment, serverSide, prepended, sendVars, loop, connection, messages>>
  BY DEF Misread, Parsing
<1>3. LineEnd \in 1 .. Len(input) /\ Len(input) \in Nat /\ input \in Seq(Token) /\ prepended = <<>>
  BY <1>1, <1>2, LineEnds DEF BufferTypes
<1>4. Take(LineEnd) => input' \in Seq(Token)
  BY <1>3, Taken
<1>5. input[LineEnd].m \in Nat
  <2>1. input[LineEnd] \in Token
    BY <1>3, ElementOfSeq
  <2> QED BY <2>1 DEF Token
<1>6. CASE MisreadStart /\ NoDispatch
  <2>1. input' \in Seq(Token)
    BY <1>1, <1>4, <1>6 DEF MisreadStart
  <2>2. CASE AwaitingStart /\ UNCHANGED <<parserVars, connectionVars>>
    <3>1. ParserTypes'
      BY <1>1, <1>2, <1>6, <2>2 DEF ParserTypes, parserVars, connectionVars, NoDispatch
    <3>2. BufferTypes'
      BY <1>1, <1>2, <1>3, <2>1, <2>2 DEF BufferTypes, parserVars, connectionVars
    <3>3. HistoryTypes'
      BY <1>1, <1>2, <1>6 DEF HistoryTypes, NoDispatch
    <3> QED BY <3>1, <3>2, <3>3 DEF Types
  <2>3. CASE /\ state = "AwaitingClientRequest"
             /\ ResetIncomingHttpState(pendingResponseOptions) /\ CloseConnection
    <3>1. open' \in BOOLEAN /\ closing' \in Nat /\ stream' \in Seq(Token)
      BY <2>3, ConnectionClosed
    <3>2. serverSide
      BY <1>1, <2>3 DEF ParserTypes, Reading
    <3>3. /\ contentSize' = None /\ chunkSize' = None /\ httpBody' = <<>> /\ activeHeaders' = None
          /\ state' = "AwaitingClientRequest" /\ chunkedBody' = chunkedBody
      BY <2>3, <3>2 DEF ResetIncomingHttpState
    <3>4. ParserTypes'
      BY <1>1, <1>2, <1>6, <3>1, <3>2, <3>3 DEF ParserTypes, NoDispatch, Reading
    <3>5. BufferTypes'
      BY <1>1, <1>2, <1>3, <2>1, <3>1, <3>3 DEF BufferTypes, Reading
    <3>6. HistoryTypes'
      BY <1>1, <1>2, <1>6 DEF HistoryTypes, NoDispatch
    <3> QED BY <3>4, <3>5, <3>6 DEF Types
  <2>4. CASE /\ state = "AwaitingResponse"
             /\ contentSize' = None /\ chunkSize' = None /\ httpBody' = <<>>
             /\ state' = "ReadingHeaders" /\ activeHeaders' \in Nat \union {None}
             /\ UNCHANGED <<chunkedBody, connectionVars>>
    <3>1. ParserTypes'
      BY <1>1, <1>2, <1>6, <2>4 DEF ParserTypes, connectionVars, NoDispatch, Reading
    <3>2. BufferTypes'
      BY <1>1, <1>2, <1>3, <2>1, <2>4 DEF BufferTypes, connectionVars
    <3>3. HistoryTypes'
      BY <1>1, <1>2, <1>6 DEF HistoryTypes, NoDispatch
    <3> QED BY <3>1, <3>2, <3>3 DEF Types
  <2>5. CASE /\ state = "AwaitingResponse"
             /\ contentSize' = None /\ chunkSize' = None /\ httpBody' = <<>>
             /\ state' = "ReadingHeaders"
             /\ \/ activeHeaders' = IF Is(input[LineEnd]).what = "start" THEN input[LineEnd].m
                                    ELSE None
                \/ activeHeaders' = None
             /\ UNCHANGED <<chunkedBody, connectionVars>>
    BY <1>5, <2>4, <2>5
  <2> QED BY <1>6, <2>2, <2>3, <2>5 DEF MisreadStart
<1>7. CASE Take(LineEnd) /\ UNCHANGED connectionVars
           /\ \/ (MisreadField \/ MisreadChunk) /\ NoDispatch
              \/ MisreadEnd \/ MisreadLast
  <2>1. input' \in Seq(Token) /\ ReadUnchanged
    BY <1>2, <1>4, <1>7 DEF ReadUnchanged, peerVars
  <2>2. /\ httpBody \in Seq(Token) /\ chunkedBody \in Seq(Token)
        /\ contentSize \in {None, 0, 2} /\ chunkSize \in {None, 0, 1, 2}
        /\ activeHeaders \in Nat \union {None}
        /\ state = "ReadingHeaders" => httpBody = <<>>
    BY <1>1 DEF ParserTypes, BufferTypes
  <2>3. CASE MisreadField /\ NoDispatch
    BY <1>2, <2>1, <2>2, <2>3, GoesOnTypes DEF MisreadField, Reading
  <2>4. CASE MisreadChunk /\ NoDispatch
    <3>1. chunkSize' \in {None, 0, 1, 2} /\ state = "ReadingChunks" /\ state' = state
      BY <2>2, <2>4 DEF MisreadChunk, ChunkLength
    <3>2. UNCHANGED <<activeHeaders, contentSize, chunkedBody, httpBody>>
      BY <2>4 DEF MisreadChunk
    <3> QED BY <1>2, <2>1, <2>2, <2>4, <3>1, <3>2, GoesOnTypes DEF Reading
  <2>5. CASE MisreadEnd
    BY <1>2, <2>1, <2>5, FramedTypes DEF MisreadEnd
  <2>6. CASE MisreadLast
    <3>1. /\ DispatchPayload(httpBody) /\ chunkedBody' = <<>> /\ chunkSize' = None
          /\ UNCHANGED <<activeHeaders, contentSize, httpBody>>
      BY <2>6 DEF MisreadLast, EndOfChunks
    <3> QED BY <1>1, <1>2, <2>1, <2>2, <3>1, DispatchedTypes
  <2> QED BY <1>7, <2>3, <2>4, <2>5, <2>6
<1> QED BY <1>6, <1>7 DEF Misread

LEMMA OtherParseTypes == Types /\ (IgnoreUnsolicited \/ PrependRest) => Types'
<1> SUFFICES ASSUME Types, IgnoreUnsolicited \/ PrependRest PROVE Types'
  OBVIOUS
<1>1. ParserTypes /\ BufferTypes /\ HistoryTypes /\ <<>> \in Seq(Token)
  BY DEF Types
<1>2. CASE IgnoreUnsolicited
  <2>1. /\ UNCHANGED parserVars /\ ReadUnchanged /\ NoDispatch /\ input' = <<>> /\ ~serverSide
    BY <1>1, <1>2 DEF IgnoreUnsolicited, ParserTypes, Reading
  <2>2. ParserTypes'
    BY <1>1, <2>1 DEF ParserTypes, ReadUnchanged, NoDispatch, parserVars, peerVars, connectionVars
  <2>3. BufferTypes'
    BY <1>1, <2>1 DEF BufferTypes, ReadUnchanged, parserVars, peerVars, connectionVars
  <2>4. HistoryTypes'
    BY <1>1, <2>1 DEF HistoryTypes, ReadUnchanged, NoDispatch, parserVars, peerVars, connectionVars
  <2> QED BY <2>2, <2>3, <2>4 DEF Types
<1>3. CASE PrependRest
  <2>1. /\ UNCHANGED <<serverSide, parserVars, loop, peerVars, situations>> /\ NoDispatch
        /\ input' = <<>> /\ prepended' = input
    BY <1>3 DEF PrependRest
  <2>2. ParserTypes'
    BY <1>1, <2>1 DEF ParserTypes, NoDispatch, parserVars, peerVars, connectionVars
  <2>3. BufferTypes'
    BY <1>1, <2>1 DEF BufferTypes, parserVars, peerVars, connectionVars
  <2>4. HistoryTypes'
    BY <1>1, <2>1 DEF HistoryTypes, NoDispatch, parserVars, peerVars, connectionVars
  <2> QED BY <2>2, <2>3, <2>4 DEF Types
<1> QED BY <1>2, <1>3

LEMMA ReadSome ==
    ASSUME BufferTypes, Read
    PROVE  \E n \in 1 .. Len(stream) :
              /\ input' = prepended \o SubSeq(stream, 1, n) /\ input' \in Seq(Token)
              /\ Len(input') = Len(prepended) + n
              /\ \A i \in 1 .. Len(input') :
                    input'[i] = IF i <= Len(prepended) THEN prepended[i] ELSE stream[i - Len(prepended)]
              /\ stream' \in Seq(Token) /\ Len(stream') = Len(stream) - n
              /\ \A i \in 1 .. Len(stream') : stream'[i] = stream[n + i]
<1>1. PICK n \in 1 .. Len(stream) : /\ input' = prepended \o SubSeq(stream, 1, n)
                                   /\ stream' = SubSeq(stream, n + 1, Len(stream))
  BY DEF Read
<1>2. /\ Len(stream) \in Nat /\ \A i \in 1 .. Len(stream) : stream[i] \in Token
      /\ prepended \in Seq(Token) /\ Len(prepended) \in Nat
  BY DEF BufferTypes
<1> DEFINE first == SubSeq(stream, 1, n)
           rest == SubSeq(stream, n + 1, Len(stream))
<1>3. /\ first \in Seq(Token) /\ Len(first) = IF 1 <= n THEN n - 1 + 1 ELSE 0
      /\ \A i \in 1 .. n - 1 + 1 : first[i] = stream[1 + i - 1]
  <2>1. 1 \in Int /\ n \in Int /\ \A i \in 1 .. n : stream[i] \in Token
    BY <1>2
  <2> QED BY <2>1, SubSeqProperties
<1>4. /\ rest \in Seq(Token)
      /\ Len(rest) = IF n + 1 <= Len(stream) THEN Len(stream) - (n + 1) + 1 ELSE 0
      /\ \A i \in 1 .. Len(stream) - (n + 1) + 1 : rest[i] = stream[(n + 1) + i - 1]
  <2>1. n + 1 \in Int /\ Len(stream) \in Int /\ \A i \in n + 1 .. Len(stream) : stream[i] \in Token
    BY <1>2
  <2> QED BY <2>1, SubSeqProperties
<1>5. input' = prepended \o first /\ stream' = rest
  BY <1>1
<1> HIDE DEF first, rest
<1>6. Len(first) = n /\ \A i \in 1 .. n : first[i] = stream[i]
  BY <1>2, <1>3
<1>7. Len(rest) = Len(stream) - n
  BY <1>2, <1>4
<1>8. \A i \in 1 .. Len(rest) : rest[i] = stream[n + i]
  BY <1>2, <1>4, <1>7
<1>9. /\ prepended \o first \in Seq(Token) /\ Len(prepended \o first) = Len(prepended) + n
      /\ \A i \in 1 .. Len(prepended) + n :
            (prepended \o first)[i] = IF i <= Len(prepended) THEN prepended[i] ELSE first[i - Len(prepended)]
  BY <1>2, <1>3, <1>6, ConcatProperties
<1>10. \A i \in 1 .. Len(input') :
            input'[i] = IF i <= Len(prepended) THEN prepended[i] ELSE stream[i - Len(prepended)]
  <2> SUFFICES ASSUME NEW i \in 1 .. Len(input')
               PROVE  input'[i] = IF i <= Len(prepended) THEN prepended[i] ELSE stream[i - Len(prepended)]
    OBVIOUS
  <2>1. i \in 1 .. Len(prepended) + n
    BY <1>5, <1>9
  <2>2. CASE i <= Len(prepended)
    BY <1>5, <1>9, <2>1, <2>2
  <2>3. CASE i > Len(prepended)
    <3>1. i - Len(prepended) \in 1 .. n
      BY <1>2, <2>1, <2>3
    <3> QED BY <1>2, <1>5, <1>6, <1>9, <2>1, <2>3, <3>1
  <2> QED BY <1>2, <2>1, <2>2, <2>3
<1> QED BY <1>1, <1>4, <1>5, <1>7, <1>8, <1>9, <1>10 DEF first

LEMMA ReadTypes == Types /\ Read => Types'
<1> SUFFICES ASSUME Types, Read PROVE Types'
  OBVIOUS
<1>1. ParserTypes /\ BufferTypes /\ HistoryTypes /\ <<>> \in Seq(Token)
  BY DEF Types
<1>2. /\ prepended' = <<>>
      /\ UNCHANGED <<serverSide, parserVars, pendingResponseOptions, calling, loop,
                     open, closing, connection, messages, delivered, situations>>
  BY DEF Read
<1>3. input' \in Seq(Token) /\ stream' \in Seq(Token)
  BY <1>1, ReadSome
<1>4. ParserTypes'
  BY <1>1, <1>2 DEF ParserTypes, parserVars
<1>5. BufferTypes'
  BY <1>1, <1>2, <1>3 DEF BufferTypes, parserVars
<1>6. HistoryTypes'
  BY <1>1, <1>2 DEF HistoryTypes, parserVars
<1> QED BY <1>4, <1>5, <1>6 DEF Types

LEMMA ReturnTypes == Types /\ HandlerReturns => Types'
<1> SUFFICES ASSUME Types, HandlerReturns PROVE Types'
  OBVIOUS
<1> QED BY TypesStill DEF HandlerReturns, readVars, peerVars, connectionVars, Types, ParserTypes

(* The connection is lost or closed, with requests that may be pending. *)
LEMMA ClosedTypes ==
    ASSUME Types, NEW pending, ResetIncomingHttpState(pending), open' = FALSE, stream' = <<>>,
           pendingResponseOptions' = pending, pending \in Seq(Nat), serverSide => pending = <<>>,
           serverSide => "overtaken" \notin situations', loop' \in {"running", "ended"},
           UNCHANGED <<serverSide, prepended, input, calling, connection, messages, delivered, closing>>
    PROVE  Types'
<1>1. ParserTypes /\ BufferTypes /\ HistoryTypes /\ <<>> \in Seq(Token)
  BY DEF Types
<1>2. /\ contentSize' = None /\ chunkSize' = None /\ httpBody' = <<>> /\ activeHeaders' = None
      /\ state' = IF serverSide THEN "AwaitingClientRequest"
                  ELSE IF pending = <<>> THEN "AwaitingUserRequest" ELSE "AwaitingResponse"
      /\ chunkedBody' = chunkedBody
  BY DEF ResetIncomingHttpState
<1>3. state' \notin Reading
  BY <1>2 DEF Reading
<1>4. ParserTypes'
  BY <1>1, <1>2, <1>3 DEF ParserTypes, Reading
<1>5. BufferTypes'
  BY <1>1, <1>2, <1>3 DEF BufferTypes, Reading
<1>6. HistoryTypes'
  BY <1>1, <1>2 DEF HistoryTypes
<1> QED BY <1>4, <1>5, <1>6 DEF Types

LEMMA SendAsyncTypes ==
    ASSUME Types, NEW kind, SendAsync(kind, pendingResponseOptions'),
           UNCHANGED <<serverSide, prepended, input, calling, loop, connection, messages, delivered>>,
           pendingResponseOptions' \in Seq(Nat), serverSide => pendingResponseOptions' = <<>>,
           serverSide => "overtaken" \notin situations'
    PROVE  Types'
<1>1. ParserTypes /\ BufferTypes /\ HistoryTypes
  BY DEF Types
<1>2. CASE UNCHANGED <<parserVars, connectionVars>>
  <2>1. ParserTypes'
    BY <1>1, <1>2 DEF ParserTypes, parserVars, connectionVars
  <2>2. BufferTypes'
    BY <1>1, <1>2 DEF BufferTypes, parserVars, connectionVars
  <2>3. HistoryTypes'
    BY <1>1, <1>2 DEF HistoryTypes, parserVars
  <2> QED BY <2>1, <2>2, <2>3 DEF Types
<1>3. CASE OnDisconnected(pendingResponseOptions') /\ UNCHANGED situations
  <2>1. /\ ResetIncomingHttpState(pendingResponseOptions') /\ open' = FALSE /\ stream' = <<>>
        /\ UNCHANGED closing /\ loop' \in {"running", "ended"}
    BY <1>1, <1>3 DEF OnDisconnected, ParserTypes
  <2> QED BY <1>3, <2>1, ClosedTypes
<1> QED BY <1>2, <1>3 DEF SendAsync

(* What is sent. *)
Then == {"plain", "file", "chunk"}
SendTypes ==
    /\ sends \in Seq({"plain", "file"})
    /\ sendQueue \in Seq([send : Nat, then : Then])
    /\ wire \in Seq([connection : Nat, send : Nat])
    /\ fileStream \in [send : Nat, left : Nat] \union {None}
    /\ \A i \in 1 .. Len(sendQueue) : sendQueue[i].then = "chunk" => fileStream \in [send : Nat, left : Nat]

LEMMA SendCallTypes == Types /\ SendTypes /\ (SendRequest \/ \E kind \in {"plain", "file"} : Respond(kind)) => Types'
<1>1. ASSUME Types, SendTypes, SendRequest PROVE Types'
  <2>1. /\ ~serverSide /\ Sending("plain")
        /\ pendingResponseOptions' = Append(pendingResponseOptions, Len(sends'))
        /\ SendAsync("plain", pendingResponseOptions')
    BY <1>1 DEF SendRequest
  <2>2. UNCHANGED <<serverSide, prepended, input, calling, loop, connection, messages, delivered>>
    BY <2>1 DEF Sending
  <2>3. Len(sends') \in Nat /\ pendingResponseOptions \in Seq(Nat)
    BY <1>1, <2>1 DEF Types, HistoryTypes, Sending, SendTypes
  <2>4. pendingResponseOptions' \in Seq(Nat)
    BY <2>1, <2>3, AppendProperties
  <2> QED BY <1>1, <2>1, <2>2, <2>4, SendAsyncTypes
<1>2. ASSUME Types, NEW kind \in {"plain", "file"}, Respond(kind) PROVE Types'
  <2>1. /\ serverSide /\ Sending(kind) /\ UNCHANGED pendingResponseOptions
        /\ SendAsync(kind, pendingResponseOptions')
    BY <1>2 DEF Respond
  <2>2. UNCHANGED <<serverSide, prepended, input, calling, loop, connection, messages, delivered>>
    BY <2>1 DEF Sending
  <2>3. /\ pendingResponseOptions' \in Seq(Nat) /\ pendingResponseOptions' = <<>>
        /\ "overtaken" \notin situations
    BY <1>2, <2>1 DEF Types, HistoryTypes
  <2>4. "overtaken" \notin situations'
    BY <2>1, <2>3 DEF SendAsync
  <2> QED BY <1>2, <2>1, <2>2, <2>3, <2>4, SendAsyncTypes
<1> QED BY <1>1, <1>2

(* What writing the first send does to the parser. *)
LEMMA Wrote ==
    ASSUME WriteNext
    PROVE  /\ \/ /\ \/ state' = state /\ situations' = situations
                    \/ serverSide /\ state' = "AwaitingClientRequest" /\ situations' = situations
                    \/ /\ ~serverSide /\ state' = "AwaitingResponse"
                       /\ situations' = situations \union (IF state \in Reading THEN {"overtaken"} ELSE {})
                 /\ UNCHANGED <<activeHeaders, contentSize, chunkSize, chunkedBody, httpBody, open, stream>>
              \/ OnDisconnected(pendingResponseOptions) /\ UNCHANGED situations
           /\ loop = "running" /\ ~calling /\ input = <<>> /\ open /\ sendQueue # <<>>
           /\ loop' \in {"running", "ended"}
           /\ UNCHANGED <<serverSide, prepended, input, pendingResponseOptions, sends, calling, closing,
                          connection, messages, delivered>>
<1>1. /\ loop = "running" /\ ~calling /\ input = <<>> /\ open /\ sendQueue # <<>>
      /\ UNCHANGED <<serverSide, prepended, input, pendingResponseOptions, sends, calling,
                     connection, messages, delivered>>
  BY DEF WriteNext, Idle
<1>2. ASSUME OnPayloadSent
      PROVE  /\ \/ state' = state /\ situations' = situations
                \/ serverSide /\ state' = "AwaitingClientRequest" /\ situations' = situations
                \/ /\ ~serverSide /\ state' = "AwaitingResponse"
                   /\ situations' = situations \union (IF state \in Reading THEN {"overtaken"} ELSE {})
             /\ loop' = loop /\ closing' = closing
             /\ UNCHANGED <<activeHeaders, contentSize, chunkSize, chunkedBody, httpBody, open, stream>>
  BY <1>2 DEF OnPayloadSent, connectionVars
<1>3. CASE UNCHANGED <<parserVars, connectionVars, situations>> /\ loop' \in {loop, "ended"}
  BY <1>1, <1>3 DEF parserVars, connectionVars
<1>4. CASE OnDisconnected(pendingResponseOptions) /\ UNCHANGED situations /\ loop' \in {"running", "ended"}
  BY <1>1, <1>4 DEF OnDisconnected
<1>5. ASSUME NEW file, SendFileChunk(file)
      PROVE  \/ OnPayloadSent
             \/ UNCHANGED <<parserVars, connectionVars, situations>> /\ loop' \in {loop, "ended"}
             \/ /\ OnDisconnected(pendingResponseOptions) /\ UNCHANGED situations
                /\ loop' \in {"running", "ended"}
  BY <1>5 DEF SendFileChunk
<1>6. \/ OnPayloadSent
      \/ UNCHANGED <<parserVars, connectionVars, situations>> /\ loop' \in {loop, "ended"}
      \/ /\ OnDisconnected(pendingResponseOptions) /\ UNCHANGED situations
         /\ loop' \in {"running", "ended"}
  BY <1>5 DEF WriteNext, SendFileContent
<1>7. CASE OnPayloadSent
  BY <1>1, <1>2, <1>7
<1> QED BY <1>3, <1>4, <1>6, <1>7

LEMMA WriteNextTypes == Types /\ WriteNext => Types'
<1> SUFFICES ASSUME Types, WriteNext PROVE Types'
  OBVIOUS
<1>1. ParserTypes /\ BufferTypes /\ HistoryTypes
  BY DEF Types
<1>2. /\ ~calling /\ open /\ loop' \in {"running", "ended"}
      /\ UNCHANGED <<serverSide, prepended, input, pendingResponseOptions, calling, closing,
                     connection, messages, delivered>>
  BY Wrote
<1>3. CASE /\ \/ state' = state /\ situations' = situations
              \/ serverSide /\ state' = "AwaitingClientRequest" /\ situations' = situations
              \/ /\ ~serverSide /\ state' = "AwaitingResponse"
                 /\ situations' = situations \union (IF state \in Reading THEN {"overtaken"} ELSE {})
           /\ UNCHANGED <<activeHeaders, contentSize, chunkSize, chunkedBody, httpBody, open, stream>>
  <2>1. ParserTypes'
    BY <1>1, <1>2, <1>3 DEF ParserTypes, Reading
  <2>2. BufferTypes'
    BY <1>1, <1>2, <1>3 DEF BufferTypes, Reading
  <2>3. HistoryTypes'
    BY <1>1, <1>2, <1>3 DEF HistoryTypes
  <2> QED BY <2>1, <2>2, <2>3 DEF Types
<1>4. CASE OnDisconnected(pendingResponseOptions) /\ UNCHANGED situations
  <2>1. ResetIncomingHttpState(pendingResponseOptions) /\ open' = FALSE /\ stream' = <<>>
    BY <1>4 DEF OnDisconnected
  <2>2. /\ pendingResponseOptions \in Seq(Nat) /\ (serverSide => pendingResponseOptions = <<>>)
        /\ serverSide => "overtaken" \notin situations'
    BY <1>1, <1>4 DEF HistoryTypes
  <2> QED BY <1>2, <2>1, <2>2, ClosedTypes
<1> QED BY <1>3, <1>4, Wrote

LEMMA ConnectionTypes ==
    Types /\ (OpenEndpoint \/ CloseEndpoint \/ CloseAction \/ LoseConnection \/ FailWrite) => Types'
<1> SUFFICES ASSUME Types, OpenEndpoint \/ CloseEndpoint \/ CloseAction \/ LoseConnection \/ FailWrite
             PROVE  Types'
  OBVIOUS
<1>1. ParserTypes /\ BufferTypes /\ HistoryTypes /\ <<>> \in Seq(Token)
  BY DEF Types
<1>2. CASE OpenEndpoint
  <2>1. /\ ~serverSide /\ open' = TRUE /\ connection' = connection + 1 /\ stream' = <<>>
        /\ UNCHANGED <<serverSide, parserVars, prepended, input, pendingResponseOptions, calling, loop,
                       closing, messages, delivered>>
    BY <1>2 DEF OpenEndpoint, ConnectionUnchanged
  <2>2. ParserTypes'
    BY <1>1, <2>1 DEF ParserTypes, parserVars
  <2>3. BufferTypes'
    BY <1>1, <2>1 DEF BufferTypes, parserVars
  <2>4. HistoryTypes'
    BY <1>1, <2>1 DEF HistoryTypes, parserVars
  <2> QED BY <2>2, <2>3, <2>4 DEF Types
<1>3. CASE LoseConnection
  <2>1. /\ ResetIncomingHttpState(pendingResponseOptions) /\ open' = FALSE /\ stream' = <<>>
        /\ UNCHANGED <<connection, situations, closing>> /\ ConnectionUnchanged
    BY <1>3 DEF LoseConnection, OnDisconnected
  <2>2. /\ pendingResponseOptions' = pendingResponseOptions /\ pendingResponseOptions \in Seq(Nat)
        /\ serverSide => pendingResponseOptions = <<>> /\ "overtaken" \notin situations'
        /\ UNCHANGED <<serverSide, prepended, input, calling, loop, connection, messages, delivered>>
        /\ loop' \in {"running", "ended"}
    BY <1>1, <2>1 DEF HistoryTypes, ParserTypes, ConnectionUnchanged
  <2> QED BY <2>1, <2>2, ClosedTypes
<1>4. CASE CloseEndpoint
  <2>1. /\ ResetIncomingHttpState(pendingResponseOptions) /\ CloseConnection
        /\ situations' = situations \union (IF open' /\ state \in Reading THEN {"cut"} ELSE {})
        /\ UNCHANGED <<serverSide, prepended, input, pendingResponseOptions, calling, loop,
                       connection, messages, delivered>>
    BY <1>4 DEF CloseEndpoint, ConnectionUnchanged
  <2>2. open' \in BOOLEAN /\ closing' \in Nat /\ stream' \in Seq(Token)
    BY <2>1, ConnectionClosed
  <2>3. /\ contentSize' = None /\ chunkSize' = None /\ httpBody' = <<>> /\ activeHeaders' = None
        /\ state' \in IF serverSide THEN {"AwaitingClientRequest"}
                      ELSE {"AwaitingUserRequest", "AwaitingResponse"}
        /\ chunkedBody' = chunkedBody
    BY <2>1 DEF ResetIncomingHttpState
  <2>4. ParserTypes'
    BY <1>1, <2>1, <2>2, <2>3 DEF ParserTypes, Reading
  <2>5. BufferTypes'
    BY <1>1, <2>1, <2>2, <2>3 DEF BufferTypes
  <2>6. HistoryTypes'
    BY <1>1, <2>1 DEF HistoryTypes
  <2> QED BY <2>4, <2>5, <2>6 DEF Types
<1>5. CASE CloseAction
  <2>1. /\ closing > 0 /\ closing' = closing - 1 /\ open' = FALSE /\ stream' = <<>>
        /\ UNCHANGED <<serverSide, parserVars, prepended, input, pendingResponseOptions, calling, loop,
                       connection, messages, delivered, situations>>
    BY <1>5 DEF CloseAction, ConnectionUnchanged
  <2>1a. closing' \in Nat
    BY <1>1, <2>1 DEF ParserTypes
  <2>2. ParserTypes'
    BY <1>1, <2>1, <2>1a DEF ParserTypes, parserVars
  <2>3. BufferTypes'
    BY <1>1, <2>1 DEF BufferTypes, parserVars
  <2>4. HistoryTypes'
    BY <1>1, <2>1 DEF HistoryTypes, parserVars
  <2> QED BY <2>2, <2>3, <2>4 DEF Types
<1>6. CASE FailWrite
  <2>1. /\ UNCHANGED <<serverSide, parserVars, prepended, input, stream, open, connection, messages,
                       delivered, pendingResponseOptions, situations, calling, closing>>
        /\ loop' = "ended"
    BY <1>6 DEF FailWrite, readVars, peerVars, connectionVars
  <2>2. closing' \in Nat
    BY <1>1, <2>1 DEF ParserTypes
  <2> QED BY <2>1, <2>2, TypesStill
<1> QED BY <1>2, <1>3, <1>4, <1>5, <1>6

(* What the peer sends. *)
LEMMA PeerSent ==
    ASSUME Types, SendTypes, NEW kind \in Kinds, PeerSends(kind)
    PROVE  \E answers \in Nat \union {None} :
              /\ messages' = Append(messages, [kind |-> kind, connection |-> connection,
                                               answers |-> answers])
              /\ answers \in Nat => ~serverSide /\ answers \in Oldest(Unanswered)
              /\ messages' \in Seq(Message) /\ Len(messages') = Len(messages) + 1
              /\ messages'[Len(messages) + 1] =
                    [kind |-> kind, connection |-> connection, answers |-> answers]
              /\ \A m \in 1 .. Len(messages) : messages'[m] = messages[m]
              /\ Tokens(Len(messages'), kind) \in Seq(Token)
              /\ stream' = stream \o Tokens(Len(messages'), kind) /\ stream' \in Seq(Token)
<1>1. PICK answers \in {None} \union (IF serverSide THEN {} ELSE Oldest(Unanswered)) :
         messages' = Append(messages, [kind |-> kind, connection |-> connection, answers |-> answers])
  BY DEF PeerSends
<1>2. Oldest(Unanswered) \subseteq Nat
  <2>1. \A n \in Unanswered : n \in 1 .. Len(sends)
    BY DEF Unanswered, SendTypes
  <2> QED BY <2>1 DEF Oldest, SendTypes
<1>3. answers \in Nat \union {None} /\ (answers \in Nat => ~serverSide /\ answers \in Oldest(Unanswered))
  BY <1>1, <1>2, HttpAssumption
<1> DEFINE message == [kind |-> kind, connection |-> connection, answers |-> answers]
<1>4. message \in Message /\ kind \in AllKinds
  BY <1>3, HttpAssumption DEF Message, AllKinds, Types, HistoryTypes
<1>5. messages' = Append(messages, message)
  BY <1>1
<1>6. messages \in Seq(Message) /\ Len(messages) \in Nat /\ stream \in Seq(Token)
  BY DEF Types, HistoryTypes, BufferTypes
<1> HIDE DEF message
<1>7. /\ messages' \in Seq(Message) /\ Len(messages') = Len(messages) + 1
      /\ messages'[Len(messages) + 1] = message
      /\ \A m \in 1 .. Len(messages) : messages'[m] = messages[m]
  BY <1>4, <1>5, <1>6, AppendProperties
<1>8. Tokens(Len(messages'), kind) \in Seq(Token)
  BY <1>4, <1>6, <1>7, TokensOfMessage
<1>9. stream' = stream \o Tokens(Len(messages'), kind)
  BY DEF PeerSends
<1>10. stream' \in Seq(Token)
  BY <1>6, <1>8, <1>9, ConcatProperties
<1> QED BY <1>1, <1>3, <1>7, <1>8, <1>9, <1>10 DEF message

LEMMA PeerSendsTypes ==
    ASSUME Types, SendTypes, NEW kind \in Kinds, PeerSends(kind)
    PROVE  Types'
<1>1. ParserTypes /\ BufferTypes /\ HistoryTypes
  BY DEF Types
<1>2. PICK answers \in Nat \union {None} :
         /\ messages' \in Seq(Message) /\ Len(messages') = Len(messages) + 1
         /\ messages'[Len(messages) + 1] =
               [kind |-> kind, connection |-> connection, answers |-> answers]
         /\ \A m \in 1 .. Len(messages) : messages'[m] = messages[m]
         /\ stream' \in Seq(Token)
  BY PeerSent
<1>3. /\ UNCHANGED <<serverSide, readVars, pendingResponseOptions, calling, loop, open, closing,
                     connection, delivered, situations>>
      /\ serverSide \/ kind # "bad"
  BY DEF PeerSends
<1>4. ParserTypes'
  BY <1>1, <1>3 DEF ParserTypes, parserVars, readVars
<1>5. BufferTypes'
  BY <1>1, <1>2, <1>3 DEF BufferTypes, parserVars, readVars
<1>6. HistoryTypes'
  <2>1. messages'[Len(messages) + 1].kind = kind /\ Len(messages) \in Nat
    BY <1>1, <1>2 DEF HistoryTypes
  <2>2. ~serverSide => \A m \in 1 .. Len(messages') : messages'[m].kind # "bad"
    <3> SUFFICES ASSUME ~serverSide, NEW m \in 1 .. Len(messages') PROVE messages'[m].kind # "bad"
      OBVIOUS
    <3>1. m \in 1 .. Len(messages) \/ m = Len(messages) + 1
      BY <1>2, <2>1
    <3>2. CASE m \in 1 .. Len(messages)
      BY <1>1, <1>2, <3>2 DEF HistoryTypes
    <3>3. CASE m = Len(messages) + 1
      BY <1>3, <2>1, <3>3
    <3> QED BY <3>1, <3>2, <3>3
  <2> QED BY <1>1, <1>2, <1>3, <2>2 DEF HistoryTypes, parserVars, readVars
<1> QED BY <1>4, <1>5, <1>6 DEF Types

LEMMA TypesStep == Types /\ SendTypes /\ [Next]_vars => Types'
<1> SUFFICES ASSUME Types, SendTypes, [Next]_vars PROVE Types'
  OBVIOUS
<1>1. CASE UNCHANGED vars
  <2>1. UNCHANGED <<serverSide, parserVars, prepended, input, stream, open, connection, messages,
                    delivered, pendingResponseOptions, calling, loop, closing, situations>>
    BY <1>1 DEF vars, readVars, peerVars, connectionVars
  <2>2. loop' \in {"running", "ended"} /\ closing' \in Nat
    BY <2>1 DEF Types, ParserTypes
  <2> QED BY <2>1, <2>2, TypesStill
<1>2. CASE Read
  BY <1>2, ReadTypes
<1>3. CASE ParseStep
  BY <1>3, StartLineTypes, InvalidRequestTypes, HeaderLineTypes, EndOfHeadersTypes, ReadContentTypes,
     ChunkSizeTypes, ChunkDataTypes, LastChunkTypes, OtherParseTypes, MisreadTypes DEF ParseStep
<1>4. CASE HandlerReturns
  BY <1>4, ReturnTypes
<1>5. CASE WriteNext
  BY <1>5, WriteNextTypes
<1>6. CASE Call \/ CloseAction \/ LoseConnection \/ FailWrite
  BY <1>6, SendCallTypes, ConnectionTypes DEF Call
<1>7. CASE \E kind \in Kinds : PeerSends(kind)
  BY <1>7, PeerSendsTypes
<1> QED BY <1>1, <1>2, <1>3, <1>4, <1>5, <1>6, <1>7 DEF Next

LEMMA SendTypesInit == Init => SendTypes
<1> SUFFICES ASSUME Init PROVE SendTypes
  OBVIOUS
<1>1. /\ <<>> \in Seq({"plain", "file"}) /\ <<>> \in Seq([send : Nat, then : Then])
      /\ <<>> \in Seq([connection : Nat, send : Nat]) /\ Len(<<>>) = 0
  OBVIOUS
<1> QED BY <1>1 DEF Init, SendTypes

(* What a call of the application does to the queue of sends. *)
LEMMA Queued ==
    ASSUME SendTypes, NEW kind \in {"plain", "file"}, Sending(kind), NEW pending,
           SendAsync(kind, pending)
    PROVE  /\ sends' = Append(sends, kind)
           /\ sends' \in Seq({"plain", "file"}) /\ Len(sends') = Len(sends) + 1
           /\ sends'[Len(sends) + 1] = kind
           /\ \A n \in 1 .. Len(sends) : sends'[n] = sends[n]
           /\ \/ /\ open' = open
                 /\ sendQueue' = Append(sendQueue, [send |-> Len(sends) + 1, then |-> kind])
                 /\ situations' = situations \union (IF UnfinishedFile THEN {"mixed"} ELSE {})
                 /\ sendQueue' \in Seq([send : Nat, then : Then])
                 /\ Len(sendQueue') = Len(sendQueue) + 1
                 /\ sendQueue'[Len(sendQueue) + 1] = [send |-> Len(sends) + 1, then |-> kind]
                 /\ \A i \in 1 .. Len(sendQueue) : sendQueue'[i] = sendQueue[i]
              \/ /\ open' = open /\ sendQueue' = sendQueue
                 /\ situations' = situations \union {"refused"}
              \/ /\ open' = FALSE /\ sendQueue' = <<>> /\ situations' = situations
<1>1. /\ sends \in Seq({"plain", "file"}) /\ Len(sends) \in Nat
      /\ sendQueue \in Seq([send : Nat, then : Then])
  BY DEF SendTypes
<1>2. sends' = Append(sends, kind)
  BY DEF Sending
<1>3. /\ sends' \in Seq({"plain", "file"}) /\ Len(sends') = Len(sends) + 1
      /\ sends'[Len(sends) + 1] = kind
      /\ \A n \in 1 .. Len(sends) : sends'[n] = sends[n]
  BY <1>1, <1>2, AppendProperties
<1> DEFINE last == [send |-> Len(sends) + 1, then |-> kind]
<1>4. last \in [send : Nat, then : Then]
  BY <1>1 DEF Then
<1>5. CASE /\ sendQueue' = Append(sendQueue, [send |-> Len(sends'), then |-> kind])
           /\ situations' = situations \union (IF UnfinishedFile THEN {"mixed"} ELSE {})
           /\ open' = open
  <2>1. sendQueue' = Append(sendQueue, last)
    BY <1>3, <1>5
  <2> HIDE DEF last
  <2>2. /\ sendQueue' \in Seq([send : Nat, then : Then])
        /\ Len(sendQueue') = Len(sendQueue) + 1
        /\ sendQueue'[Len(sendQueue) + 1] = last
        /\ \A i \in 1 .. Len(sendQueue) : sendQueue'[i] = sendQueue[i]
    BY <1>1, <1>4, <2>1, AppendProperties
  <2> QED BY <1>2, <1>3, <1>5, <2>1, <2>2 DEF last
<1>6. CASE \/ /\ situations' = situations \union {"refused"}
              /\ UNCHANGED <<sendQueue, open>>
           \/ OnDisconnected(pending) /\ UNCHANGED situations
  BY <1>2, <1>3, <1>6 DEF OnDisconnected
<1> QED BY <1>5, <1>6 DEF SendAsync, connectionVars

(* What writing the first send does to the queue. *)
LEMMA WroteFirst ==
    ASSUME SendTypes, WriteNext
    PROVE  \E first \in [send : Nat, then : Then], rest \in Seq([send : Nat, then : Then]) :
              /\ first = sendQueue[1] /\ Len(sendQueue) \in Nat \ {0}
              /\ Len(rest) = Len(sendQueue) - 1 /\ \A i \in 1 .. Len(rest) : rest[i] = sendQueue[i + 1]
              /\ wire' = Append(wire, [connection |-> connection, send |-> first.send])
              /\ \/ /\ first.then = "plain" /\ OnPayloadSent
                    /\ sendQueue' = rest /\ UNCHANGED fileStream
                 \/ /\ first.then = "file" /\ sendQueue' = rest /\ loop' = "ended"
                    /\ UNCHANGED <<fileStream, situations>>
                 \/ \E file \in [send : Nat, left : Nat] :
                       /\ first.then = "file" => file = [send |-> first.send, left |-> FileChunks]
                       /\ first.then = "chunk" => file = fileStream
                       /\ first.then # "plain"
                       /\ \/ /\ file.left > 0
                             /\ fileStream' = [send |-> file.send, left |-> file.left - 1]
                             /\ \/ sendQueue' = Append(rest, [send |-> file.send, then |-> "chunk"])
                                \/ sendQueue' = rest /\ loop' = "ended"
                                \/ sendQueue' = <<>> /\ open' = FALSE
                             /\ UNCHANGED situations
                          \/ /\ file.left = 0 /\ fileStream' = file /\ sendQueue' = rest
                             /\ OnPayloadSent
<1>1. /\ sendQueue \in Seq([send : Nat, then : Then]) /\ sendQueue # <<>> /\ Len(sendQueue) \in Nat \ {0}
      /\ \A i \in 1 .. Len(sendQueue) : sendQueue[i].then = "chunk" => fileStream \in [send : Nat, left : Nat]
  BY DEF SendTypes, WriteNext
<1> DEFINE first == Head(sendQueue)
           rest == Tail(sendQueue)
<1>2. /\ first = sendQueue[1] /\ rest \in Seq([send : Nat, then : Then])
      /\ Len(rest) = Len(sendQueue) - 1 /\ \A i \in 1 .. Len(rest) : rest[i] = sendQueue[i + 1]
  BY <1>1, HeadTailProperties
<1>3. /\ wire' = Append(wire, [connection |-> connection, send |-> first.send])
      /\ \/ /\ first.then = "plain" /\ OnPayloadSent
            /\ sendQueue' = rest /\ UNCHANGED fileStream
         \/ /\ first.then = "file" /\ sendQueue' = rest /\ loop' = "ended"
            /\ UNCHANGED <<fileStream, situations>>
         \/ /\ first.then = "file"
            /\ SendFileChunk([send |-> first.send, left |-> FileChunks])
         \/ /\ first.then = "chunk" /\ SendFileChunk(fileStream)
  BY DEF WriteNext, SendFileContent
<1>4. ASSUME NEW file \in [send : Nat, left : Nat], SendFileChunk(file)
      PROVE  \/ /\ file.left > 0
                /\ fileStream' = [send |-> file.send, left |-> file.left - 1]
                /\ \/ sendQueue' = Append(rest, [send |-> file.send, then |-> "chunk"])
                   \/ sendQueue' = rest /\ loop' = "ended"
                   \/ sendQueue' = <<>> /\ open' = FALSE
                /\ UNCHANGED situations
             \/ /\ file.left = 0 /\ fileStream' = file /\ sendQueue' = rest
                /\ OnPayloadSent
  <2>1. [file EXCEPT !.left = @ - 1] = [send |-> file.send, left |-> file.left - 1]
    BY <1>4
  <2> QED BY <1>4, <2>1 DEF SendFileChunk, OnDisconnected
<1> HIDE DEF first, rest
<1>5. /\ first \in [send : Nat, then : Then]
      /\ first.then = "chunk" => fileStream \in [send : Nat, left : Nat]
  <2>1. 1 \in 1 .. Len(sendQueue)
    BY <1>1
  <2>2. first \in [send : Nat, then : Then]
    <3> DEFINE S == [send : Nat, then : Then]
    <3>1. sendQueue \in Seq(S)
      BY <1>1
    <3> HIDE DEF S
    <3>2. sendQueue[1] \in S
      BY <2>1, <3>1
    <3> QED BY <1>2, <3>2 DEF S
  <2>3. first.then = "chunk" => fileStream \in [send : Nat, left : Nat]
    BY <1>1, <1>2, <2>1 DEF SendTypes
  <2> QED BY <2>2, <2>3
<1>6. CASE \/ /\ first.then = "plain" /\ OnPayloadSent
              /\ sendQueue' = rest /\ UNCHANGED fileStream
           \/ /\ first.then = "file" /\ sendQueue' = rest /\ loop' = "ended"
              /\ UNCHANGED <<fileStream, situations>>
  BY <1>1, <1>2, <1>3, <1>5, <1>6
<1>7. CASE first.then = "file" /\ SendFileChunk([send |-> first.send, left |-> FileChunks])
  <2> DEFINE file == [send |-> first.send, left |-> FileChunks]
  <2>1. file \in [send : Nat, left : Nat]
    BY <1>5, HttpAssumption
  <2>2. SendFileChunk(file)
    BY <1>7
  <2>3. file = [send |-> first.send, left |-> FileChunks]
    OBVIOUS
  <2> HIDE DEF file
  <2>4. \/ /\ file.left > 0
           /\ fileStream' = [send |-> file.send, left |-> file.left - 1]
           /\ \/ sendQueue' = Append(rest, [send |-> file.send, then |-> "chunk"])
              \/ sendQueue' = rest /\ loop' = "ended"
              \/ sendQueue' = <<>> /\ open' = FALSE
           /\ UNCHANGED situations
        \/ /\ file.left = 0 /\ fileStream' = file /\ sendQueue' = rest
           /\ OnPayloadSent
    BY <1>4, <2>1, <2>2
  <2>5. first.then # "chunk" /\ first.then # "plain"
    BY <1>7
  <2> QED BY <1>1, <1>2, <1>3, <1>5, <2>1, <2>3, <2>4, <2>5
<1>8. CASE first.then = "chunk" /\ SendFileChunk(fileStream)
  <2>1. SendFileChunk(fileStream) /\ fileStream \in [send : Nat, left : Nat]
    BY <1>5, <1>8
  <2> QED BY <1>1, <1>2, <1>3, <1>4, <1>5, <1>8, <2>1
<1> QED BY <1>3, <1>6, <1>7, <1>8

LEMMA SendTypesStep == Types /\ SendTypes /\ [Next]_vars => SendTypes'
<1> SUFFICES ASSUME Types, SendTypes, [Next]_vars PROVE SendTypes'
  OBVIOUS
<1>1. CASE UNCHANGED sendVars
  BY <1>1 DEF SendTypes, sendVars
<1>2. ASSUME NEW kind \in {"plain", "file"}, Sending(kind), SendAsync(kind, pendingResponseOptions')
      PROVE  SendTypes'
  <2>1. fileStream' = fileStream /\ wire' = wire
    BY <1>2 DEF Sending
  <2>2. /\ sends' \in Seq({"plain", "file"})
        /\ \/ /\ sendQueue' \in Seq([send : Nat, then : Then])
              /\ Len(sendQueue') = Len(sendQueue) + 1
              /\ sendQueue'[Len(sendQueue) + 1] = [send |-> Len(sends) + 1, then |-> kind]
              /\ \A i \in 1 .. Len(sendQueue) : sendQueue'[i] = sendQueue[i]
           \/ sendQueue' = sendQueue
           \/ sendQueue' = <<>>
    BY <1>2, Queued
  <2>3. <<>> \in Seq([send : Nat, then : Then]) /\ Len(<<>>) = 0 /\ Len(sendQueue) \in Nat
    BY DEF SendTypes
  <2>4. sendQueue' \in Seq([send : Nat, then : Then])
    BY <2>2, <2>3 DEF SendTypes
  <2>5. ASSUME NEW i \in 1 .. Len(sendQueue'), sendQueue'[i].then = "chunk"
        PROVE  i \in 1 .. Len(sendQueue) /\ sendQueue'[i] = sendQueue[i]
    BY <2>2, <2>3, <2>5
  <2> QED BY <2>1, <2>2, <2>4, <2>5 DEF SendTypes
<1>3. CASE WriteNext
  <2>1. PICK first \in [send : Nat, then : Then], rest \in Seq([send : Nat, then : Then]) :
           /\ first = sendQueue[1] /\ Len(sendQueue) \in Nat \ {0}
           /\ Len(rest) = Len(sendQueue) - 1 /\ \A i \in 1 .. Len(rest) : rest[i] = sendQueue[i + 1]
           /\ wire' = Append(wire, [connection |-> connection, send |-> first.send])
           /\ \/ sendQueue' = rest /\ UNCHANGED fileStream
              \/ \E file \in [send : Nat, left : Nat] :
                    \/ /\ file.left > 0
                       /\ fileStream' = [send |-> file.send, left |-> file.left - 1]
                       /\ \/ sendQueue' = Append(rest, [send |-> file.send, then |-> "chunk"])
                          \/ sendQueue' = rest \/ sendQueue' = <<>>
                    \/ fileStream' = file /\ sendQueue' = rest
    BY <1>3, WroteFirst
  <2>2. wire' \in Seq([connection : Nat, send : Nat])
    BY <2>1 DEF SendTypes, Types, HistoryTypes
  <2>3. UNCHANGED sends
    BY <1>3 DEF WriteNext
  <2>4. CASE sendQueue' = rest /\ UNCHANGED fileStream
    <3>1. ASSUME NEW i \in 1 .. Len(rest), rest[i].then = "chunk"
          PROVE  fileStream \in [send : Nat, left : Nat]
      <4>1. i + 1 \in 1 .. Len(sendQueue) /\ sendQueue[i + 1].then = "chunk"
        <5>1. Len(rest) = Len(sendQueue) - 1 /\ Len(sendQueue) \in Nat /\ rest[i] = sendQueue[i + 1]
          BY <2>1
        <5>2. i + 1 \in 1 .. Len(sendQueue)
          BY <5>1
        <5> QED BY <3>1, <5>1, <5>2
      <4> QED BY <4>1 DEF SendTypes
    <3> QED BY <2>2, <2>3, <2>4, <3>1 DEF SendTypes
  <2>5. ASSUME NEW file \in [send : Nat, left : Nat], file.left > 0,
               fileStream' = [send |-> file.send, left |-> file.left - 1],
               \/ sendQueue' = Append(rest, [send |-> file.send, then |-> "chunk"])
               \/ sendQueue' = rest \/ sendQueue' = <<>>
        PROVE  SendTypes'
    <3>1. fileStream' \in [send : Nat, left : Nat]
      BY <2>5
    <3>2. <<>> \in Seq([send : Nat, then : Then])
      OBVIOUS
    <3>3. [send |-> file.send, then |-> "chunk"] \in [send : Nat, then : Then]
      BY DEF Then
    <3>4. sendQueue' \in Seq([send : Nat, then : Then])
      <4> DEFINE S == [send : Nat, then : Then]
                 last == [send |-> file.send, then |-> "chunk"]
      <4>1. rest \in Seq(S) /\ last \in S /\ <<>> \in Seq(S)
        BY <3>2, <3>3
      <4>2. sendQueue' = Append(rest, last) \/ sendQueue' = rest \/ sendQueue' = <<>>
        BY <2>5
      <4> HIDE DEF S, last
      <4>3. Append(rest, last) \in Seq(S)
        BY <4>1, AppendProperties
      <4>4. sendQueue' \in Seq(S)
        BY <4>1, <4>2, <4>3, Zenon
      <4> QED BY <4>4 DEF S
    <3> QED BY <2>2, <2>3, <3>1, <3>4 DEF SendTypes
  <2>6. ASSUME NEW file \in [send : Nat, left : Nat], fileStream' = file, sendQueue' = rest
        PROVE  SendTypes'
    BY <2>1, <2>2, <2>3, <2>6 DEF SendTypes
  <2> QED BY <2>1, <2>4, <2>5, <2>6
<1>4. CASE OpenEndpoint \/ CloseEndpoint \/ CloseAction \/ LoseConnection \/ FailWrite
  <2>1. UNCHANGED <<sends, wire, fileStream>> /\ (sendQueue' = sendQueue \/ sendQueue' = <<>>)
    BY <1>4 DEF OpenEndpoint, CloseEndpoint, CloseAction, LoseConnection, FailWrite, OnDisconnected,
       ConnectionUnchanged, sendVars
  <2>2. <<>> \in Seq([send : Nat, then : Then]) /\ Len(<<>>) = 0
    OBVIOUS
  <2>3. CASE sendQueue' = sendQueue
    BY <2>1, <2>3 DEF SendTypes
  <2>4. CASE sendQueue' = <<>>
    BY <2>1, <2>2, <2>4 DEF SendTypes
  <2> QED BY <2>1, <2>3, <2>4
<1>5. CASE Read \/ ParseStep \/ HandlerReturns \/ \E kind \in Kinds : PeerSends(kind)
  <2>1. UNCHANGED sendVars
    BY <1>5 DEF Read, ParseStep, HandlerReturns, PeerSends, StartLine, InvalidRequest, HeaderLine,
       EndOfHeaders, ReadContent, ChunkSize, ChunkData, LastChunk, IgnoreUnsolicited, PrependRest,
       Misread, ReadUnchanged
  <2> QED BY <1>1, <2>1
<1>6. CASE SendRequest
  BY <1>2, <1>6 DEF SendRequest
<1>7. CASE \E kind \in {"plain", "file"} : Respond(kind)
  BY <1>2, <1>7 DEF Respond
<1>8. CASE UNCHANGED vars
  BY <1>1, <1>8 DEF vars
<1> QED BY <1>3, <1>4, <1>5, <1>6, <1>7, <1>8 DEF Next, Call

(* An endpoint keeps to its types. *)
THEOREM TypeCorrect == Spec => [](Types /\ SendTypes)
<1>1. Init => Types /\ SendTypes
  BY TypesInit, SendTypesInit
<1>2. Types /\ SendTypes /\ [Next]_vars => (Types /\ SendTypes)'
  BY TypesStep, SendTypesStep
<1> QED BY <1>1, <1>2, PTL DEF Spec

-----------------------------------------------------------------------------
(* The responses of a server. *)

Whole(n) == IF sends[n] = "file" THEN 1 + FileChunks ELSE 1
(* What has been written of the send of an entry of the queue. *)
Begun(entry) == IF entry.then = "chunk" THEN FileChunks - fileStream.left ELSE 0

(* The queue holds the sends in their order, and only its last entry is of  *)
(* a file: what is being read for it is that file.                          *)
QueueInOrder ==
    /\ \A i \in 1 .. Len(sendQueue) :
          /\ sendQueue[i].send \in 1 .. Len(sends)
          /\ (sendQueue[i].then = "plain") <=> (sends[sendQueue[i].send] = "plain")
          /\ sendQueue[i].then # "plain" => i = Len(sendQueue)
          /\ sendQueue[i].then = "chunk" =>
                fileStream.send = sendQueue[i].send /\ fileStream.left \in 0 .. FileChunks - 1
    /\ \A i, j \in 1 .. Len(sendQueue) : i < j => sendQueue[i].send < sendQueue[j].send

(* What is written is not beyond what is queued, in the order of the sends. *)
WireInOrder ==
    /\ \A w \in 1 .. Len(wire) :
          /\ wire[w].send \in 1 .. Len(sends)
          /\ \A i \in 1 .. Len(sendQueue) : wire[w].send <= sendQueue[i].send
    /\ \A w, v \in 1 .. Len(wire) : w < v => wire[w].send <= wire[v].send

(* A response is written as far as its entry of the queue says, and is      *)
(* whole when it has none.                                                  *)
PiecesCounted ==
    \A n \in 1 .. Len(sends) :
        /\ \A i \in 1 .. Len(sendQueue) :
              sendQueue[i].send = n => Cardinality(Pieces(n)) = Begun(sendQueue[i])
        /\ (\A i \in 1 .. Len(sendQueue) : sendQueue[i].send # n) => Cardinality(Pieces(n)) = Whole(n)

(* Nothing is written any more once the connection is gone or the loop ended. *)
Writing == open /\ loop = "running"
Undisturbed == situations \subseteq {"cut", "misread"}

FileInv ==
    serverSide /\ Undisturbed => QueueInOrder /\ WireInOrder /\ (Writing => PiecesCounted)

LEMMA SituationsStay == [Next]_vars => situations \subseteq situations' /\ serverSide' = serverSide
<1> SUFFICES ASSUME [Next]_vars PROVE situations \subseteq situations' /\ serverSide' = serverSide
  OBVIOUS
<1>1. CASE UNCHANGED vars
  BY <1>1 DEF vars
<1>2. CASE Read \/ HandlerReturns \/ LoseConnection \/ OpenEndpoint \/ CloseEndpoint
           \/ CloseAction \/ FailWrite \/ \E kind \in Kinds : PeerSends(kind)
  BY <1>2 DEF Read, HandlerReturns, LoseConnection, OpenEndpoint, CloseEndpoint, CloseAction, FailWrite,
     PeerSends, ConnectionUnchanged
<1>3. CASE ParseStep
  BY <1>3 DEF ParseStep, StartLine, InvalidRequest, HeaderLine, EndOfHeaders, ReadContent, ChunkSize,
     ChunkData, LastChunk, IgnoreUnsolicited, PrependRest, Misread, ReadUnchanged
<1>4. CASE WriteNext
  BY <1>4, Wrote
<1>5. ASSUME NEW kind, Sending(kind), NEW pending, SendAsync(kind, pending)
      PROVE  situations \subseteq situations' /\ serverSide' = serverSide
  BY <1>5 DEF Sending, SendAsync
<1>6. CASE SendRequest \/ \E kind \in {"plain", "file"} : Respond(kind)
  BY <1>5, <1>6 DEF SendRequest, Respond
<1> QED BY <1>1, <1>2, <1>3, <1>4, <1>5, <1>6 DEF Next, Call

LEMMA PiecesFinite ==
    ASSUME SendTypes, NEW n
    PROVE  /\ IsFiniteSet(Pieces(n)) /\ Cardinality(Pieces(n)) \in Nat
           /\ Pieces(n) = {i \in 1 .. Len(wire) : wire[i].send = n}
<1>1. Len(wire) \in Nat /\ DOMAIN wire = 1 .. Len(wire)
  BY DEF SendTypes
<1>2. Pieces(n) \subseteq 1 .. Len(wire)
  BY <1>1 DEF Pieces
<1>3. IsFiniteSet(1 .. Len(wire))
  BY <1>1, FS_Interval
<1> QED BY <1>1, <1>2, <1>3, FS_Subset, FS_CardinalityType DEF Pieces

LEMMA OnePieceMore ==
    ASSUME SendTypes, NEW w \in [connection : Nat, send : Nat], wire' = Append(wire, w), NEW n
    PROVE  Cardinality(Pieces(n)') = Cardinality(Pieces(n)) + IF w.send = n THEN 1 ELSE 0
<1>1. wire \in Seq([connection : Nat, send : Nat]) /\ Len(wire) \in Nat
  BY DEF SendTypes
<1>2. /\ wire' \in Seq([connection : Nat, send : Nat]) /\ Len(wire') = Len(wire) + 1
      /\ wire'[Len(wire) + 1] = w
      /\ \A i \in 1 .. Len(wire) : wire'[i] = wire[i]
  BY <1>1, AppendProperties
<1>3. Pieces(n)' = {i \in 1 .. Len(wire) + 1 : wire'[i].send = n}
  BY <1>2 DEF Pieces
<1>4. /\ IsFiniteSet(Pieces(n)) /\ Cardinality(Pieces(n)) \in Nat
      /\ Pieces(n) = {i \in 1 .. Len(wire) : wire[i].send = n}
  BY PiecesFinite
<1>5. Len(wire) + 1 \notin Pieces(n)
  BY <1>1, <1>4
<1>6. CASE w.send = n
  <2>1. Pieces(n)' = Pieces(n) \union {Len(wire) + 1}
    BY <1>1, <1>2, <1>3, <1>4, <1>6
  <2> QED BY <1>4, <1>5, <1>6, <2>1, FS_AddElement
<1>7. CASE w.send # n
  <2>1. Pieces(n)' = Pieces(n)
    BY <1>1, <1>2, <1>3, <1>4, <1>7
  <2> QED BY <1>4, <1>7, <2>1
<1> QED BY <1>6, <1>7

LEMMA FileInit == Init => FileInv
<1> SUFFICES ASSUME Init PROVE FileInv
  OBVIOUS
<1>1. sendQueue = <<>> /\ sends = <<>> /\ wire = <<>> /\ Len(<<>>) = 0
  BY DEF Init
<1> QED BY <1>1 DEF FileInv, QueueInOrder, WireInOrder, PiecesCounted

LEMMA FileStill ==
    ASSUME FileInv, UNCHANGED <<serverSide, sendVars>>, Undisturbed' => Undisturbed,
           Writing' => Writing
    PROVE  FileInv'
<1>1. UNCHANGED <<sends, sendQueue, wire, fileStream, serverSide>>
  BY DEF sendVars
<1>2. QueueInOrder => QueueInOrder'
  BY <1>1 DEF QueueInOrder
<1>3. WireInOrder => WireInOrder'
  BY <1>1 DEF WireInOrder
<1>4. PiecesCounted => PiecesCounted'
  BY <1>1 DEF PiecesCounted, Pieces, Whole, Begun
<1> QED BY <1>1, <1>2, <1>3, <1>4 DEF FileInv

(* The connection is gone with the queue. *)
LEMMA FileLost ==
    ASSUME SendTypes, FileInv, UNCHANGED <<serverSide, wire, fileStream>>, sendQueue' = <<>>, open' = FALSE,
           Undisturbed' => Undisturbed, sends' \in Seq({"plain", "file"}),
           Len(sends') >= Len(sends)
    PROVE  FileInv'
<1>1. Len(sendQueue') = 0 /\ Len(sends) \in Nat /\ Len(sends') \in Nat
  BY DEF SendTypes
<1>2. QueueInOrder'
  BY <1>1 DEF QueueInOrder
<1>3. WireInOrder => WireInOrder'
  BY <1>1 DEF WireInOrder
<1> QED BY <1>2, <1>3 DEF FileInv, Writing

LEMMA FileResponds ==
    ASSUME SendTypes, FileInv, NEW kind \in {"plain", "file"}, Respond(kind)
    PROVE  FileInv'
<1>1. /\ Sending(kind) /\ SendAsync(kind, pendingResponseOptions)
      /\ UNCHANGED <<serverSide, wire, fileStream, loop>>
  BY DEF Respond, Sending
<1>2. /\ sends' \in Seq({"plain", "file"}) /\ Len(sends') = Len(sends) + 1
      /\ sends'[Len(sends) + 1] = kind
      /\ \A n \in 1 .. Len(sends) : sends'[n] = sends[n]
      /\ \/ /\ open' = open
            /\ situations' = situations \union (IF UnfinishedFile THEN {"mixed"} ELSE {})
            /\ Len(sendQueue') = Len(sendQueue) + 1
            /\ sendQueue'[Len(sendQueue) + 1] = [send |-> Len(sends) + 1, then |-> kind]
            /\ \A i \in 1 .. Len(sendQueue) : sendQueue'[i] = sendQueue[i]
         \/ situations' = situations \union {"refused"}
         \/ open' = FALSE /\ sendQueue' = <<>> /\ situations' = situations
  BY <1>1, Queued
<1>3. Len(sends) \in Nat /\ Len(wire) \in Nat /\ Len(sendQueue) \in Nat
  BY DEF SendTypes
<1>4. CASE situations' = situations \union {"refused"}
  <2>1. ~Undisturbed'
    BY <1>4 DEF Undisturbed
  <2> QED BY <2>1 DEF FileInv
<1>5. CASE open' = FALSE /\ sendQueue' = <<>> /\ situations' = situations
  <2>1. Len(sends') >= Len(sends) /\ sends' \in Seq({"plain", "file"})
    BY <1>2, <1>3
  <2>2. UNCHANGED <<serverSide, wire, fileStream>> /\ (Undisturbed' => Undisturbed)
    BY <1>1, <1>5 DEF Undisturbed
  <2> QED BY <1>5, <2>1, <2>2, FileLost
<1>6. ASSUME /\ open' = open
             /\ situations' = situations \union (IF UnfinishedFile THEN {"mixed"} ELSE {})
             /\ Len(sendQueue') = Len(sendQueue) + 1
             /\ sendQueue'[Len(sendQueue) + 1] = [send |-> Len(sends) + 1, then |-> kind]
             /\ \A i \in 1 .. Len(sendQueue) : sendQueue'[i] = sendQueue[i],
             serverSide, Undisturbed'
      PROVE  QueueInOrder' /\ WireInOrder' /\ (Writing' => PiecesCounted')
  <2>1. Undisturbed /\ ~UnfinishedFile
    BY <1>6 DEF Undisturbed
  <2>2. \A i \in 1 .. Len(sendQueue) : sendQueue[i].then = "plain"
    <3>1. DOMAIN sendQueue = 1 .. Len(sendQueue) /\ sendQueue \in Seq([send : Nat, then : Then])
      BY DEF SendTypes
    <3>2. \A i \in 1 .. Len(sendQueue) : sendQueue[i] \in [send : Nat, then : Then]
      BY <3>1, ElementOfSeq
    <3> QED BY <2>1, <3>1, <3>2 DEF UnfinishedFile, Then
  <2>3. QueueInOrder /\ WireInOrder /\ (Writing => PiecesCounted)
    BY <1>6, <2>1 DEF FileInv
  <2>4. \A i \in 1 .. Len(sendQueue') : \/ i \in 1 .. Len(sendQueue) /\ sendQueue'[i] = sendQueue[i]
                                        \/ i = Len(sendQueue) + 1
    BY <1>3, <1>6
  <2>5. QueueInOrder'
    <3>1. ASSUME NEW i \in 1 .. Len(sendQueue')
          PROVE  /\ sendQueue'[i].send \in 1 .. Len(sends')
                 /\ (sendQueue'[i].then = "plain") <=> (sends'[sendQueue'[i].send] = "plain")
                 /\ sendQueue'[i].then # "plain" => i = Len(sendQueue')
                 /\ sendQueue'[i].then # "chunk"
      <4>1. CASE i \in 1 .. Len(sendQueue) /\ sendQueue'[i] = sendQueue[i]
        <5>1. sendQueue[i].send \in 1 .. Len(sends) /\ sends[sendQueue[i].send] = "plain"
          BY <2>2, <2>3, <4>1 DEF QueueInOrder
        <5> QED BY <1>2, <1>3, <2>2, <4>1, <5>1
      <4>2. CASE i = Len(sendQueue) + 1
        BY <1>2, <1>3, <1>6, <4>2
      <4> QED BY <2>4, <4>1, <4>2
    <3>2. ASSUME NEW i \in 1 .. Len(sendQueue'), NEW j \in 1 .. Len(sendQueue'), i < j
          PROVE  sendQueue'[i].send < sendQueue'[j].send
      <4>1. i \in 1 .. Len(sendQueue) /\ sendQueue'[i] = sendQueue[i]
        BY <1>3, <1>6, <3>2
      <4>2. CASE j \in 1 .. Len(sendQueue) /\ sendQueue'[j] = sendQueue[j]
        BY <2>3, <3>2, <4>1, <4>2 DEF QueueInOrder
      <4>3. CASE j = Len(sendQueue) + 1
        <5>1. sendQueue[i].send \in 1 .. Len(sends)
          BY <2>3, <4>1 DEF QueueInOrder
        <5> QED BY <1>3, <1>6, <4>1, <4>3, <5>1
      <4> QED BY <2>4, <4>2, <4>3
    <3> QED BY <3>1, <3>2 DEF QueueInOrder
  <2>6. WireInOrder'
    <3>1. wire' = wire
      BY <1>1
    <3>2. ASSUME NEW w \in 1 .. Len(wire), NEW i \in 1 .. Len(sendQueue')
          PROVE  wire[w].send <= sendQueue'[i].send
      <4>1. wire[w].send \in 1 .. Len(sends)
        BY <2>3 DEF WireInOrder
      <4>2. CASE i \in 1 .. Len(sendQueue) /\ sendQueue'[i] = sendQueue[i]
        BY <2>3, <4>2 DEF WireInOrder
      <4>3. CASE i = Len(sendQueue) + 1
        BY <1>3, <1>6, <4>1, <4>3
      <4> QED BY <2>4, <4>2, <4>3
    <3> QED BY <1>2, <1>3, <2>3, <3>1, <3>2 DEF WireInOrder
  <2>7. ASSUME Writing', NEW n \in 1 .. Len(sends')
        PROVE  /\ \A i \in 1 .. Len(sendQueue') :
                     sendQueue'[i].send = n => Cardinality(Pieces(n)') = Begun(sendQueue[i])'
               /\ (\A i \in 1 .. Len(sendQueue') : sendQueue'[i].send # n)
                     => Cardinality(Pieces(n)') = Whole(n)'
    <3>1. PiecesCounted /\ Pieces(n)' = Pieces(n)
      BY <1>1, <1>6, <2>3, <2>7 DEF Pieces, Writing
    <3>2. CASE n \in 1 .. Len(sends)
      <4>1. Whole(n)' = Whole(n)
        BY <1>2, <3>2 DEF Whole
      <4>2. ASSUME NEW i \in 1 .. Len(sendQueue'), sendQueue'[i].send = n
            PROVE  Cardinality(Pieces(n)) = Begun(sendQueue[i])'
        <5>1. i \in 1 .. Len(sendQueue) /\ sendQueue'[i] = sendQueue[i]
          BY <1>3, <1>6, <2>4, <3>2, <4>2
        <5>2. Begun(sendQueue[i])' = Begun(sendQueue[i])
          BY <1>1, <5>1 DEF Begun
        <5> QED BY <3>1, <3>2, <4>2, <5>1, <5>2 DEF PiecesCounted
      <4>3. ASSUME \A i \in 1 .. Len(sendQueue') : sendQueue'[i].send # n
            PROVE  \A i \in 1 .. Len(sendQueue) : sendQueue[i].send # n
        BY <1>3, <1>6, <4>3
      <4> QED BY <3>1, <3>2, <4>1, <4>2, <4>3 DEF PiecesCounted
    <3>3. CASE n = Len(sends) + 1
      <4>1. Pieces(n) = {}
        <5>1. Pieces(n) = {w \in 1 .. Len(wire) : wire[w].send = n}
          BY PiecesFinite
        <5>2. \A w \in 1 .. Len(wire) : wire[w].send \in 1 .. Len(sends)
          BY <2>3 DEF WireInOrder
        <5> QED BY <1>3, <3>3, <5>1, <5>2
      <4>2. Cardinality(Pieces(n)') = 0
        BY <3>1, <4>1, FS_EmptySet
      <4>3. ASSUME NEW i \in 1 .. Len(sendQueue'), sendQueue'[i].send = n
            PROVE  Begun(sendQueue[i])' = 0
        <5>1. i = Len(sendQueue) + 1
          <6>1. i \in 1 .. Len(sendQueue) => sendQueue[i].send \in 1 .. Len(sends)
            BY <2>3 DEF QueueInOrder
          <6> QED BY <1>3, <2>4, <3>3, <4>3, <6>1
        <5> QED BY <1>6, <5>1 DEF Begun
      <4>4. ~ \A i \in 1 .. Len(sendQueue') : sendQueue'[i].send # n
        BY <1>3, <1>6, <3>3
      <4> QED BY <4>2, <4>3, <4>4
    <3> QED BY <1>2, <1>3, <2>7, <3>2, <3>3
  <2> QED BY <2>5, <2>6, <2>7 DEF PiecesCounted
<1> QED BY <1>1, <1>2, <1>4, <1>5, <1>6 DEF FileInv

LEMMA FileWritten ==
    ASSUME SendTypes, connection \in Nat, FileInv, WriteNext
    PROVE  FileInv'
<1> SUFFICES ASSUME serverSide, Undisturbed'
             PROVE  QueueInOrder' /\ WireInOrder' /\ (Writing' => PiecesCounted')
  <2>1. serverSide' = serverSide
    BY Wrote
  <2> QED BY <2>1 DEF FileInv
<1>1. Undisturbed /\ Writing /\ sends' = sends
  BY Wrote DEF Undisturbed, Writing
<1>2. QueueInOrder /\ WireInOrder /\ PiecesCounted
  BY <1>1 DEF FileInv
<1>3. PICK first \in [send : Nat, then : Then], rest \in Seq([send : Nat, then : Then]) :
         /\ first = sendQueue[1] /\ Len(sendQueue) \in Nat \ {0}
         /\ Len(rest) = Len(sendQueue) - 1 /\ \A i \in 1 .. Len(rest) : rest[i] = sendQueue[i + 1]
         /\ wire' = Append(wire, [connection |-> connection, send |-> first.send])
         /\ \/ /\ first.then = "plain"
               /\ sendQueue' = rest /\ UNCHANGED fileStream
            \/ /\ first.then # "plain" /\ (sendQueue' = rest \/ sendQueue' = <<>>)
               /\ ~Writing'
            \/ \E file \in [send : Nat, left : Nat] :
                  /\ first.then = "file" => file = [send |-> first.send, left |-> FileChunks]
                  /\ first.then = "chunk" => file = fileStream
                  /\ first.then # "plain"
                  /\ \/ /\ file.left > 0
                        /\ fileStream' = [send |-> file.send, left |-> file.left - 1]
                        /\ sendQueue' = Append(rest, [send |-> file.send, then |-> "chunk"])
                     \/ /\ file.left = 0 /\ fileStream' = file /\ sendQueue' = rest
  <2>1. loop' = "ended" \/ open' = FALSE => ~Writing'
    BY DEF Writing
  <2> QED BY <2>1, WroteFirst
<1>4. Len(sends) \in Nat /\ Len(wire) \in Nat /\ Len(rest) \in Nat
  BY <1>3 DEF SendTypes
<1>5. /\ 1 \in 1 .. Len(sendQueue) /\ first = sendQueue[1]
      /\ \A i \in 1 .. Len(rest) : i + 1 \in 1 .. Len(sendQueue) /\ rest[i] = sendQueue[i + 1] /\ 1 < i + 1
  BY <1>3, <1>4
<1>6. /\ first.send \in 1 .. Len(sends)
      /\ (first.then = "plain") <=> (sends[first.send] = "plain")
      /\ first.then # "plain" => Len(sendQueue) = 1 /\ Len(rest) = 0
      /\ first.then = "chunk" => fileStream.send = first.send /\ fileStream.left \in 0 .. FileChunks - 1
      /\ \A i \in 1 .. Len(rest) : first.send < rest[i].send
  <2>1. /\ first.send \in 1 .. Len(sends)
        /\ (first.then = "plain") <=> (sends[first.send] = "plain")
        /\ first.then # "plain" => 1 = Len(sendQueue)
        /\ first.then = "chunk" => fileStream.send = first.send /\ fileStream.left \in 0 .. FileChunks - 1
    BY <1>2, <1>5 DEF QueueInOrder
  <2>2. \A i \in 1 .. Len(rest) : first.send < rest[i].send
    BY <1>2, <1>5 DEF QueueInOrder
  <2> QED BY <1>3, <2>1, <2>2
<1> DEFINE written == [connection |-> connection, send |-> first.send]
<1>7. written \in [connection : Nat, send : Nat] /\ wire' = Append(wire, written) /\ written.send = first.send
  BY <1>3
<1> HIDE DEF written
<1>8. /\ Len(wire') = Len(wire) + 1 /\ wire'[Len(wire) + 1].send = first.send
      /\ \A w \in 1 .. Len(wire) : wire'[w] = wire[w]
  <2>1. wire \in Seq([connection : Nat, send : Nat])
    BY DEF SendTypes
  <2> QED BY <1>7, <2>1, AppendProperties
<1>9. \A n : Cardinality(Pieces(n)') = Cardinality(Pieces(n)) + IF first.send = n THEN 1 ELSE 0
  BY <1>7, OnePieceMore
<1>10. \A w \in 1 .. Len(wire') : /\ wire'[w].send \in 1 .. Len(sends) /\ wire'[w].send <= first.send
  <2> SUFFICES ASSUME NEW w \in 1 .. Len(wire')
               PROVE  wire'[w].send \in 1 .. Len(sends) /\ wire'[w].send <= first.send
    OBVIOUS
  <2>1. CASE w \in 1 .. Len(wire)
    <3>1. wire[w].send \in 1 .. Len(sends) /\ wire[w].send <= first.send
      BY <1>2, <1>5, <2>1 DEF WireInOrder
    <3> QED BY <1>8, <2>1, <3>1
  <2>2. CASE w = Len(wire) + 1
    BY <1>4, <1>6, <1>8, <2>2
  <2> QED BY <1>4, <1>8, <2>1, <2>2
<1>11. ASSUME NEW w \in 1 .. Len(wire'), NEW v \in 1 .. Len(wire'), w < v
       PROVE  wire'[w].send <= wire'[v].send
  <2>1. CASE v \in 1 .. Len(wire)
    <3>1. w \in 1 .. Len(wire)
      BY <1>4, <1>8, <1>11, <2>1
    <3>2. wire[w].send <= wire[v].send
      BY <1>2, <1>11, <2>1, <3>1 DEF WireInOrder
    <3> QED BY <1>8, <2>1, <3>1, <3>2
  <2>2. CASE v = Len(wire) + 1
    BY <1>8, <1>10, <2>2
  <2> QED BY <1>4, <1>8, <2>1, <2>2
<1>12. ASSUME NEW n \in 1 .. Len(sends)
       PROVE  Whole(n)' = Whole(n)
  BY <1>1 DEF Whole
<1>13. CASE /\ sendQueue' = rest
            /\ \/ first.then = "plain" /\ UNCHANGED fileStream
               \/ \E file \in [send : Nat, left : Nat] :
                     /\ first.then = "file" => file = [send |-> first.send, left |-> FileChunks]
                     /\ first.then = "chunk" => file = fileStream
                     /\ first.then # "plain" /\ file.left = 0
  <2>1. \A i \in 1 .. Len(rest) : rest[i].then = "chunk" => first.then = "plain"
    BY <1>6
  <2>2. first.then = "plain" => fileStream' = fileStream
    BY <1>13
  <2>3. QueueInOrder'
    <3>1. ASSUME NEW i \in 1 .. Len(rest)
          PROVE  /\ rest[i].send \in 1 .. Len(sends)
                 /\ (rest[i].then = "plain") <=> (sends[rest[i].send] = "plain")
                 /\ rest[i].then # "plain" => i = Len(rest)
                 /\ rest[i].then = "chunk" =>
                       fileStream'.send = rest[i].send /\ fileStream'.left \in 0 .. FileChunks - 1
      <4>1. /\ rest[i].send \in 1 .. Len(sends)
            /\ (rest[i].then = "plain") <=> (sends[rest[i].send] = "plain")
            /\ rest[i].then # "plain" => i + 1 = Len(sendQueue)
            /\ rest[i].then = "chunk" =>
                       fileStream.send = rest[i].send /\ fileStream.left \in 0 .. FileChunks - 1
        BY <1>2, <1>5 DEF QueueInOrder
      <4>2. i + 1 = Len(sendQueue) => i = Len(rest)
        BY <1>3
      <4> QED BY <2>1, <2>2, <4>1, <4>2
    <3>2. ASSUME NEW i \in 1 .. Len(rest), NEW j \in 1 .. Len(rest), i < j
          PROVE  rest[i].send < rest[j].send
      <4>1. i + 1 < j + 1
        BY <1>4, <3>2
      <4>2. sendQueue[i + 1].send < sendQueue[j + 1].send
        BY <1>2, <1>5, <4>1 DEF QueueInOrder
      <4> QED BY <1>5, <4>2
    <3> QED BY <1>1, <1>13, <3>1, <3>2 DEF QueueInOrder
  <2>4. WireInOrder'
    <3>1. \A w \in 1 .. Len(wire'), i \in 1 .. Len(rest) : wire'[w].send <= rest[i].send
      <4> SUFFICES ASSUME NEW w \in 1 .. Len(wire'), NEW i \in 1 .. Len(rest)
                   PROVE  wire'[w].send <= rest[i].send
        OBVIOUS
      <4>1. wire'[w].send \in 1 .. Len(sends) /\ wire'[w].send <= first.send
        BY <1>10
      <4>2. first.send < rest[i].send /\ first.send \in 1 .. Len(sends)
        BY <1>6
      <4>3. rest[i].send \in 1 .. Len(sends)
        BY <1>2, <1>5 DEF QueueInOrder
      <4> QED BY <1>4, <4>1, <4>2, <4>3
    <3> QED BY <1>1, <1>10, <1>11, <1>13, <3>1 DEF WireInOrder
  <2>5. ASSUME NEW n \in 1 .. Len(sends)
        PROVE  /\ \A i \in 1 .. Len(rest) :
                     rest[i].send = n => Cardinality(Pieces(n)') = Begun(sendQueue[i])'
               /\ (\A i \in 1 .. Len(rest) : rest[i].send # n)
                     => Cardinality(Pieces(n)') = Whole(n)
    <3>1. CASE n = first.send
      <4>1. \A i \in 1 .. Len(rest) : rest[i].send # n
        BY <1>4, <1>6, <3>1
      <4>2. Cardinality(Pieces(n)) = Begun(first)
        BY <1>2, <1>5, <3>1 DEF PiecesCounted
      <4>3. Begun(first) + 1 = Whole(n)
        <5>1. CASE first.then = "plain"
          BY <1>6, <3>1, <5>1 DEF Begun, Whole
        <5>2. CASE first.then # "plain"
          <6>1. PICK file \in [send : Nat, left : Nat] :
                   /\ first.then = "file" => file = [send |-> first.send, left |-> FileChunks]
                   /\ first.then = "chunk" => file = fileStream
                   /\ file.left = 0
            BY <1>13, <5>2
          <6>3. first.then = "chunk" /\ fileStream.left = 0
            BY <5>2, <6>1, HttpAssumption DEF Then
          <6>4. sends[n] = "file"
            <7>1. sends[n] \in {"plain", "file"}
              BY DEF SendTypes
            <7> QED BY <1>6, <3>1, <5>2, <7>1
          <6> QED BY <6>3, <6>4, HttpAssumption DEF Begun, Whole
        <5> QED BY <5>1, <5>2
      <4>4. Cardinality(Pieces(n)') = Whole(n)
        BY <1>9, <3>1, <4>2, <4>3
      <4> QED BY <4>1, <4>4
    <3>2. CASE n # first.send
      <4>1. Cardinality(Pieces(n)') = Cardinality(Pieces(n))
        <5>1. Cardinality(Pieces(n)) \in Nat
          BY PiecesFinite
        <5> QED BY <1>9, <3>2, <5>1
      <4>2. ASSUME NEW i \in 1 .. Len(rest), rest[i].send = n
            PROVE  Cardinality(Pieces(n)') = Begun(sendQueue[i])'
        <5>1. Cardinality(Pieces(n)) = Begun(rest[i])
          BY <1>2, <1>5, <4>2 DEF PiecesCounted
        <5>2. rest[i].then = "chunk" => fileStream' = fileStream
          BY <2>1, <2>2
        <5> QED BY <1>13, <4>1, <5>1, <5>2 DEF Begun
      <4>3. ASSUME \A i \in 1 .. Len(rest) : rest[i].send # n
            PROVE  Cardinality(Pieces(n)) = Whole(n)
        <5>1. \A i \in 1 .. Len(sendQueue) : i = 1 \/ (i - 1 \in 1 .. Len(rest) /\ rest[i - 1] = sendQueue[i])
          <6> SUFFICES ASSUME NEW i \in 1 .. Len(sendQueue), i # 1
                       PROVE  i - 1 \in 1 .. Len(rest) /\ rest[i - 1] = sendQueue[i]
            OBVIOUS
          <6>1. i - 1 \in 1 .. Len(rest) /\ (i - 1) + 1 = i
            BY <1>3, <1>4
          <6>2. rest[i - 1] = sendQueue[(i - 1) + 1]
            BY <1>3, <6>1
          <6> QED BY <6>1, <6>2
        <5>2. \A i \in 1 .. Len(sendQueue) : sendQueue[i].send # n
          BY <1>5, <3>2, <4>3, <5>1
        <5> QED BY <1>2, <5>2 DEF PiecesCounted
      <4> QED BY <4>1, <4>2, <4>3
    <3> QED BY <3>1, <3>2
  <2>6. PiecesCounted'
    BY <1>1, <1>12, <1>13, <2>5 DEF PiecesCounted
  <2> QED BY <2>3, <2>4, <2>6
<1>14. ASSUME NEW file \in [send : Nat, left : Nat], first.then # "plain",
              first.then = "file" => file = [send |-> first.send, left |-> FileChunks],
              first.then = "chunk" => file = fileStream,
              file.left > 0, fileStream' = [send |-> file.send, left |-> file.left - 1],
              sendQueue' = Append(rest, [send |-> file.send, then |-> "chunk"])
       PROVE  QueueInOrder' /\ WireInOrder' /\ PiecesCounted'
  <2>1. file.send = first.send /\ file.left \in 1 .. FileChunks /\ Len(rest) = 0
        /\ file.left = FileChunks - Begun(first)
    <3>1. CASE first.then = "file"
      BY <1>6, <1>14, <3>1, HttpAssumption DEF Begun
    <3>2. CASE first.then = "chunk"
      BY <1>6, <1>14, <3>2, HttpAssumption DEF Begun
    <3> QED BY <1>14, <3>1, <3>2 DEF Then
  <2>2. Len(sendQueue') = 1 /\ sendQueue'[1] = [send |-> first.send, then |-> "chunk"]
    BY <1>14, <2>1
  <2>3. sends[first.send] = "file"
    <3>1. sends[first.send] \in {"plain", "file"}
      BY <1>6 DEF SendTypes
    <3> QED BY <1>6, <1>14, <3>1
  <2>4. fileStream'.send = first.send /\ fileStream'.left \in 0 .. FileChunks - 1
        /\ FileChunks - fileStream'.left = Begun(first) + 1
    BY <1>14, <2>1, HttpAssumption DEF Begun
  <2>5. QueueInOrder'
    BY <1>1, <1>6, <2>2, <2>3, <2>4 DEF QueueInOrder
  <2>6. WireInOrder'
    BY <1>1, <1>10, <1>11, <2>2 DEF WireInOrder
  <2>7. ASSUME NEW n \in 1 .. Len(sends)
        PROVE  /\ \A i \in 1 .. Len(sendQueue') :
                     sendQueue'[i].send = n => Cardinality(Pieces(n)') = Begun(sendQueue[i])'
               /\ (\A i \in 1 .. Len(sendQueue') : sendQueue'[i].send # n)
                     => Cardinality(Pieces(n)') = Whole(n)
    <3>1. CASE n = first.send
      <4>1. Cardinality(Pieces(n)) = Begun(first)
        BY <1>2, <1>5, <3>1 DEF PiecesCounted
      <4>2. Cardinality(Pieces(n)') = FileChunks - fileStream'.left
        BY <1>9, <2>4, <3>1, <4>1
      <4>3. \A i \in 1 .. Len(sendQueue') : Begun(sendQueue[i])' = FileChunks - fileStream'.left
        BY <2>2 DEF Begun
      <4>4. sendQueue'[1].send = n /\ 1 \in 1 .. Len(sendQueue')
        BY <2>2, <3>1
      <4> QED BY <4>2, <4>3, <4>4
    <3>2. CASE n # first.send
      <4>1. Cardinality(Pieces(n)') = Cardinality(Pieces(n))
        <5>1. Cardinality(Pieces(n)) \in Nat
          BY PiecesFinite
        <5> QED BY <1>9, <3>2, <5>1
      <4>2. \A i \in 1 .. Len(sendQueue) : sendQueue[i].send # n
        BY <1>5, <1>6, <1>14, <3>2
      <4>3. Cardinality(Pieces(n)) = Whole(n)
        BY <1>2, <4>2 DEF PiecesCounted
      <4> QED BY <2>2, <3>2, <4>1, <4>3
    <3> QED BY <3>1, <3>2
  <2>8. PiecesCounted'
    BY <1>1, <1>12, <2>7 DEF PiecesCounted
  <2> QED BY <2>5, <2>6, <2>8
<1>15. CASE first.then # "plain" /\ (sendQueue' = rest \/ sendQueue' = <<>>) /\ ~Writing'
  <2>1. Len(sendQueue') = 0
    BY <1>6, <1>15
  <2>2. QueueInOrder'
    BY <2>1 DEF QueueInOrder
  <2>3. WireInOrder'
    BY <1>1, <1>10, <1>11, <2>1 DEF WireInOrder
  <2> QED BY <1>15, <2>2, <2>3
<1>16. CASE first.then = "plain" /\ sendQueue' = rest /\ UNCHANGED fileStream
  BY <1>13, <1>16
<1>17. ASSUME NEW file \in [send : Nat, left : Nat], first.then # "plain", file.left = 0,
              first.then = "file" => file = [send |-> first.send, left |-> FileChunks],
              first.then = "chunk" => file = fileStream, sendQueue' = rest
       PROVE  QueueInOrder' /\ WireInOrder' /\ (Writing' => PiecesCounted')
  <2>1. \E other \in [send : Nat, left : Nat] :
           /\ first.then = "file" => other = [send |-> first.send, left |-> FileChunks]
           /\ first.then = "chunk" => other = fileStream
           /\ first.then # "plain" /\ other.left = 0
    BY <1>17
  <2> QED BY <1>13, <1>17, <2>1
<1> QED BY <1>3, <1>14, <1>15, <1>16, <1>17

LEMMA FileStep == Types /\ SendTypes /\ FileInv /\ [Next]_vars => FileInv'
<1> SUFFICES ASSUME Types, SendTypes, FileInv, [Next]_vars PROVE FileInv'
  OBVIOUS
<1>0. Undisturbed' => Undisturbed
  BY SituationsStay DEF Undisturbed
<1>1. CASE UNCHANGED vars
  BY <1>0, <1>1, FileStill DEF vars, peerVars, connectionVars, Writing
<1>2. CASE \/ Read \/ ParseStep \/ HandlerReturns \/ FailWrite
           \/ CloseEndpoint \/ CloseAction \/ \E kind \in Kinds : PeerSends(kind)
  <2>1. CloseConnection => (open' => open)
    BY DEF CloseConnection, connectionVars
  <2>2. MisreadStart => (open' => open)
    BY <2>1 DEF MisreadStart, connectionVars
  <2>3. CASE \/ Read \/ HandlerReturns \/ FailWrite \/ CloseEndpoint \/ CloseAction
             \/ \E kind \in Kinds : PeerSends(kind)
    <3>1. UNCHANGED <<serverSide, sendVars>> /\ (open' => open) /\ loop = "running"
      BY <2>1, <2>3 DEF Read, HandlerReturns, FailWrite, CloseEndpoint, CloseAction, PeerSends,
         ConnectionUnchanged, sendVars, peerVars, connectionVars, Idle, MayCall
    <3> QED BY <1>0, <3>1, FileStill DEF Writing
  <2>4. CASE ParseStep
    <3>1. UNCHANGED <<serverSide, sendVars>> /\ (open' => open) /\ loop = "running"
      BY <2>1, <2>2, <2>4 DEF ParseStep, StartLine, InvalidRequest, HeaderLine,
         EndOfHeaders, ReadContent, ChunkSize, ChunkData, LastChunk, IgnoreUnsolicited, PrependRest,
         Misread, ReadUnchanged, sendVars, peerVars, connectionVars, Parsing
    <3> QED BY <1>0, <3>1, FileStill DEF Writing
  <2> QED BY <1>2, <2>3, <2>4
<1>3. CASE LoseConnection
  <2>1. UNCHANGED <<serverSide, wire, fileStream, sends>> /\ sendQueue' = <<>> /\ open' = FALSE
    BY <1>3 DEF LoseConnection, OnDisconnected, ConnectionUnchanged
  <2>2. sends' \in Seq({"plain", "file"}) /\ Len(sends') >= Len(sends)
    BY <2>1 DEF SendTypes
  <2> QED BY <1>0, <2>1, <2>2, FileLost
<1>4. CASE WriteNext
  BY <1>4, FileWritten DEF Types, HistoryTypes
<1>5. CASE \E kind \in {"plain", "file"} : Respond(kind)
  BY <1>5, FileResponds
<1>6. CASE SendRequest \/ OpenEndpoint
  <2>1. ~serverSide /\ serverSide' = serverSide
    BY <1>6, SituationsStay DEF SendRequest, OpenEndpoint
  <2> QED BY <2>1 DEF FileInv
<1> QED BY <1>1, <1>2, <1>3, <1>4, <1>5, <1>6 DEF Next, Call

(* Whatever the number of responses and the size of a file: each response   *)
(* of a server is written in one piece after the other, unless another was  *)
(* queued before a file had been sent, or one was refused; and when nothing *)
(* is left to send it is whole, unless the connection is gone or an error   *)
(* of sending a file has ended the loop.                                    *)
THEOREM WholeInOrder == Spec => []FilesContiguous
<1>1. Init => Types /\ SendTypes /\ FileInv
  BY TypesInit, SendTypesInit, FileInit
<1>2. Types /\ SendTypes /\ FileInv /\ [Next]_vars => (Types /\ SendTypes /\ FileInv)'
  BY TypesStep, SendTypesStep, FileStep
<1>3. ASSUME SendTypes, FileInv PROVE FilesContiguous
  <2> SUFFICES ASSUME serverSide, situations \subseteq {"cut", "misread"}
               PROVE  /\ \A i, j \in DOMAIN wire : i < j => wire[i].send <= wire[j].send
                      /\ loop = "running" /\ open /\ sendQueue = <<>> =>
                            \A n \in DOMAIN sends :
                                Cardinality(Pieces(n)) = IF sends[n] = "file" THEN 1 + FileChunks ELSE 1
    BY DEF FilesContiguous
  <2>1. WireInOrder /\ (open /\ loop = "running" => PiecesCounted)
    BY <1>3 DEF FileInv, Writing, Undisturbed
  <2>2. DOMAIN wire = 1 .. Len(wire) /\ DOMAIN sends = 1 .. Len(sends) /\ Len(<<>>) = 0
    BY <1>3 DEF SendTypes
  <2>3. \A i, j \in DOMAIN wire : i < j => wire[i].send <= wire[j].send
    BY <2>1, <2>2 DEF WireInOrder
  <2>4. ASSUME open, loop = "running", sendQueue = <<>>, NEW n \in DOMAIN sends
        PROVE  Cardinality(Pieces(n)) = IF sends[n] = "file" THEN 1 + FileChunks ELSE 1
    BY <2>1, <2>2, <2>4 DEF PiecesCounted, Whole
  <2> QED BY <2>3, <2>4
<1> QED BY <1>1, <1>2, <1>3, PTL DEF Spec

-----------------------------------------------------------------------------
(* Messages are dispatched whole. *)

(* The tokens that have arrived and have not been consumed. *)
Held == IF input = <<>> THEN prepended ELSE input
Unread == Held \o stream

(* What the parser expects when a token is next. *)
AtStart(t) == state \notin Reading /\ t.k = 1 /\ chunkedBody = <<>>
AtHeader(t) ==
    /\ state = "ReadingHeaders" /\ t.m = activeHeaders /\ t.k \in {3, 5}
    /\ chunkSize = None /\ chunkedBody = <<>> /\ httpBody = <<>>
AtContent(t) ==
    /\ state = "ReadingContent" /\ t.m = activeHeaders
    /\ messages[t.m].kind = "length" /\ chunkedBody = <<>>
    /\ \/ t.k = 7 /\ httpBody = <<>>
       \/ t.k = 8 /\ httpBody = <<[m |-> t.m, k |-> 7]>>
AtChunk(t) ==
    /\ state = "ReadingChunks" /\ t.m = activeHeaders
    /\ messages[t.m].kind = "chunked"
    /\ \/ t.k = 7 /\ chunkSize = None /\ chunkedBody = <<>> /\ httpBody = <<>>
       \/ t.k = 9 /\ chunkSize = 2 /\ chunkedBody = <<>> /\ httpBody = <<>>
       \/ t.k = 10 /\ chunkSize = 1 /\ chunkedBody = <<[m |-> t.m, k |-> 9]>> /\ httpBody = <<>>
       \/ t.k \in {11, 13} /\ chunkSize = None /\ chunkedBody = <<>> /\ httpBody = BodyOf(t.m)
       \/ t.k = 15 /\ chunkSize = 0 /\ chunkedBody = <<>> /\ httpBody = BodyOf(t.m)
Fitting(t) == AtStart(t) \/ AtHeader(t) \/ AtContent(t) \/ AtChunk(t)

Live == open \/ input # <<>>
Clean ==
    /\ "unsolicited" \notin situations /\ "residue" \notin situations
    /\ "cut" \notin situations /\ "overtaken" \notin situations

UnreadWhole == open /\ Unread # <<>> => Ends(Unread[Len(Unread)], messages)

HeadFits ==
    Live => /\ Unread = <<>> => state \notin Reading /\ chunkedBody = <<>>
            /\ \A t \in Token : Unread # <<>> /\ t = Unread[1] => Fitting(t)

DeliveredWhole ==
    /\ \A i \in 1 .. Len(delivered), m \in Nat \union {None} : delivered[i].m = m =>
          /\ m \in 1 .. Len(messages) /\ delivered[i].body = BodyOf(m)
          /\ \A n \in 1 .. Len(Unread) : m < Unread[n].m
    /\ \A i, j \in 1 .. Len(delivered) : i < j => delivered[i].m < delivered[j].m

WholeInv ==
    Clean => /\ Orderly(Unread, messages) /\ UnreadWhole /\ HeadFits /\ DeliveredWhole
             /\ "misread" \notin situations

LEMMA Joined ==
    ASSUME NEW held \in Seq(Token), NEW rest \in Seq(Token)
    PROVE  /\ held \o rest \in Seq(Token) /\ Len(held \o rest) = Len(held) + Len(rest)
           /\ Len(held) \in Nat /\ Len(rest) \in Nat
           /\ \A i \in 1 .. Len(held) : (held \o rest)[i] = held[i]
           /\ \A i \in 1 .. Len(rest) : (held \o rest)[Len(held) + i] = rest[i]
           /\ (held \o rest = <<>>) <=> (held = <<>> /\ rest = <<>>)
           /\ (held \o rest = <<>>) <=> (Len(held \o rest) = 0)
<1> DEFINE u == held \o rest
<1>1. /\ u \in Seq(Token) /\ Len(u) = Len(held) + Len(rest)
      /\ \A i \in 1 .. Len(held) + Len(rest) : u[i] = IF i <= Len(held) THEN held[i] ELSE rest[i - Len(held)]
  BY ConcatProperties
<1>2. Len(held) \in Nat /\ Len(rest) \in Nat
  OBVIOUS
<1>3. \A s \in Seq(Token) : (s = <<>>) <=> (Len(s) = 0)
  BY EmptySeq
<1> HIDE DEF u
<1>4. \A i \in 1 .. Len(held) : u[i] = held[i]
  BY <1>1, <1>2
<1>5. ASSUME NEW i \in 1 .. Len(rest) PROVE u[Len(held) + i] = rest[i]
  <2>1. /\ Len(held) + i \in 1 .. Len(held) + Len(rest) /\ ~(Len(held) + i <= Len(held))
        /\ (Len(held) + i) - Len(held) = i
    BY <1>2
  <2> QED BY <1>1, <2>1
<1>6. (u = <<>>) <=> (held = <<>> /\ rest = <<>>)
  BY <1>1, <1>2, <1>3
<1> QED BY <1>1, <1>2, <1>3, <1>4, <1>5, <1>6 DEF u

LEMMA UnreadFacts ==
    ASSUME BufferTypes
    PROVE  /\ Unread \in Seq(Token) /\ Len(Unread) \in Nat
           /\ (Unread = <<>>) <=> (Len(Unread) = 0)
           /\ \A i \in 1 .. Len(Unread) : Unread[i] \in Token
           /\ Held \in Seq(Token)
<1>1. Held \in Seq(Token) /\ stream \in Seq(Token)
  BY DEF Held, BufferTypes
<1>2. Unread \in Seq(Token) /\ ((Unread = <<>>) <=> (Len(Unread) = 0))
  BY <1>1, Joined DEF Unread
<1> QED BY <1>1, <1>2

(* Some of the read is consumed. *)
LEMMA UnreadTaken ==
    ASSUME BufferTypes, input # <<>>, NEW n \in Nat, n <= Len(input), Take(n),
           UNCHANGED <<prepended, stream>>
    PROVE  /\ Unread \in Seq(Token) /\ Unread' \in Seq(Token) /\ Len(Unread) \in Nat
           /\ Len(Unread') = Len(Unread) - n /\ Len(input) \in 1 .. Len(Unread)
           /\ \A i \in 1 .. Len(Unread') : Unread'[i] = Unread[i + n]
           /\ \A i \in 1 .. Len(input) : Unread[i] = input[i]
           /\ (Unread' = <<>>) <=> (Len(Unread') = 0)
           /\ Unread' = <<>> => input' = <<>>
<1>1. /\ prepended = <<>> /\ input \in Seq(Token) /\ stream \in Seq(Token) /\ Len(input) \in Nat \ {0}
  BY EmptySeq DEF BufferTypes
<1>2. /\ input' \in Seq(Token) /\ Len(input') = Len(input) - n
      /\ \A i \in 1 .. Len(input') : input'[i] = input[i + n]
  BY <1>1, Taken
<1>3. Held = input /\ Held' = input' /\ stream' = stream
  BY <1>1 DEF Held
<1>4. /\ Unread \in Seq(Token) /\ Len(Unread) = Len(input) + Len(stream)
      /\ Len(input) \in Nat /\ Len(stream) \in Nat
      /\ \A i \in 1 .. Len(input) : Unread[i] = input[i]
      /\ \A i \in 1 .. Len(stream) : Unread[Len(input) + i] = stream[i]
  BY <1>1, <1>3, Joined DEF Unread
<1>5. /\ Unread' \in Seq(Token) /\ Len(Unread') = Len(input') + Len(stream)
      /\ Len(input') \in Nat /\ Len(stream) \in Nat
      /\ \A i \in 1 .. Len(input') : Unread'[i] = input'[i]
      /\ \A i \in 1 .. Len(stream) : Unread'[Len(input') + i] = stream[i]
      /\ (Unread' = <<>>) <=> (Len(Unread') = 0)
      /\ (Unread' = <<>>) <=> (input' = <<>> /\ stream = <<>>)
  <2>1. Unread' = input' \o stream
    BY <1>3 DEF Unread
  <2>2. /\ input' \o stream \in Seq(Token) /\ Len(input' \o stream) = Len(input') + Len(stream)
        /\ Len(input') \in Nat /\ Len(stream) \in Nat
        /\ \A i \in 1 .. Len(input') : (input' \o stream)[i] = input'[i]
        /\ \A i \in 1 .. Len(stream) : (input' \o stream)[Len(input') + i] = stream[i]
        /\ (input' \o stream = <<>>) <=> (input' = <<>> /\ stream = <<>>)
        /\ (input' \o stream = <<>>) <=> (Len(input' \o stream) = 0)
    BY <1>1, <1>2, Joined
  <2> HIDE DEF Unread
  <2> QED BY <2>1, <2>2
<1>6. ASSUME NEW i \in 1 .. Len(Unread') PROVE Unread'[i] = Unread[i + n]
  <2>1. CASE i <= Len(input')
    <3>1. i \in 1 .. Len(input') /\ i + n \in 1 .. Len(input)
      BY <1>2, <1>4, <1>5, <2>1
    <3> QED BY <1>2, <1>4, <1>5, <3>1
  <2>2. CASE i > Len(input')
    <3>1. PICK j \in 1 .. Len(stream) : i = Len(input') + j
      <4>1. i - Len(input') \in 1 .. Len(stream) /\ i = Len(input') + (i - Len(input'))
        BY <1>5, <2>2
      <4> QED BY <4>1
    <3>2. i + n = Len(input) + j
      BY <1>2, <1>4, <3>1
    <3> QED BY <1>4, <1>5, <3>1, <3>2
  <2> QED BY <1>5, <2>1, <2>2
<1> QED BY <1>1, <1>2, <1>4, <1>5, <1>6

(* The tokens behind the first. *)
LEMMA TokenAfter ==
    ASSUME NEW u \in Seq(Token), NEW history, Orderly(u, history), NEW i \in 1 .. Len(u) - 1
    PROVE  /\ ~Ends(u[i], history) => u[i + 1] = [m |-> u[i].m, k |-> u[i].k + 1]
           /\ Ends(u[i], history) => u[i + 1].k = 1 /\ \A j \in i + 1 .. Len(u) : u[i].m < u[j].m
<1>1. Len(u) \in Nat /\ i \in 1 .. Len(u) /\ i + 1 \in 1 .. Len(u)
  OBVIOUS
<1>2. u[i] \in Token /\ u[i + 1] \in Token
  BY <1>1, ElementOfSeq
<1>3. Follows(u[i], u[i + 1], history)
  BY DEF Orderly
<1>4. ASSUME ~Ends(u[i], history) PROVE u[i + 1] = [m |-> u[i].m, k |-> u[i].k + 1]
  BY <1>2, <1>3, <1>4 DEF Follows, Token
<1>5. ASSUME Ends(u[i], history), NEW j \in i + 1 .. Len(u) PROVE u[i].m < u[j].m
  <2>1. u[i].m < u[i + 1].m
    BY <1>2, <1>3, <1>5 DEF Follows, Token
  <2>2. CASE j = i + 1
    BY <2>1, <2>2
  <2>3. CASE j > i + 1
    <3>1. j \in 1 .. Len(u)
      BY <1>1
    <3>2. u[i + 1].m <= u[j].m /\ u[j] \in Token
      BY <1>1, <2>3, <3>1, ElementOfSeq DEF Orderly
    <3> QED BY <1>2, <2>1, <3>2 DEF Token
  <2> QED BY <1>1, <2>2, <2>3
<1> QED BY <1>3, <1>4, <1>5 DEF Follows

(* One token or two of one message are consumed, the last of them is the    *)
(* last of their message or not.                                            *)
LEMMA Consumed ==
    ASSUME BufferTypes, input # <<>>, NEW n \in {1, 2}, n <= Len(input), Take(n),
           UNCHANGED <<prepended, stream, open, messages>>,
           Orderly(Unread, messages), UnreadWhole,
           NEW t \in Token, t = Unread[1], t.k + n - 1 <= Size(messages[t.m].kind),
           messages[t.m].kind \in AllKinds
    PROVE  /\ Orderly(Unread', messages') /\ UnreadWhole' /\ Unread' \in Seq(Token)
           /\ Len(Unread) \in Nat /\ \A i \in 1 .. Len(Unread') : i + n \in 1 .. Len(Unread) /\ Unread'[i] = Unread[i + n]
           /\ t.k + n - 1 < Size(messages[t.m].kind) =>
                 /\ Unread' = <<>> => ~open' /\ input' = <<>>
                 /\ Unread' # <<>> => Unread'[1] = [m |-> t.m, k |-> t.k + n]
           /\ t.k + n - 1 = Size(messages[t.m].kind) =>
                 /\ Unread' # <<>> => Unread'[1].k = 1
                 /\ \A i \in 1 .. Len(Unread') : t.m < Unread'[i].m
<1>1. /\ Unread \in Seq(Token) /\ Unread' \in Seq(Token) /\ Len(Unread) \in Nat
      /\ Len(Unread') = Len(Unread) - n /\ Len(input) \in 1 .. Len(Unread)
      /\ \A i \in 1 .. Len(Unread') : Unread'[i] = Unread[i + n]
      /\ (Unread' = <<>>) <=> (Len(Unread') = 0)
      /\ Unread' = <<>> => input' = <<>>
  BY UnreadTaken
<1> DEFINE size == Size(messages[t.m].kind)
<1>0. size \in Nat
  BY DEF Size, AllKinds
<1>2. n \in 1 .. Len(Unread) /\ n \in Nat /\ Len(Unread) >= 1 /\ Len(Unread') \in Nat
  BY <1>1
<1>3. \A i \in 1 .. Len(Unread') : i + n \in 1 .. Len(Unread)
  BY <1>1, <1>2
<1>4. Orderly(Unread', messages)
  <2>1. n \in 0 .. Len(Unread)
    BY <1>1, <1>2
  <2> HIDE DEF Unread
  <2> QED BY <1>1, <2>1, OrderlySuffix
<1>5. Unread[n] = [m |-> t.m, k |-> t.k + n - 1]
  <2>1. CASE n = 1
    BY <2>1 DEF Token
  <2>2. CASE n = 2
    <3>1. ~Ends(Unread[1], messages)
      BY <1>0, <2>2 DEF Ends, Token
    <3>2. 1 \in 1 .. Len(Unread) - 1
      BY <1>1, <1>2, <2>2
    <3>3. Unread[2] = [m |-> t.m, k |-> t.k + 1]
      BY <1>1, <3>1, <3>2, TokenAfter
    <3> QED BY <2>2, <3>3 DEF Token
  <2> QED BY <2>1, <2>2
<1>6. Unread' # <<>> => Unread'[Len(Unread')] = Unread[Len(Unread)]
  BY <1>1, <1>2
<1>7. UnreadWhole'
  <2> SUFFICES ASSUME open', Unread' # <<>>
               PROVE  Ends(Unread'[Len(Unread')], messages')
    BY DEF UnreadWhole
  <2>1. open /\ Unread # <<>>
    BY <1>1, <1>2, EmptySeq
  <2>2. Ends(Unread[Len(Unread)], messages)
    BY <2>1 DEF UnreadWhole
  <2>3. Unread'[Len(Unread')] = Unread[Len(Unread)]
    BY <1>6
  <2> QED BY <2>2, <2>3 DEF Ends
<1>8. ASSUME t.k + n - 1 < size
      PROVE  /\ Unread' = <<>> => ~open' /\ input' = <<>>
             /\ Unread' # <<>> => Unread'[1] = [m |-> t.m, k |-> t.k + n]
  <2>1. ~Ends(Unread[n], messages)
    BY <1>0, <1>5, <1>8 DEF Ends, Token
  <2>2. ASSUME Unread' = <<>> PROVE ~open'
    <3>1. n = Len(Unread) /\ Unread # <<>>
      BY <1>1, <1>2, <2>2, EmptySeq
    <3> QED BY <2>1, <3>1 DEF UnreadWhole
  <2>3. ASSUME Unread' # <<>> PROVE Unread'[1] = [m |-> t.m, k |-> t.k + n]
    <3>1. 1 \in 1 .. Len(Unread') /\ n \in 1 .. Len(Unread) - 1
      BY <1>1, <1>2, <2>3
    <3>2. Unread'[1] = Unread[n + 1]
      BY <1>1, <1>2, <3>1
    <3>3. Unread[n + 1] = [m |-> Unread[n].m, k |-> Unread[n].k + 1]
      BY <1>1, <2>1, <3>1, TokenAfter
    <3> QED BY <1>5, <3>2, <3>3 DEF Token
  <2> QED BY <1>1, <2>2, <2>3
<1>9. ASSUME t.k + n - 1 = size
      PROVE  /\ Unread' # <<>> => Unread'[1].k = 1
             /\ \A i \in 1 .. Len(Unread') : t.m < Unread'[i].m
  <2>1. Ends(Unread[n], messages)
    BY <1>0, <1>5, <1>9 DEF Ends, Token
  <2>2. ASSUME Unread' # <<>>
        PROVE  /\ Unread'[1].k = 1
               /\ \A i \in 1 .. Len(Unread') : t.m < Unread'[i].m
    <3>1. 1 \in 1 .. Len(Unread') /\ n \in 1 .. Len(Unread) - 1
      BY <1>1, <1>2, <2>2
    <3>2. Unread'[1] = Unread[n + 1] /\ \A i \in 1 .. Len(Unread') : i + n \in n + 1 .. Len(Unread)
      BY <1>1, <1>2, <3>1
    <3>3. Unread[n + 1].k = 1 /\ \A j \in n + 1 .. Len(Unread) : Unread[n].m < Unread[j].m
      BY <1>1, <2>1, <3>1, TokenAfter
    <3> QED BY <1>1, <1>5, <3>2, <3>3
  <2>3. CASE Unread' = <<>>
    BY <1>1, <2>3
  <2> QED BY <2>2, <2>3
<1> QED BY <1>1, <1>3, <1>4, <1>7, <1>8, <1>9

LEMMA DeliveredKeeps ==
    ASSUME HistoryTypes, DeliveredWhole, UNCHANGED delivered, Unread' \in Seq(Token), Len(messages') \in Nat, Len(messages) <= Len(messages'),
           \A m \in 1 .. Len(messages) : messages'[m] = messages[m],
           \A i \in 1 .. Len(Unread') : \/ \E j \in 1 .. Len(Unread) : Unread'[i] = Unread[j]
                                        \/ Len(messages) < Unread'[i].m
    PROVE  DeliveredWhole'
<1>1. Len(messages) \in Nat
  BY DEF HistoryTypes
<1>2. ASSUME NEW i \in 1 .. Len(delivered), NEW m \in Nat \union {None}, delivered[i].m = m
      PROVE  /\ m \in 1 .. Len(messages') /\ delivered[i].body = BodyOf(m)'
             /\ \A n \in 1 .. Len(Unread') : m < Unread'[n].m
  <2>1. /\ m \in 1 .. Len(messages) /\ delivered[i].body = BodyOf(m)
        /\ \A n \in 1 .. Len(Unread) : m < Unread[n].m
    BY <1>2 DEF DeliveredWhole
  <2>2. BodyOf(m)' = BodyOf(m)
    BY <2>1 DEF BodyOf
  <2>3. ASSUME NEW n \in 1 .. Len(Unread') PROVE m < Unread'[n].m
    <3>1. CASE \E j \in 1 .. Len(Unread) : Unread'[n] = Unread[j]
      BY <2>1, <3>1
    <3>2. CASE Len(messages) < Unread'[n].m
      <4>1. Unread'[n] \in Token
        BY ElementOfSeq
      <4>2. Unread'[n].m \in Nat
        BY <4>1 DEF Token
      <4> QED BY <1>1, <2>1, <3>2, <4>2
    <3> QED BY <3>1, <3>2
  <2> QED BY <1>1, <2>1, <2>2, <2>3
<1>3. \A i, j \in 1 .. Len(delivered) : i < j => delivered[i].m < delivered[j].m
  BY DEF DeliveredWhole
<1> QED BY <1>2, <1>3 DEF DeliveredWhole

(* The message of the first token is dispatched. *)
LEMMA DeliveredMore ==
    ASSUME HistoryTypes, DeliveredWhole, UNCHANGED messages, Unread \in Seq(Token),
           NEW t \in Token, t = Unread[1], 1 \in 1 .. Len(Unread), t.m \in 1 .. Len(messages),
           NEW options \in Nat \union {None},
           delivered' = Append(delivered, [m |-> t.m, body |-> BodyOf(t.m), options |-> options]),
           \A i \in 1 .. Len(Unread') : t.m < Unread'[i].m /\ \E j \in 1 .. Len(Unread) : Unread'[i] = Unread[j]
    PROVE  DeliveredWhole'
<1> DEFINE last == [m |-> t.m, body |-> BodyOf(t.m), options |-> options]
<1>1. delivered \in Seq(Delivery) /\ Len(delivered) \in Nat /\ Len(messages) \in Nat
  BY DEF HistoryTypes
<1>2. last \in Delivery /\ last.m = t.m /\ last.body = BodyOf(t.m) /\ t.m \in Nat
  <2>1. BodyOf(t.m) \in Seq(Token)
    BY BodyFacts DEF Token
  <2> QED BY <2>1 DEF Delivery, Token
<1>3. delivered' = Append(delivered, last)
  OBVIOUS
<1> HIDE DEF last
<1>4. /\ Len(delivered') = Len(delivered) + 1 /\ delivered'[Len(delivered) + 1] = last
      /\ \A i \in 1 .. Len(delivered) : delivered'[i] = delivered[i]
  BY <1>1, <1>2, <1>3, AppendProperties
<1>5. \A i \in 1 .. Len(delivered') : i \in 1 .. Len(delivered) \/ i = Len(delivered) + 1
  BY <1>1, <1>4
<1>6. ASSUME NEW i \in 1 .. Len(delivered)
      PROVE  /\ delivered[i].m \in 1 .. Len(messages) /\ delivered[i].m < t.m
             /\ \A n \in 1 .. Len(Unread) : delivered[i].m < Unread[n].m
  <2>1. delivered[i] \in Delivery
    BY <1>1, ElementOfSeq
  <2>2. delivered[i].m \in Nat \union {None}
    BY <2>1 DEF Delivery
  <2> QED BY <2>2 DEF DeliveredWhole
<1>7. ASSUME NEW i \in 1 .. Len(delivered'), NEW m \in Nat \union {None}, delivered'[i].m = m
      PROVE  /\ m \in 1 .. Len(messages') /\ delivered'[i].body = BodyOf(m)'
             /\ \A n \in 1 .. Len(Unread') : m < Unread'[n].m
  <2>0. BodyOf(m)' = BodyOf(m)
    BY DEF BodyOf
  <2>1. CASE i \in 1 .. Len(delivered)
    <3>1. /\ m \in 1 .. Len(messages) /\ delivered[i].body = BodyOf(m)
          /\ \A n \in 1 .. Len(Unread) : m < Unread[n].m
      BY <1>4, <1>7, <2>1 DEF DeliveredWhole
    <3> QED BY <1>4, <2>0, <2>1, <3>1
  <2>2. CASE i = Len(delivered) + 1
    BY <1>2, <1>4, <1>7, <2>0, <2>2
  <2> QED BY <1>5, <2>1, <2>2
<1>8. ASSUME NEW i \in 1 .. Len(delivered'), NEW j \in 1 .. Len(delivered'), i < j
      PROVE  delivered'[i].m < delivered'[j].m
  <2>1. i \in 1 .. Len(delivered)
    BY <1>1, <1>4, <1>8
  <2>2. CASE j \in 1 .. Len(delivered)
    BY <1>4, <1>8, <2>1, <2>2 DEF DeliveredWhole
  <2>3. CASE j = Len(delivered) + 1
    BY <1>2, <1>4, <1>6, <2>1, <2>3
  <2> QED BY <1>5, <2>2, <2>3
<1> QED BY <1>7, <1>8 DEF DeliveredWhole

(* The message goes on with the next token. *)
LEMMA GoesOn ==
    ASSUME BufferTypes, HistoryTypes, WholeInv, Clean, NEW n \in {1, 2}, n <= Len(input), input # <<>>, Take(n),
           UNCHANGED <<prepended, stream, open, messages, delivered>>,
           "misread" \in situations' => "misread" \in situations,
           NEW t \in Token, t = Unread[1], messages[t.m].kind \in AllKinds,
           t.k + n - 1 < Size(messages[t.m].kind),
           NEW next \in Token, next = [m |-> t.m, k |-> t.k + n], Fitting(next)'
    PROVE  WholeInv'
<1>1. /\ Orderly(Unread, messages) /\ UnreadWhole /\ DeliveredWhole
      /\ "misread" \notin situations
  BY DEF WholeInv
<1>2. /\ Orderly(Unread', messages') /\ UnreadWhole' /\ Unread' \in Seq(Token)
      /\ \A i \in 1 .. Len(Unread') : i + n \in 1 .. Len(Unread) /\ Unread'[i] = Unread[i + n]
      /\ Unread' = <<>> => ~open' /\ input' = <<>>
      /\ Unread' # <<>> => Unread'[1] = next
  <2>1. t.k + n - 1 <= Size(messages[t.m].kind)
    BY DEF Size, AllKinds, Token
  <2> QED BY <1>1, <2>1, Consumed
<1>3. DeliveredWhole'
  <2>1. Len(messages') \in Nat /\ Len(messages) <= Len(messages')
        /\ \A m \in 1 .. Len(messages) : messages'[m] = messages[m]
    BY DEF HistoryTypes
  <2> QED BY <1>1, <1>2, <2>1, DeliveredKeeps
<1>4. HeadFits'
  <2>1. Live' => Unread' # <<>>
    BY <1>2 DEF Live
  <2> QED BY <1>2, <2>1 DEF HeadFits
<1>5. "misread" \notin situations'
  BY <1>1
<1> QED BY <1>2, <1>3, <1>4, <1>5 DEF WholeInv

(* The message ends, and is dispatched. *)
LEMMA EndsHere ==
    ASSUME BufferTypes, HistoryTypes, WholeInv, Clean, NEW n \in {1, 2}, n <= Len(input), input # <<>>, Take(n),
           UNCHANGED <<prepended, stream, open, messages>>,
           "misread" \in situations' => "misread" \in situations,
           NEW t \in Token, t = Unread[1], messages[t.m].kind \in AllKinds, t.m \in 1 .. Len(messages),
           t.k + n - 1 = Size(messages[t.m].kind),
           state' \notin Reading, chunkedBody' = <<>>,
           NEW options \in Nat \union {None},
           delivered' = Append(delivered, [m |-> t.m, body |-> BodyOf(t.m), options |-> options])
    PROVE  WholeInv'
<1>1. /\ Orderly(Unread, messages) /\ UnreadWhole /\ DeliveredWhole
      /\ "misread" \notin situations
  BY DEF WholeInv
<1>0. Unread \in Seq(Token) /\ 1 \in 1 .. Len(Unread)
  <2>1. Unread \in Seq(Token) /\ Len(Unread) \in Nat /\ Len(input) \in 1 .. Len(Unread)
    BY UnreadTaken
  <2> QED BY <2>1
<1>2. /\ Orderly(Unread', messages') /\ UnreadWhole' /\ Unread' \in Seq(Token)
      /\ \A i \in 1 .. Len(Unread') : i + n \in 1 .. Len(Unread) /\ Unread'[i] = Unread[i + n]
      /\ Unread' # <<>> => Unread'[1].k = 1
      /\ \A i \in 1 .. Len(Unread') : t.m < Unread'[i].m
  <2>1. t.k + n - 1 <= Size(messages[t.m].kind)
    BY DEF Size, AllKinds, Token
  <2> QED BY <1>1, <2>1, Consumed
<1>3. DeliveredWhole'
  BY <1>0, <1>1, <1>2, DeliveredMore
<1>4. HeadFits'
  BY <1>2 DEF HeadFits, Fitting, AtStart
<1>5. "misread" \notin situations'
  BY <1>1
<1> QED BY <1>2, <1>3, <1>4, <1>5 DEF WholeInv

(* What is at the head of the read. *)
LEMMA HeadOfRead ==
    ASSUME Types, WholeInv, Clean, input # <<>>
    PROVE  \E t \in Token, kind \in AllKinds :
              /\ t = Unread[1] /\ t = input[1] /\ t.m \in 1 .. Len(messages) /\ messages[t.m].kind = kind
              /\ t.k \in 1 .. Size(kind) /\ Fitting(t)
              /\ Is(t).what = What(kind, t.k) /\ (Is(t).eol <=> Eol(t.k) /\ What(kind, t.k) # "data")
<1>1. BufferTypes /\ HistoryTypes /\ Orderly(Unread, messages) /\ HeadFits
  BY DEF Types, WholeInv
<1>2. prepended = <<>> /\ Held = input /\ input \in Seq(Token) /\ stream \in Seq(Token)
  BY <1>1 DEF BufferTypes, Held
<1>3. Len(input) \in Nat \ {0}
  BY <1>2, EmptySeq
<1>4. /\ Unread \in Seq(Token) /\ Len(Unread) = Len(input) + Len(stream)
      /\ Len(input) \in Nat /\ Len(stream) \in Nat
      /\ \A i \in 1 .. Len(input) : Unread[i] = input[i]
      /\ (Unread = <<>>) <=> (Len(Unread) = 0)
  BY <1>2, Joined DEF Unread
<1>5. 1 \in 1 .. Len(Unread) /\ Unread # <<>> /\ Unread[1] = input[1] /\ Unread[1] \in Token
  <2>1. 1 \in 1 .. Len(Unread) /\ Unread # <<>> /\ 1 \in 1 .. Len(input)
    BY <1>3, <1>4
  <2> QED BY <1>4, <2>1, ElementOfSeq
<1> DEFINE t == Unread[1]
<1>6. /\ t.m \in 1 .. Len(messages) /\ t.k \in 1 .. Size(messages[t.m].kind)
  BY <1>1, <1>5 DEF Orderly, HistoryTypes
<1>7. messages[t.m].kind \in AllKinds
  <2>1. messages[t.m] \in Message
    BY <1>1, <1>6, ElementOfSeq DEF HistoryTypes
  <2> QED BY <2>1 DEF Message
<1>8. Fitting(t)
  BY <1>1, <1>5 DEF HeadFits, Live
<1>9. t.m \in DOMAIN messages
  BY <1>1, <1>6 DEF HistoryTypes
<1>10. t \in Token /\ t = Unread[1] /\ t = input[1]
  BY <1>5
<1> HIDE DEF t
<1>11. Is(t).what = What(messages[t.m].kind, t.k)
       /\ (Is(t).eol <=> Eol(t.k) /\ What(messages[t.m].kind, t.k) # "data")
  BY <1>6, <1>7, <1>9, TokenTable
<1> QED BY <1>6, <1>7, <1>8, <1>10, <1>11

LEMMA StartLineWhole == Types /\ WholeInv /\ StartLine => WholeInv'
<1> SUFFICES ASSUME Types, WholeInv, Clean', StartLine PROVE WholeInv'
  BY DEF WholeInv
<1>0. ParserTypes /\ BufferTypes /\ HistoryTypes
  BY DEF Types
<1>1. Clean /\ ("misread" \in situations' => "misread" \in situations) /\ input # <<>>
  BY DEF Clean, StartLine, Parsing
<1>2. PICK t \in Token, kind \in AllKinds :
         /\ t = Unread[1] /\ t = input[1] /\ t.m \in 1 .. Len(messages) /\ messages[t.m].kind = kind
         /\ t.k \in 1 .. Size(kind) /\ Fitting(t)
         /\ Is(t).what = What(kind, t.k) /\ (Is(t).eol <=> Eol(t.k) /\ What(kind, t.k) # "data")
  BY <1>1, HeadOfRead
<1>3. /\ state \notin Reading /\ NextLine({"start"}) /\ Take(2)
      /\ chunkSize' = None /\ httpBody' = <<>> /\ activeHeaders' = input[1].m
      /\ state' = "ReadingHeaders" /\ chunkedBody' = chunkedBody
      /\ UNCHANGED <<prepended, stream, open, messages, delivered>>
  BY DEF StartLine, AwaitingStart, Reading, ReadUnchanged, NoDispatch, peerVars, connectionVars
<1>4. What(kind, t.k) = "start" /\ Len(input) >= 2
  BY <1>0, <1>2, <1>3 DEF NextLine, BufferTypes
<1>5. t.k \in {1, 2} /\ kind # "bad"
  BY <1>2, <1>4 DEF What, Size, AllKinds
<1>6. t.k = 1 /\ chunkedBody = <<>>
  BY <1>2, <1>3, <1>5 DEF Fitting, AtStart, AtHeader, AtContent, AtChunk, Reading
<1>7. t.k + 2 - 1 < Size(kind)
  BY <1>5, <1>6 DEF Size, AllKinds
<1> DEFINE next == [m |-> t.m, k |-> t.k + 2]
<1>8. next \in Token /\ next.m = t.m /\ next.k = t.k + 2 /\ next = [m |-> t.m, k |-> t.k + 2]
  BY DEF Token
<1> HIDE DEF next
<1>9. Fitting(next)'
  BY <1>2, <1>3, <1>6, <1>8 DEF Fitting, AtHeader
<1> QED BY <1>0, <1>1, <1>2, <1>3, <1>4, <1>7, <1>8, <1>9, GoesOn

LEMMA HeaderLineWhole == Types /\ WholeInv /\ HeaderLine => WholeInv'
<1> SUFFICES ASSUME Types, WholeInv, Clean', HeaderLine PROVE WholeInv'
  BY DEF WholeInv
<1>0. ParserTypes /\ BufferTypes /\ HistoryTypes
  BY DEF Types
<1>1. Clean /\ ("misread" \in situations' => "misread" \in situations) /\ input # <<>>
  BY DEF Clean, HeaderLine, Parsing
<1>2. PICK t \in Token, kind \in AllKinds :
         /\ t = Unread[1] /\ t = input[1] /\ t.m \in 1 .. Len(messages) /\ messages[t.m].kind = kind
         /\ t.k \in 1 .. Size(kind) /\ Fitting(t)
         /\ Is(t).what = What(kind, t.k) /\ (Is(t).eol <=> Eol(t.k) /\ What(kind, t.k) # "data")
  BY <1>1, HeadOfRead
<1>3. /\ state = "ReadingHeaders" /\ Take(2)
      /\ NextLine({"Content-Length-0", "Content-Length-2", "Transfer-Encoding"})
      /\ UNCHANGED <<state, activeHeaders, chunkSize, chunkedBody, httpBody>>
      /\ UNCHANGED <<prepended, stream, open, messages, delivered>>
  BY DEF HeaderLine, ReadUnchanged, NoDispatch, peerVars, connectionVars, parserVars
<1>4. What(kind, t.k) \in {"Content-Length-0", "Content-Length-2", "Transfer-Encoding"} /\ Len(input) >= 2
  BY <1>0, <1>2, <1>3 DEF NextLine, BufferTypes
<1>5. AtHeader(t)
  BY <1>2, <1>3 DEF Fitting, AtStart, AtContent, AtChunk, Reading
<1>6. t.k = 3 /\ t.k + 2 - 1 < Size(kind)
  BY <1>2, <1>4, <1>5 DEF What, Size, AllKinds, AtHeader
<1> DEFINE next == [m |-> t.m, k |-> t.k + 2]
<1>8. next \in Token /\ next.m = t.m /\ next.k = t.k + 2 /\ next = [m |-> t.m, k |-> t.k + 2]
  BY DEF Token
<1> HIDE DEF next
<1>9. Fitting(next)'
  BY <1>3, <1>5, <1>6, <1>8 DEF Fitting, AtHeader
<1> QED BY <1>0, <1>1, <1>2, <1>3, <1>4, <1>6, <1>8, <1>9, GoesOn

LEMMA EndOfHeadersWhole == Types /\ WholeInv /\ EndOfHeaders => WholeInv'
<1> SUFFICES ASSUME Types, WholeInv, Clean', EndOfHeaders PROVE WholeInv'
  BY DEF WholeInv
<1>0. ParserTypes /\ BufferTypes /\ HistoryTypes
  BY DEF Types
<1>1. Clean /\ ("misread" \in situations' => "misread" \in situations) /\ input # <<>>
  BY DEF Clean, EndOfHeaders, Parsing
<1>2. PICK t \in Token, kind \in AllKinds :
         /\ t = Unread[1] /\ t = input[1] /\ t.m \in 1 .. Len(messages) /\ messages[t.m].kind = kind
         /\ t.k \in 1 .. Size(kind) /\ Fitting(t)
         /\ Is(t).what = What(kind, t.k) /\ (Is(t).eol <=> Eol(t.k) /\ What(kind, t.k) # "data")
  BY <1>1, HeadOfRead
<1>3. /\ state = "ReadingHeaders" /\ Take(2) /\ NextLine({"end"})
      /\ UNCHANGED <<activeHeaders, chunkSize, httpBody, chunkedBody>>
      /\ UNCHANGED <<prepended, stream, open, messages>>
  BY DEF EndOfHeaders, Framed, ReadUnchanged, peerVars, connectionVars
<1>4. What(kind, t.k) = "end" /\ Len(input) >= 2
  BY <1>0, <1>2, <1>3 DEF NextLine, BufferTypes
<1>5. AtHeader(t) /\ t.m = activeHeaders
  BY <1>2, <1>3 DEF Fitting, AtStart, AtHeader, AtContent, AtChunk, Reading
<1>6. /\ kind = "none" => t.k + 2 - 1 = Size(kind)
      /\ kind = "empty" => t.k + 2 - 1 = Size(kind)
      /\ kind \in {"length", "chunked"} => t.k = 5 /\ t.k + 2 - 1 < Size(kind)
  BY <1>2, <1>4, <1>5 DEF What, Size, AllKinds, AtHeader
<1> DEFINE next == [m |-> t.m, k |-> t.k + 2]
<1>8. next \in Token /\ next.m = t.m /\ next.k = t.k + 2 /\ next = [m |-> t.m, k |-> t.k + 2]
  BY DEF Token
<1> HIDE DEF next
<1>9. CASE kind \in {"none", "empty"} /\ DispatchPayload(<<>>)
  <2>1. <<>> \in Seq(Token) /\ BodyOf(t.m) = <<>>
    BY <1>2, <1>9, BodyFacts DEF Token
  <2>2. /\ state' \notin Reading
        /\ \E options \in Nat \union {None} :
              delivered' = Append(delivered, [m |-> activeHeaders, body |-> <<>>, options |-> options])
    BY <1>0, <1>9, <2>1, DispatchTypes
  <2>3. chunkedBody' = <<>> /\ t.k + 2 - 1 = Size(kind)
    BY <1>3, <1>5, <1>6, <1>9 DEF AtHeader
  <2> QED BY <1>0, <1>1, <1>2, <1>3, <1>4, <1>5, <2>1, <2>2, <2>3, EndsHere
<1>10. CASE kind = "length" /\ state' = "ReadingContent" /\ NoDispatch
  <2>1. Fitting(next)' /\ delivered' = delivered
    BY <1>2, <1>3, <1>5, <1>6, <1>8, <1>10 DEF Fitting, AtHeader, AtContent, NoDispatch
  <2> QED BY <1>0, <1>1, <1>2, <1>3, <1>4, <1>6, <1>8, <1>10, <2>1, GoesOn
<1>11. CASE kind = "chunked" /\ state' = "ReadingChunks" /\ NoDispatch
  <2>1. Fitting(next)' /\ delivered' = delivered
    BY <1>2, <1>3, <1>5, <1>6, <1>8, <1>11 DEF Fitting, AtHeader, AtChunk, NoDispatch
  <2> QED BY <1>0, <1>1, <1>2, <1>3, <1>4, <1>6, <1>8, <1>11, <2>1, GoesOn
<1> QED BY <1>2, <1>5, <1>9, <1>10, <1>11 DEF EndOfHeaders, Framed

LEMMA ChunkSizeWhole == Types /\ WholeInv /\ ChunkSize => WholeInv'
<1> SUFFICES ASSUME Types, WholeInv, Clean', ChunkSize PROVE WholeInv'
  BY DEF WholeInv
<1>0. ParserTypes /\ BufferTypes /\ HistoryTypes
  BY DEF Types
<1>1. Clean /\ ("misread" \in situations' => "misread" \in situations) /\ input # <<>>
  BY DEF Clean, ChunkSize, Parsing
<1>2. PICK t \in Token, kind \in AllKinds :
         /\ t = Unread[1] /\ t = input[1] /\ t.m \in 1 .. Len(messages) /\ messages[t.m].kind = kind
         /\ t.k \in 1 .. Size(kind) /\ Fitting(t)
         /\ Is(t).what = What(kind, t.k) /\ (Is(t).eol <=> Eol(t.k) /\ What(kind, t.k) # "data")
  BY <1>1, HeadOfRead
<1>3. /\ state = "ReadingChunks" /\ chunkSize = None /\ Take(2)
      /\ UNCHANGED <<state, activeHeaders, contentSize, chunkedBody, httpBody>>
      /\ UNCHANGED <<prepended, stream, open, messages, delivered>>
  BY DEF ChunkSize, ReadUnchanged, NoDispatch, peerVars, connectionVars
<1>4. /\ Len(input) >= 2
      /\ \/ What(kind, t.k) = "crlf" /\ chunkSize' = chunkSize
         \/ What(kind, t.k) = "size" /\ chunkSize' = 2
         \/ What(kind, t.k) = "last" /\ chunkSize' = 0
  BY <1>0, <1>2 DEF NextLine, BufferTypes, ChunkSize, ChunkLength
<1>5. AtChunk(t)
  BY <1>2, <1>3 DEF Fitting, AtStart, AtHeader, AtContent, Reading
<1>6. kind = "chunked" /\ t.k \in {7, 11, 13} /\ t.k + 2 - 1 < Size(kind)
  BY <1>2, <1>3, <1>5, HttpAssumption DEF Size, AllKinds, AtChunk
<1>7. /\ t.k = 7 => chunkSize' = 2
      /\ t.k = 11 => chunkSize' = None
      /\ t.k = 13 => chunkSize' = 0
  BY <1>3, <1>4, <1>6 DEF What
<1> DEFINE next == [m |-> t.m, k |-> t.k + 2]
<1>8. next \in Token /\ next.m = t.m /\ next.k = t.k + 2 /\ next = [m |-> t.m, k |-> t.k + 2]
  BY DEF Token
<1> HIDE DEF next
<1>9. AtChunk(next)'
  <2>1. BodyOf(t.m)' = BodyOf(t.m)
    BY <1>3 DEF BodyOf
  <2>2. state' = "ReadingChunks" /\ next.m = activeHeaders' /\ messages'[next.m].kind = "chunked"
    BY <1>2, <1>3, <1>5, <1>6, <1>8 DEF AtChunk
  <2>3. CASE t.k = 7
    BY <1>3, <1>5, <1>7, <1>8, <2>2, <2>3 DEF AtChunk
  <2>4. CASE t.k = 11
    BY <1>3, <1>5, <1>7, <1>8, <2>1, <2>2, <2>4 DEF AtChunk
  <2>5. CASE t.k = 13
    BY <1>3, <1>5, <1>7, <1>8, <2>1, <2>2, <2>5 DEF AtChunk
  <2> QED BY <1>6, <2>3, <2>4, <2>5
<1>10. Fitting(next)'
  BY <1>9 DEF Fitting
<1> QED BY <1>0, <1>1, <1>2, <1>3, <1>4, <1>6, <1>8, <1>10, GoesOn

LEMMA LastChunkWhole == Types /\ WholeInv /\ LastChunk => WholeInv'
<1> SUFFICES ASSUME Types, WholeInv, Clean', LastChunk PROVE WholeInv'
  BY DEF WholeInv
<1>0. ParserTypes /\ BufferTypes /\ HistoryTypes
  BY DEF Types
<1>1. Clean /\ ("misread" \in situations' => "misread" \in situations) /\ input # <<>>
  BY DEF Clean, LastChunk, Parsing
<1>2. PICK t \in Token, kind \in AllKinds :
         /\ t = Unread[1] /\ t = input[1] /\ t.m \in 1 .. Len(messages) /\ messages[t.m].kind = kind
         /\ t.k \in 1 .. Size(kind) /\ Fitting(t)
         /\ Is(t).what = What(kind, t.k) /\ (Is(t).eol <=> Eol(t.k) /\ What(kind, t.k) # "data")
  BY <1>1, HeadOfRead
<1>3. /\ state = "ReadingChunks" /\ chunkSize = 0 /\ Take(2) /\ NextLine({"end"})
      /\ DispatchPayload(httpBody) /\ chunkedBody' = <<>>
      /\ UNCHANGED <<prepended, stream, open, messages>>
  BY DEF LastChunk, EndOfChunks, ReadUnchanged, peerVars, connectionVars
<1>4. Len(input) >= 2
  BY <1>0, <1>2, <1>3 DEF NextLine, BufferTypes
<1>5. AtChunk(t) /\ t.m = activeHeaders
  BY <1>2, <1>3 DEF Fitting, AtStart, AtHeader, AtContent, AtChunk, Reading
<1>6. t.k + 2 - 1 = Size(kind) /\ httpBody = BodyOf(t.m)
  BY <1>2, <1>3, <1>5, HttpAssumption DEF Size, AllKinds, AtChunk
<1>7. httpBody \in Seq(Token)
  BY <1>0 DEF BufferTypes
<1>8. /\ state' \notin Reading
      /\ \E options \in Nat \union {None} :
            delivered' = Append(delivered, [m |-> activeHeaders, body |-> httpBody, options |-> options])
  BY <1>0, <1>3, <1>7, DispatchTypes
<1> QED BY <1>0, <1>1, <1>2, <1>3, <1>4, <1>5, <1>6, <1>8, EndsHere

LEMMA SecondOfRead ==
    ASSUME Types, WholeInv, Clean, NEW t \in Token, t = input[1], 2 <= Len(input),
           t.k < Size(messages[t.m].kind), messages[t.m].kind \in AllKinds
    PROVE  input[2] = [m |-> t.m, k |-> t.k + 1]
<1>1. /\ prepended = <<>> /\ input \in Seq(Token) /\ stream \in Seq(Token) /\ Orderly(Unread, messages)
      /\ input # <<>>
  BY EmptySeq DEF Types, BufferTypes, WholeInv
<1>2. Held = input
  BY <1>1 DEF Held
<1>3. /\ Unread \in Seq(Token) /\ Len(Unread) = Len(input) + Len(stream)
      /\ Len(input) \in Nat /\ Len(stream) \in Nat
      /\ \A i \in 1 .. Len(input) : Unread[i] = input[i]
  BY <1>1, <1>2, Joined DEF Unread
<1>4. Unread[1] = t /\ Unread[2] = input[2] /\ 1 \in 1 .. Len(Unread) - 1
  BY <1>3
<1>5. ~Ends(Unread[1], messages)
  BY <1>4 DEF Ends, Size, AllKinds, Token
<1>6. Unread[2] = [m |-> Unread[1].m, k |-> Unread[1].k + 1]
  BY <1>1, <1>3, <1>4, <1>5, TokenAfter
<1> QED BY <1>4, <1>6

LEMMA OneToken ==
    ASSUME NEW s \in Seq(Token), Len(s) = 1
    PROVE  s = <<s[1]>>
<1>1. s[1] \in Token
  BY ElementOfSeq
<1>2. <<s[1]>> \in Seq(Token) /\ Len(<<s[1]>>) = 1 /\ <<s[1]>>[1] = s[1]
  BY <1>1
<1> QED BY <1>2, SeqEqual

LEMMA TwoTokens ==
    ASSUME NEW s \in Seq(Token), Len(s) = 2
    PROVE  s = <<s[1], s[2]>>
<1>1. s[1] \in Token /\ s[2] \in Token
  BY ElementOfSeq
<1> DEFINE r == <<s[1], s[2]>>
<1>2. r \in Seq(Token) /\ Len(r) = 2 /\ r[1] = s[1] /\ r[2] = s[2]
  BY <1>1
<1> HIDE DEF r
<1>3. \A i \in 1 .. 2 : s[i] = r[i]
  BY <1>2
<1>4. s = r
  BY <1>2, <1>3, SeqEqual
<1> QED BY <1>4 DEF r

LEMMA ReadContentWhole == Types /\ WholeInv /\ ReadContent => WholeInv'
<1> SUFFICES ASSUME Types, WholeInv, Clean', ReadContent PROVE WholeInv'
  BY DEF WholeInv
<1>0. ParserTypes /\ BufferTypes /\ HistoryTypes
  BY DEF Types
<1>1. Clean /\ ("misread" \in situations' => "misread" \in situations) /\ input # <<>>
  BY DEF Clean, ReadContent, Parsing
<1>2. PICK t \in Token, kind \in AllKinds :
         /\ t = Unread[1] /\ t = input[1] /\ t.m \in 1 .. Len(messages) /\ messages[t.m].kind = kind
         /\ t.k \in 1 .. Size(kind) /\ Fitting(t)
         /\ Is(t).what = What(kind, t.k) /\ (Is(t).eol <=> Eol(t.k) /\ What(kind, t.k) # "data")
  BY <1>1, HeadOfRead
<1>3. /\ state = "ReadingContent" /\ chunkedBody' = chunkedBody /\ activeHeaders' = activeHeaders
      /\ UNCHANGED <<prepended, stream, open, messages>>
  BY DEF ReadContent, ReadUnchanged, peerVars, connectionVars
<1>4. AtContent(t) /\ t.m = activeHeaders /\ kind = "length" /\ Size(kind) = 8 /\ t.m \in Nat
  BY <1>2, <1>3 DEF Fitting, AtStart, AtHeader, AtContent, AtChunk, Reading, Size, Token
<1>5. PICK taken \in Nat :
         /\ taken <= Len(input) /\ Take(taken)
         /\ httpBody' = httpBody \o SubSeq(input, 1, taken) /\ httpBody' \in Seq(Token)
         /\ Len(httpBody') = Len(httpBody) + taken
         /\ \/ taken = 2 - Len(httpBody) /\ DispatchPayload(httpBody')
            \/ taken = Len(input) /\ taken < 2 - Len(httpBody) /\ NoDispatch /\ state' = state
  BY ContentTaken
<1>6. /\ input \in Seq(Token) /\ Len(input) \in Nat \ {0} /\ input[1] = t /\ httpBody \in Seq(Token)
  BY <1>0, <1>1, <1>2, EmptySeq DEF BufferTypes
<1>7. /\ SubSeq(input, 1, taken) \in Seq(Token) /\ Len(SubSeq(input, 1, taken)) = taken
      /\ \A i \in 1 .. taken : SubSeq(input, 1, taken)[i] = input[i]
  BY <1>5, <1>6, SomeTaken
<1>8. BodyOf(t.m) = <<[m |-> t.m, k |-> 7], [m |-> t.m, k |-> 8]>>
  BY <1>2, <1>4, BodyFacts
<1>9. ASSUME DispatchPayload(httpBody'), httpBody' = BodyOf(t.m), taken \in {1, 2}, t.k + taken - 1 = Size(kind)
      PROVE  WholeInv'
  <2>1. /\ state' \notin Reading
        /\ \E options \in Nat \union {None} :
              delivered' = Append(delivered, [m |-> activeHeaders, body |-> httpBody', options |-> options])
    BY <1>0, <1>5, <1>9, DispatchTypes
  <2>2. chunkedBody' = <<>>
    BY <1>3, <1>4 DEF AtContent
  <2> QED BY <1>0, <1>1, <1>2, <1>3, <1>4, <1>5, <1>9, <2>1, <2>2, EndsHere
<1>10. CASE t.k = 8
  <2>1. httpBody = <<[m |-> t.m, k |-> 7]>> /\ Len(httpBody) = 1
    BY <1>4, <1>10 DEF AtContent
  <2>2. taken = 1 /\ DispatchPayload(httpBody')
    BY <1>5, <1>6, <2>1
  <2>3. Len(httpBody') = 2 /\ httpBody'[1] = [m |-> t.m, k |-> 7] /\ httpBody'[2] = t
    <3> DEFINE more == SubSeq(input, 1, taken)
    <3>1. more \in Seq(Token) /\ Len(more) = 1 /\ more[1] = t /\ httpBody' = httpBody \o more
      BY <1>5, <1>6, <1>7, <2>2
    <3> HIDE DEF more
    <3>0. /\ Len(httpBody \o more) = Len(httpBody) + Len(more)
          /\ \A i \in 1 .. Len(httpBody) : (httpBody \o more)[i] = httpBody[i]
          /\ \A i \in 1 .. Len(more) : (httpBody \o more)[Len(httpBody) + i] = more[i]
      BY <1>6, <3>1, Joined
    <3>2. /\ Len(httpBody') = 2 /\ \A i \in 1 .. 1 : httpBody'[i] = httpBody[i]
          /\ \A i \in 1 .. 1 : httpBody'[1 + i] = more[i]
      BY <2>1, <3>0, <3>1
    <3> QED BY <2>1, <3>1, <3>2
  <2>4. httpBody' = <<httpBody'[1], httpBody'[2]>>
    BY <1>5, <2>3, TwoTokens
  <2>5. t = [m |-> t.m, k |-> 8]
    BY <1>10 DEF Token
  <2>6. httpBody' = BodyOf(t.m)
    BY <1>8, <2>3, <2>4, <2>5
  <2> QED BY <1>4, <1>9, <1>10, <2>2, <2>6
<1>11. CASE t.k = 7
  <2>1. httpBody = <<>> /\ Len(httpBody) = 0
    BY <1>4, <1>11 DEF AtContent
  <2>2. t = [m |-> t.m, k |-> 7]
    BY <1>11 DEF Token
  <2> DEFINE more == SubSeq(input, 1, taken)
  <2>3. more \in Seq(Token) /\ Len(more) = taken /\ httpBody' = httpBody \o more
        /\ \A i \in 1 .. taken : more[i] = input[i]
    BY <1>5, <1>7
  <2> HIDE DEF more
  <2>4. /\ Len(httpBody') = taken /\ \A i \in 1 .. taken : httpBody'[i] = input[i]
    <3>1. /\ Len(httpBody \o more) = Len(httpBody) + Len(more)
          /\ \A i \in 1 .. Len(more) : (httpBody \o more)[Len(httpBody) + i] = more[i]
      BY <1>6, <2>3, Joined
    <3>2. /\ Len(httpBody') = taken /\ \A i \in 1 .. taken : httpBody'[i] = more[i]
      BY <1>5, <2>1, <2>3, <3>1
    <3> QED BY <2>3, <3>2
  <2>5. CASE taken = 2 /\ DispatchPayload(httpBody')
    <3>1. input[2] = [m |-> t.m, k |-> 8]
      <4>1. 2 <= Len(input) /\ t.k < Size(messages[t.m].kind) /\ messages[t.m].kind \in AllKinds
        BY <1>2, <1>4, <1>5, <1>11, <2>5
      <4>2. input[2] = [m |-> t.m, k |-> t.k + 1]
        BY <1>1, <1>2, <4>1, SecondOfRead
      <4> QED BY <1>11, <4>2
    <3>2. httpBody'[1] = [m |-> t.m, k |-> 7] /\ httpBody'[2] = [m |-> t.m, k |-> 8] /\ Len(httpBody') = 2
      BY <1>2, <2>2, <2>4, <2>5, <3>1
    <3>3. httpBody' = <<httpBody'[1], httpBody'[2]>>
      BY <1>5, <3>2, TwoTokens
    <3>4. httpBody' = BodyOf(t.m)
      BY <1>8, <3>2, <3>3
    <3> QED BY <1>4, <1>9, <1>11, <2>5, <3>4
  <2>6. CASE taken = Len(input) /\ taken < 2 /\ NoDispatch /\ state' = state
    <3>1. taken = 1
      BY <1>6, <2>6
    <3>2. httpBody' = <<[m |-> t.m, k |-> 7]>>
      <4>1. httpBody' = <<httpBody'[1]>>
        BY <1>5, <2>4, <3>1, OneToken
      <4>2. httpBody'[1] = t
        BY <1>2, <2>4, <3>1
      <4> QED BY <2>2, <4>1, <4>2
    <3> DEFINE next == [m |-> t.m, k |-> t.k + 1]
    <3>3. next \in Token /\ next = [m |-> t.m, k |-> t.k + 1] /\ next.m = t.m /\ next.k = 8
      BY <1>11 DEF Token
    <3> HIDE DEF next
    <3>4. Fitting(next)'
      BY <1>2, <1>3, <1>4, <2>6, <3>2, <3>3 DEF Fitting, AtContent
    <3>5. delivered' = delivered /\ 1 \in {1, 2} /\ 1 <= Len(input) /\ Take(1) /\ t.k + 1 - 1 < Size(kind)
      BY <1>4, <1>5, <1>6, <1>11, <2>6, <3>1 DEF NoDispatch
    <3> QED BY <1>0, <1>1, <1>2, <1>3, <3>3, <3>4, <3>5, GoesOn
  <2> QED BY <1>5, <2>1, <2>5, <2>6
<1> QED BY <1>4, <1>10, <1>11 DEF AtContent

LEMMA ChunkDataWhole == Types /\ WholeInv /\ ChunkData => WholeInv'
<1> SUFFICES ASSUME Types, WholeInv, Clean', ChunkData PROVE WholeInv'
  BY DEF WholeInv
<1>0. ParserTypes /\ BufferTypes /\ HistoryTypes
  BY DEF Types
<1>1. Clean /\ ("misread" \in situations' => "misread" \in situations) /\ input # <<>>
  BY DEF Clean, ChunkData, Parsing
<1>2. PICK t \in Token, kind \in AllKinds :
         /\ t = Unread[1] /\ t = input[1] /\ t.m \in 1 .. Len(messages) /\ messages[t.m].kind = kind
         /\ t.k \in 1 .. Size(kind) /\ Fitting(t)
         /\ Is(t).what = What(kind, t.k) /\ (Is(t).eol <=> Eol(t.k) /\ What(kind, t.k) # "data")
  BY <1>1, HeadOfRead
<1>3. /\ state = "ReadingChunks" /\ chunkSize \notin {None, 0} /\ state' = state
      /\ UNCHANGED <<activeHeaders, prepended, stream, open, messages, delivered>>
  BY DEF ChunkData, ReadUnchanged, NoDispatch, peerVars, connectionVars
<1>4. AtChunk(t) /\ t.m = activeHeaders /\ kind = "chunked" /\ Size(kind) = 16 /\ t.m \in Nat
  BY <1>2, <1>3 DEF Fitting, AtStart, AtHeader, AtContent, AtChunk, Reading, Size, Token
<1>5. /\ httpBody = <<>> /\ chunkSize \in {1, 2}
      /\ \/ t.k = 9 /\ chunkSize = 2 /\ chunkedBody = <<>>
         \/ t.k = 10 /\ chunkSize = 1 /\ chunkedBody = <<[m |-> t.m, k |-> 9]>>
  BY <1>3, <1>4 DEF AtChunk
<1>6. /\ input \in Seq(Token) /\ Len(input) \in Nat \ {0} /\ input[1] = t /\ chunkedBody \in Seq(Token)
      /\ <<>> \in Seq(Token) /\ Len(<<>>) = 0
  BY <1>0, <1>1, <1>2, EmptySeq DEF BufferTypes
<1>7. BodyOf(t.m) = <<[m |-> t.m, k |-> 9], [m |-> t.m, k |-> 10]>> /\ BodyOf(t.m)' = BodyOf(t.m)
  <2>1. BodyOf(t.m) = <<[m |-> t.m, k |-> 9], [m |-> t.m, k |-> 10]>>
    BY <1>2, <1>4, BodyFacts
  <2>2. BodyOf(t.m)' = BodyOf(t.m)
    BY <1>3 DEF BodyOf
  <2> QED BY <2>1, <2>2
<1>8. CASE Len(input) < chunkSize
  <2>1. /\ chunkSize = 2 /\ t.k = 9 /\ Len(input) = 1 /\ chunkedBody = <<>>
        /\ chunkedBody' = <<>> \o input /\ chunkSize' = 1 /\ Take(1) /\ httpBody' = <<>>
    <3>1. chunkSize = 2 /\ t.k = 9 /\ Len(input) = 1 /\ chunkedBody = <<>>
      <4>1. Len(input) >= 1 /\ Len(input) < chunkSize /\ Len(input) \in Nat
        BY <1>6, <1>8
      <4>2. chunkSize = 2 /\ Len(input) = 1
        <5>1. CASE chunkSize = 1
          <6>1. Len(input) < 1
            BY <4>1, <5>1
          <6> QED BY <4>1, <6>1
        <5>2. CASE chunkSize = 2
          <6>1. Len(input) < 2
            BY <4>1, <5>2
          <6>2. \A n \in Nat : n >= 1 /\ n < 2 => n = 1
            OBVIOUS
          <6>3. Len(input) = 1
            BY <4>1, <6>1, <6>2
          <6> QED BY <5>2, <6>3
        <5> QED BY <1>5, <5>1, <5>2
      <4> QED BY <1>5, <4>2
    <3>2. /\ chunkedBody' = chunkedBody \o input /\ chunkSize' = chunkSize - Len(input)
          /\ Take(Len(input)) /\ httpBody' = httpBody
      BY <1>8, <1>6, <3>1 DEF ChunkData
    <3> QED BY <1>5, <3>1, <3>2
  <2>2. chunkedBody' = <<[m |-> t.m, k |-> 9]>>
    <3>1. input = <<t>>
      BY <1>6, <2>1, OneToken
    <3>2. <<>> \o input = input
      BY <1>6, ConcatEmptySeq
    <3>3. t = [m |-> t.m, k |-> 9]
      BY <2>1 DEF Token
    <3> QED BY <2>1, <3>1, <3>2, <3>3
  <2> DEFINE next == [m |-> t.m, k |-> t.k + 1]
  <2>3. next \in Token /\ next = [m |-> t.m, k |-> t.k + 1] /\ next.m = t.m /\ next.k = 10
    BY <2>1 DEF Token
  <2> HIDE DEF next
  <2>4. AtChunk(next)'
    BY <1>2, <1>3, <1>4, <2>1, <2>2, <2>3 DEF AtChunk
  <2>5. Fitting(next)'
    BY <2>4 DEF Fitting
  <2>6. 1 \in {1, 2} /\ 1 <= Len(input) /\ t.k + 1 - 1 < Size(kind)
    BY <1>4, <2>1
  <2> QED BY <1>0, <1>1, <1>2, <1>3, <2>1, <2>3, <2>5, <2>6, GoesOn
<1>9. CASE Len(input) >= chunkSize
  <2>1. /\ httpBody' = (<<>> \o chunkedBody) \o SubSeq(input, 1, chunkSize)
        /\ chunkedBody' = <<>> /\ chunkSize' = None /\ Take(chunkSize)
    BY <1>5, <1>6, <1>9 DEF ChunkData
  <2>2. <<>> \o chunkedBody = chunkedBody
    BY <1>6, ConcatEmptySeq
  <2> DEFINE more == SubSeq(input, 1, chunkSize)
  <2>3. /\ more \in Seq(Token) /\ Len(more) = chunkSize /\ \A i \in 1 .. chunkSize : more[i] = input[i]
    <3>1. chunkSize \in Nat /\ chunkSize <= Len(input)
      BY <1>5, <1>9
    <3> QED BY <1>6, <3>1, SomeTaken
  <2>4. httpBody' = chunkedBody \o more
    BY <2>1, <2>2
  <2> HIDE DEF more
  <2>5. /\ httpBody' \in Seq(Token) /\ Len(httpBody') = Len(chunkedBody) + chunkSize
        /\ \A i \in 1 .. Len(chunkedBody) : httpBody'[i] = chunkedBody[i]
        /\ \A i \in 1 .. chunkSize : httpBody'[Len(chunkedBody) + i] = more[i]
    <3>1. /\ chunkedBody \o more \in Seq(Token)
          /\ Len(chunkedBody \o more) = Len(chunkedBody) + Len(more)
          /\ \A i \in 1 .. Len(chunkedBody) : (chunkedBody \o more)[i] = chunkedBody[i]
          /\ \A i \in 1 .. Len(more) : (chunkedBody \o more)[Len(chunkedBody) + i] = more[i]
      BY <1>6, <2>3, Joined
    <3> QED BY <2>3, <2>4, <3>1
  <2>6. Len(httpBody') = 2 /\ httpBody'[1] = [m |-> t.m, k |-> 9] /\ httpBody'[2] = [m |-> t.m, k |-> 10]
    <3>1. CASE t.k = 9
      <4>1. chunkSize = 2 /\ chunkedBody = <<>> /\ Len(chunkedBody) = 0
        BY <1>5, <1>6, <3>1
      <4>2. input[2] = [m |-> t.m, k |-> 10]
        <5>1. 2 <= Len(input) /\ t.k < Size(messages[t.m].kind) /\ messages[t.m].kind \in AllKinds
          BY <1>2, <1>4, <1>9, <3>1, <4>1
        <5>2. input[2] = [m |-> t.m, k |-> t.k + 1]
          BY <1>1, <1>6, <5>1, SecondOfRead
        <5> QED BY <3>1, <5>2
      <4>3. t = [m |-> t.m, k |-> 9]
        BY <3>1 DEF Token
      <4>4. httpBody'[0 + 1] = more[1] /\ httpBody'[0 + 2] = more[2] /\ Len(httpBody') = 0 + 2
        BY <2>5, <4>1
      <4>5. more[1] = t /\ more[2] = input[2]
        BY <1>6, <2>3, <4>1
      <4> QED BY <4>2, <4>3, <4>4, <4>5
    <3>2. CASE t.k = 10
      <4>1. chunkSize = 1 /\ Len(chunkedBody) = 1 /\ chunkedBody[1] = [m |-> t.m, k |-> 9]
        BY <1>5, <3>2
      <4>2. t = [m |-> t.m, k |-> 10]
        BY <3>2 DEF Token
      <4>3. httpBody'[1] = chunkedBody[1] /\ httpBody'[1 + 1] = more[1] /\ Len(httpBody') = 1 + 1
        BY <2>5, <4>1
      <4>4. more[1] = t
        BY <1>6, <2>3, <4>1
      <4> QED BY <4>1, <4>2, <4>3, <4>4
    <3> QED BY <1>5, <3>1, <3>2
  <2>7. httpBody' = BodyOf(t.m)'
    <3>1. httpBody' = <<httpBody'[1], httpBody'[2]>>
      BY <2>5, <2>6, TwoTokens
    <3> QED BY <1>7, <2>6, <3>1
  <2>8. PICK n \in {1, 2} : n = chunkSize
    BY <1>5
  <2> DEFINE next == [m |-> t.m, k |-> 11]
  <2>9. next \in Token /\ next = [m |-> t.m, k |-> t.k + n] /\ next.m = t.m /\ next.k = 11
    BY <1>5, <2>8 DEF Token
  <2> HIDE DEF next
  <2>10. AtChunk(next)'
    BY <1>2, <1>3, <1>4, <2>1, <2>7, <2>9 DEF AtChunk
  <2>11. Fitting(next)'
    BY <2>10 DEF Fitting
  <2>12. n <= Len(input) /\ t.k + n - 1 < Size(kind) /\ Take(n)
    <3>1. n <= Len(input) /\ Take(n)
      BY <1>9, <2>1, <2>8
    <3> QED BY <1>4, <1>5, <1>6, <2>8, <3>1
  <2> QED BY <1>0, <1>1, <1>2, <1>3, <2>9, <2>11, <2>12, GoesOn
<1> QED BY <1>5, <1>6, <1>8, <1>9

(* The tokens that have not been consumed are the same, and so is what the  *)
(* parser expects.                                                          *)
LEMMA SameUnread ==
    ASSUME BufferTypes, HistoryTypes, WholeInv, Unread' = Unread, open' => open,
           UNCHANGED <<state, activeHeaders, chunkSize, chunkedBody, httpBody, messages, delivered>>,
           Live' => Live, situations \subseteq situations',
           "misread" \in situations' => "misread" \in situations
    PROVE  WholeInv'
<1> SUFFICES ASSUME Clean' PROVE WholeInv'
  BY DEF WholeInv
<1>1. Clean
  BY DEF Clean
<1>2. /\ Orderly(Unread, messages) /\ UnreadWhole /\ DeliveredWhole /\ HeadFits
      /\ "misread" \notin situations
  BY <1>1 DEF WholeInv
<1>3. Orderly(Unread', messages')
  BY <1>2
<1>4. UnreadWhole'
  BY <1>2 DEF UnreadWhole, Ends
<1>5. DeliveredWhole'
  <2>1. Len(messages') \in Nat /\ Len(messages) <= Len(messages')
        /\ \A m \in 1 .. Len(messages) : messages'[m] = messages[m]
    BY DEF HistoryTypes
  <2>2. Unread' \in Seq(Token) /\ \A i \in 1 .. Len(Unread') : \E j \in 1 .. Len(Unread) : Unread'[i] = Unread[j]
    BY UnreadFacts
  <2> QED BY <1>2, <2>1, <2>2, DeliveredKeeps
<1>6. HeadFits'
  <2> SUFFICES ASSUME Live'
               PROVE  /\ Unread' = <<>> => state' \notin Reading /\ chunkedBody' = <<>>
                      /\ \A t \in Token : Unread' # <<>> /\ t = Unread'[1] => Fitting(t)'
    BY DEF HeadFits
  <2>1. /\ Unread = <<>> => state \notin Reading /\ chunkedBody = <<>>
        /\ \A t \in Token : Unread # <<>> /\ t = Unread[1] => Fitting(t)
    BY <1>2 DEF HeadFits
  <2>2. ASSUME NEW t \in Token PROVE Fitting(t) => Fitting(t)'
    <3>1. BodyOf(t.m)' = BodyOf(t.m)
      BY DEF BodyOf
    <3> QED BY <3>1 DEF Fitting, AtStart, AtHeader, AtContent, AtChunk
  <2> QED BY <2>1, <2>2
<1>7. "misread" \notin situations'
  BY <1>1, <1>2
<1> QED BY <1>3, <1>4, <1>5, <1>6, <1>7 DEF WholeInv

LEMMA ReadKeeps == Types /\ Read => Unread' = Unread
<1> SUFFICES ASSUME Types, Read PROVE Unread' = Unread
  OBVIOUS
<1>0. BufferTypes /\ HistoryTypes
  BY DEF Types
<1>1. /\ input = <<>> /\ open /\ prepended' = <<>>
      /\ UNCHANGED <<state, activeHeaders, chunkSize, chunkedBody, httpBody, messages, delivered,
                     open, calling, situations>>
  BY DEF Read, parserVars, peerVars, connectionVars
<1>2. PICK n \in 1 .. Len(stream) :
         /\ input' \in Seq(Token) /\ Len(input') = Len(prepended) + n
         /\ \A i \in 1 .. Len(input') :
               input'[i] = IF i <= Len(prepended) THEN prepended[i] ELSE stream[i - Len(prepended)]
         /\ stream' \in Seq(Token) /\ Len(stream') = Len(stream) - n
         /\ \A i \in 1 .. Len(stream') : stream'[i] = stream[n + i]
  BY <1>0, ReadSome
<1>3. prepended \in Seq(Token) /\ stream \in Seq(Token) /\ Len(prepended) \in Nat /\ Len(stream) \in Nat
  BY <1>0 DEF BufferTypes
<1>4. input' # <<>>
  BY <1>2, <1>3, EmptySeq
<1>5. Unread = prepended \o stream /\ Unread' = input' \o stream'
  BY <1>1, <1>4 DEF Unread, Held
<1>6. /\ prepended \o stream \in Seq(Token) /\ Len(prepended \o stream) = Len(prepended) + Len(stream)
      /\ \A i \in 1 .. Len(prepended) : (prepended \o stream)[i] = prepended[i]
      /\ \A i \in 1 .. Len(stream) : (prepended \o stream)[Len(prepended) + i] = stream[i]
  BY <1>3, Joined
<1>7. /\ input' \o stream' \in Seq(Token) /\ Len(input' \o stream') = Len(input') + Len(stream')
      /\ Len(input') \in Nat /\ Len(stream') \in Nat
      /\ \A i \in 1 .. Len(input') : (input' \o stream')[i] = input'[i]
      /\ \A i \in 1 .. Len(stream') : (input' \o stream')[Len(input') + i] = stream'[i]
  BY <1>2, Joined
<1> DEFINE a == prepended \o stream
<1>8. ASSUME NEW i \in 1 .. Len(prepended) + Len(stream)
      PROVE  (input' \o stream')[i] = a[i]
  <2>1. CASE i \in 1 .. Len(prepended)
    <3>1. i \in 1 .. Len(input') /\ i <= Len(prepended)
      BY <1>2, <1>3, <2>1
    <3> QED BY <1>2, <1>6, <1>7, <2>1, <3>1
  <2>2. CASE i > Len(prepended)
    <3>1. PICK j \in 1 .. Len(stream) : i = Len(prepended) + j
      <4>1. i - Len(prepended) \in 1 .. Len(stream) /\ i = Len(prepended) + (i - Len(prepended))
        BY <1>3, <2>2
      <4> QED BY <4>1
    <3>2. a[i] = stream[j]
      BY <1>6, <3>1
    <3>3. CASE j <= n
      <4>1. i \in 1 .. Len(input') /\ ~(i <= Len(prepended)) /\ i - Len(prepended) = j
        BY <1>2, <1>3, <3>1, <3>3
      <4> QED BY <1>2, <1>7, <3>2, <4>1
    <3>4. CASE j > n
      <4>1. j - n \in 1 .. Len(stream') /\ i = Len(input') + (j - n) /\ n + (j - n) = j
        BY <1>2, <1>3, <3>1, <3>4
      <4> QED BY <1>2, <1>7, <3>2, <4>1
    <3> QED BY <1>2, <1>3, <3>3, <3>4
  <2>3. i \in 1 .. Len(prepended) \/ i > Len(prepended)
    BY <1>3
  <2> QED BY <2>1, <2>2, <2>3
<1> HIDE DEF a
<1>9. Len(input' \o stream') = Len(prepended) + Len(stream)
  BY <1>2, <1>3, <1>7
<1>10. input' \o stream' = prepended \o stream
  BY <1>6, <1>7, <1>8, <1>9, SeqEqual DEF a
<1> QED BY <1>5, <1>10

LEMMA ReadWhole == Types /\ WholeInv /\ Read => WholeInv'
<1> SUFFICES ASSUME Types, WholeInv, Read PROVE WholeInv'
  OBVIOUS
<1>0. BufferTypes /\ HistoryTypes /\ Unread' = Unread
  BY ReadKeeps DEF Types
<1>1. /\ open
      /\ UNCHANGED <<state, activeHeaders, chunkSize, chunkedBody, httpBody, messages, delivered,
                     open, calling, situations>>
  BY DEF Read, parserVars, peerVars, connectionVars
<1> QED BY <1>0, <1>1, SameUnread DEF Live

LEMMA PrependRestWhole == Types /\ WholeInv /\ PrependRest => WholeInv'
<1> SUFFICES ASSUME Types, WholeInv, PrependRest PROVE WholeInv'
  OBVIOUS
<1>0. BufferTypes /\ HistoryTypes
  BY DEF Types
<1>1. /\ input # <<>> /\ input' = <<>> /\ prepended' = input
      /\ UNCHANGED <<state, activeHeaders, chunkSize, chunkedBody, httpBody, messages, delivered,
                     stream, open, calling, situations>>
  BY DEF PrependRest, Parsing, parserVars, peerVars, connectionVars, NoDispatch
<1>2. Unread' = Unread
  BY <1>1 DEF Unread, Held
<1> QED BY <1>0, <1>1, <1>2, SameUnread DEF Live

(* A line that is whole is taken for what it is. *)
LEMMA LineAtHand ==
    ASSUME Types, WholeInv, Clean, NEW t \in Token, NEW kind \in AllKinds, t = input[1],
           messages[t.m].kind = kind, t.k \in {1, 3, 5, 7, 11, 13, 15}, t.k < Size(kind),
           Is(t).eol <=> Eol(t.k) /\ What(kind, t.k) # "data",
           HasLine, NEW sorts, Is(t).what \in sorts
    PROVE  NextLine(sorts)
<1>1. ~Is(t).eol
  BY DEF Eol
<1>2. input \in Seq(Token) /\ DOMAIN input = 1 .. Len(input) /\ Len(input) \in Nat
  BY DEF Types, BufferTypes
<1>3. Len(input) > 1
  <2>1. PICK n \in 1 .. Len(input) : Is(input[n]).eol
    BY <1>2 DEF HasLine
  <2>2. n # 1
    BY <1>1, <2>1
  <2> QED BY <1>2, <2>1, <2>2
<1>4. input[2] = [m |-> t.m, k |-> t.k + 1]
  BY <1>2, <1>3, SecondOfRead
<1>5. [input[1] EXCEPT !.k = @ + 1] = [m |-> t.m, k |-> t.k + 1]
  BY DEF Token
<1> QED BY <1>1, <1>3, <1>4, <1>5 DEF NextLine

LEMMA MisreadNever ==
    ASSUME Types, WholeInv, Clean, Misread
    PROVE  FALSE
<1>1. input # <<>> /\ WantsLine /\ HasLine /\ ~Fits
  BY DEF Misread, Parsing
<1>2. PICK t \in Token, kind \in AllKinds :
         /\ t = Unread[1] /\ t = input[1] /\ t.m \in 1 .. Len(messages) /\ messages[t.m].kind = kind
         /\ t.k \in 1 .. Size(kind) /\ Fitting(t)
         /\ Is(t).what = What(kind, t.k) /\ (Is(t).eol <=> Eol(t.k) /\ What(kind, t.k) # "data")
  BY <1>1, HeadOfRead
<1>3. CASE AtStart(t)
  <2>1. t.k = 1 /\ t.k < Size(kind) /\ state \in {"AwaitingClientRequest", "AwaitingResponse"}
    BY <1>1, <1>2, <1>3 DEF AtStart, Size, AllKinds, WantsLine, AwaitingStart, Reading
  <2>2. Is(t).what \in {"start", "bad"} /\ (kind # "bad" => Is(t).what \in {"start"})
    BY <1>2, <2>1 DEF What
  <2>3. state = "AwaitingResponse" => kind # "bad"
    <3>1. ParserTypes /\ HistoryTypes
      BY DEF Types
    <3>2. state = "AwaitingResponse" => ~serverSide
      BY <3>1 DEF ParserTypes, Reading
    <3> QED BY <1>2, <3>1, <3>2 DEF HistoryTypes
  <2>4. NextLine({"start", "bad"}) /\ (kind # "bad" => NextLine({"start"}))
    BY <1>1, <1>2, <2>1, <2>2, LineAtHand
  <2> QED BY <1>1, <2>1, <2>3, <2>4 DEF Fits
<1>4. CASE AtHeader(t)
  <2>1. /\ state = "ReadingHeaders" /\ t.m = activeHeaders /\ t.k \in {3, 5} /\ t.k < Size(kind)
        /\ What(kind, t.k) \in {"Content-Length-0", "Content-Length-2", "Transfer-Encoding", "end"}
    BY <1>2, <1>4 DEF AtHeader, Size, AllKinds, What
  <2>2. NextLine({"Content-Length-0", "Content-Length-2", "Transfer-Encoding", "end"})
    BY <1>1, <1>2, <2>1, LineAtHand
  <2> QED BY <1>1, <1>2, <2>1, <2>2 DEF Fits
<1>5. CASE AtContent(t)
  BY <1>1, <1>5 DEF AtContent, WantsLine, AwaitingStart
<1>6. CASE AtChunk(t)
  <2>1. state = "ReadingChunks" /\ t.m = activeHeaders /\ kind = "chunked" /\ chunkSize \in {None, 0}
    BY <1>1, <1>2, <1>6 DEF AtChunk, WantsLine, AwaitingStart
  <2>2. t.k \in {7, 11, 13, 15} /\ t.k < Size(kind) /\ (chunkSize = 0 => t.k = 15) /\ (chunkSize # 0 => t.k # 15)
    BY <1>6, <2>1, HttpAssumption DEF AtChunk, Size
  <2>3. What(kind, t.k) \in IF chunkSize = 0 THEN {"end"} ELSE {"size", "crlf", "last"}
    BY <2>1, <2>2 DEF What
  <2>4. NextLine(IF chunkSize = 0 THEN {"end"} ELSE {"size", "crlf", "last"})
    BY <1>1, <1>2, <2>2, <2>3, LineAtHand
  <2> QED BY <1>1, <1>2, <2>1, <2>4 DEF Fits
<1> QED BY <1>2, <1>3, <1>4, <1>5, <1>6 DEF Fitting

LEMMA MisreadWhole == Types /\ WholeInv /\ Misread => WholeInv'
<1> SUFFICES ASSUME Types, WholeInv, Misread, Clean' PROVE FALSE
  BY DEF WholeInv
<1>1. Clean
  BY DEF Clean, Misread
<1> QED BY <1>1, MisreadNever

LEMMA ReturnWhole == Types /\ WholeInv /\ (HandlerReturns \/ FailWrite) => WholeInv'
<1> SUFFICES ASSUME Types, WholeInv, HandlerReturns \/ FailWrite PROVE WholeInv'
  OBVIOUS
<1>0. BufferTypes /\ HistoryTypes
  BY DEF Types
<1>1. UNCHANGED <<state, activeHeaders, chunkSize, chunkedBody, httpBody, messages, delivered,
                  prepended, input, stream, open, situations>>
  BY DEF HandlerReturns, FailWrite, readVars, parserVars, peerVars, connectionVars
<1>2. Unread' = Unread
  BY <1>1 DEF Unread, Held
<1> QED BY <1>0, <1>1, <1>2, SameUnread DEF Live

LEMMA IgnoreUnsolicitedWhole == Types /\ WholeInv /\ IgnoreUnsolicited => WholeInv'
<1> SUFFICES ASSUME Types, WholeInv, Clean', IgnoreUnsolicited PROVE WholeInv'
  BY DEF WholeInv
<1>0. ParserTypes /\ BufferTypes /\ HistoryTypes
  BY DEF Types
<1>1. Clean /\ ("misread" \in situations' => "misread" \in situations) /\ input # <<>>
  BY DEF Clean, IgnoreUnsolicited, Parsing
<1>2. PICK t \in Token, kind \in AllKinds :
         /\ t = Unread[1] /\ t = input[1] /\ t.m \in 1 .. Len(messages) /\ messages[t.m].kind = kind
         /\ t.k \in 1 .. Size(kind) /\ Fitting(t)
         /\ Is(t).what = What(kind, t.k) /\ (Is(t).eol <=> Eol(t.k) /\ What(kind, t.k) # "data")
  BY <1>1, HeadOfRead
<1>3. /\ state = "AwaitingUserRequest" /\ input' = <<>>
      /\ UNCHANGED <<state, chunkedBody, prepended, stream, open, messages, delivered>>
      /\ stream # <<>> => ~(Head(stream).k > 1)
  BY DEF IgnoreUnsolicited, ReadUnchanged, NoDispatch, peerVars, connectionVars, parserVars, Clean
<1>4. /\ Orderly(Unread, messages) /\ UnreadWhole /\ DeliveredWhole
      /\ "misread" \notin situations
  BY <1>1 DEF WholeInv
<1>5. /\ prepended = <<>> /\ stream \in Seq(Token) /\ input \in Seq(Token) /\ Len(input) \in Nat
  BY <1>0, <1>1 DEF BufferTypes
<1>6. Held = input /\ Held' = <<>> /\ <<>> \o stream = stream
  BY <1>1, <1>3, <1>5, ConcatEmptySeq DEF Held
<1>7. Unread' = stream /\ Unread = input \o stream
  BY <1>3, <1>6 DEF Unread
<1>8. /\ input \o stream \in Seq(Token) /\ Len(input \o stream) = Len(input) + Len(stream) /\ Len(stream) \in Nat
      /\ \A i \in 1 .. Len(stream) : (input \o stream)[Len(input) + i] = stream[i]
  BY <1>5, Joined
<1>9. /\ Unread \in Seq(Token) /\ Len(Unread) = Len(input) + Len(stream)
      /\ \A i \in 1 .. Len(stream) : Len(input) + i \in 1 .. Len(Unread) /\ Unread[i + Len(input)] = stream[i]
  BY <1>5, <1>7, <1>8
<1>10. Orderly(Unread', messages')
  <2>1. Len(input) \in 0 .. Len(Unread) /\ Len(stream) = Len(Unread) - Len(input)
    BY <1>5, <1>8, <1>9
  <2>2. Orderly(stream, messages)
    BY <1>4, <1>5, <1>9, <2>1, OrderlySuffix
  <2> QED BY <1>3, <1>7, <2>2
<1>11. UnreadWhole'
  <2> SUFFICES ASSUME open, stream # <<>> PROVE Ends(stream[Len(stream)], messages)
    BY <1>3, <1>7 DEF UnreadWhole, Ends
  <2>1. Len(stream) >= 1
    BY <1>5, EmptySeq
  <2>2. Unread # <<>> /\ Unread[Len(Unread)] = stream[Len(stream)]
    BY <1>5, <1>8, <1>9, <2>1, EmptySeq
  <2> QED BY <1>4, <2>2 DEF UnreadWhole
<1>12. DeliveredWhole'
  <2>1. Len(messages') \in Nat /\ Len(messages) <= Len(messages')
        /\ \A m \in 1 .. Len(messages) : messages'[m] = messages[m]
    BY <1>0, <1>3 DEF HistoryTypes
  <2>2. ASSUME NEW i \in 1 .. Len(Unread')
        PROVE  \E j \in 1 .. Len(Unread) : Unread'[i] = Unread[j]
    <3>1. i \in 1 .. Len(stream) /\ Unread'[i] = stream[i]
      BY <1>7
    <3>2. Len(input) + i \in 1 .. Len(Unread) /\ Unread[i + Len(input)] = stream[i]
      BY <1>9, <3>1
    <3>3. i + Len(input) = Len(input) + i
      BY <1>5, <3>1
    <3> QED BY <3>1, <3>2, <3>3
  <2> QED BY <1>0, <1>3, <1>4, <1>5, <1>7, <2>1, <2>2, DeliveredKeeps
<1>13. HeadFits'
  <2>1. chunkedBody' = <<>> /\ state' \notin Reading
    BY <1>2, <1>3 DEF Fitting, AtStart, AtHeader, AtContent, AtChunk, Reading
  <2>2. ASSUME stream # <<>> PROVE stream[1].k = 1
    <3>1. 1 \in 1 .. Len(stream) /\ stream[1] \in Token /\ Head(stream) = stream[1]
      <4>1. 1 \in 1 .. Len(stream)
        BY <1>5, <2>2, EmptySeq
      <4> QED BY <1>5, <4>1, ElementOfSeq
    <3>2. stream[1].k \in 1 .. Size(messages[stream[1].m].kind)
      BY <1>3, <1>7, <1>10, <3>1 DEF Orderly
    <3> QED BY <1>3, <2>2, <3>1, <3>2 DEF Token
  <2> QED BY <1>7, <2>1, <2>2 DEF HeadFits, Fitting, AtStart
<1> QED BY <1>1, <1>3, <1>4, <1>10, <1>11, <1>12, <1>13 DEF WholeInv

(* The parser is reset, and the connection may be gone: what has been read  *)
(* of it is still there, and is at the start of a message.                  *)
LEMMA ResetWhole ==
    ASSUME Types, WholeInv, NEW pending, ResetIncomingHttpState(pending),
           \/ open' = FALSE /\ stream' = <<>>
           \/ UNCHANGED <<open, stream>> /\ (open => state \notin Reading),
           UNCHANGED <<prepended, input, messages, delivered>>, situations \subseteq situations',
           "misread" \in situations' => "misread" \in situations,
           input # <<>> => calling
    PROVE  WholeInv'
<1> SUFFICES ASSUME Clean' PROVE WholeInv'
  BY DEF WholeInv
<1>0. ParserTypes /\ BufferTypes /\ HistoryTypes
  BY DEF Types
<1>1. Clean
  BY DEF Clean
<1>2. /\ Orderly(Unread, messages) /\ UnreadWhole /\ DeliveredWhole /\ HeadFits
      /\ "misread" \notin situations
  BY <1>1 DEF WholeInv
<1>3. state' \notin Reading /\ chunkedBody' = chunkedBody
  BY DEF ResetIncomingHttpState, Reading
<1>4. Held \in Seq(Token) /\ stream \in Seq(Token) /\ Held' = Held /\ Held \o <<>> = Held
  <2>1. Held \in Seq(Token) /\ stream \in Seq(Token)
    BY <1>0 DEF Held, BufferTypes
  <2> QED BY <2>1, ConcatEmptySeq DEF Held
<1>5. Unread' = Held \/ Unread' = Unread
  BY <1>4 DEF Unread
<1>6. /\ Unread \in Seq(Token) /\ Len(Unread) = Len(Held) + Len(stream)
      /\ Len(Held) \in Nat /\ Len(stream) \in Nat
      /\ \A i \in 1 .. Len(Held) : Unread[i] = Held[i]
  BY <1>4, Joined DEF Unread
<1>6a. /\ Unread' \in Seq(Token) /\ Len(Unread') <= Len(Unread)
       /\ \A i \in 1 .. Len(Unread') : i \in 1 .. Len(Unread) /\ Unread'[i] = Unread[i]
  <2>1. CASE Unread' = Held
    BY <1>4, <1>6, <2>1
  <2>2. CASE Unread' = Unread
    BY <1>6, <2>2
  <2> QED BY <1>5, <2>1, <2>2
<1>7. Orderly(Unread', messages')
  BY <1>2, <1>6, <1>6a, OrderlyPrefix
<1>8. UnreadWhole'
  <2>1. CASE open' = FALSE
    BY <2>1 DEF UnreadWhole
  <2>2. CASE UNCHANGED <<open, stream>>
    BY <1>2, <1>4, <2>2 DEF UnreadWhole, Unread, Ends
  <2> QED BY <2>1, <2>2
<1>9. DeliveredWhole'
  <2>1. Len(messages') \in Nat /\ Len(messages) <= Len(messages')
        /\ \A m \in 1 .. Len(messages) : messages'[m] = messages[m]
    BY <1>0 DEF HistoryTypes
  <2> QED BY <1>0, <1>2, <1>6a, <2>1, DeliveredKeeps
<1>10. CASE input # <<>>
  <2>1. PICK t \in Token :
           t = Unread[1] /\ t = input[1] /\ Fitting(t)
    BY <1>1, <1>10, HeadOfRead
  <2>2. t.k = 1 /\ chunkedBody = <<>>
    BY <1>0, <1>10, <2>1 DEF ParserTypes, Fitting, AtStart, AtHeader, AtContent, AtChunk, Reading
  <2>3. Held = input /\ Held # <<>> /\ Unread # <<>>
    BY <1>4, <1>10, Joined DEF Held, Unread
  <2>4. Unread' # <<>> /\ Unread'[1] = t
    BY <1>5, <2>1, <2>3
  <2> QED BY <1>2, <1>3, <1>7, <1>8, <1>9, <2>2, <2>4 DEF WholeInv, HeadFits, Fitting, AtStart
<1>11. CASE input = <<>> /\ open' = FALSE
  <2>1. HeadFits'
    BY <1>11 DEF HeadFits, Live
  <2> QED BY <1>2, <1>7, <1>8, <1>9, <2>1 DEF WholeInv
<1>12. CASE open /\ state \notin Reading /\ UNCHANGED <<open, stream>>
  <2>1. Unread' = Unread
    BY <1>4, <1>12 DEF Unread
  <2>2. \A t \in Token : Fitting(t) => Fitting(t)'
    BY <1>3, <1>12 DEF Fitting, AtStart, AtHeader, AtContent, AtChunk, Reading
  <2>3. HeadFits'
    BY <1>2, <1>3, <1>12, <2>1, <2>2 DEF HeadFits, Live
  <2> QED BY <1>2, <1>7, <1>8, <1>9, <2>3 DEF WholeInv
<1> QED BY <1>0, <1>10, <1>11, <1>12 DEF ParserTypes

LEMMA InvalidRequestWhole == Types /\ WholeInv /\ InvalidRequest => WholeInv'
<1> SUFFICES ASSUME Types, WholeInv, Clean', InvalidRequest PROVE WholeInv'
  BY DEF WholeInv
<1>0. ParserTypes /\ BufferTypes /\ HistoryTypes
  BY DEF Types
<1>1. Clean /\ ("misread" \in situations' => "misread" \in situations) /\ input # <<>>
  BY DEF Clean, InvalidRequest, Parsing
<1>2. PICK t \in Token, kind \in AllKinds :
         /\ t = Unread[1] /\ t = input[1] /\ t.m \in 1 .. Len(messages) /\ messages[t.m].kind = kind
         /\ t.k \in 1 .. Size(kind) /\ Fitting(t)
         /\ Is(t).what = What(kind, t.k) /\ (Is(t).eol <=> Eol(t.k) /\ What(kind, t.k) # "data")
  BY <1>1, HeadOfRead
<1>3. /\ state = "AwaitingClientRequest" /\ NextLine({"bad"}) /\ Take(2)
      /\ ResetIncomingHttpState(pendingResponseOptions)
      /\ UNCHANGED <<prepended, messages, delivered>>
      /\ (open' = FALSE /\ stream' = <<>>) \/ UNCHANGED <<open, stream>>
  BY ConnectionClosed DEF InvalidRequest, NoDispatch
<1>4. /\ Orderly(Unread, messages) /\ UnreadWhole /\ DeliveredWhole
      /\ "misread" \notin situations
  BY <1>1 DEF WholeInv
<1>5. state' \notin Reading /\ chunkedBody' = chunkedBody
  BY <1>3 DEF ResetIncomingHttpState, Reading
<1>6. What(kind, t.k) = "bad"
  BY <1>2, <1>3 DEF NextLine
<1>7. kind = "bad" /\ t.k = 1 /\ chunkedBody = <<>>
  <2>1. AtStart(t)
    BY <1>2, <1>3 DEF Fitting, AtStart, AtHeader, AtContent, AtChunk, Reading
  <2> QED BY <1>2, <1>6, <2>1 DEF AtStart, What, AllKinds
<1>8. /\ prepended = <<>> /\ input \in Seq(Token) /\ stream \in Seq(Token) /\ Held = input
      /\ <<>> \in Seq(Token) /\ Len(<<>>) = 0
  BY <1>0, <1>1 DEF BufferTypes, Held
<1>9. /\ input' \in Seq(Token) /\ Len(input') = Len(input) - 2 /\ Len(input) >= 2
      /\ \A i \in 1 .. Len(input') : input'[i] = input[i + 2]
  BY <1>3, <1>8, LineTaken
<1>20. CASE open' = FALSE /\ stream' = <<>>
  <2>10. Unread' = input'
    <3>1. Held' = input'
      BY <1>3, <1>8 DEF Held
    <3>2. input' \o <<>> = input'
      BY <1>9, ConcatEmptySeq
    <3> QED BY <1>20, <3>1, <3>2 DEF Unread
  <2>11. /\ Unread \in Seq(Token) /\ Len(Unread) = Len(input) + Len(stream)
         /\ Len(input) \in Nat /\ Len(stream) \in Nat
         /\ \A i \in 1 .. Len(input) : Unread[i] = input[i]
    BY <1>8, Joined DEF Unread
  <2>12. \A i \in 1 .. Len(Unread') : i + 2 \in 1 .. Len(Unread) /\ Unread'[i] = Unread[i + 2]
    BY <1>9, <2>10, <2>11
  <2>13. Orderly(Unread', messages')
    <3> DEFINE some == SubSeq(Unread, 1, Len(input))
    <3>1. /\ some \in Seq(Token) /\ Len(some) = Len(input)
          /\ \A i \in 1 .. Len(input) : some[i] = Unread[i]
      <4>1. \A i \in 1 .. Len(input) : Unread[i] \in Token
        BY <2>11, ElementOfSeq
      <4>2. /\ some \in Seq(Token) /\ Len(some) = IF 1 <= Len(input) THEN Len(input) - 1 + 1 ELSE 0
            /\ \A i \in 1 .. Len(input) - 1 + 1 : some[i] = Unread[1 + i - 1]
        BY <2>11, <4>1, SubSeqProperties
      <4> HIDE DEF some
      <4> QED BY <2>11, <4>2
    <3> HIDE DEF some
    <3>2. Orderly(some, messages)
      <4>1. Len(some) <= Len(Unread) /\ \A i \in 1 .. Len(some) : some[i] = Unread[i]
        BY <2>11, <3>1
      <4> QED BY <1>4, <2>11, <3>1, <4>1, OrderlyPrefix
    <3>3. Orderly(input', messages)
      <4>1. 2 \in 0 .. Len(some) /\ Len(input') = Len(some) - 2
        BY <1>9, <2>11, <3>1
      <4>2. \A i \in 1 .. Len(input') : input'[i] = some[i + 2]
        BY <1>9, <2>11, <3>1
      <4> QED BY <1>9, <3>1, <3>2, <4>1, <4>2, OrderlySuffix
    <3> QED BY <1>3, <2>10, <3>3
  <2>14. UnreadWhole'
    BY <1>20 DEF UnreadWhole
  <2>15. DeliveredWhole'
    <3>1. Len(messages') \in Nat /\ Len(messages) <= Len(messages')
          /\ \A m \in 1 .. Len(messages) : messages'[m] = messages[m]
      BY <1>0, <1>3 DEF HistoryTypes
    <3>2. Unread' \in Seq(Token) /\ \A i \in 1 .. Len(Unread') : \E j \in 1 .. Len(Unread) : Unread'[i] = Unread[j]
      BY <1>9, <2>10, <2>12
    <3> QED BY <1>0, <1>3, <1>4, <3>1, <3>2, DeliveredKeeps
  <2>16. ASSUME Unread' # <<>> PROVE Unread'[1].k = 1
    <3>1. Len(input') >= 1
      BY <1>9, <2>10, <2>16, EmptySeq
    <3>2. Unread'[1] = Unread[3] /\ 2 \in 1 .. Len(Unread) - 1 /\ 1 \in 1 .. Len(Unread) - 1
      BY <1>9, <2>10, <2>11, <2>12, <3>1
    <3>3. ~Ends(Unread[1], messages)
      BY <1>2, <1>7 DEF Ends, Size
    <3>4. Unread[2] = [m |-> t.m, k |-> 2]
      <4>1. Unread[1 + 1] = [m |-> Unread[1].m, k |-> Unread[1].k + 1]
        BY <1>4, <2>11, <3>2, <3>3, TokenAfter
      <4>2. Unread[1].m = t.m /\ Unread[1].k = 1
        BY <1>2, <1>7
      <4> QED BY <4>1, <4>2
    <3>5. Ends(Unread[2], messages)
      BY <1>2, <1>7, <3>4 DEF Ends, Size
    <3>6. Unread[2 + 1].k = 1
      BY <1>4, <2>11, <3>2, <3>5, TokenAfter
    <3> QED BY <3>2, <3>6
  <2>17. HeadFits'
    BY <1>5, <1>7, <2>16 DEF HeadFits, Fitting, AtStart
  <2> QED BY <1>1, <1>4, <2>13, <2>14, <2>15, <2>17 DEF WholeInv
<1>21. CASE UNCHANGED <<open, stream>>
  <2>1. t.k + 2 - 1 = Size(messages[t.m].kind) /\ messages[t.m].kind \in AllKinds
    BY <1>2, <1>7 DEF Size
  <2>2. /\ Orderly(Unread', messages') /\ UnreadWhole' /\ Unread' \in Seq(Token) /\ Len(Unread) \in Nat
        /\ \A i \in 1 .. Len(Unread') : i + 2 \in 1 .. Len(Unread) /\ Unread'[i] = Unread[i + 2]
        /\ Unread' # <<>> => Unread'[1].k = 1
    <3>1. t.k + 2 - 1 <= Size(messages[t.m].kind)
      BY <2>1 DEF Size, AllKinds
    <3> QED BY <1>0, <1>1, <1>2, <1>3, <1>4, <1>9, <1>21, <2>1, <3>1, Consumed
  <2>3. DeliveredWhole'
    <3>1. Len(messages') \in Nat /\ Len(messages) <= Len(messages')
          /\ \A m \in 1 .. Len(messages) : messages'[m] = messages[m]
      BY <1>0, <1>3 DEF HistoryTypes
    <3>2. \A i \in 1 .. Len(Unread') : \E j \in 1 .. Len(Unread) : Unread'[i] = Unread[j]
      BY <2>2
    <3> QED BY <1>0, <1>3, <1>4, <2>2, <3>1, <3>2, DeliveredKeeps
  <2>4. HeadFits'
    BY <1>5, <1>7, <2>2 DEF HeadFits, Fitting, AtStart
  <2> QED BY <1>1, <1>4, <2>2, <2>3, <2>4 DEF WholeInv
<1> QED BY <1>3, <1>20, <1>21
LEMMA CloseWhole == Types /\ WholeInv /\ (CloseEndpoint \/ LoseConnection) => WholeInv'
<1> SUFFICES ASSUME Types, WholeInv, Clean', CloseEndpoint \/ LoseConnection PROVE WholeInv'
  BY DEF WholeInv
<1>1. /\ ResetIncomingHttpState(pendingResponseOptions)
      /\ UNCHANGED <<prepended, input, messages, delivered>>
      /\ input # <<>> => calling
  BY DEF CloseEndpoint, LoseConnection, OnDisconnected, ConnectionUnchanged, MayCall, Idle
<1>2. CASE LoseConnection
  BY <1>1, <1>2, ResetWhole DEF LoseConnection, OnDisconnected
<1>3. CASE CloseEndpoint
  <2>1. /\ \/ open' = FALSE /\ stream' = <<>>
           \/ UNCHANGED <<open, stream>>
        /\ situations' = situations \union (IF open' /\ state \in Reading THEN {"cut"} ELSE {})
    BY <1>3, ConnectionClosed DEF CloseEndpoint
  <2>2. open' => state \notin Reading
    BY <2>1 DEF Clean
  <2>3. situations \subseteq situations' /\ ("misread" \in situations' => "misread" \in situations)
    BY <2>1
  <2>4. \/ open' = FALSE /\ stream' = <<>>
        \/ UNCHANGED <<open, stream>> /\ (open => state \notin Reading)
    BY <2>1, <2>2
  <2> QED BY <1>1, <2>3, <2>4, ResetWhole
<1> QED BY <1>2, <1>3

(* The posted action closes: what was prepended is of no connection.        *)
LEMMA ActionWhole == Types /\ WholeInv /\ CloseAction => WholeInv'
<1> SUFFICES ASSUME Types, WholeInv, Clean', CloseAction PROVE WholeInv'
  BY DEF WholeInv
<1>0. BufferTypes /\ HistoryTypes
  BY DEF Types
<1>1. /\ input = <<>> /\ open' = FALSE /\ stream' = <<>>
      /\ UNCHANGED <<situations, prepended, input, messages, delivered>>
  BY DEF CloseAction, Idle, ConnectionUnchanged
<1>2. Clean
  BY <1>1 DEF Clean
<1>3. Orderly(Unread, messages) /\ DeliveredWhole /\ "misread" \notin situations
  BY <1>2 DEF WholeInv
<1>4. Held \in Seq(Token) /\ stream \in Seq(Token) /\ Unread' = Held
  <2>1. Held \in Seq(Token) /\ stream \in Seq(Token) /\ Held' = Held
    BY <1>0, <1>1 DEF Held, BufferTypes
  <2>2. Held \o <<>> = Held
    BY <2>1, ConcatEmptySeq
  <2> QED BY <1>1, <2>1, <2>2 DEF Unread
<1>5. /\ Unread \in Seq(Token) /\ Len(Held) <= Len(Unread)
      /\ \A i \in 1 .. Len(Held) : i \in 1 .. Len(Unread) /\ Held[i] = Unread[i]
  <2>1. /\ Unread \in Seq(Token) /\ Len(Unread) = Len(Held) + Len(stream)
        /\ Len(Held) \in Nat /\ Len(stream) \in Nat
        /\ \A i \in 1 .. Len(Held) : Unread[i] = Held[i]
    BY <1>4, Joined DEF Unread
  <2> QED BY <2>1
<1>6. Orderly(Unread', messages')
  <2>1. Orderly(Held, messages)
    BY <1>3, <1>4, <1>5, OrderlyPrefix
  <2> QED BY <1>1, <1>4, <2>1
<1>7. DeliveredWhole'
  <2>1. Len(messages') \in Nat /\ Len(messages) <= Len(messages')
        /\ \A m \in 1 .. Len(messages) : messages'[m] = messages[m]
    BY <1>0, <1>1 DEF HistoryTypes
  <2>2. Unread' \in Seq(Token) /\ \A i \in 1 .. Len(Unread') : \E j \in 1 .. Len(Unread) : Unread'[i] = Unread[j]
    BY <1>4, <1>5
  <2> QED BY <1>0, <1>1, <1>3, <2>1, <2>2, DeliveredKeeps
<1>8. UnreadWhole' /\ HeadFits'
  BY <1>1 DEF UnreadWhole, HeadFits, Live
<1> QED BY <1>1, <1>3, <1>6, <1>7, <1>8 DEF WholeInv

LEMMA SendWhole == Types /\ WholeInv /\ (SendRequest \/ \E kind \in {"plain", "file"} : Respond(kind)) => WholeInv'
<1>1. ASSUME Types, WholeInv, NEW kind, Sending(kind), NEW pending, SendAsync(kind, pending)
      PROVE  WholeInv'
  <2>0. BufferTypes /\ HistoryTypes
    BY <1>1 DEF Types
  <2>1. /\ UNCHANGED <<prepended, input, messages, delivered>> /\ (input # <<>> => calling)
        /\ situations \subseteq situations' /\ ("misread" \in situations' => "misread" \in situations)
    BY <1>1 DEF Sending, SendAsync, MayCall, Idle
  <2>2. CASE UNCHANGED <<parserVars, connectionVars>>
    <3>1. Unread' = Unread /\ open' = open
      BY <2>1, <2>2 DEF Unread, Held, connectionVars
    <3> QED BY <1>1, <2>0, <2>1, <2>2, <3>1, SameUnread DEF parserVars, Live
  <2>3. CASE OnDisconnected(pending)
    BY <1>1, <2>1, <2>3, ResetWhole DEF OnDisconnected
  <2> QED BY <1>1, <2>2, <2>3 DEF SendAsync
<1> QED BY <1>1 DEF SendRequest, Respond

LEMMA ServerReads ==
    ASSUME WriteNext, serverSide, state \in Reading, ~OnDisconnected(pendingResponseOptions)
    PROVE  state' = state
<1>1. OnPayloadSent => state' = state
  BY DEF OnPayloadSent
<1>2. ASSUME NEW file, SendFileChunk(file) PROVE state' = state
  BY <1>1, <1>2 DEF SendFileChunk, parserVars
<1> QED BY <1>1, <1>2 DEF WriteNext, SendFileContent, parserVars

LEMMA WriteNextWhole == Types /\ WholeInv /\ WriteNext => WholeInv'
<1> SUFFICES ASSUME Types, WholeInv, Clean', WriteNext PROVE WholeInv'
  BY DEF WholeInv
<1>0. ParserTypes /\ BufferTypes /\ HistoryTypes
  BY DEF Types
<1>1. ~calling /\ input = <<>> /\ open /\ UNCHANGED <<serverSide, prepended, input, messages, delivered>>
  BY Wrote
<1>2. CASE OnDisconnected(pendingResponseOptions) /\ UNCHANGED situations
  BY <1>1, <1>2, ResetWhole DEF OnDisconnected
<1>3. CASE /\ \/ state' = state /\ situations' = situations
              \/ serverSide /\ state' = "AwaitingClientRequest" /\ situations' = situations
              \/ /\ ~serverSide /\ state' = "AwaitingResponse"
                 /\ situations' = situations \union (IF state \in Reading THEN {"overtaken"} ELSE {})
           /\ UNCHANGED <<activeHeaders, contentSize, chunkSize, chunkedBody, httpBody, open, stream>>
  <2>0. ~OnDisconnected(pendingResponseOptions)
    BY <1>1, <1>3 DEF OnDisconnected
  <2>1. Unread' = Unread
    BY <1>1, <1>3 DEF Unread, Held
  <2>2. situations \subseteq situations' /\ ("misread" \in situations' => "misread" \in situations)
    BY <1>3
  <2>3. CASE state' = state
    BY <1>0, <1>1, <1>3, <2>1, <2>2, <2>3, SameUnread DEF Live
  <2>4. CASE state' # state
    <3>1. state \notin Reading /\ state' \notin Reading
      <4>1. serverSide => state \notin Reading
        BY <1>3, <2>0, <2>4, ServerReads
      <4>2. ~serverSide => state \notin Reading
        BY <1>3, <2>4 DEF Clean
      <4> QED BY <1>3, <2>4, <4>1, <4>2 DEF Reading
    <3>2. Clean
      BY <2>2 DEF Clean
    <3>3. /\ Orderly(Unread, messages) /\ UnreadWhole /\ DeliveredWhole /\ HeadFits
          /\ "misread" \notin situations
      BY <3>2 DEF WholeInv
    <3>4. Orderly(Unread', messages') /\ UnreadWhole'
      BY <1>1, <1>3, <2>1, <3>3 DEF UnreadWhole, Ends
    <3>5. DeliveredWhole'
      <4>1. Len(messages') \in Nat /\ Len(messages) <= Len(messages')
            /\ \A m \in 1 .. Len(messages) : messages'[m] = messages[m]
        BY <1>0, <1>1 DEF HistoryTypes
      <4>2. Unread' \in Seq(Token) /\ \A i \in 1 .. Len(Unread') : \E j \in 1 .. Len(Unread) : Unread'[i] = Unread[j]
        BY <1>0, <2>1, UnreadFacts
      <4> QED BY <1>0, <1>1, <3>3, <4>1, <4>2, DeliveredKeeps
    <3>6. HeadFits'
      <4>1. /\ Unread = <<>> => chunkedBody = <<>>
            /\ \A t \in Token : Unread # <<>> /\ t = Unread[1] => Fitting(t)
        BY <1>1, <3>3 DEF HeadFits, Live
      <4>2. \A t \in Token : Fitting(t) => Fitting(t)'
        BY <1>3, <3>1 DEF Fitting, AtStart, AtHeader, AtContent, AtChunk, Reading
      <4> QED BY <1>3, <2>1, <3>1, <4>1, <4>2 DEF HeadFits
    <3> QED BY <2>2, <3>3, <3>4, <3>5, <3>6 DEF WholeInv
  <2> QED BY <2>3, <2>4
<1>4. \/ /\ \/ state' = state /\ situations' = situations
            \/ serverSide /\ state' = "AwaitingClientRequest" /\ situations' = situations
            \/ /\ ~serverSide /\ state' = "AwaitingResponse"
               /\ situations' = situations \union (IF state \in Reading THEN {"overtaken"} ELSE {})
         /\ UNCHANGED <<activeHeaders, contentSize, chunkSize, chunkedBody, httpBody, open, stream>>
      \/ OnDisconnected(pendingResponseOptions) /\ UNCHANGED situations
  BY Wrote
<1> QED BY <1>2, <1>3, <1>4

LEMMA OpenWhole == Types /\ WholeInv /\ OpenEndpoint => WholeInv'
<1> SUFFICES ASSUME Types, WholeInv, Clean', OpenEndpoint PROVE WholeInv'
  BY DEF WholeInv
<1>0. ParserTypes /\ BufferTypes /\ HistoryTypes
  BY DEF Types
<1>1. /\ input = <<>> /\ ~serverSide /\ ~open /\ stream' = <<>>
      /\ situations' = situations \union
           (IF \/ state \in Reading
               \/ <<prepended, chunkedBody, pendingResponseOptions, sendQueue>> # <<<<>>, <<>>, <<>>, <<>>>>
            THEN {"residue"} ELSE {})
      /\ UNCHANGED <<prepended, input, state, chunkedBody, messages, delivered>>
  BY DEF OpenEndpoint, Idle, ConnectionUnchanged, parserVars
<1>2. Clean /\ prepended = <<>> /\ chunkedBody = <<>> /\ state \notin Reading
      /\ ("misread" \in situations' => "misread" \in situations)
  BY <1>1 DEF Clean
<1>4. /\ DeliveredWhole
      /\ "misread" \notin situations
  BY <1>2 DEF WholeInv
<1>5. Unread' = <<>> /\ Len(<<>>) = 0 /\ <<>> \in Seq(Token)
  <2>1. Held' = <<>>
    BY <1>1, <1>2 DEF Held
  <2>2. <<>> \o <<>> = <<>>
    BY ConcatEmptySeq, EmptySeq
  <2> QED BY <1>1, <2>1, <2>2 DEF Unread
<1>6. Orderly(Unread', messages') /\ UnreadWhole'
  BY <1>5 DEF Orderly, UnreadWhole
<1>7. DeliveredWhole'
  <2>1. Len(messages') \in Nat /\ Len(messages) <= Len(messages')
        /\ \A m \in 1 .. Len(messages) : messages'[m] = messages[m]
    BY <1>0, <1>1 DEF HistoryTypes
  <2>2. Unread' \in Seq(Token) /\ \A i \in 1 .. Len(Unread') : \E j \in 1 .. Len(Unread) : Unread'[i] = Unread[j]
    BY <1>5
  <2> QED BY <1>0, <1>1, <1>4, <2>1, <2>2, DeliveredKeeps
<1>8. HeadFits'
  BY <1>1, <1>2, <1>5 DEF HeadFits
<1> QED BY <1>1, <1>2, <1>4, <1>6, <1>7, <1>8 DEF WholeInv

LEMMA PeerSendsWhole ==
    ASSUME Types, SendTypes, WholeInv, NEW kind \in Kinds, PeerSends(kind)
    PROVE  WholeInv'
<1> SUFFICES ASSUME Clean' PROVE WholeInv'
  BY DEF WholeInv
<1>0. ParserTypes /\ BufferTypes /\ HistoryTypes
  BY DEF Types
<1>1. /\ open
      /\ UNCHANGED <<serverSide, readVars, calling, open, delivered, situations>>
  BY DEF PeerSends, connectionVars
<1>2. Clean
  BY <1>1 DEF Clean
<1>3. /\ Orderly(Unread, messages) /\ UnreadWhole /\ DeliveredWhole /\ HeadFits
      /\ "misread" \notin situations
  BY <1>2 DEF WholeInv
<1>4. PICK answers \in Nat \union {None} :
         /\ Len(messages') = Len(messages) + 1 /\ messages' \in Seq(Message)
         /\ messages'[Len(messages) + 1] =
               [kind |-> kind, connection |-> connection, answers |-> answers]
         /\ \A m \in 1 .. Len(messages) : messages'[m] = messages[m]
         /\ stream' = stream \o Tokens(Len(messages'), kind)
  BY PeerSent
<1>5. kind \in AllKinds /\ Len(messages) \in Nat /\ messages'[Len(messages) + 1].kind = kind
  BY <1>0, <1>4, HttpAssumption DEF AllKinds, HistoryTypes
<1> DEFINE last == Len(messages)
           more == Tokens(last + 1, kind)
<1>6. more \in Seq(Token) /\ Len(more) = Size(kind)
      /\ \A i \in 1 .. Len(more) : more[i] = [m |-> last + 1, k |-> i]
  BY <1>5, TokensOfMessage
<1>7. stream' = stream \o more
  BY <1>4
<1>8. Unread \in Seq(Token) /\ ((Unread = <<>>) <=> (Len(Unread) = 0)) /\ Len(Unread) \in Nat
  BY <1>0, UnreadFacts
<1>9. Unread' = Unread \o more
  <2>1. Held' = Held /\ Held \in Seq(Token) /\ stream \in Seq(Token)
    BY <1>0, <1>1 DEF Held, BufferTypes, readVars
  <2> HIDE DEF more
  <2>2. Held \o (stream \o more) = (Held \o stream) \o more
    BY <1>6, <2>1, ConcatAssociative
  <2> QED BY <1>7, <2>1, <2>2 DEF Unread
<1> HIDE DEF more
<1>10. /\ Orderly(Unread \o more, messages') /\ Unread \o more # <<>>
       /\ Ends((Unread \o more)[Len(Unread \o more)], messages')
  <2>1. /\ last \in Nat /\ DOMAIN messages = 1 .. last /\ DOMAIN messages' = 1 .. last + 1
        /\ \A m \in 1 .. last : messages'[m].kind = messages[m].kind
        /\ messages'[last + 1].kind \in AllKinds
        /\ Len(more) = Size(messages'[last + 1].kind)
    BY <1>0, <1>4, <1>5, <1>6 DEF HistoryTypes
  <2>2. Unread # <<>> => Ends(Unread[Len(Unread)], messages)
    BY <1>1, <1>3 DEF UnreadWhole
  <2> HIDE DEF last
  <2>3. \A i \in 1 .. Len(more) : more[i] = [m |-> last + 1, k |-> i]
    BY <1>6
  <2> QED BY <1>3, <1>6, <1>8, <2>1, <2>2, <2>3, OrderlyMore
<1>11. Orderly(Unread', messages') /\ UnreadWhole' /\ Unread' # <<>>
  BY <1>9, <1>10 DEF UnreadWhole
<1>12. /\ Unread' \in Seq(Token) /\ Len(Unread') = Len(Unread) + Len(more) /\ Len(more) \in Nat
       /\ \A i \in 1 .. Len(Unread) : Unread'[i] = Unread[i]
       /\ \A i \in 1 .. Len(more) : Unread'[Len(Unread) + i] = more[i]
  <2>1. /\ Unread \o more \in Seq(Token) /\ Len(Unread \o more) = Len(Unread) + Len(more) /\ Len(more) \in Nat
        /\ \A i \in 1 .. Len(Unread) : (Unread \o more)[i] = Unread[i]
        /\ \A i \in 1 .. Len(more) : (Unread \o more)[Len(Unread) + i] = more[i]
    BY <1>6, <1>8, Joined
  <2> QED BY <1>9, <2>1
<1>13. DeliveredWhole'
  <2>1. ASSUME NEW i \in 1 .. Len(Unread')
        PROVE  (\E j \in 1 .. Len(Unread) : Unread'[i] = Unread[j]) \/ Len(messages) < Unread'[i].m
    <3>1. CASE i <= Len(Unread)
      <4>1. i \in 1 .. Len(Unread)
        BY <1>8, <3>1
      <4> QED BY <1>12, <4>1
    <3>2. CASE i > Len(Unread)
      <4>1. i - Len(Unread) \in 1 .. Len(more) /\ Len(Unread) + (i - Len(Unread)) = i
        BY <1>8, <1>12, <3>2
      <4>2. Unread'[i] = more[i - Len(Unread)]
        BY <1>12, <4>1
      <4> QED BY <1>5, <1>6, <4>1, <4>2
    <3> QED BY <1>8, <1>12, <3>1, <3>2
  <2>2. Len(messages') \in Nat /\ Len(messages) <= Len(messages')
    BY <1>4, <1>5
  <2> QED BY <1>0, <1>1, <1>3, <1>4, <1>12, <2>1, <2>2, DeliveredKeeps
<1>14. HeadFits'
  <2>0. UNCHANGED <<state, activeHeaders, chunkSize, chunkedBody, httpBody, situations, calling>>
    BY <1>1 DEF readVars, parserVars
  <2>1. /\ Unread = <<>> => state \notin Reading /\ chunkedBody = <<>>
        /\ \A t \in Token : Unread # <<>> /\ t = Unread[1] => Fitting(t)
    BY <1>1, <1>3 DEF HeadFits, Live
  <2> SUFFICES ASSUME NEW t \in Token, t = Unread'[1] PROVE Fitting(t)'
    BY <1>11 DEF HeadFits
  <2>2. CASE Unread = <<>>
    <3>1. Len(Unread) = 0 /\ 1 \in 1 .. Len(more)
      BY <1>5, <1>6, <1>8, <2>2 DEF Size, AllKinds
    <3>2. Unread'[0 + 1] = more[1]
      BY <1>12, <3>1
    <3>3. t.k = 1
      BY <1>6, <3>1, <3>2
    <3> QED BY <2>0, <2>1, <2>2, <3>3 DEF Fitting, AtStart
  <2>3. CASE Unread # <<>>
    <3>1. 1 \in 1 .. Len(Unread)
      BY <1>8, <2>3
    <3>2. t = Unread[1] /\ t.m \in 1 .. Len(messages)
      <4>1. t = Unread[1]
        BY <1>12, <3>1
      <4>2. DOMAIN messages = 1 .. Len(messages) /\ DOMAIN Unread = 1 .. Len(Unread)
        BY <1>0, <1>8 DEF HistoryTypes
      <4>3. Unread[1].m \in DOMAIN messages
        BY <1>3, <3>1, <4>2 DEF Orderly
      <4> QED BY <4>1, <4>2, <4>3
    <3>3. messages'[t.m] = messages[t.m] /\ BodyOf(t.m)' = BodyOf(t.m)
      BY <1>4, <3>2 DEF BodyOf
    <3>4. Fitting(t)
      BY <2>1, <2>3, <3>2
    <3> QED BY <2>0, <3>3, <3>4 DEF Fitting, AtStart, AtHeader, AtContent, AtChunk
  <2> QED BY <2>2, <2>3
<1> QED BY <1>1, <1>3, <1>11, <1>13, <1>14 DEF WholeInv

LEMMA WholeInit == Init => WholeInv
<1> SUFFICES ASSUME Init PROVE WholeInv
  OBVIOUS
<1>1. /\ input = <<>> /\ prepended = <<>> /\ stream = <<>> /\ delivered = <<>> /\ chunkedBody = <<>>
      /\ state \notin Reading /\ situations = {}
  BY DEF Init, Reading
<1>2. Unread = <<>> /\ Len(<<>>) = 0
  <2>1. <<>> \o <<>> = <<>>
    BY ConcatEmptySeq, EmptySeq
  <2> QED BY <1>1, <2>1 DEF Unread, Held
<1> QED BY <1>1, <1>2 DEF WholeInv, Orderly, UnreadWhole, HeadFits, DeliveredWhole

LEMMA WholeStep == Types /\ SendTypes /\ WholeInv /\ [Next]_vars => WholeInv'
<1> SUFFICES ASSUME Types, SendTypes, WholeInv, [Next]_vars PROVE WholeInv'
  OBVIOUS
<1>1. CASE UNCHANGED vars
  <2>1. UNCHANGED <<state, activeHeaders, chunkSize, chunkedBody, httpBody, messages, delivered,
                    prepended, input, stream, open, calling, situations>>
    BY <1>1 DEF vars, readVars, parserVars, peerVars, connectionVars
  <2>2. Unread' = Unread
    BY <2>1 DEF Unread, Held
  <2> QED BY <2>1, <2>2, SameUnread DEF Live, Types
<1>2. CASE Read
  BY <1>2, ReadWhole
<1>3. CASE ParseStep
  BY <1>3, StartLineWhole, InvalidRequestWhole, HeaderLineWhole, EndOfHeadersWhole, ReadContentWhole,
     ChunkSizeWhole, ChunkDataWhole, LastChunkWhole, IgnoreUnsolicitedWhole, PrependRestWhole,
     MisreadWhole DEF ParseStep
<1>4. CASE HandlerReturns \/ FailWrite
  BY <1>4, ReturnWhole
<1>5. CASE WriteNext
  BY <1>5, WriteNextWhole
<1>6. CASE Call \/ LoseConnection \/ CloseAction
  BY <1>6, SendWhole, OpenWhole, CloseWhole, ActionWhole DEF Call
<1>7. CASE \E kind \in Kinds : PeerSends(kind)
  BY <1>7, PeerSendsWhole
<1> QED BY <1>1, <1>2, <1>3, <1>4, <1>5, <1>6, <1>7 DEF Next

(* However reads end and handlers send, close or fail, and though a         *)
(* connection that is being closed is read on: each message is dispatched   *)
(* whole, with its own body, in the order of the messages and once, and no  *)
(* line is taken for anything else, but after unsolicited messages and what *)
(* the code does not handle (requests written while a response is read,     *)
(* closes in the middle of a message, and what an old connection left).     *)
THEOREM WholeMessages == Spec => []DispatchedWhole
<1>1. Init => Types /\ SendTypes /\ WholeInv
  BY TypesInit, SendTypesInit, WholeInit
<1>2. Types /\ SendTypes /\ WholeInv /\ [Next]_vars => (Types /\ SendTypes /\ WholeInv)'
  BY TypesStep, SendTypesStep, WholeStep
<1>3. ASSUME Types, WholeInv PROVE DispatchedWhole
  <2> SUFFICES ASSUME situations \ {"misread"} \subseteq {"mixed", "refused"}
               PROVE  /\ "misread" \notin situations
                      /\ \A i \in DOMAIN delivered :
                            /\ delivered[i].body = BodyOf(delivered[i].m)
                            /\ \A j \in 1 .. i - 1 : delivered[j].m < delivered[i].m
    BY DEF DispatchedWhole
  <2>1. Clean
    BY DEF Clean
  <2>2. DeliveredWhole /\ "misread" \notin situations
    BY <1>3, <2>1 DEF WholeInv
  <2>3. delivered \in Seq(Delivery) /\ DOMAIN delivered = 1 .. Len(delivered) /\ Len(delivered) \in Nat
    BY <1>3 DEF Types, HistoryTypes
  <2>4. ASSUME NEW i \in 1 .. Len(delivered)
        PROVE  /\ delivered[i].body = BodyOf(delivered[i].m)
               /\ \A j \in 1 .. i - 1 : delivered[j].m < delivered[i].m
    <3>1. delivered[i] \in Delivery
      BY <2>3, ElementOfSeq
    <3>2. delivered[i].m \in Nat \union {None}
      BY <3>1 DEF Delivery
    <3>3. delivered[i].body = BodyOf(delivered[i].m)
      BY <2>2, <3>2 DEF DeliveredWhole
    <3>4. \A j \in 1 .. i - 1 : j \in 1 .. Len(delivered) /\ j < i
      BY <2>3
    <3> QED BY <2>2, <3>3, <3>4 DEF DeliveredWhole
  <2> QED BY <2>2, <2>3, <2>4
<1> QED BY <1>1, <1>2, <1>3, PTL DEF Spec

-----------------------------------------------------------------------------
(* A response is dispatched with the options of the request it answers. *)

(* The requests with an answer that was dispatched, and those written.      *)
Answered == Len(sends) - Len(pendingResponseOptions)
Written == Len(sends) - Len(sendQueue)
(* The messages with tokens that have not been consumed.                    *)
Arriving == {Unread[i].m : i \in 1 .. Len(Unread)}

(* The options that are pending are those of the last requests.             *)
PendingInOrder ==
    /\ Len(pendingResponseOptions) <= Len(sends)
    /\ \A i \in 1 .. Len(pendingResponseOptions) : pendingResponseOptions[i] = Answered + i

AnswersOnce ==
    /\ \A m \in 1 .. Len(messages) : messages[m].answers \in 1 .. Len(sends) \union {None}
    /\ \A m, o \in 1 .. Len(messages) :
          m # o /\ messages[m].answers = messages[o].answers => messages[m].answers = None

(* What arrives answers the requests that have no answer, from the first on. *)
AnswersInOrder ==
    \A m \in Arriving : messages[m].answers # None =>
        /\ messages[m].answers > Answered
        /\ \A n \in Answered + 1 .. messages[m].answers - 1 :
              \E o \in Arriving : o < m /\ messages[o].answers = n

ParserAsked ==
    /\ state = "AwaitingUserRequest" => \A m \in Arriving : messages[m].answers = None
    /\ Live /\ state \in Reading =>
          activeHeaders \in 1 .. Len(messages) /\ messages[activeHeaders].answers # None

(* On the connection that is open the requests were written in their order, *)
(* and those without an answer are the last of them.                        *)
OnWire(n) == \E w \in 1 .. Len(wire) : wire[w].connection = connection /\ wire[w].send = n
QueueOfRequests ==
    /\ Answered <= Written
    /\ \A i \in 1 .. Len(sendQueue) : sendQueue[i].send = Written + i /\ sendQueue[i].then = "plain"
WireOfRequests ==
    /\ \A n \in Answered + 1 .. Written : OnWire(n)
    /\ \A n \in Nat : OnWire(n) =>
          /\ n <= Written
          /\ n <= Answered => \E m \in 1 .. Len(messages) : messages[m].answers = n
AnswersOfRequests ==
    /\ \A m \in 1 .. Len(messages) : messages[m].answers # None =>
          /\ messages[m].answers <= Written
          /\ messages[m].answers > Answered => m \in Arriving
    /\ state = "AwaitingUserRequest" => Answered = Written

WireOfConnections == \A w \in 1 .. Len(wire) : wire[w].connection <= connection
OptionsOwn == \A i \in 1 .. Len(delivered) : delivered[i].options = messages[delivered[i].m].answers

Shut == open \/ stream = <<>>
Own == ~serverSide /\ situations = {}
OwnFacts ==
    /\ PendingInOrder /\ AnswersOnce /\ AnswersInOrder /\ ParserAsked
    /\ WireOfConnections /\ OptionsOwn
    /\ open => QueueOfRequests /\ WireOfRequests /\ AnswersOfRequests
OwnInv == Own => OwnFacts

LEMMA ShutStep == Shut /\ [Next]_vars => Shut'
<1> SUFFICES ASSUME Shut, [Next]_vars PROVE Shut'
  OBVIOUS
<1>1. CASE UNCHANGED vars
  BY <1>1 DEF Shut, vars, peerVars, connectionVars
<1>2. CloseConnection => Shut'
  BY DEF CloseConnection, connectionVars, Shut
<1>3. CASE \/ Read \/ HandlerReturns \/ FailWrite \/ LoseConnection \/ OpenEndpoint \/ CloseEndpoint
           \/ CloseAction \/ \E kind \in Kinds : PeerSends(kind)
  BY <1>2, <1>3 DEF Shut, Read, HandlerReturns, FailWrite, LoseConnection, OpenEndpoint, CloseEndpoint,
     CloseAction, PeerSends, OnDisconnected, peerVars, connectionVars
<1>4. CASE Misread
  <2>1. MisreadStart => Shut'
    BY <1>2 DEF MisreadStart, Shut, connectionVars
  <2> QED BY <1>4, <2>1 DEF Misread, Shut, connectionVars
<1>5. CASE ParseStep /\ ~Misread
  BY <1>2, <1>5 DEF ParseStep, StartLine, InvalidRequest, HeaderLine, EndOfHeaders, ReadContent, ChunkSize,
     ChunkData, LastChunk, IgnoreUnsolicited, PrependRest, ReadUnchanged, Shut, peerVars, connectionVars
<1>6. CASE WriteNext
  BY <1>6, Wrote DEF Shut, OnDisconnected
<1>7. ASSUME NEW kind, NEW pending, SendAsync(kind, pending) PROVE Shut'
  BY <1>7 DEF SendAsync, OnDisconnected, Shut, connectionVars
<1>8. CASE SendRequest \/ \E kind \in {"plain", "file"} : Respond(kind)
  BY <1>7, <1>8 DEF SendRequest, Respond
<1> QED BY <1>1, <1>3, <1>4, <1>5, <1>6, <1>8 DEF Next, Call

LEMMA Counts ==
    ASSUME Types, SendTypes
    PROVE  /\ Len(sends) \in Nat /\ Len(pendingResponseOptions) \in Nat /\ Len(sendQueue) \in Nat
           /\ Len(wire) \in Nat /\ Len(delivered) \in Nat /\ Len(messages) \in Nat
           /\ connection \in Nat /\ Answered \in Int /\ Written \in Int /\ Written <= Len(sends)
           /\ PendingInOrder => Answered \in Nat
<1>1. /\ Len(sends) \in Nat /\ Len(pendingResponseOptions) \in Nat /\ Len(sendQueue) \in Nat
      /\ Len(wire) \in Nat /\ Len(delivered) \in Nat /\ Len(messages) \in Nat /\ connection \in Nat
  BY DEF Types, HistoryTypes, SendTypes
<1> QED BY <1>1 DEF Answered, Written, PendingInOrder

LEMMA Arrives ==
    ASSUME Types, Orderly(Unread, messages)
    PROVE  /\ \A m \in Arriving : m \in 1 .. Len(messages) /\ m \in Nat
           /\ \A m \in Arriving : \E i \in 1 .. Len(Unread) : Unread[i].m = m
           /\ \A i \in 1 .. Len(Unread) : Unread[i].m \in Arriving
<1>1. DOMAIN messages = 1 .. Len(messages) /\ Len(messages) \in Nat
  BY DEF Types, HistoryTypes
<1>2. \A i \in 1 .. Len(Unread) : Unread[i].m \in 1 .. Len(messages)
  BY <1>1 DEF Orderly
<1> QED BY <1>1, <1>2 DEF Arriving

LEMMA DeliveredMessages ==
    ASSUME Types, DeliveredWhole
    PROVE  \A i \in 1 .. Len(delivered) : delivered[i].m \in 1 .. Len(messages)
<1>1. delivered \in Seq(Delivery)
  BY DEF Types, HistoryTypes
<1> SUFFICES ASSUME NEW i \in 1 .. Len(delivered) PROVE delivered[i].m \in 1 .. Len(messages)
  OBVIOUS
<1>2. delivered[i] \in Delivery
  BY <1>1, ElementOfSeq
<1>3. delivered[i].m \in Nat \union {None}
  BY <1>2 DEF Delivery
<1> QED BY <1>3 DEF DeliveredWhole

(* Nothing but the parser moves on, past messages that answer nothing. *)
LEMMA OwnKeeps ==
    ASSUME Types, SendTypes, OwnInv, situations \subseteq situations',
           UNCHANGED <<serverSide, pendingResponseOptions, sends, sendQueue, wire, open, connection,
                       messages, delivered>>,
           Own' => \/ Arriving' = {} /\ ~open
                   \/ /\ Arriving' \subseteq Arriving
                      /\ \A m \in Arriving : m \in Arriving' \/ messages[m].answers = None,
           state' = "AwaitingUserRequest" => state = "AwaitingUserRequest",
           Own' /\ Live' /\ state' \in Reading =>
              activeHeaders' \in 1 .. Len(messages) /\ messages[activeHeaders'].answers # None
    PROVE  OwnInv'
<1> SUFFICES ASSUME Own' PROVE OwnFacts'
  BY DEF OwnInv
<1>1. Own /\ OwnFacts
  BY DEF Own, OwnInv
<1>2. /\ Answered' = Answered /\ Written' = Written
      /\ \A n : OnWire(n)' <=> OnWire(n)
  BY DEF Answered, Written, OnWire
<1>3. PendingInOrder' /\ AnswersOnce' /\ WireOfConnections' /\ OptionsOwn'
  BY <1>1, <1>2 DEF OwnFacts, PendingInOrder, AnswersOnce, WireOfConnections, OptionsOwn
<1>4. Answered \in Nat /\ None \notin Nat
  BY <1>1, Counts, HttpAssumption DEF OwnFacts
<1>5. AnswersInOrder'
  <2> SUFFICES ASSUME NEW m \in Arriving', messages[m].answers # None
               PROVE  /\ messages[m].answers > Answered
                      /\ \A n \in Answered + 1 .. messages[m].answers - 1 :
                            \E o \in Arriving' : o < m /\ messages[o].answers = n
    BY <1>2 DEF AnswersInOrder
  <2>1. m \in Arriving
    OBVIOUS
  <2>2. /\ messages[m].answers > Answered
        /\ \A n \in Answered + 1 .. messages[m].answers - 1 :
              \E o \in Arriving : o < m /\ messages[o].answers = n
    BY <1>1, <2>1 DEF OwnFacts, AnswersInOrder
  <2>3. ASSUME NEW n \in Answered + 1 .. messages[m].answers - 1
        PROVE  \E o \in Arriving' : o < m /\ messages[o].answers = n
    <3>1. PICK o \in Arriving : o < m /\ messages[o].answers = n
      BY <2>2
    <3>2. messages[o].answers # None
      BY <1>4, <3>1
    <3> QED BY <3>1, <3>2
  <2> QED BY <2>2, <2>3
<1>6. ParserAsked'
  BY <1>1 DEF OwnFacts, ParserAsked
<1>7. ASSUME open PROVE QueueOfRequests' /\ WireOfRequests' /\ AnswersOfRequests'
  <2>1. QueueOfRequests /\ WireOfRequests /\ AnswersOfRequests
    BY <1>1, <1>7 DEF OwnFacts
  <2>2. QueueOfRequests'
    BY <1>2, <2>1 DEF QueueOfRequests
  <2>3. WireOfRequests'
    BY <1>2, <2>1 DEF WireOfRequests
  <2>4. AnswersOfRequests'
    BY <1>2, <1>7, <2>1 DEF AnswersOfRequests
  <2> QED BY <2>2, <2>3, <2>4
<1> QED BY <1>3, <1>5, <1>6, <1>7 DEF OwnFacts

(* The first message that arrives is dispatched. *)
LEMMA OwnDispatched ==
    ASSUME Types, SendTypes, WholeInv, OwnInv, situations \subseteq situations',
           NEW body, DispatchPayload(body), state \in Reading, Live,
           UNCHANGED <<serverSide, sends, sendQueue, wire, open, connection, messages>>,
           Own' => /\ Arriving \subseteq Arriving' \union {activeHeaders} /\ Arriving' \subseteq Arriving
                   /\ activeHeaders \in Arriving /\ \A m \in Arriving' : activeHeaders < m
    PROVE  OwnInv'
<1> SUFFICES ASSUME Own' PROVE OwnFacts'
  BY DEF OwnInv
<1>1. Own /\ OwnFacts /\ ~serverSide
  BY DEF Own, OwnInv
<1>2. Orderly(Unread, messages) /\ DeliveredWhole
  BY <1>1 DEF WholeInv, Clean, Own
<1>3. /\ Arriving \subseteq Arriving' \union {activeHeaders} /\ Arriving' \subseteq Arriving
      /\ activeHeaders \in Arriving /\ \A m \in Arriving' : activeHeaders < m
  OBVIOUS
<1>4. /\ Answered \in Nat /\ None \notin Nat /\ Len(sends) \in Nat /\ Len(sendQueue) \in Nat
      /\ Len(pendingResponseOptions) \in Nat /\ Written \in Int /\ Written <= Len(sends)
      /\ Len(messages) \in Nat /\ Len(delivered) \in Nat
  BY <1>1, Counts, HttpAssumption DEF OwnFacts
<1>5. PICK h \in 1 .. Len(messages) : h = activeHeaders /\ messages[h].answers # None
  BY <1>1 DEF OwnFacts, ParserAsked
<1>6. PICK a \in 1 .. Len(sends) : a = messages[h].answers
  BY <1>1, <1>5 DEF OwnFacts, AnswersOnce
<1>7. a = Answered + 1
  <2>1. /\ a > Answered
        /\ \A n \in Answered + 1 .. a - 1 : \E o \in Arriving : o < h /\ messages[o].answers = n
    BY <1>1, <1>3, <1>5, <1>6 DEF OwnFacts, AnswersInOrder
  <2>2. ASSUME a > Answered + 1 PROVE FALSE
    <3>1. Answered + 1 \in Answered + 1 .. a - 1
      BY <1>4, <2>2
    <3>2. PICK o \in Arriving : o < h
      BY <2>1, <3>1
    <3>3. o \in Nat /\ o # h
      BY <1>2, <3>2, Arrives
    <3>4. h < o
      BY <1>3, <1>5, <3>2, <3>3
    <3> QED BY <3>2, <3>3, <3>4
  <2> QED BY <1>4, <2>1, <2>2
<1>8. Len(pendingResponseOptions) = Len(sends) - Answered /\ Len(pendingResponseOptions) >= 1
  BY <1>4, <1>7 DEF Answered
<1>9. pendingResponseOptions # <<>> /\ pendingResponseOptions \in Seq(Nat)
  BY <1>8, EmptySeq DEF Types, HistoryTypes
<1>10. /\ pendingResponseOptions' = Tail(pendingResponseOptions)
       /\ state' = IF Len(pendingResponseOptions) = 1 THEN "AwaitingUserRequest" ELSE "AwaitingResponse"
       /\ delivered' = Append(delivered, [m |-> h, body |-> body, options |-> Head(pendingResponseOptions)])
  BY <1>1, <1>5, <1>9 DEF DispatchPayload
<1>11. /\ Head(pendingResponseOptions) = pendingResponseOptions[1]
       /\ Len(pendingResponseOptions') = Len(pendingResponseOptions) - 1
       /\ \A i \in 1 .. Len(pendingResponseOptions') : pendingResponseOptions'[i] = pendingResponseOptions[i + 1]
  BY <1>9, <1>10, HeadTailProperties
<1>12. Answered' = Answered + 1 /\ Written' = Written /\ \A n : OnWire(n)' <=> OnWire(n)
  BY <1>4, <1>11 DEF Answered, Written, OnWire
<1>13. Head(pendingResponseOptions) = a
  <2>1. pendingResponseOptions[1] = Answered + 1
    BY <1>1, <1>8 DEF OwnFacts, PendingInOrder
  <2> QED BY <1>7, <1>11, <2>1
<1>14. PendingInOrder'
  <2>1. \A i \in 1 .. Len(pendingResponseOptions') :
           i + 1 \in 1 .. Len(pendingResponseOptions) /\ Answered + (i + 1) = Answered' + i
    BY <1>4, <1>11, <1>12
  <2>2. Len(pendingResponseOptions') <= Len(sends)
    BY <1>4, <1>8, <1>11
  <2> QED BY <1>1, <1>11, <2>1, <2>2 DEF OwnFacts, PendingInOrder
<1>15. AnswersOnce' /\ WireOfConnections'
  BY <1>1 DEF OwnFacts, AnswersOnce, WireOfConnections
<1>16. ASSUME NEW m \in 1 .. Len(messages), messages[m].answers # None, m # h
       PROVE  messages[m].answers \in Nat /\ messages[m].answers # Answered + 1
  <2>1. messages[m].answers \in Nat
    BY <1>1, <1>16 DEF OwnFacts, AnswersOnce
  <2> QED BY <1>1, <1>6, <1>7, <1>16, <2>1 DEF OwnFacts, AnswersOnce
<1>17. ASSUME NEW m \in Arriving'
       PROVE  m \in Arriving /\ m # h /\ m \in 1 .. Len(messages)
  <2>1. m \in Arriving /\ m \in Nat /\ m \in 1 .. Len(messages)
    BY <1>2, <1>3, Arrives
  <2> QED BY <1>3, <1>5, <2>1
<1>18. AnswersInOrder'
  <2> SUFFICES ASSUME NEW m \in Arriving', messages[m].answers # None
               PROVE  /\ messages[m].answers > Answered + 1
                      /\ \A n \in Answered + 2 .. messages[m].answers - 1 :
                            \E o \in Arriving' : o < m /\ messages[o].answers = n
    BY <1>4, <1>12 DEF AnswersInOrder
  <2>1. /\ m \in Arriving /\ messages[m].answers \in Nat /\ messages[m].answers # Answered + 1
    BY <1>16, <1>17
  <2>2. /\ messages[m].answers > Answered
        /\ \A n \in Answered + 1 .. messages[m].answers - 1 :
              \E o \in Arriving : o < m /\ messages[o].answers = n
    BY <1>1, <2>1 DEF OwnFacts, AnswersInOrder
  <2>3. ASSUME NEW n \in Answered + 2 .. messages[m].answers - 1
        PROVE  \E o \in Arriving' : o < m /\ messages[o].answers = n
    <3>1. n \in Answered + 1 .. messages[m].answers - 1 /\ n # Answered + 1
      BY <1>4, <2>1
    <3>2. PICK o \in Arriving : o < m /\ messages[o].answers = n
      BY <2>2, <3>1
    <3>3. o # h
      BY <1>6, <1>7, <3>1, <3>2
    <3> QED BY <1>3, <1>5, <3>2, <3>3
  <2> QED BY <1>4, <2>1, <2>2, <2>3
<1>19. state' = "AwaitingUserRequest" => Answered' = Len(sends)
  BY <1>4, <1>8, <1>10, <1>12
<1>20. ParserAsked'
  <2>1. state' \notin Reading
    BY <1>10 DEF Reading
  <2>2. ASSUME state' = "AwaitingUserRequest", NEW m \in Arriving', messages[m].answers # None
        PROVE  FALSE
    <3>1. messages[m].answers > Len(sends)
      BY <1>18, <1>19, <2>2 DEF AnswersInOrder
    <3>2. messages[m].answers \in 1 .. Len(sends)
      BY <1>1, <1>17, <2>2 DEF OwnFacts, AnswersOnce
    <3> QED BY <1>4, <3>1, <3>2
  <2> QED BY <2>1, <2>2 DEF ParserAsked
<1>21. OptionsOwn'
  <2> DEFINE last == [m |-> h, body |-> body, options |-> a]
  <2>1. delivered' = Append(delivered, last) /\ last.m = h /\ last.options = a
    BY <1>10, <1>13
  <2> HIDE DEF last
  <2>2. /\ Len(delivered') = Len(delivered) + 1 /\ delivered'[Len(delivered) + 1] = last
        /\ \A i \in 1 .. Len(delivered) : delivered'[i] = delivered[i]
    BY <1>4, <2>1 DEF Types, HistoryTypes
  <2>3. ASSUME NEW i \in 1 .. Len(delivered')
        PROVE  delivered'[i].options = messages[delivered'[i].m].answers
    <3>1. CASE i \in 1 .. Len(delivered)
      BY <1>1, <2>2, <3>1 DEF OwnFacts, OptionsOwn
    <3>2. CASE i = Len(delivered) + 1
      BY <1>6, <2>1, <2>2, <3>2
    <3> QED BY <1>4, <2>2, <3>1, <3>2
  <2> QED BY <2>3 DEF OptionsOwn
<1>22. ASSUME open PROVE QueueOfRequests' /\ WireOfRequests' /\ AnswersOfRequests'
  <2>1. QueueOfRequests /\ WireOfRequests /\ AnswersOfRequests
    BY <1>1, <1>22 DEF OwnFacts
  <2>2. a <= Written
    BY <1>5, <1>6, <2>1 DEF AnswersOfRequests
  <2>3. QueueOfRequests'
    <3>1. Answered + 1 <= Written
      BY <1>7, <2>2
    <3> QED BY <1>12, <2>1, <3>1 DEF QueueOfRequests
  <2>4. WireOfRequests'
    <3>1. \A n \in Answered + 2 .. Written : n \in Answered + 1 .. Written
      BY <1>4
    <3>2. ASSUME NEW n \in Nat, OnWire(n)
          PROVE  /\ n <= Written
                 /\ n <= Answered + 1 => \E m \in 1 .. Len(messages) : messages[m].answers = n
      <4>1. n <= Answered + 1 => n <= Answered \/ n = a
        BY <1>4, <1>7
      <4> QED BY <1>6, <2>1, <3>2, <4>1 DEF WireOfRequests
    <3>3. Answered' + 1 = Answered + 2
      BY <1>4, <1>12
    <3> QED BY <1>12, <2>1, <3>1, <3>2, <3>3 DEF WireOfRequests
  <2>5. AnswersOfRequests'
    <3>1. ASSUME NEW m \in 1 .. Len(messages), messages[m].answers # None
          PROVE  /\ messages[m].answers <= Written
                 /\ messages[m].answers > Answered + 1 => m \in Arriving'
      <4>1. /\ messages[m].answers <= Written
            /\ messages[m].answers > Answered => m \in Arriving
        BY <2>1, <3>1 DEF AnswersOfRequests
      <4>2. messages[m].answers \in Nat
        BY <1>1, <3>1 DEF OwnFacts, AnswersOnce
      <4>3. messages[m].answers > Answered + 1 => messages[m].answers > Answered
        BY <1>4, <4>2
      <4>5. m = h => messages[m].answers = Answered + 1
        BY <1>6, <1>7
      <4>6. messages[m].answers > Answered + 1 => m # h
        BY <1>4, <4>5
      <4> QED BY <1>3, <1>5, <4>1, <4>3, <4>6
    <3>2. state' = "AwaitingUserRequest" => Answered' = Written
      <4>1. Answered' <= Written
        BY <1>7, <1>12, <2>2
      <4> QED BY <1>4, <1>12, <1>19, <4>1
    <3> QED BY <1>12, <3>1, <3>2 DEF AnswersOfRequests
  <2> QED BY <2>3, <2>4, <2>5
<1> QED BY <1>14, <1>15, <1>18, <1>20, <1>21, <1>22 DEF OwnFacts

(* The connection is lost or closed, or the parser is reset. *)
LEMMA OwnClosed ==
    ASSUME Types, SendTypes, WholeInv, OwnInv, situations \subseteq situations',
           \/ open' = FALSE /\ stream' = <<>>
           \/ UNCHANGED <<open, stream, sends, sendQueue>>,
           state' \in Reading => ~Live',
           state' = "AwaitingUserRequest" =>
              pendingResponseOptions' = <<>> \/ state = "AwaitingUserRequest",
           UNCHANGED <<serverSide, prepended, input, messages, delivered, wire, connection>>,
           Len(sends') \in Nat, Len(sends) <= Len(sends'),
           Own' => PendingInOrder' /\ Answered' = Answered
    PROVE  OwnInv'
<1> SUFFICES ASSUME Own' PROVE OwnFacts'
  BY DEF OwnInv
<1>1. Own /\ OwnFacts /\ ~serverSide
  BY DEF Own, OwnInv
<1>2. Orderly(Unread, messages)
  BY <1>1 DEF WholeInv, Clean, Own
<1>3. /\ Answered \in Nat /\ None \notin Nat /\ Len(sends) \in Nat /\ Len(messages) \in Nat
      /\ PendingInOrder' /\ Answered' = Answered
  BY <1>1, Counts, HttpAssumption DEF OwnFacts
<1>4. Held \in Seq(Token) /\ stream \in Seq(Token) /\ Held' = Held
  BY DEF Held, Types, BufferTypes
<1>5. Unread' = Held \/ Unread' = Unread
  BY <1>4, ConcatEmptySeq DEF Unread
<1>6. /\ Len(Unread) = Len(Held) + Len(stream) /\ Len(Held) \in Nat /\ Len(stream) \in Nat
      /\ \A i \in 1 .. Len(Held) : Unread[i] = Held[i]
  BY <1>4, Joined DEF Unread
<1>7. \A i \in 1 .. Len(Unread') : i \in 1 .. Len(Unread) /\ Unread'[i] = Unread[i]
  BY <1>5, <1>6
<1>8. Arriving' \subseteq Arriving
  <2> SUFFICES ASSUME NEW m \in Arriving' PROVE m \in Arriving
    OBVIOUS
  <2>1. PICK i \in 1 .. Len(Unread') : Unread'[i].m = m
    BY DEF Arriving
  <2> QED BY <1>7, <2>1 DEF Arriving
<1>9. ASSUME NEW m \in Arriving', NEW o \in Arriving, o < m PROVE o \in Arriving'
  <2> SUFFICES ASSUME Unread' = Held PROVE o \in Arriving'
    BY <1>5 DEF Arriving
  <2>1. PICK i \in 1 .. Len(Held) : Held[i].m = m
    BY DEF Arriving
  <2>2. PICK j \in 1 .. Len(Unread) : Unread[j].m = o
    BY DEF Arriving
  <2>3. m \in Nat /\ o \in Nat
    BY <1>2, <1>8, Arrives
  <2>4. j <= i
    <3> SUFFICES ASSUME i < j PROVE FALSE
      BY <1>6
    <3>1. i \in 1 .. Len(Unread) /\ Unread[i].m = m
      BY <1>6, <2>1
    <3>2. m <= o
      BY <1>2, <2>2, <3>1 DEF Orderly
    <3> QED BY <1>9, <2>3, <3>2
  <2>5. j \in 1 .. Len(Held) /\ Held[j] = Unread[j]
    BY <1>6, <2>4
  <2> QED BY <2>2, <2>5 DEF Arriving
<1>10. AnswersInOrder'
  <2> SUFFICES ASSUME NEW m \in Arriving', messages[m].answers # None
               PROVE  /\ messages[m].answers > Answered
                      /\ \A n \in Answered + 1 .. messages[m].answers - 1 :
                            \E o \in Arriving' : o < m /\ messages[o].answers = n
    BY <1>3 DEF AnswersInOrder
  <2>1. /\ messages[m].answers > Answered
        /\ \A n \in Answered + 1 .. messages[m].answers - 1 :
              \E o \in Arriving : o < m /\ messages[o].answers = n
    BY <1>1, <1>8 DEF OwnFacts, AnswersInOrder
  <2> QED BY <1>9, <2>1
<1>11. AnswersOnce'
  <2>1. \A n \in 1 .. Len(sends) : n \in 1 .. Len(sends')
    BY <1>3
  <2> QED BY <1>1, <2>1 DEF OwnFacts, AnswersOnce
<1>12. ParserAsked'
  <2>2. ASSUME state' = "AwaitingUserRequest", NEW m \in Arriving', messages[m].answers # None
        PROVE  FALSE
    <3>0. pendingResponseOptions' = <<>>
      BY <1>1, <1>8, <2>2 DEF OwnFacts, ParserAsked
    <3>1. Answered' = Len(sends')
      <4>1. Len(<<>>) = 0
        OBVIOUS
      <4> QED BY <1>1, <3>0, <4>1 DEF Answered
    <3>2. messages[m].answers > Answered
      BY <1>1, <1>8, <2>2 DEF OwnFacts, AnswersInOrder
    <3>3. m \in 1 .. Len(messages)
      BY <1>2, <1>8, Arrives
    <3>4. messages[m].answers \in 1 .. Len(sends)
      BY <1>1, <2>2, <3>3 DEF OwnFacts, AnswersOnce
    <3> QED BY <1>3, <3>1, <3>2, <3>4
  <2> QED BY <2>2 DEF ParserAsked
<1>13. WireOfConnections' /\ OptionsOwn'
  BY <1>1 DEF OwnFacts, WireOfConnections, OptionsOwn
<1>14. ASSUME open' PROVE QueueOfRequests' /\ WireOfRequests' /\ AnswersOfRequests'
  <2>1. UNCHANGED <<open, stream, sends, sendQueue>> /\ Unread' = Unread
    BY <1>4, <1>14 DEF Unread
  <2>2. QueueOfRequests /\ WireOfRequests /\ AnswersOfRequests
    BY <1>1, <1>14, <2>1 DEF OwnFacts
  <2>3. Written' = Written /\ Arriving' = Arriving /\ \A n : OnWire(n)' <=> OnWire(n)
    BY <2>1 DEF Written, Arriving, OnWire
  <2>4. QueueOfRequests' /\ WireOfRequests'
    BY <1>3, <2>1, <2>2, <2>3 DEF QueueOfRequests, WireOfRequests
  <2>5. state' = "AwaitingUserRequest" => Answered = Written
    <3>1. ASSUME pendingResponseOptions' = <<>> PROVE Answered = Written
      <4>1. Answered = Len(sends)
        <5>1. Len(<<>>) = 0
          OBVIOUS
        <5> QED BY <1>3, <2>1, <3>1, <5>1 DEF Answered
      <4>2. Written \in Int /\ Written <= Len(sends) /\ Answered <= Written
        BY <2>2, Counts DEF QueueOfRequests
      <4> QED BY <1>3, <4>1, <4>2
    <3> QED BY <2>2, <3>1 DEF AnswersOfRequests
  <2> QED BY <1>3, <2>2, <2>3, <2>4, <2>5 DEF AnswersOfRequests
<1> QED BY <1>3, <1>10, <1>11, <1>12, <1>13, <1>14 DEF OwnFacts

LEMMA OwnSends == Types /\ SendTypes /\ WholeInv /\ OwnInv /\ SendRequest => OwnInv'
<1> SUFFICES ASSUME Types, SendTypes, WholeInv, OwnInv, SendRequest PROVE OwnInv'
  OBVIOUS
<1>1. /\ ~serverSide /\ Sending("plain") /\ SendAsync("plain", pendingResponseOptions')
      /\ pendingResponseOptions' = Append(pendingResponseOptions, Len(sends'))
      /\ sends' = Append(sends, "plain")
      /\ UNCHANGED <<serverSide, prepended, input, wire, connection, messages, delivered>>
  BY DEF SendRequest, Sending
<1>2. /\ Answered \in Int /\ Written \in Int /\ Len(sends) \in Nat /\ Len(pendingResponseOptions) \in Nat
      /\ Len(sendQueue) \in Nat /\ pendingResponseOptions \in Seq(Nat) /\ sends \in Seq({"plain", "file"})
      /\ sendQueue \in Seq([send : Nat, then : Then])
  BY Counts DEF Types, HistoryTypes, SendTypes
<1>3. Len(sends') = Len(sends) + 1
  BY <1>1, <1>2
<1>4. /\ Len(pendingResponseOptions') = Len(pendingResponseOptions) + 1
      /\ pendingResponseOptions'[Len(pendingResponseOptions) + 1] = Len(sends) + 1
      /\ \A i \in 1 .. Len(pendingResponseOptions) : pendingResponseOptions'[i] = pendingResponseOptions[i]
  BY <1>1, <1>2, <1>3, AppendProperties
<1>5. Answered' = Answered /\ situations \subseteq situations'
  BY <1>1, <1>2, <1>3, <1>4 DEF Answered, SendAsync
<1>6. ASSUME Own' PROVE Own /\ OwnFacts /\ PendingInOrder'
  <2>1. Own /\ OwnFacts
    BY <1>1, <1>5, <1>6 DEF Own, OwnInv
  <2>2. \A i \in 1 .. Len(pendingResponseOptions') :
           i \in 1 .. Len(pendingResponseOptions) \/ i = Len(pendingResponseOptions) + 1
    BY <1>2, <1>4
  <2>3. Answered + (Len(pendingResponseOptions) + 1) = Len(sends) + 1
    BY <1>2 DEF Answered
  <2>4. \A i \in 1 .. Len(pendingResponseOptions) : pendingResponseOptions[i] = Answered + i
    BY <2>1 DEF OwnFacts, PendingInOrder
  <2>5. Len(pendingResponseOptions') <= Len(sends')
    BY <1>2, <1>3, <1>4, <2>1 DEF OwnFacts, PendingInOrder
  <2>6. \A i \in 1 .. Len(pendingResponseOptions') : pendingResponseOptions'[i] = Answered' + i
    BY <1>4, <1>5, <2>2, <2>3, <2>4
  <2> QED BY <2>1, <2>5, <2>6 DEF PendingInOrder
<1>7. CASE /\ sendQueue' = Append(sendQueue, [send |-> Len(sends'), then |-> "plain"])
           /\ UNCHANGED <<parserVars, connectionVars>>
  <2> SUFFICES ASSUME Own' PROVE OwnFacts'
    BY DEF OwnInv
  <2>0. UNCHANGED <<open, stream>>
    BY <1>7 DEF connectionVars
  <2>1. /\ Own /\ OwnFacts /\ PendingInOrder'
        /\ open => QueueOfRequests /\ WireOfRequests /\ AnswersOfRequests
    BY <1>6 DEF OwnFacts
  <2> DEFINE last == [send |-> Len(sends) + 1, then |-> "plain"]
  <2>2. last \in [send : Nat, then : Then] /\ last.send = Len(sends) + 1 /\ last.then = "plain"
        /\ sendQueue' = Append(sendQueue, last)
    BY <1>2, <1>3, <1>7 DEF Then
  <2> HIDE DEF last
  <2>3. /\ Len(sendQueue') = Len(sendQueue) + 1 /\ sendQueue'[Len(sendQueue) + 1] = last
        /\ \A i \in 1 .. Len(sendQueue) : sendQueue'[i] = sendQueue[i]
    BY <1>2, <2>2, AppendProperties
  <2>4. Written' = Written /\ \A n : OnWire(n)' <=> OnWire(n)
    BY <1>1, <1>2, <1>3, <2>3 DEF Written, OnWire
  <2>5. Arriving' = Arriving /\ Live' = Live
    BY <1>1, <2>0 DEF Arriving, Unread, Held, Live
  <2>6. AnswersOnce'
    <3>1. \A n \in 1 .. Len(sends) : n \in 1 .. Len(sends')
      BY <1>2, <1>3
    <3> QED BY <1>1, <2>1, <3>1 DEF OwnFacts, AnswersOnce
  <2>7. AnswersInOrder' /\ ParserAsked' /\ WireOfConnections' /\ OptionsOwn'
    BY <1>1, <1>5, <1>7, <2>1, <2>5
    DEF OwnFacts, AnswersInOrder, ParserAsked, WireOfConnections, OptionsOwn, parserVars
  <2>8. ASSUME open PROVE QueueOfRequests'
    <3>1. \A i \in 1 .. Len(sendQueue') : i \in 1 .. Len(sendQueue) \/ i = Len(sendQueue) + 1
      BY <1>2, <2>3
    <3>2. Written + (Len(sendQueue) + 1) = Len(sends) + 1
      BY <1>2 DEF Written
    <3>3. \A i \in 1 .. Len(sendQueue) : sendQueue[i].send = Written + i /\ sendQueue[i].then = "plain"
      BY <2>1, <2>8 DEF QueueOfRequests
    <3>4. \A i \in 1 .. Len(sendQueue') : sendQueue'[i].send = Written' + i /\ sendQueue'[i].then = "plain"
      BY <2>2, <2>3, <2>4, <3>1, <3>2, <3>3
    <3> QED BY <1>5, <2>1, <2>4, <2>8, <3>4 DEF QueueOfRequests
  <2>9. ASSUME open PROVE WireOfRequests'
    BY <1>1, <1>5, <2>1, <2>4, <2>9 DEF WireOfRequests
  <2>10. ASSUME open PROVE AnswersOfRequests'
    BY <1>1, <1>5, <1>7, <2>1, <2>4, <2>5, <2>10 DEF AnswersOfRequests, parserVars
  <2> QED BY <2>0, <2>1, <2>6, <2>7, <2>8, <2>9, <2>10 DEF OwnFacts
<1>8. CASE situations' = situations \union {"refused"}
  BY <1>8 DEF OwnInv, Own
<1>9. CASE OnDisconnected(pendingResponseOptions')
  <2>1. /\ open' = FALSE /\ stream' = <<>> /\ state' \notin Reading
        /\ state' = "AwaitingUserRequest" => pendingResponseOptions' = <<>>
    BY <1>1, <1>9 DEF OnDisconnected, ResetIncomingHttpState, Reading
  <2>2. Len(sends') \in Nat /\ Len(sends) <= Len(sends')
    BY <1>2, <1>3
  <2> QED BY <1>1, <1>5, <1>6, <2>1, <2>2, OwnClosed
<1> QED BY <1>1, <1>7, <1>8, <1>9 DEF SendAsync

LEMMA OwnWrites == Types /\ SendTypes /\ OwnInv /\ WriteNext => OwnInv'
<1> SUFFICES ASSUME Types, SendTypes, OwnInv, WriteNext, Own' PROVE OwnFacts'
  BY DEF OwnInv
<1>0. /\ open /\ UNCHANGED <<serverSide, prepended, input, pendingResponseOptions, sends,
                             connection, messages, delivered>>
      /\ situations \subseteq situations'
  <2>1. open /\ UNCHANGED <<serverSide, prepended, input, pendingResponseOptions, sends,
                            connection, messages, delivered>>
    BY Wrote
  <2>2. \/ situations' = situations
        \/ situations' = situations \union (IF state \in Reading THEN {"overtaken"} ELSE {})
    BY Wrote
  <2> QED BY <2>1, <2>2
<1>2. Own /\ OwnFacts /\ ~serverSide /\ QueueOfRequests /\ WireOfRequests /\ AnswersOfRequests
  BY <1>0 DEF Own, OwnInv, OwnFacts
<1>3. /\ Answered \in Nat /\ Written \in Int /\ Len(sends) \in Nat /\ Len(sendQueue) \in Nat
      /\ Len(wire) \in Nat /\ connection \in Nat
  BY <1>2, Counts DEF OwnFacts
<1>4. PICK first \in [send : Nat, then : Then], rest \in Seq([send : Nat, then : Then]) :
         /\ first = sendQueue[1] /\ Len(sendQueue) \in Nat \ {0}
         /\ Len(rest) = Len(sendQueue) - 1 /\ \A i \in 1 .. Len(rest) : rest[i] = sendQueue[i + 1]
         /\ wire' = Append(wire, [connection |-> connection, send |-> first.send])
         /\ first.then = "plain" => OnPayloadSent /\ sendQueue' = rest
  BY WroteFirst
<1>5. first.send = Written + 1 /\ first.then = "plain"
  <2>1. 1 \in 1 .. Len(sendQueue)
    BY <1>4
  <2> QED BY <1>2, <1>4, <2>1 DEF QueueOfRequests
<1>6. /\ state' = "AwaitingResponse" /\ sendQueue' = rest
  BY <1>2, <1>4, <1>5 DEF OnPayloadSent
<1>1. /\ open /\ UNCHANGED <<serverSide, activeHeaders, prepended, input, pendingResponseOptions, sends, open,
                             stream, connection, messages, delivered>>
      /\ situations \subseteq situations'
  BY <1>0, <1>4, <1>5 DEF OnPayloadSent, connectionVars
<1>7. Answered' = Answered /\ Written' = Written + 1 /\ Written + 1 \in Nat
  <2>1. Len(sendQueue') = Len(sendQueue) - 1
    BY <1>4, <1>6
  <2>2. Written + 1 \in Nat
    BY <1>4, <1>5
  <2> QED BY <1>1, <1>3, <2>1, <2>2 DEF Answered, Written
<1> DEFINE last == [connection |-> connection, send |-> Written + 1]
<1>8. /\ last \in [connection : Nat, send : Nat] /\ wire' = Append(wire, last)
      /\ last.connection = connection /\ last.send = Written + 1
  BY <1>3, <1>4, <1>5, <1>7
<1> HIDE DEF last
<1>9. /\ Len(wire') = Len(wire) + 1 /\ wire'[Len(wire) + 1] = last
      /\ \A w \in 1 .. Len(wire) : wire'[w] = wire[w]
  <2> DEFINE S == [connection : Nat, send : Nat]
  <2>1. wire \in Seq(S) /\ last \in S
    BY <1>8 DEF SendTypes
  <2> HIDE DEF S
  <2> QED BY <1>8, <2>1, AppendProperties
<1>10. \A w \in 1 .. Len(wire') : w \in 1 .. Len(wire) \/ w = Len(wire) + 1
  BY <1>3, <1>9
<1>11. \A n \in Nat : OnWire(n)' <=> OnWire(n) \/ n = Written + 1
  <2>1. ASSUME NEW n \in Nat, OnWire(n)' PROVE OnWire(n) \/ n = Written + 1
    BY <1>1, <1>8, <1>9, <1>10, <2>1 DEF OnWire
  <2>2. ASSUME NEW n \in Nat, OnWire(n) PROVE OnWire(n)'
    <3>1. PICK w \in 1 .. Len(wire) : wire[w].connection = connection /\ wire[w].send = n
      BY <2>2 DEF OnWire
    <3>2. w \in 1 .. Len(wire')
      BY <1>3, <1>9
    <3> QED BY <1>1, <1>9, <3>1, <3>2 DEF OnWire
  <2>3. ASSUME NEW n \in Nat, n = Written + 1 PROVE OnWire(n)'
    <3>1. Len(wire) + 1 \in 1 .. Len(wire')
      BY <1>3, <1>9
    <3>2. wire'[Len(wire) + 1].connection = connection' /\ wire'[Len(wire) + 1].send = n
      BY <1>1, <1>8, <1>9, <2>3
    <3> QED BY <3>1, <3>2 DEF OnWire
  <2> QED BY <2>1, <2>2, <2>3
<1>12. Arriving' = Arriving
  BY <1>1 DEF Arriving, Unread, Held
<1>13. PendingInOrder' /\ AnswersOnce' /\ AnswersInOrder' /\ OptionsOwn'
  BY <1>1, <1>2, <1>7, <1>12 DEF OwnFacts, PendingInOrder, AnswersOnce, AnswersInOrder, OptionsOwn
<1>14. ParserAsked'
  BY <1>6 DEF ParserAsked, Reading
<1>15. WireOfConnections'
  BY <1>1, <1>2, <1>3, <1>8, <1>9, <1>10 DEF OwnFacts, WireOfConnections
<1>16. QueueOfRequests'
  <2>1. \A i \in 1 .. Len(sendQueue') : i + 1 \in 1 .. Len(sendQueue) /\ Written + (i + 1) = Written' + i
    BY <1>3, <1>4, <1>6, <1>7
  <2>2. \A i \in 1 .. Len(sendQueue') : sendQueue'[i].send = Written' + i /\ sendQueue'[i].then = "plain"
    BY <1>2, <1>4, <1>6, <2>1 DEF QueueOfRequests
  <2>3. Answered' <= Written'
    BY <1>2, <1>3, <1>7 DEF QueueOfRequests
  <2> QED BY <2>2, <2>3 DEF QueueOfRequests
<1>17. WireOfRequests'
  <2>1. ASSUME NEW n \in Answered + 1 .. Written + 1 PROVE OnWire(n)'
    <3>1. n \in Nat /\ (n \in Answered + 1 .. Written \/ n = Written + 1)
      BY <1>3
    <3> QED BY <1>2, <1>11, <3>1 DEF WireOfRequests
  <2>2. ASSUME NEW n \in Nat, OnWire(n)'
        PROVE  /\ n <= Written + 1
               /\ n <= Answered => \E m \in 1 .. Len(messages) : messages[m].answers = n
    <3>1. CASE OnWire(n)
      BY <1>2, <1>3, <3>1 DEF WireOfRequests
    <3>2. CASE n = Written + 1
      BY <1>2, <1>3, <3>2 DEF QueueOfRequests
    <3> QED BY <1>11, <2>2, <3>1, <3>2
  <2> QED BY <1>1, <1>7, <2>1, <2>2 DEF WireOfRequests
<1>18. AnswersOfRequests'
  <2>1. ASSUME NEW m \in 1 .. Len(messages), messages[m].answers # None
        PROVE  /\ messages[m].answers <= Written + 1
               /\ messages[m].answers > Answered => m \in Arriving
    <3>1. messages[m].answers \in Nat
      BY <1>2, <2>1 DEF OwnFacts, AnswersOnce
    <3>2. /\ messages[m].answers <= Written
          /\ messages[m].answers > Answered => m \in Arriving
      BY <1>2, <2>1 DEF AnswersOfRequests
    <3> QED BY <1>3, <3>1, <3>2
  <2> QED BY <1>1, <1>6, <1>7, <1>12, <2>1 DEF AnswersOfRequests
<1> QED BY <1>13, <1>14, <1>15, <1>16, <1>17, <1>18 DEF OwnFacts

LEMMA OwnOpens == Types /\ SendTypes /\ OwnInv /\ OpenEndpoint => OwnInv'
<1> SUFFICES ASSUME Types, SendTypes, OwnInv, OpenEndpoint, Own' PROVE OwnFacts'
  BY DEF OwnInv
<1>1. /\ input = <<>> /\ ~serverSide /\ ~open /\ stream' = <<>> /\ connection' = connection + 1
      /\ situations' = situations \union
           (IF \/ state \in Reading
               \/ <<prepended, chunkedBody, pendingResponseOptions, sendQueue>> # <<<<>>, <<>>, <<>>, <<>>>>
            THEN {"residue"} ELSE {})
      /\ UNCHANGED <<serverSide, prepended, input, state, pendingResponseOptions, sends, sendQueue, wire,
                     messages, delivered>>
  BY DEF OpenEndpoint, Idle, ConnectionUnchanged, parserVars
<1>2. prepended = <<>> /\ pendingResponseOptions = <<>> /\ sendQueue = <<>>
  BY <1>1 DEF Own
<1>3. Own /\ OwnFacts
  BY <1>1 DEF Own, OwnInv
<1>4. /\ Len(sends) \in Nat /\ Len(wire) \in Nat /\ connection \in Nat /\ Len(<<>>) = 0
  BY Counts
<1>5. Answered' = Len(sends) /\ Written' = Len(sends) /\ Answered = Len(sends)
  BY <1>1, <1>2, <1>4 DEF Answered, Written
<1>6. state \notin Reading
  BY <1>1 DEF Own
<1>7. Arriving' = {}
  <2>1. Held' = <<>>
    BY <1>1, <1>2 DEF Held
  <2>2. <<>> \o <<>> = <<>>
    BY ConcatEmptySeq, EmptySeq
  <2>3. Unread' = <<>>
    BY <1>1, <2>1, <2>2 DEF Unread
  <2> QED BY <1>4, <2>3 DEF Arriving
<1>8. PendingInOrder' /\ AnswersOnce' /\ OptionsOwn'
  BY <1>1, <1>3, <1>5 DEF OwnFacts, PendingInOrder, AnswersOnce, OptionsOwn
<1>9. AnswersInOrder' /\ ParserAsked'
  BY <1>1, <1>6, <1>7 DEF AnswersInOrder, ParserAsked
<1>10. ASSUME NEW w \in 1 .. Len(wire)
       PROVE  wire[w].connection <= connection + 1 /\ wire[w].connection # connection + 1
  <2>1. wire[w].connection <= connection
    BY <1>3 DEF OwnFacts, WireOfConnections
  <2>2. wire[w].connection \in Nat
    <3> DEFINE S == [connection : Nat, send : Nat]
    <3>1. wire \in Seq(S)
      BY DEF SendTypes
    <3> HIDE DEF S
    <3>2. wire[w] \in S
      BY <3>1, ElementOfSeq
    <3> QED BY <3>2 DEF S
  <2> QED BY <1>4, <2>1, <2>2
<1>11. WireOfConnections'
  BY <1>1, <1>10 DEF WireOfConnections
<1>12. QueueOfRequests'
  BY <1>1, <1>2, <1>4, <1>5 DEF QueueOfRequests
<1>13. WireOfRequests'
  <2>1. \A n : ~OnWire(n)'
    BY <1>1, <1>10 DEF OnWire
  <2>2. Answered' + 1 .. Written' = {}
    BY <1>4, <1>5
  <2> QED BY <2>1, <2>2 DEF WireOfRequests
<1>14. AnswersOfRequests'
  <2>1. ASSUME NEW m \in 1 .. Len(messages), messages[m].answers # None
        PROVE  messages[m].answers <= Len(sends) /\ ~(messages[m].answers > Len(sends))
    <3>1. messages[m].answers \in 1 .. Len(sends)
      BY <1>3, <2>1 DEF OwnFacts, AnswersOnce
    <3> QED BY <1>4, <3>1
  <2> QED BY <1>1, <1>5, <2>1 DEF AnswersOfRequests
<1> QED BY <1>8, <1>9, <1>11, <1>12, <1>13, <1>14 DEF OwnFacts

(* What a message of the peer may answer. *)
LEMMA UnansweredHas ==
    ASSUME Types, SendTypes, NEW n \in Nat
    PROVE  n \in Unanswered <=> /\ n \in 1 .. Len(sends) /\ OnWire(n)
                                /\ \A m \in 1 .. Len(messages) : messages[m].answers # n
<1> DEFINE S == [connection : Nat, send : Nat]
<1>1. wire \in Seq(S) /\ DOMAIN wire = 1 .. Len(wire)
  BY DEF SendTypes
<1>2. DOMAIN sends = 1 .. Len(sends) /\ DOMAIN messages = 1 .. Len(messages) /\ connection \in Nat
  BY DEF SendTypes, Types, HistoryTypes
<1> HIDE DEF S
<1>3. \A w \in 1 .. Len(wire) : wire[w] \in S
  BY <1>1, ElementOfSeq
<1>4. ASSUME NEW w \in 1 .. Len(wire)
      PROVE  wire[w] = [connection |-> connection, send |-> n]
                <=> wire[w].connection = connection /\ wire[w].send = n
  <2>1. wire[w] \in [connection : Nat, send : Nat]
    BY <1>3 DEF S
  <2> QED BY <2>1
<1>5. [connection |-> connection, send |-> n] \in Range(wire) <=> OnWire(n)
  BY <1>1, <1>4 DEF Range, OnWire
<1> QED BY <1>2, <1>5 DEF Unanswered

LEMMA PeerUnread ==
    ASSUME Types, SendTypes, NEW kind \in Kinds, PeerSends(kind), NEW last \in Nat, last = Len(messages)
    PROVE  Arriving' = Arriving \union {last + 1}
<1>0. BufferTypes /\ HistoryTypes /\ UNCHANGED <<prepended, input>>
  BY DEF Types, PeerSends, readVars
<1>4. Len(messages') = last + 1 /\ stream' = stream \o Tokens(Len(messages'), kind)
  BY PeerSent
<1>5. kind \in AllKinds
  BY HttpAssumption DEF AllKinds
<1> DEFINE more == Tokens(last + 1, kind)
<1>5a. Size(kind) \in Nat \ {0} /\ last + 1 \in Nat
  BY <1>5 DEF Size, AllKinds
<1>5b. /\ more \in Seq(Token) /\ Len(more) = Size(kind)
       /\ \A i \in 1 .. Size(kind) : more[i] = [m |-> last + 1, k |-> i]
  BY <1>5, <1>5a, TokensOfMessage
<1>6. /\ more \in Seq(Token) /\ Len(more) = Size(kind) /\ Len(more) \in Nat \ {0}
      /\ \A i \in 1 .. Len(more) : more[i] = [m |-> last + 1, k |-> i]
  BY <1>5a, <1>5b
<1>7. stream' = stream \o more
  BY <1>4
<1>8. Unread \in Seq(Token) /\ Len(Unread) \in Nat
  BY <1>0, UnreadFacts
<1>9. Unread' = Unread \o more
  <2>1. Held' = Held /\ Held \in Seq(Token) /\ stream \in Seq(Token)
    BY <1>0 DEF Held, BufferTypes
  <2> HIDE DEF more
  <2>2. Held \o (stream \o more) = (Held \o stream) \o more
    BY <1>6, <2>1, ConcatAssociative
  <2> QED BY <1>7, <2>1, <2>2 DEF Unread
<1> HIDE DEF more
<1>12. /\ Len(Unread') = Len(Unread) + Len(more)
       /\ \A i \in 1 .. Len(Unread) : Unread'[i] = Unread[i]
       /\ \A i \in 1 .. Len(more) : Unread'[Len(Unread) + i] = more[i]
  <2>1. /\ Len(Unread \o more) = Len(Unread) + Len(more)
        /\ \A i \in 1 .. Len(Unread) : (Unread \o more)[i] = Unread[i]
        /\ \A i \in 1 .. Len(more) : (Unread \o more)[Len(Unread) + i] = more[i]
    BY <1>6, <1>8, Joined
  <2> QED BY <1>9, <2>1
<1>13. ASSUME NEW m \in Arriving' PROVE m \in Arriving \union {last + 1}
  <2>1. PICK i \in 1 .. Len(Unread') : Unread'[i].m = m
    BY DEF Arriving
  <2>2. CASE i <= Len(Unread)
    <3>1. i \in 1 .. Len(Unread)
      BY <1>8, <2>2
    <3> QED BY <1>12, <2>1, <3>1 DEF Arriving
  <2>3. CASE i > Len(Unread)
    <3>1. i - Len(Unread) \in 1 .. Len(more) /\ Len(Unread) + (i - Len(Unread)) = i
      BY <1>6, <1>8, <1>12, <2>3
    <3>2. Unread'[i] = more[i - Len(Unread)]
      BY <1>12, <3>1
    <3> QED BY <1>6, <2>1, <3>1, <3>2
  <2> QED BY <1>8, <1>12, <2>2, <2>3
<1>14. ASSUME NEW m \in Arriving PROVE m \in Arriving'
  <2>1. PICK i \in 1 .. Len(Unread) : Unread[i].m = m
    BY DEF Arriving
  <2>2. i \in 1 .. Len(Unread')
    BY <1>6, <1>8, <1>12
  <2> QED BY <1>12, <2>1, <2>2 DEF Arriving
<1>15. last + 1 \in Arriving'
  <2>1. /\ 1 \in 1 .. Len(more) /\ Len(Unread) + 1 \in 1 .. Len(Unread')
    BY <1>6, <1>8, <1>12
  <2>2. Unread'[Len(Unread) + 1].m = last + 1
    BY <1>6, <1>12, <2>1
  <2> QED BY <2>1, <2>2 DEF Arriving
<1> QED BY <1>13, <1>14, <1>15

LEMMA OwnPeer ==
    ASSUME Types, SendTypes, WholeInv, OwnInv, NEW kind \in Kinds, PeerSends(kind)
    PROVE  OwnInv'
<1> SUFFICES ASSUME Own' PROVE OwnFacts'
  BY DEF OwnInv
<1>1. /\ open
      /\ UNCHANGED <<serverSide, state, activeHeaders, input, pendingResponseOptions, sends, sendQueue, wire,
                     open, connection, delivered, situations>>
  BY DEF PeerSends, readVars, parserVars, sendVars
<1>2. Own /\ OwnFacts /\ ~serverSide /\ QueueOfRequests /\ WireOfRequests /\ AnswersOfRequests
  BY <1>1 DEF Own, OwnInv, OwnFacts
<1>3. Orderly(Unread, messages) /\ DeliveredWhole
  BY <1>2 DEF WholeInv, Clean, Own
<1>4. /\ Answered \in Nat /\ Written \in Int /\ Len(sends) \in Nat /\ Len(messages) \in Nat
      /\ Len(delivered) \in Nat /\ None \notin Nat
  BY <1>2, Counts, HttpAssumption DEF OwnFacts
<1>5. PICK last \in Nat : last = Len(messages)
  BY <1>4
<1>6. PICK answers \in Nat \union {None} :
         /\ answers \in Nat => answers \in Oldest(Unanswered)
         /\ Len(messages') = Len(messages) + 1
         /\ messages'[Len(messages) + 1] =
               [kind |-> kind, connection |-> connection, answers |-> answers]
         /\ \A m \in 1 .. Len(messages) : messages'[m] = messages[m]
  BY PeerSent
<1>7. /\ Len(messages') = last + 1 /\ messages'[last + 1].answers = answers
      /\ \A m \in 1 .. last : messages'[m] = messages[m]
      /\ \A m \in 1 .. last + 1 : m \in 1 .. last \/ m = last + 1
  BY <1>5, <1>6
<1>8. Arriving' = Arriving \union {last + 1} /\ \A m \in Arriving : m \in 1 .. last
  BY <1>3, <1>5, Arrives, PeerUnread
<1>9. Answered' = Answered /\ Written' = Written /\ \A n : OnWire(n)' <=> OnWire(n)
  BY <1>1 DEF Answered, Written, OnWire
<1>10. ASSUME answers # None
       PROVE  /\ answers \in 1 .. Len(sends) /\ \A m \in 1 .. last : messages[m].answers # answers
              /\ answers > Answered /\ answers <= Written
              /\ \A n \in Answered + 1 .. answers - 1 : \E o \in Arriving : o < last + 1 /\ messages[o].answers = n
  <2>1. answers \in Nat /\ answers \in Unanswered /\ \A other \in Unanswered : answers <= other
    BY <1>6, <1>10 DEF Oldest
  <2>2. /\ answers \in 1 .. Len(sends) /\ OnWire(answers)
        /\ \A m \in 1 .. last : messages[m].answers # answers
    BY <1>5, <2>1, UnansweredHas
  <2>3. answers <= Written /\ ~(answers <= Answered)
    BY <1>2, <1>5, <2>1, <2>2 DEF WireOfRequests
  <2>4. ASSUME NEW n \in Answered + 1 .. answers - 1
        PROVE  \E o \in Arriving : o < last + 1 /\ messages[o].answers = n
    <3>1. n \in Nat /\ n \in Answered + 1 .. Written /\ n \in 1 .. Len(sends) /\ ~(answers <= n) /\ n > Answered
      BY <1>4, <2>1, <2>2, <2>3
    <3>2. OnWire(n) /\ n \notin Unanswered
      BY <1>2, <2>1, <3>1 DEF WireOfRequests
    <3>3. PICK o \in 1 .. last : messages[o].answers = n
      BY <1>5, <3>1, <3>2, UnansweredHas
    <3>4. o \in Arriving
      BY <1>2, <1>4, <1>5, <3>1, <3>3 DEF AnswersOfRequests
    <3>5. o < last + 1
      BY <3>3
    <3> QED BY <3>3, <3>4, <3>5
  <2>5. answers > Answered
    BY <1>4, <2>1, <2>3
  <2> QED BY <2>2, <2>3, <2>4, <2>5
<1>11. AnswersOnce'
  <2>1. \A m \in 1 .. last + 1 : messages'[m].answers \in 1 .. Len(sends) \union {None}
    BY <1>2, <1>5, <1>7, <1>10 DEF OwnFacts, AnswersOnce
  <2>2. ASSUME NEW m \in 1 .. last + 1, NEW o \in 1 .. last + 1, m # o,
               messages'[m].answers = messages'[o].answers
        PROVE  messages'[m].answers = None
    <3>1. CASE m \in 1 .. last /\ o \in 1 .. last
      BY <1>2, <1>5, <1>7, <2>2, <3>1 DEF OwnFacts, AnswersOnce
    <3>2. CASE m \in 1 .. last /\ o = last + 1
      BY <1>7, <1>10, <2>2, <3>2
    <3>3. CASE m = last + 1 /\ o \in 1 .. last
      BY <1>7, <1>10, <2>2, <3>3
    <3> QED BY <1>7, <2>2, <3>1, <3>2, <3>3
  <2> QED BY <1>1, <1>7, <2>1, <2>2 DEF AnswersOnce
<1>12. AnswersInOrder'
  <2> SUFFICES ASSUME NEW m \in Arriving', messages'[m].answers # None
               PROVE  /\ messages'[m].answers > Answered
                      /\ \A n \in Answered + 1 .. messages'[m].answers - 1 :
                            \E o \in Arriving' : o < m /\ messages'[o].answers = n
    BY <1>9 DEF AnswersInOrder
  <2>1. CASE m \in Arriving
    <3>1. messages'[m].answers = messages[m].answers
      BY <1>7, <1>8, <2>1
    <3>2. /\ messages[m].answers > Answered
          /\ \A n \in Answered + 1 .. messages[m].answers - 1 :
                \E o \in Arriving : o < m /\ messages[o].answers = n
      BY <1>2, <2>1, <3>1 DEF OwnFacts, AnswersInOrder
    <3> QED BY <1>7, <1>8, <3>1, <3>2
  <2>2. CASE m = last + 1
    BY <1>7, <1>8, <1>10, <2>2
  <2> QED BY <1>8, <2>1, <2>2
<1>13. ParserAsked'
  <2>1. ASSUME state = "AwaitingUserRequest", NEW m \in Arriving' PROVE messages'[m].answers = None
    <3>1. CASE m \in Arriving
      BY <1>2, <1>7, <1>8, <2>1, <3>1 DEF OwnFacts, ParserAsked
    <3>2. CASE m = last + 1
      <4>1. Answered = Written
        BY <1>2, <2>1 DEF AnswersOfRequests
      <4> QED BY <1>4, <1>7, <1>10, <3>2, <4>1
    <3> QED BY <1>8, <3>1, <3>2
  <2>2. ASSUME Live', state \in Reading
        PROVE  activeHeaders \in 1 .. last + 1 /\ messages'[activeHeaders].answers # None
    <3>1. activeHeaders \in 1 .. last /\ messages[activeHeaders].answers # None
      BY <1>1, <1>2, <1>5, <2>2 DEF Live, OwnFacts, ParserAsked
    <3> QED BY <1>7, <3>1
  <2> QED BY <1>1, <1>7, <2>1, <2>2 DEF ParserAsked
<1>14. OptionsOwn'
  <2>1. \A i \in 1 .. Len(delivered) : delivered[i].m \in 1 .. last
    BY <1>3, <1>5, DeliveredMessages
  <2> QED BY <1>1, <1>2, <1>7, <2>1 DEF OwnFacts, OptionsOwn
<1>15. PendingInOrder' /\ WireOfConnections'
  BY <1>1, <1>2, <1>9 DEF OwnFacts, PendingInOrder, WireOfConnections
<1>16. QueueOfRequests'
  BY <1>1, <1>2, <1>9 DEF QueueOfRequests
<1>17. WireOfRequests'
  <2>1. ASSUME NEW n \in Nat, OnWire(n)
        PROVE  /\ n <= Written
               /\ n <= Answered => \E m \in 1 .. last + 1 : messages'[m].answers = n
    <3>1. /\ n <= Written
          /\ n <= Answered => \E m \in 1 .. last : messages[m].answers = n
      BY <1>2, <1>5, <2>1 DEF WireOfRequests
    <3>2. \A m \in 1 .. last : m \in 1 .. last + 1 /\ messages'[m] = messages[m]
      BY <1>7
    <3> QED BY <3>1, <3>2
  <2> QED BY <1>2, <1>7, <1>9, <2>1 DEF WireOfRequests
<1>18. AnswersOfRequests'
  <2>1. ASSUME NEW m \in 1 .. last + 1, messages'[m].answers # None
        PROVE  /\ messages'[m].answers <= Written
               /\ messages'[m].answers > Answered => m \in Arriving'
    <3>1. CASE m \in 1 .. last
      BY <1>2, <1>5, <1>7, <1>8, <2>1, <3>1 DEF AnswersOfRequests
    <3>2. CASE m = last + 1
      BY <1>7, <1>8, <1>10, <2>1, <3>2
    <3> QED BY <1>7, <3>1, <3>2
  <2> QED BY <1>1, <1>2, <1>7, <1>9, <2>1 DEF AnswersOfRequests
<1> QED BY <1>11, <1>12, <1>13, <1>14, <1>15, <1>16, <1>17, <1>18 DEF OwnFacts

(* Some of what arrives is consumed. *)
LEMMA ArrivingTaken ==
    ASSUME BufferTypes, input # <<>>, NEW n \in Nat, n <= Len(input), Take(n),
           UNCHANGED <<prepended, stream>>, NEW h, \A i \in 1 .. n : input[i].m = h
    PROVE  /\ Arriving' \subseteq Arriving /\ Arriving \subseteq Arriving' \union {h}
           /\ input[1].m \in Arriving /\ Unread' \in Seq(Token)
<1>1. /\ Unread' \in Seq(Token) /\ Len(Unread) \in Nat
      /\ Len(Unread') = Len(Unread) - n /\ Len(input) \in 1 .. Len(Unread)
      /\ \A i \in 1 .. Len(Unread') : Unread'[i] = Unread[i + n]
      /\ \A i \in 1 .. Len(input) : Unread[i] = input[i]
  BY UnreadTaken
<1>2. ASSUME NEW m \in Arriving' PROVE m \in Arriving
  <2>1. PICK i \in 1 .. Len(Unread') : Unread'[i].m = m
    BY DEF Arriving
  <2>2. i + n \in 1 .. Len(Unread)
    BY <1>1
  <2> QED BY <1>1, <2>1, <2>2 DEF Arriving
<1>3. ASSUME NEW m \in Arriving PROVE m \in Arriving' \union {h}
  <2>1. PICK i \in 1 .. Len(Unread) : Unread[i].m = m
    BY DEF Arriving
  <2>2. CASE i <= n
    <3>1. i \in 1 .. n /\ i \in 1 .. Len(input)
      BY <1>1, <2>2
    <3> QED BY <1>1, <2>1, <3>1
  <2>3. CASE i > n
    <3>1. PICK j \in 1 .. Len(Unread') : i = j + n
      <4>1. i - n \in 1 .. Len(Unread') /\ i = (i - n) + n
        BY <1>1, <2>3
      <4> QED BY <4>1
    <3>2. Unread'[j].m = m
      BY <1>1, <2>1, <3>1
    <3> QED BY <3>2 DEF Arriving
  <2> QED BY <1>1, <2>2, <2>3
<1>4. input[1].m \in Arriving
  <2>1. 1 \in 1 .. Len(Unread) /\ Unread[1] = input[1]
    BY <1>1
  <2> QED BY <2>1 DEF Arriving
<1> QED BY <1>1, <1>2, <1>3, <1>4

(* The parser is, and stays, within a message. *)
LEMMA OwnReads ==
    ASSUME Types, SendTypes, WholeInv, OwnInv, WholeInv', Shut', situations \subseteq situations',
           input # <<>>, NEW n \in Nat, n <= Len(input), Take(n),
           UNCHANGED <<serverSide, prepended, stream, pendingResponseOptions, sends, sendQueue, wire, open,
                       connection, messages, delivered>>,
           NEW h, \A i \in 1 .. n : input[i].m = h, activeHeaders' = h, state' \in Reading,
           Own' => h \in 1 .. Len(messages) /\ messages[h].answers # None
    PROVE  OwnInv'
<1>1. BufferTypes
  BY DEF Types
<1>2. /\ Arriving' \subseteq Arriving /\ Arriving \subseteq Arriving' \union {h}
      /\ Unread' \in Seq(Token)
  BY <1>1, ArrivingTaken
<1>3. ASSUME Own', Live' PROVE h \in Arriving'
  <2>1. HeadFits'
    BY <1>3 DEF WholeInv, Clean, Own
  <2>2. Unread' # <<>>
    BY <1>3, <2>1 DEF HeadFits
  <2>3. 1 \in 1 .. Len(Unread')
    BY <1>2, <2>2, EmptySeq
  <2>4. PICK t \in Token : t = Unread'[1]
    BY <1>2, <2>3, ElementOfSeq
  <2>5. Fitting(t)'
    BY <1>3, <2>1, <2>2, <2>4 DEF HeadFits
  <2>6. t.m = h
    BY <2>5 DEF Fitting, AtStart, AtHeader, AtContent, AtChunk, Reading
  <2> QED BY <2>3, <2>4, <2>6 DEF Arriving
<1>4. ASSUME ~Live' PROVE ~open /\ Arriving' = {}
  <2>1. ~open /\ input' = <<>> /\ stream' = <<>>
    BY <1>4 DEF Live, Shut
  <2>2. prepended' = <<>>
    BY <1>1 DEF BufferTypes
  <2>3. <<>> \o <<>> = <<>> /\ Len(<<>>) = 0
    BY ConcatEmptySeq, EmptySeq
  <2>4. Unread' = <<>>
    BY <2>1, <2>2, <2>3 DEF Unread, Held
  <2> QED BY <2>1, <2>3, <2>4 DEF Arriving
<1>5. Own' => \/ Arriving' = {} /\ ~open
              \/ Arriving' \subseteq Arriving /\ \A m \in Arriving : m \in Arriving' \/ messages[m].answers = None
  BY <1>2, <1>3, <1>4
<1>6. state' # "AwaitingUserRequest"
  BY DEF Reading
<1> QED BY <1>5, <1>6, OwnKeeps

LEMMA OwnGoesOn ==
    ASSUME Types, SendTypes, WholeInv, OwnInv, WholeInv', Shut', situations \subseteq situations',
           input # <<>>, NEW n \in Nat, n <= Len(input), Take(n),
           ReadUnchanged, NoDispatch, UNCHANGED activeHeaders, state \in Reading, state' \in Reading,
           \A i \in 1 .. n : input[i].m = activeHeaders
    PROVE  OwnInv'
<1>1. PICK h : h = activeHeaders
  OBVIOUS
<1>2. UNCHANGED <<serverSide, prepended, stream, pendingResponseOptions, sends, sendQueue, wire, open,
                  connection, messages, delivered>>
  BY DEF ReadUnchanged, NoDispatch, sendVars, peerVars, connectionVars
<1>3. Own' => h \in 1 .. Len(messages) /\ messages[h].answers # None
  BY <1>1, <1>2 DEF Own, OwnInv, OwnFacts, ParserAsked, Live
<1>4. (\A i \in 1 .. n : input[i].m = h) /\ activeHeaders' = h
  BY <1>1
<1> QED BY <1>2, <1>3, <1>4, OwnReads

(* A message ends. *)
LEMMA OwnEnds ==
    ASSUME Types, SendTypes, WholeInv, OwnInv, WholeInv', situations \subseteq situations',
           input # <<>>, NEW n \in Nat, n <= Len(input), Take(n), n # 0,
           NEW body \in Seq(Token), DispatchPayload(body), ReadUnchanged, state \in Reading,
           \A i \in 1 .. n : input[i].m = activeHeaders
    PROVE  OwnInv'
<1>1. ParserTypes /\ BufferTypes /\ HistoryTypes
  BY DEF Types
<1>2. UNCHANGED <<serverSide, prepended, stream, sends, sendQueue, wire, open, connection, messages>>
  BY DEF ReadUnchanged, sendVars, peerVars, connectionVars
<1>3. PICK h \in Nat \union {None} : h = activeHeaders
  BY <1>1 DEF ParserTypes
<1>4. /\ Arriving' \subseteq Arriving /\ Arriving \subseteq Arriving' \union {h}
      /\ input[1].m \in Arriving
  <2>1. \A i \in 1 .. n : input[i].m = h
    BY <1>3
  <2> QED BY <1>1, <1>2, <2>1, ArrivingTaken
<1>5. activeHeaders \in Arriving
  <2>1. 1 \in 1 .. n
    OBVIOUS
  <2> QED BY <1>4, <2>1
<1>6. ASSUME Own', NEW m \in Arriving' PROVE activeHeaders < m
  <2>1. PICK options \in Nat \union {None} :
           delivered' = Append(delivered, [m |-> activeHeaders, body |-> body, options |-> options])
    BY <1>1, DispatchTypes
  <2> DEFINE last == [m |-> activeHeaders, body |-> body, options |-> options]
  <2>2. last \in Delivery /\ last.m = h /\ delivered' = Append(delivered, last)
    BY <1>3, <2>1 DEF Delivery
  <2> HIDE DEF last
  <2>3. delivered \in Seq(Delivery) /\ Len(delivered) \in Nat
    BY <1>1 DEF HistoryTypes
  <2>4. Len(delivered') = Len(delivered) + 1 /\ delivered'[Len(delivered) + 1] = last
    BY <2>2, <2>3, AppendProperties
  <2>5. PICK d \in 1 .. Len(delivered') : delivered'[d].m = h
    <3>1. Len(delivered) + 1 \in 1 .. Len(delivered')
      BY <2>3, <2>4
    <3> QED BY <2>2, <2>4, <3>1
  <2>6. DeliveredWhole'
    BY <1>6 DEF WholeInv, Clean, Own
  <2>7. \A i \in 1 .. Len(Unread') : h < Unread'[i].m
    BY <2>5, <2>6 DEF DeliveredWhole
  <2> QED BY <1>3, <2>7 DEF Arriving
<1>7. Own' => /\ Arriving \subseteq Arriving' \union {activeHeaders} /\ Arriving' \subseteq Arriving
              /\ activeHeaders \in Arriving /\ \A m \in Arriving' : activeHeaders < m
  BY <1>3, <1>4, <1>5, <1>6
<1>8. Live
  BY DEF Live
<1> QED BY <1>2, <1>7, <1>8, OwnDispatched

(* The parser does not move. *)
LEMMA OwnSame ==
    ASSUME Types, SendTypes, OwnInv, situations \subseteq situations', Unread' = Unread,
           UNCHANGED <<serverSide, pendingResponseOptions, sends, sendQueue, wire, open, connection,
                       messages, delivered, state, activeHeaders>>,
           Live' => Live
    PROVE  OwnInv'
<1>1. Arriving' = Arriving
  BY DEF Arriving
<1>2. Own' /\ Live' /\ state' \in Reading =>
         activeHeaders' \in 1 .. Len(messages) /\ messages[activeHeaders'].answers # None
  BY DEF Own, OwnInv, OwnFacts, ParserAsked
<1> QED BY <1>1, <1>2, OwnKeeps

LEMMA OneMessage ==
    ASSUME input \in Seq(Token), NEW sorts, NextLine(sorts)
    PROVE  /\ 2 \in Nat /\ 2 <= Len(input) /\ input # <<>> /\ input[1] \in Token
           /\ \A i \in 1 .. 2 : input[i].m = input[1].m
<1>1. 2 <= Len(input) /\ Len(input) \in Nat /\ Len(<<>>) = 0
  BY DEF NextLine
<1>2. input[1] \in Token
  BY <1>1, ElementOfSeq
<1>3. input[2].m = input[1].m
  BY <1>2 DEF NextLine, Token
<1>4. \A i \in 1 .. 2 : i = 1 \/ i = 2
  OBVIOUS
<1> QED BY <1>1, <1>2, <1>3, <1>4

LEMMA OwnStartLine == Types /\ SendTypes /\ WholeInv /\ OwnInv /\ WholeInv' /\ Shut' /\ StartLine => OwnInv'
<1> SUFFICES ASSUME Types, SendTypes, WholeInv, OwnInv, WholeInv', Shut', StartLine, Own' PROVE OwnInv'
  BY DEF OwnInv
<1>0. ParserTypes /\ BufferTypes /\ HistoryTypes
  BY DEF Types
<1>1. /\ NextLine({"start"}) /\ Take(2) /\ activeHeaders' = input[1].m /\ state' \in Reading
      /\ input # <<>> /\ situations \subseteq situations'
      /\ UNCHANGED <<serverSide, prepended, stream, pendingResponseOptions, sends, sendQueue, wire, open,
                     connection, messages, delivered>>
  BY DEF StartLine, Parsing, Reading, ReadUnchanged, NoDispatch, sendVars, peerVars, connectionVars
<1>2. /\ 2 \in Nat /\ 2 <= Len(input) /\ \A i \in 1 .. 2 : input[i].m = input[1].m
  BY <1>0, <1>1, OneMessage DEF BufferTypes
<1>3. PICK h : h = input[1].m
  OBVIOUS
<1>4. Clean
  BY <1>1 DEF Clean, Own
<1>5. h \in 1 .. Len(messages)
  BY <1>1, <1>3, <1>4, HeadOfRead
<1>6. messages[h].answers # None
  BY <1>1, <1>3 DEF StartLine, Own
<1>7. (\A i \in 1 .. 2 : input[i].m = h) /\ activeHeaders' = h
  BY <1>1, <1>2, <1>3
<1> QED BY <1>1, <1>2, <1>5, <1>6, <1>7, OwnReads

LEMMA OwnHeaderLine == Types /\ SendTypes /\ WholeInv /\ OwnInv /\ WholeInv' /\ Shut' /\ HeaderLine => OwnInv'
<1> SUFFICES ASSUME Types, SendTypes, WholeInv, OwnInv, WholeInv', Shut', HeaderLine, Own' PROVE OwnInv'
  BY DEF OwnInv
<1>0. ParserTypes /\ BufferTypes /\ HistoryTypes
  BY DEF Types
<1>1. /\ Take(2) /\ input[1].m = activeHeaders /\ state \in Reading /\ state' \in Reading
      /\ NextLine({"Content-Length-0", "Content-Length-2", "Transfer-Encoding"})
      /\ input # <<>> /\ situations \subseteq situations' /\ UNCHANGED activeHeaders
      /\ ReadUnchanged /\ NoDispatch
  BY DEF HeaderLine, Parsing, Reading, parserVars
<1>2. /\ 2 \in Nat /\ 2 <= Len(input) /\ \A i \in 1 .. 2 : input[i].m = input[1].m
  BY <1>0, <1>1, OneMessage DEF BufferTypes
<1>3. \A i \in 1 .. 2 : input[i].m = activeHeaders
  BY <1>1, <1>2
<1> QED BY <1>1, <1>2, <1>3, OwnGoesOn

LEMMA OwnEndOfHeaders == Types /\ SendTypes /\ WholeInv /\ OwnInv /\ WholeInv' /\ Shut' /\ EndOfHeaders => OwnInv'
<1> SUFFICES ASSUME Types, SendTypes, WholeInv, OwnInv, WholeInv', Shut', EndOfHeaders, Own' PROVE OwnInv'
  BY DEF OwnInv
<1>0. ParserTypes /\ BufferTypes /\ HistoryTypes
  BY DEF Types
<1>1. /\ Take(2) /\ input[1].m = activeHeaders /\ state \in Reading /\ NextLine({"end"})
      /\ input # <<>> /\ situations \subseteq situations' /\ UNCHANGED activeHeaders
      /\ ReadUnchanged
  BY DEF EndOfHeaders, Framed, Parsing, Reading
<1>2. /\ 2 \in Nat /\ 2 <= Len(input) /\ \A i \in 1 .. 2 : input[i].m = input[1].m
  BY <1>0, <1>1, OneMessage DEF BufferTypes
<1>3. \A i \in 1 .. 2 : input[i].m = activeHeaders
  BY <1>1, <1>2
<1>4. CASE DispatchPayload(<<>>)
  <2>1. <<>> \in Seq(Token) /\ 2 # 0
    OBVIOUS
  <2> QED BY <1>1, <1>2, <1>3, <1>4, <2>1, OwnEnds
<1>5. CASE state' \in {"ReadingContent", "ReadingChunks"} /\ NoDispatch
  <2>1. state' \in Reading
    BY <1>5 DEF Reading
  <2> QED BY <1>1, <1>2, <1>3, <1>5, <2>1, OwnGoesOn
<1> QED BY <1>4, <1>5 DEF EndOfHeaders, Framed

LEMMA OwnReadContent == Types /\ SendTypes /\ WholeInv /\ OwnInv /\ WholeInv' /\ Shut' /\ ReadContent => OwnInv'
<1> SUFFICES ASSUME Types, SendTypes, WholeInv, OwnInv, WholeInv', Shut', ReadContent, Own' PROVE OwnInv'
  BY DEF OwnInv
<1>0. ParserTypes /\ BufferTypes /\ HistoryTypes
  BY DEF Types
<1>1. /\ state = "ReadingContent" /\ state \in Reading /\ input # <<>> /\ situations \subseteq situations'
      /\ UNCHANGED activeHeaders /\ ReadUnchanged
  BY DEF ReadContent, Parsing, Reading
<1>2. Clean
  BY <1>1 DEF Clean, Own
<1>3. PICK t \in Token, kind \in AllKinds :
         /\ t = input[1] /\ messages[t.m].kind = kind /\ Fitting(t)
  BY <1>1, <1>2, HeadOfRead
<1>4. AtContent(t) /\ t.m = activeHeaders /\ kind = "length" /\ Size(kind) = 8
  BY <1>1, <1>3 DEF Fitting, AtStart, AtHeader, AtContent, AtChunk, Reading, Size
<1>5. PICK taken \in Nat :
         /\ taken <= Len(input) /\ Take(taken) /\ httpBody' \in Seq(Token)
         /\ \/ taken = 2 - Len(httpBody) /\ DispatchPayload(httpBody')
            \/ taken = Len(input) /\ taken < 2 - Len(httpBody) /\ NoDispatch /\ state' = state
  BY ContentTaken
<1>6. input \in Seq(Token) /\ Len(input) \in Nat \ {0} /\ Len(httpBody) \in Nat /\ Len(httpBody) < 2
  BY <1>0, <1>1, EmptySeq DEF BufferTypes
<1>7. taken \in {1, 2} /\ (taken = 2 => Len(httpBody) = 0)
  BY <1>5, <1>6
<1>8. \A i \in 1 .. taken : input[i].m = activeHeaders
  <2>1. CASE taken = 1
    BY <1>3, <1>4, <2>1
  <2>2. CASE taken = 2
    <3>1. t.k = 7
      <4>1. Len(<<[m |-> t.m, k |-> 7]>>) = 1
        OBVIOUS
      <4> QED BY <1>4, <1>7, <2>2, <4>1 DEF AtContent
    <3>2. 2 <= Len(input) /\ t.k < Size(messages[t.m].kind) /\ messages[t.m].kind \in AllKinds
      BY <1>3, <1>4, <1>5, <2>2, <3>1
    <3>3. input[2] = [m |-> t.m, k |-> t.k + 1]
      BY <1>2, <1>3, <3>2, SecondOfRead
    <3>4. input[1].m = activeHeaders /\ input[2].m = activeHeaders
      BY <1>3, <1>4, <3>3
    <3>5. \A i \in 1 .. 2 : i = 1 \/ i = 2
      OBVIOUS
    <3> QED BY <2>2, <3>4, <3>5
  <2> QED BY <1>7, <2>1, <2>2
<1>9. CASE DispatchPayload(httpBody')
  <2>1. PICK body \in Seq(Token) : body = httpBody'
    BY <1>5
  <2>2. DispatchPayload(body) /\ taken # 0
    BY <1>7, <1>9, <2>1
  <2> QED BY <1>1, <1>5, <1>8, <2>2, OwnEnds
<1>10. CASE NoDispatch /\ state' = state
  BY <1>1, <1>5, <1>8, <1>10, OwnGoesOn
<1> QED BY <1>5, <1>9, <1>10

LEMMA OwnChunkSize == Types /\ SendTypes /\ WholeInv /\ OwnInv /\ WholeInv' /\ Shut' /\ ChunkSize => OwnInv'
<1> SUFFICES ASSUME Types, SendTypes, WholeInv, OwnInv, WholeInv', Shut', ChunkSize, Own' PROVE OwnInv'
  BY DEF OwnInv
<1>0. ParserTypes /\ BufferTypes /\ HistoryTypes
  BY DEF Types
<1>1. /\ Take(2) /\ input[1].m = activeHeaders /\ state \in Reading /\ state' \in Reading
      /\ \E sorts : NextLine(sorts)
      /\ input # <<>> /\ situations \subseteq situations' /\ UNCHANGED activeHeaders
      /\ ReadUnchanged /\ NoDispatch
  BY DEF ChunkSize, Parsing, Reading
<1>2. /\ 2 \in Nat /\ 2 <= Len(input) /\ \A i \in 1 .. 2 : input[i].m = input[1].m
  BY <1>0, <1>1, OneMessage DEF BufferTypes
<1>3. \A i \in 1 .. 2 : input[i].m = activeHeaders
  BY <1>1, <1>2
<1> QED BY <1>1, <1>2, <1>3, OwnGoesOn

LEMMA OwnChunkData == Types /\ SendTypes /\ WholeInv /\ OwnInv /\ WholeInv' /\ Shut' /\ ChunkData => OwnInv'
<1> SUFFICES ASSUME Types, SendTypes, WholeInv, OwnInv, WholeInv', Shut', ChunkData, Own' PROVE OwnInv'
  BY DEF OwnInv
<1>0. ParserTypes /\ BufferTypes /\ HistoryTypes
  BY DEF Types
<1>1. /\ state = "ReadingChunks" /\ state \in Reading /\ state' \in Reading /\ input # <<>>
      /\ situations \subseteq situations' /\ chunkSize \notin {None, 0}
      /\ UNCHANGED activeHeaders /\ ReadUnchanged /\ NoDispatch
  BY DEF ChunkData, Parsing, Reading
<1>2. Clean
  BY <1>1 DEF Clean, Own
<1>3. PICK t \in Token, kind \in AllKinds :
         /\ t = input[1] /\ messages[t.m].kind = kind /\ Fitting(t)
  BY <1>1, <1>2, HeadOfRead
<1>4. AtChunk(t) /\ t.m = activeHeaders /\ kind = "chunked" /\ Size(kind) = 16
  BY <1>1, <1>3 DEF Fitting, AtStart, AtHeader, AtContent, AtChunk, Reading, Size
<1>5. (t.k = 9 /\ chunkSize = 2) \/ (t.k = 10 /\ chunkSize = 1)
  BY <1>1, <1>4 DEF AtChunk
<1>6. input \in Seq(Token) /\ Len(input) \in Nat \ {0}
  BY <1>0, <1>1, EmptySeq DEF BufferTypes
<1>7. PICK n \in Nat : n <= Len(input) /\ Take(n) /\ (n = chunkSize \/ n < chunkSize)
  <2>1. (Len(input) < chunkSize /\ Take(Len(input))) \/ (Len(input) >= chunkSize /\ Take(chunkSize))
    BY Zenon DEF ChunkData
  <2>2. chunkSize \in Nat
    BY <1>5
  <2>3. CASE Len(input) < chunkSize /\ Take(Len(input))
    BY <1>6, <2>3
  <2>4. CASE Len(input) >= chunkSize /\ Take(chunkSize)
    BY <1>6, <2>2, <2>4
  <2> QED BY <2>1, <2>3, <2>4
<1>8. n \in {0, 1} \/ (n = 2 /\ t.k = 9)
  <2>1. \A k \in Nat : k <= 1 => k \in {0, 1}
    OBVIOUS
  <2>2. \A k \in Nat : k <= 2 => k \in {0, 1} \/ k = 2
    OBVIOUS
  <2>3. CASE t.k = 9 /\ chunkSize = 2
    <3>1. n <= 2
      BY <1>7, <2>3
    <3> QED BY <2>2, <2>3, <3>1
  <2>4. CASE t.k = 10 /\ chunkSize = 1
    <3>1. n <= 1
      BY <1>7, <2>4
    <3> QED BY <2>1, <3>1
  <2> QED BY <1>5, <2>3, <2>4
<1>9. \A i \in 1 .. n : input[i].m = activeHeaders
  <2>1. CASE n \in {0, 1}
    BY <1>3, <1>4, <2>1
  <2>2. CASE n = 2 /\ t.k = 9
    <3>2. 2 <= Len(input) /\ t.k < Size(messages[t.m].kind) /\ messages[t.m].kind \in AllKinds
      BY <1>3, <1>4, <1>7, <2>2
    <3>3. input[2] = [m |-> t.m, k |-> t.k + 1]
      BY <1>2, <1>3, <3>2, SecondOfRead
    <3>4. input[1].m = activeHeaders /\ input[2].m = activeHeaders
      BY <1>3, <1>4, <3>3
    <3>5. \A i \in 1 .. 2 : i = 1 \/ i = 2
      OBVIOUS
    <3> QED BY <2>2, <3>4, <3>5
  <2> QED BY <1>8, <2>1, <2>2
<1> QED BY <1>1, <1>7, <1>9, OwnGoesOn

LEMMA OwnLastChunk == Types /\ SendTypes /\ WholeInv /\ OwnInv /\ WholeInv' /\ Shut' /\ LastChunk => OwnInv'
<1> SUFFICES ASSUME Types, SendTypes, WholeInv, OwnInv, WholeInv', Shut', LastChunk, Own' PROVE OwnInv'
  BY DEF OwnInv
<1>0. ParserTypes /\ BufferTypes /\ HistoryTypes
  BY DEF Types
<1>1. /\ Take(2) /\ input[1].m = activeHeaders /\ state \in Reading /\ NextLine({"end"})
      /\ input # <<>> /\ situations \subseteq situations' /\ ReadUnchanged /\ DispatchPayload(httpBody)
  BY DEF LastChunk, EndOfChunks, Parsing, Reading
<1>2. /\ 2 \in Nat /\ 2 # 0 /\ 2 <= Len(input) /\ \A i \in 1 .. 2 : input[i].m = input[1].m
  BY <1>0, <1>1, OneMessage DEF BufferTypes
<1>3. \A i \in 1 .. 2 : input[i].m = activeHeaders
  BY <1>1, <1>2
<1>4. PICK body \in Seq(Token) : body = httpBody
  BY <1>0 DEF BufferTypes
<1>5. DispatchPayload(body)
  BY <1>1, <1>4
<1> QED BY <1>1, <1>2, <1>3, <1>5, OwnEnds

LEMMA OwnIgnores == Types /\ SendTypes /\ OwnInv /\ IgnoreUnsolicited => OwnInv'
<1> SUFFICES ASSUME Types, SendTypes, OwnInv, IgnoreUnsolicited, Own' PROVE OwnInv'
  BY DEF OwnInv
<1>1. /\ state = "AwaitingUserRequest" /\ input # <<>> /\ input' = <<>> /\ situations \subseteq situations'
      /\ UNCHANGED <<serverSide, prepended, stream, pendingResponseOptions, sends, sendQueue, wire, open,
                     connection, messages, delivered, state>>
  BY DEF IgnoreUnsolicited, Parsing, ReadUnchanged, NoDispatch, sendVars, peerVars, connectionVars, parserVars
<1>2. Own /\ OwnFacts
  BY <1>1 DEF Own, OwnInv
<1>3. \A m \in Arriving : messages[m].answers = None
  BY <1>1, <1>2 DEF OwnFacts, ParserAsked
<1>4. /\ prepended = <<>> /\ stream \in Seq(Token) /\ input \in Seq(Token)
  BY <1>1 DEF Types, BufferTypes
<1>5. Held = input /\ Held' = <<>> /\ <<>> \o stream = stream
  BY <1>1, <1>4, ConcatEmptySeq DEF Held
<1>6. Unread' = stream /\ Unread = input \o stream
  BY <1>1, <1>5 DEF Unread
<1>7. /\ Len(input \o stream) = Len(input) + Len(stream) /\ Len(stream) \in Nat /\ Len(input) \in Nat
      /\ \A i \in 1 .. Len(stream) : (input \o stream)[Len(input) + i] = stream[i]
  BY <1>4, Joined
<1>8. \A i \in 1 .. Len(stream) : Len(input) + i \in 1 .. Len(Unread) /\ Unread[Len(input) + i] = stream[i]
  BY <1>6, <1>7
<1>9. ASSUME NEW m \in Arriving' PROVE m \in Arriving
  <2>1. PICK i \in 1 .. Len(stream) : stream[i].m = m
    BY <1>6 DEF Arriving
  <2> QED BY <1>8, <2>1 DEF Arriving
<1>10. state' \notin Reading
  BY <1>1 DEF Reading
<1> QED BY <1>1, <1>3, <1>9, <1>10, OwnKeeps

LEMMA OwnWaits ==
    Types /\ SendTypes /\ OwnInv /\ (Read \/ PrependRest \/ Misread \/ HandlerReturns \/ FailWrite) => OwnInv'
<1> SUFFICES ASSUME Types, SendTypes, OwnInv, Read \/ PrependRest \/ Misread \/ HandlerReturns \/ FailWrite
             PROVE  OwnInv'
  OBVIOUS
<1>1. CASE Read
  <2>1. Unread' = Unread
    BY <1>1, ReadKeeps
  <2>2. /\ situations \subseteq situations' /\ Live
        /\ UNCHANGED <<serverSide, pendingResponseOptions, sends, sendQueue, wire, open, connection,
                       messages, delivered, state, activeHeaders>>
    BY <1>1 DEF Read, Live, parserVars, sendVars
  <2> QED BY <2>1, <2>2, OwnSame
<1>2. CASE PrependRest
  <2>1. /\ situations \subseteq situations' /\ input # <<>> /\ input' = <<>> /\ prepended' = input
        /\ UNCHANGED <<serverSide, pendingResponseOptions, sends, sendQueue, wire, open, connection,
                       messages, delivered, state, activeHeaders, stream>>
    BY <1>2 DEF PrependRest, Parsing, NoDispatch, parserVars, sendVars, peerVars, connectionVars
  <2>2. Unread' = Unread /\ Live
    BY <2>1 DEF Unread, Held, Live
  <2> QED BY <2>1, <2>2, OwnSame
<1>3. CASE Misread
  BY <1>3 DEF Misread, OwnInv, Own
<1>4. CASE HandlerReturns \/ FailWrite
  <2>1. /\ situations \subseteq situations'
        /\ UNCHANGED <<serverSide, pendingResponseOptions, sends, sendQueue, wire, open, connection,
                       messages, delivered, state, activeHeaders, stream, prepended, input>>
    BY <1>4 DEF HandlerReturns, FailWrite, readVars, parserVars, sendVars, peerVars, connectionVars
  <2>2. Unread' = Unread /\ Live' = Live
    BY <2>1 DEF Unread, Held, Live
  <2> QED BY <2>1, <2>2, OwnSame
<1> QED BY <1>1, <1>2, <1>3, <1>4

LEMMA OwnServer ==
    Types /\ (InvalidRequest \/ \E kind \in {"plain", "file"} : Respond(kind)) => OwnInv'
<1> SUFFICES ASSUME Types, InvalidRequest \/ \E kind \in {"plain", "file"} : Respond(kind)
             PROVE  serverSide'
  BY DEF OwnInv, Own
<1>1. CASE InvalidRequest
  BY <1>1 DEF InvalidRequest, Types, ParserTypes, Reading
<1>2. CASE \E kind \in {"plain", "file"} : Respond(kind)
  BY <1>2 DEF Respond, Sending
<1> QED BY <1>1, <1>2

LEMMA OwnCloses ==
    Types /\ SendTypes /\ WholeInv /\ OwnInv /\ (CloseEndpoint \/ CloseAction \/ LoseConnection) => OwnInv'
<1> SUFFICES ASSUME Types, SendTypes, WholeInv, OwnInv, CloseEndpoint \/ CloseAction \/ LoseConnection
             PROVE  OwnInv'
  OBVIOUS
<1>1. /\ situations \subseteq situations' /\ pendingResponseOptions' = pendingResponseOptions
      /\ UNCHANGED <<serverSide, prepended, input, messages, delivered, wire, connection, sends>>
  BY DEF CloseEndpoint, CloseAction, LoseConnection, ConnectionUnchanged
<1>2. \/ open' = FALSE /\ stream' = <<>>
      \/ UNCHANGED <<open, stream, sends, sendQueue>>
  BY <1>1, ConnectionClosed DEF CloseEndpoint, CloseAction, LoseConnection, OnDisconnected
<1>3. Len(sends') \in Nat /\ Len(sends) <= Len(sends')
  BY <1>1, Counts
<1>4. Own' => PendingInOrder' /\ Answered' = Answered
  BY <1>1 DEF Own, OwnInv, OwnFacts, PendingInOrder, Answered
<1>5. CASE CloseEndpoint \/ LoseConnection
  <2>1. CASE ~serverSide
    <3>1. /\ state' \notin Reading
          /\ state' = "AwaitingUserRequest" => pendingResponseOptions' = <<>>
      BY <1>1, <1>5, <2>1 DEF CloseEndpoint, LoseConnection, OnDisconnected, ResetIncomingHttpState, Reading
    <3> QED BY <1>1, <1>2, <1>3, <1>4, <3>1, OwnClosed
  <2>2. CASE serverSide
    BY <1>1, <2>2 DEF OwnInv, Own
  <2> QED BY <2>1, <2>2
<1>6. CASE CloseAction
  <2>1. state' = state /\ ~Live'
    BY <1>1, <1>6 DEF CloseAction, Live, parserVars, Idle
  <2> QED BY <1>1, <1>2, <1>3, <1>4, <2>1, OwnClosed
<1> QED BY <1>5, <1>6

LEMMA OwnInit == Init => Shut /\ OwnInv
<1> SUFFICES ASSUME Init PROVE Shut /\ OwnInv
  OBVIOUS
<1>1. /\ sends = <<>> /\ pendingResponseOptions = <<>> /\ sendQueue = <<>> /\ wire = <<>> /\ messages = <<>>
      /\ delivered = <<>> /\ stream = <<>> /\ prepended = <<>> /\ input = <<>> /\ state \notin Reading
      /\ Len(<<>>) = 0
  BY DEF Init, Reading
<1>2. Unread = <<>>
  <2>1. <<>> \o <<>> = <<>>
    BY ConcatEmptySeq, EmptySeq
  <2> QED BY <1>1, <2>1 DEF Unread, Held
<1>3. Answered = 0 /\ Written = 0 /\ Arriving = {} /\ \A n : ~OnWire(n)
  BY <1>1, <1>2 DEF Answered, Written, Arriving, OnWire
<1>4. /\ PendingInOrder /\ AnswersOnce /\ AnswersInOrder /\ ParserAsked /\ WireOfConnections /\ OptionsOwn
  BY <1>1, <1>3 DEF PendingInOrder, AnswersOnce, AnswersInOrder, ParserAsked, WireOfConnections, OptionsOwn
<1>5. QueueOfRequests /\ WireOfRequests /\ AnswersOfRequests
  BY <1>1, <1>3 DEF QueueOfRequests, WireOfRequests, AnswersOfRequests
<1> QED BY <1>1, <1>4, <1>5 DEF Shut, OwnInv, OwnFacts

LEMMA OwnStep ==
    Types /\ SendTypes /\ WholeInv /\ OwnInv /\ WholeInv' /\ Shut' /\ [Next]_vars => OwnInv'
<1> SUFFICES ASSUME Types, SendTypes, WholeInv, OwnInv, WholeInv', Shut', [Next]_vars PROVE OwnInv'
  OBVIOUS
<1>1. CASE UNCHANGED vars
  <2>1. /\ situations \subseteq situations'
        /\ UNCHANGED <<serverSide, pendingResponseOptions, sends, sendQueue, wire, open, connection,
                       messages, delivered, state, activeHeaders, stream, prepended, input>>
    BY <1>1 DEF vars, readVars, parserVars, sendVars, peerVars, connectionVars
  <2>2. Unread' = Unread /\ Live' = Live
    BY <2>1 DEF Unread, Held, Live
  <2> QED BY <2>1, <2>2, OwnSame
<1>2. CASE Read \/ HandlerReturns \/ FailWrite
  BY <1>2, OwnWaits
<1>3. CASE ParseStep
  BY <1>3, OwnStartLine, OwnServer, OwnHeaderLine, OwnEndOfHeaders, OwnReadContent, OwnChunkSize,
     OwnChunkData, OwnLastChunk, OwnIgnores, OwnWaits DEF ParseStep
<1>4. CASE WriteNext
  BY <1>4, OwnWrites
<1>5. CASE Call \/ CloseAction \/ LoseConnection
  BY <1>5, OwnSends, OwnServer, OwnOpens, OwnCloses DEF Call
<1>6. CASE \E kind \in Kinds : PeerSends(kind)
  BY <1>6, OwnPeer
<1> QED BY <1>1, <1>2, <1>3, <1>4, <1>5, <1>6 DEF Next

(* A response is dispatched with the options of the request it answers,     *)
(* though requests are sent from handlers and before the responses to       *)
(* others, and connections are closed, read on, lost and opened again; but  *)
(* not when a request is written while a response is read, or is refused,   *)
(* or options of an old connection are pending when the next is opened.     *)
THEOREM OwnResponses == Spec => []OwnOptions
<1>1. Init => Types /\ SendTypes /\ WholeInv /\ Shut /\ OwnInv
  BY TypesInit, SendTypesInit, WholeInit, OwnInit
<1>2. Types /\ SendTypes /\ WholeInv /\ Shut /\ OwnInv /\ [Next]_vars
         => (Types /\ SendTypes /\ WholeInv /\ Shut /\ OwnInv)'
  BY TypesStep, SendTypesStep, WholeStep, ShutStep, OwnStep
<1>3. Types /\ OwnInv => OwnOptions
  <2> SUFFICES ASSUME Types, OwnInv, Own
               PROVE  \A i \in DOMAIN delivered : delivered[i].options = messages[delivered[i].m].answers
    BY DEF OwnOptions, Own
  <2>1. OptionsOwn /\ DOMAIN delivered = 1 .. Len(delivered)
    BY DEF OwnInv, OwnFacts, Types, HistoryTypes
  <2> QED BY <2>1 DEF OptionsOwn
<1> QED BY <1>1, <1>2, <1>3, PTL DEF Spec
=============================================================================
