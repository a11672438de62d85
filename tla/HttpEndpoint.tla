---------------------------- MODULE HttpEndpoint ----------------------------
(***************************************************************************)
(* An HTTP endpoint, client or server (sockets/live/HTTPLiveEndpoint.hpp), *)
(* with the sends of the base socket endpoint it stands on.                *)
(*                                                                         *)
(* The bytes of a connection are tokens.  A line is two tokens, so that a  *)
(* read can end inside it; a token of content is whole.  One action        *)
(* consumes one line or one piece of content of the current read, so that  *)
(* the application's handler runs between two messages of the same read.   *)
(*                                                                         *)
(* Header fields and bodies are what their message makes them, compression *)
(* is left out.  The base is SSLLiveEndpoint, which posts an action to      *)
(* close the connection, or TcpIpLiveEndpoint, which closes it at once.    *)
(***************************************************************************)
EXTENDS Integers, Sequences, FiniteSets, SequencesExt

CONSTANTS
    Kinds,          \* of messages of the peer: none, empty, length, chunked, bad
    MaxMessages,    \* bound: messages of the peer
    MaxSends,       \* bound: requests or responses of this endpoint
    MaxOpens,       \* bound: connections
    Environments,   \* the base and, as a bound, what may happen besides; one set of these
                    \* in a behaviour: "SSL" (the base, else TCP), "unsolicited" messages,
                    \* "close" and "reopen" by the application, "failures" of sends
    MaxClosing,     \* bound: close actions that are posted at a time
    FileChunks,     \* buffers a file is read in
    None

ASSUME HttpAssumption ==
    /\ Kinds \subseteq {"none", "empty", "length", "chunked", "bad"}
    /\ MaxMessages \in Nat /\ MaxSends \in Nat /\ MaxOpens \in Nat /\ MaxClosing \in Nat
    /\ FileChunks \in Nat \ {0} /\ None \notin Nat

VARIABLES
    environment,            \* the base, and what may happen in this behaviour
    serverSide,             \* _serverSide
    state,                  \* _state
    activeHeaders,          \* the message whose header is or was read; None: of no one message
    contentSize,            \* *_contentSize
    chunkSize,              \* *_chunkSize: what is left of the chunk
    chunkedBody,            \* _chunkedBody
    httpBody,               \* _httpBody
    pendingResponseOptions, \* the requests they belong to
    prepended,              \* the inbound buffer up to _inboundWriteOffset
    input,                  \* what is left of the current read
    sendQueue,              \* sends of the base endpoint, with their callbacks
    fileStream,             \* _activeFileStream: its response and what is left
    calling,                \* the application's payload handler runs
    loop,                   \* "running", "ended" by an error
    open,                   \* the connection is established
    closing,                \* how many actions to close it are posted
    stream,                 \* bytes of the peer that have not been read
    connection,             \* how many connections there have been
    messages,               \* history: messages of the peer
    sends,                  \* history: kinds of this endpoint's sends
    wire,                   \* history: what was written, connection and send
    delivered,              \* history: what the payload handler was given
    situations              \* history: what this code does not handle

parserVars == <<state, activeHeaders, contentSize, chunkSize, chunkedBody, httpBody>>
readVars == <<parserVars, prepended, input>>
sendVars == <<sendQueue, fileStream, sends, wire>>
connectionVars == <<open, closing, stream>>
peerVars == <<connectionVars, connection, messages>>
vars == <<environment, serverSide, readVars, pendingResponseOptions, sendVars, calling, loop,
          peerVars, delivered, situations>>

Reading == {"ReadingHeaders", "ReadingContent", "ReadingChunks"}
States == Reading \union {"AwaitingUserRequest", "AwaitingClientRequest", "AwaitingResponse"}

Init ==
    /\ environment \in Environments /\ serverSide \in BOOLEAN
    /\ state = IF serverSide THEN "AwaitingClientRequest" ELSE "AwaitingUserRequest"
    /\ activeHeaders = None /\ contentSize = None /\ chunkSize = None
    /\ chunkedBody = <<>> /\ httpBody = <<>> /\ pendingResponseOptions = <<>>
    /\ prepended = <<>> /\ input = <<>>
    /\ sendQueue = <<>> /\ fileStream = None /\ sends = <<>> /\ wire = <<>>
    /\ calling = FALSE /\ loop = "running"
    /\ open = serverSide /\ closing = 0 /\ stream = <<>>
    /\ connection = IF serverSide THEN 1 ELSE 0
    /\ messages = <<>> /\ delivered = <<>> /\ situations = {}

-----------------------------------------------------------------------------
(* The form of messages.                                                    *)
ChunkLength == 2

Line(what) == <<[what |-> what, eol |-> FALSE], [what |-> what, eol |-> TRUE]>>
Data == [what |-> "data", eol |-> FALSE]
Header(body) == Line("start") \o Line(body) \o Line("end")

Shape(kind) ==
    CASE kind = "none" -> Line("start") \o Line("end")
      [] kind = "empty" -> Header("Content-Length-0")
      [] kind = "length" -> Header("Content-Length-2") \o <<Data, Data>>
      [] kind = "chunked" -> Header("Transfer-Encoding") \o Line("size") \o <<Data, Data>>
                               \o Line("crlf") \o Line("last") \o Line("end")
      [] kind = "bad" -> Line("bad")

Tokens(m, kind) == [k \in 1 .. Len(Shape(kind)) |-> [m |-> m, k |-> k]]
Is(t) == Shape(messages[t.m].kind)[t.k]

(* The tokens of data of a message are its body.                            *)
DataAt(kind) == CASE kind = "length" -> <<7, 8>> [] kind = "chunked" -> <<9, 10>> [] OTHER -> <<>>
BodyOf(m) ==
    [i \in DOMAIN DataAt(messages[m].kind) |-> [m |-> m, k |-> DataAt(messages[m].kind)[i]]]

HasLine == \E n \in DOMAIN input : Is(input[n]).eol

(* The next line of the read is a whole line of the given sort.             *)
NextLine(sorts) ==
    /\ Len(input) > 1
    /\ Is(input[1]).what \in sorts /\ ~Is(input[1]).eol
    /\ input[2] = [input[1] EXCEPT !.k = @ + 1]

Take(n) == input' = SubSeq(input, n + 1, Len(input))

-----------------------------------------------------------------------------
(* Resetting and dispatching.                                               *)

(* resetIncomingHttpState *)
ResetIncomingHttpState(pending) ==
    /\ contentSize' = None /\ chunkSize' = None /\ httpBody' = <<>> /\ activeHeaders' = None
    /\ state' = IF serverSide THEN "AwaitingClientRequest"
                ELSE IF pending = <<>> THEN "AwaitingUserRequest" ELSE "AwaitingResponse"
    /\ UNCHANGED chunkedBody

(* Mutated: the options of a response are those of the last request sent. *)
M_DispatchLast(body) ==
    /\ calling' = TRUE
    /\ \/ /\ serverSide
          /\ state' = "AwaitingClientRequest"
          /\ UNCHANGED pendingResponseOptions
          /\ delivered' = Append(delivered, [m |-> activeHeaders, body |-> body, options |-> None])
       \/ /\ ~serverSide /\ pendingResponseOptions # <<>>
          /\ pendingResponseOptions' = Front(pendingResponseOptions)
          /\ state' = IF Len(pendingResponseOptions) = 1 THEN "AwaitingUserRequest"
                      ELSE "AwaitingResponse"
          /\ delivered' = Append(delivered, [m |-> activeHeaders, body |-> body,
                                             options |-> Last(pendingResponseOptions)])

(* dispatchPayload; the payload handler runs.  With no options pending a    *)
(* response gets those of the response before it.                           *)
DispatchPayload(body) ==
    /\ calling' = TRUE
    /\ \/ /\ serverSide
          /\ state' = "AwaitingClientRequest"
          /\ UNCHANGED pendingResponseOptions
          /\ delivered' = Append(delivered, [m |-> activeHeaders, body |-> body, options |-> None])
       \/ /\ ~serverSide /\ pendingResponseOptions # <<>>
          /\ pendingResponseOptions' = Tail(pendingResponseOptions)
          /\ state' = IF Len(pendingResponseOptions) = 1 THEN "AwaitingUserRequest"
                      ELSE "AwaitingResponse"
          /\ delivered' = Append(delivered, [m |-> activeHeaders, body |-> body,
                                             options |-> Head(pendingResponseOptions)])
       \/ /\ ~serverSide /\ pendingResponseOptions = <<>>
          /\ state' = "AwaitingUserRequest"
          /\ UNCHANGED pendingResponseOptions
          /\ delivered' = Append(delivered,
               [m |-> activeHeaders, body |-> body,
                options |-> IF delivered = <<>> THEN None ELSE Last(delivered).options])

(* closeEndpoint of the base: closes at once, or posts an action that will; *)
(* nothing when it is not open, or when its handler of closes fails.        *)
CloseConnection ==
    \/ /\ "SSL" \notin environment
       /\ open' = FALSE /\ stream' = <<>> /\ UNCHANGED closing
    \/ /\ "SSL" \in environment /\ open /\ closing < MaxClosing
       /\ closing' = closing + 1 /\ UNCHANGED <<open, stream>>
    \/ UNCHANGED connectionVars

-----------------------------------------------------------------------------
(* handleBaseSocketInboundPayload on the rest of a read.                    *)
Parsing == loop = "running" /\ ~calling /\ input # <<>>

(* A poll reads some of what has arrived, behind what was prepended.        *)
Read ==
    /\ loop = "running" /\ ~calling /\ input = <<>> /\ open
    /\ \E n \in 1 .. Len(stream) :
          /\ input' = prepended \o SubSeq(stream, 1, n)
          /\ stream' = SubSeq(stream, n + 1, Len(stream))
    /\ prepended' = <<>>
    /\ UNCHANGED <<environment, serverSide, parserVars, pendingResponseOptions, sendVars,
                   calling, loop, open, closing, connection, messages, delivered,
                   situations>>

ReadUnchanged == UNCHANGED <<environment, serverSide, prepended, sendVars, loop, peerVars>>
NoDispatch == UNCHANGED <<pendingResponseOptions, calling, delivered>>

AwaitingStart == state \in {"AwaitingClientRequest", "AwaitingResponse"}
WantsLine ==
    \/ AwaitingStart \/ state = "ReadingHeaders"
    \/ state = "ReadingChunks" /\ chunkSize \in {None, 0}

StartLine ==
    /\ Parsing /\ AwaitingStart /\ NextLine({"start"})
    /\ contentSize' = None /\ chunkSize' = None /\ httpBody' = <<>>
    /\ activeHeaders' = input[1].m
    /\ state' = "ReadingHeaders"
    /\ Take(2)
    /\ situations' = situations \union
         (IF ~serverSide /\ messages[input[1].m].answers = None THEN {"unsolicited"} ELSE {})
    /\ UNCHANGED chunkedBody
    /\ ReadUnchanged /\ NoDispatch

(* An invalid request line: closeEndpoint, and the parser reads on.         *)
InvalidRequest ==
    /\ Parsing /\ state = "AwaitingClientRequest" /\ NextLine({"bad"})
    /\ ResetIncomingHttpState(pendingResponseOptions)
    /\ CloseConnection
    /\ Take(2)
    /\ UNCHANGED <<environment, serverSide, prepended, sendVars, loop, connection, messages,
                   situations>>
    /\ NoDispatch

HeaderLine ==
    /\ Parsing /\ state = "ReadingHeaders"
    /\ NextLine({"Content-Length-0", "Content-Length-2", "Transfer-Encoding"})
    /\ input[1].m = activeHeaders
    /\ Take(2)
    /\ UNCHANGED <<parserVars, situations>>
    /\ ReadUnchanged /\ NoDispatch

(* Mutated: content is only looked at when there is more to read. *)
M_Framed(kind) ==
    /\ \/ /\ kind = "none"
          /\ DispatchPayload(<<>>)
          /\ UNCHANGED contentSize
       \/ /\ kind \in {"length", "empty"}
          /\ contentSize' = Len(DataAt(kind)) /\ state' = "ReadingContent"
          /\ NoDispatch
       \/ /\ kind = "chunked"
          /\ state' = "ReadingChunks"
          /\ NoDispatch
          /\ UNCHANGED contentSize
    /\ UNCHANGED <<activeHeaders, chunkSize, httpBody, chunkedBody>>

(* What the fields read say of the content.                                 *)
Framed(kind) ==
    /\ \/ /\ kind \in {"none", "empty"}
          /\ DispatchPayload(<<>>)
          /\ contentSize' = IF kind = "empty" THEN 0 ELSE contentSize
       \/ /\ kind = "length"
          /\ contentSize' = Len(DataAt(kind)) /\ state' = "ReadingContent"
          /\ NoDispatch
       \/ /\ kind = "chunked"
          /\ state' = "ReadingChunks"
          /\ NoDispatch
          /\ UNCHANGED contentSize
    /\ UNCHANGED <<activeHeaders, chunkSize, httpBody, chunkedBody>>

EndOfHeaders ==
    /\ Parsing /\ state = "ReadingHeaders"
    /\ NextLine({"end"}) /\ input[1].m = activeHeaders
    /\ Take(2)
    /\ Framed(messages[activeHeaders].kind)
    /\ UNCHANGED situations
    /\ ReadUnchanged

(* readContent takes whatever bytes come.                                   *)
ReadContent ==
    /\ Parsing /\ state = "ReadingContent"
    /\ LET missing == contentSize - Len(httpBody)
           taken == IF Len(input) < missing THEN Len(input) ELSE missing
       IN  /\ httpBody' = httpBody \o SubSeq(input, 1, taken)
           /\ Take(taken)
           /\ \/ taken = missing /\ DispatchPayload(httpBody')
              \/ taken < missing /\ NoDispatch /\ UNCHANGED state
    /\ UNCHANGED <<activeHeaders, contentSize, chunkSize, chunkedBody, situations>>
    /\ ReadUnchanged

(* readChunks: the line with the size, or the end of the line of a chunk.   *)
ChunkSize ==
    /\ Parsing /\ state = "ReadingChunks" /\ chunkSize = None
    /\ \/ NextLine({"crlf"}) /\ UNCHANGED chunkSize
       \/ NextLine({"size"}) /\ chunkSize' = ChunkLength
       \/ NextLine({"last"}) /\ chunkSize' = 0
    /\ input[1].m = activeHeaders
    /\ Take(2)
    /\ UNCHANGED <<state, activeHeaders, contentSize, chunkedBody, httpBody, situations>>
    /\ ReadUnchanged /\ NoDispatch

ChunkData ==
    /\ Parsing /\ state = "ReadingChunks" /\ chunkSize \notin {None, 0}
    /\ \/ /\ Len(input) < chunkSize
          /\ chunkedBody' = chunkedBody \o input
          /\ chunkSize' = chunkSize - Len(input)
          /\ Take(Len(input))
          /\ UNCHANGED httpBody
       \/ /\ Len(input) >= chunkSize
          /\ httpBody' = httpBody \o chunkedBody \o SubSeq(input, 1, chunkSize)
          /\ chunkedBody' = <<>> /\ chunkSize' = None
          /\ Take(chunkSize)
    /\ UNCHANGED <<state, activeHeaders, contentSize, situations>>
    /\ ReadUnchanged /\ NoDispatch

(* Mutated: the message is dispatched at the last chunk, and the line that  *)
(* ends it is left for what comes next.                                     *)
M_LastChunk ==
    /\ Parsing /\ state = "ReadingChunks" /\ chunkSize = 0
    /\ DispatchPayload(httpBody)
    /\ chunkedBody' = <<>> /\ chunkSize' = None
    /\ UNCHANGED <<input, activeHeaders, contentSize, httpBody, situations>>
    /\ ReadUnchanged

EndOfChunks ==
    /\ DispatchPayload(httpBody)
    /\ chunkedBody' = <<>> /\ chunkSize' = None
    /\ UNCHANGED <<activeHeaders, contentSize, httpBody>>

(* The lines after the last chunk, up to the empty one.                     *)
LastChunk ==
    /\ Parsing /\ state = "ReadingChunks" /\ chunkSize = 0
    /\ NextLine({"end"}) /\ input[1].m = activeHeaders
    /\ Take(2)
    /\ EndOfChunks
    /\ UNCHANGED situations
    /\ ReadUnchanged

(* A client that waits for no response drops the rest of the read.  The     *)
(* rest of a message it has dropped a part of finds it in any state.        *)
IgnoreUnsolicited ==
    /\ Parsing /\ state = "AwaitingUserRequest"
    /\ input' = <<>>
    /\ situations' = situations \union
         (IF stream # <<>> /\ Head(stream).k > 1 THEN {"unsolicited"} ELSE {})
    /\ UNCHANGED parserVars
    /\ ReadUnchanged /\ NoDispatch

(* prependPartialContent: the read ends inside a line.                      *)
PrependRest ==
    /\ Parsing /\ WantsLine /\ ~HasLine
    /\ prepended' = input /\ input' = <<>>
    /\ UNCHANGED <<environment, serverSide, parserVars, sendVars, loop, peerVars,
                   situations>>
    /\ NoDispatch

(* A line that is where the parser takes it for something else.             *)
Fits ==
    \/ state = "AwaitingClientRequest" /\ NextLine({"start", "bad"})
    \/ state = "AwaitingResponse" /\ NextLine({"start"})
    \/ /\ state = "ReadingHeaders" /\ input[1].m = activeHeaders
       /\ NextLine({"Content-Length-0", "Content-Length-2", "Transfer-Encoding", "end"})
    \/ /\ state = "ReadingChunks" /\ input[1].m = activeHeaders
       /\ NextLine(IF chunkSize = 0 THEN {"end"} ELSE {"size", "crlf", "last"})

LineEnd == CHOOSE n \in DOMAIN input : /\ Is(input[n]).eol
                                       /\ \A i \in 1 .. n - 1 : ~Is(input[i]).eol
Blank == \A i \in 1 .. LineEnd : Is(input[i]).what \in {"end", "crlf"}

(* Where a request or status line is awaited.  Empty lines are white space. *)
(* Other lines are no request; some pass for a status line, and when one    *)
(* does not the stream has failed and the rest of the read is dropped.      *)
MisreadStart ==
    \/ /\ AwaitingStart /\ Blank
       /\ Take(LineEnd)
       /\ UNCHANGED <<parserVars, connectionVars>>
    \/ /\ state = "AwaitingClientRequest"
       /\ ResetIncomingHttpState(pendingResponseOptions)
       /\ CloseConnection
       /\ Take(LineEnd) \/ input' = <<>>
    \/ /\ state = "AwaitingResponse"
       /\ contentSize' = None /\ chunkSize' = None /\ httpBody' = <<>>
       /\ state' = "ReadingHeaders"
       /\ \/ /\ ~Blank /\ Take(LineEnd)
             /\ activeHeaders' = IF Is(input[LineEnd]).what = "start" THEN input[LineEnd].m
                                 ELSE None
          \/ input' = <<>> /\ activeHeaders' = None
       /\ UNCHANGED <<chunkedBody, connectionVars>>

(* Among header fields: another field, or the end of the header, of which   *)
(* any field may have been lost.                                            *)
MisreadField ==
    /\ state = "ReadingHeaders" /\ ~Blank
    /\ activeHeaders' = None
    /\ UNCHANGED <<state, contentSize, chunkSize, chunkedBody, httpBody>>
MisreadEnd ==
    /\ state = "ReadingHeaders" /\ Blank
    /\ \E kind \in {"none"} \union {messages[m].kind : m \in DOMAIN messages} : Framed(kind)

(* Among chunks: whatever is no number leaves the size uninitialised.       *)
MisreadChunk ==
    /\ state = "ReadingChunks"
    /\ \/ chunkSize = None /\ ~Blank /\ chunkSize' \in {0, ChunkLength}
       \/ ~(chunkSize = 0 <=> Blank) /\ UNCHANGED chunkSize
    /\ UNCHANGED <<state, activeHeaders, contentSize, chunkedBody, httpBody>>
MisreadLast == state = "ReadingChunks" /\ chunkSize = 0 /\ Blank /\ EndOfChunks

Misread ==
    /\ Parsing /\ WantsLine /\ HasLine /\ ~Fits
    /\ \/ MisreadStart /\ NoDispatch
       \/ /\ \/ (MisreadField \/ MisreadChunk) /\ NoDispatch
             \/ MisreadEnd \/ MisreadLast
          /\ Take(LineEnd)
          /\ UNCHANGED connectionVars
    /\ situations' = situations \union {"misread"}
    /\ UNCHANGED <<environment, serverSide, prepended, sendVars, loop, connection,
                   messages>>

(* The payload handler returns; an error ends the loop.                     *)
HandlerReturns ==
    /\ loop = "running" /\ calling
    /\ calling' = FALSE
    /\ loop' \in {"running", "ended"}
    /\ UNCHANGED <<environment, serverSide, readVars, pendingResponseOptions, sendVars,
                   peerVars, delivered, situations>>

-----------------------------------------------------------------------------
(* Sending.                                                                 *)
Idle == loop = "running" /\ ~calling /\ input = <<>>
(* The application calls from its own actions, and from its handler.        *)
MayCall == Idle \/ (loop = "running" /\ calling)

(* Bound: the application and the peer start nothing more once a line is    *)
(* misread or an unsolicited message taken for a response.                  *)
Followed == situations \intersect {"misread", "unsolicited"} = {}

(* onDisconnected of this class and of its base.                            *)
OnDisconnected(pending) ==
    /\ ResetIncomingHttpState(pending)
    /\ open' = FALSE /\ stream' = <<>> /\ sendQueue' = <<>>
    /\ UNCHANGED closing

Sending(kind) ==
    /\ Followed /\ MayCall /\ Len(sends) < MaxSends
    /\ sends' = Append(sends, kind)
    /\ UNCHANGED <<environment, serverSide, prepended, input, fileStream, wire, calling,
                   loop, connection, messages, delivered>>

UnfinishedFile == \E n \in DOMAIN sendQueue : sendQueue[n].then \in {"file", "chunk"}

(* sendAsync of the base queues the send; or refuses it, when the handler   *)
(* of outgoing payloads does; or reports a disconnect, when it is beyond    *)
(* the back pressure limit.  It does not ask for a connection.              *)
SendAsync(kind, pending) ==
    \/ /\ sendQueue' = Append(sendQueue, [send |-> Len(sends'), then |-> kind])
       /\ situations' = situations \union (IF UnfinishedFile THEN {"mixed"} ELSE {})
       /\ UNCHANGED <<parserVars, connectionVars>>
    \/ /\ "failures" \in environment
       /\ situations' = situations \union {"refused"}
       /\ UNCHANGED <<parserVars, sendQueue, connectionVars>>
    \/ /\ OnDisconnected(pending)
       /\ UNCHANGED situations

(* sendHttpData of a client.  The options are pending before the base is    *)
(* called.                                                                  *)
SendRequest ==
    /\ ~serverSide /\ Sending("plain")
    /\ pendingResponseOptions' = Append(pendingResponseOptions, Len(sends'))
    /\ SendAsync("plain", pendingResponseOptions')

(* sendHttpData of a server, for a request its handler was given.           *)
Respond(kind) ==
    /\ serverSide /\ Len(sends) < Len(delivered) /\ Sending(kind)
    /\ SendAsync(kind, pendingResponseOptions)
    /\ UNCHANGED pendingResponseOptions

(* onPayloadSent                                                            *)
OnPayloadSent ==
    /\ IF serverSide THEN /\ state' = IF state \in Reading THEN state ELSE "AwaitingClientRequest"
                          /\ UNCHANGED situations
       ELSE /\ state' = "AwaitingResponse"
            /\ situations' = situations \union (IF state \in Reading THEN {"overtaken"} ELSE {})
    /\ UNCHANGED <<activeHeaders, contentSize, chunkSize, chunkedBody, httpBody,
                   connectionVars, loop>>

(* Mutated: a file ends with the buffer that does not fill. *)
M_SendFileChunk(file) ==
    IF file.left > 1
    THEN /\ fileStream' = [file EXCEPT !.left = @ - 1]
         /\ sendQueue' = Append(Tail(sendQueue), [send |-> file.send, then |-> "chunk"])
         /\ UNCHANGED <<parserVars, connectionVars, loop, situations>>
    ELSE /\ fileStream' = file /\ sendQueue' = Tail(sendQueue)
         /\ OnPayloadSent

(* sendFileChunk: the next piece goes behind what was queued meanwhile.     *)
(* When the base refuses it the send has failed, which ends the loop; so    *)
(* does the limit of back pressure, which the TCP base reports as an error. *)
SendFileChunk(file) ==
    \/ /\ file.left > 0
       /\ fileStream' = [file EXCEPT !.left = @ - 1]
       /\ \/ /\ sendQueue' = Append(Tail(sendQueue), [send |-> file.send, then |-> "chunk"])
             /\ UNCHANGED <<parserVars, connectionVars, loop>>
          \/ /\ "failures" \in environment
             /\ sendQueue' = Tail(sendQueue) /\ loop' = "ended"
             /\ UNCHANGED <<parserVars, connectionVars>>
          \/ /\ OnDisconnected(pendingResponseOptions)
             /\ loop' = IF "SSL" \in environment THEN "running" ELSE "ended"
       /\ UNCHANGED situations
    \/ /\ file.left = 0
       /\ fileStream' = file /\ sendQueue' = Tail(sendQueue)
       /\ OnPayloadSent

(* sendFileContent: a file that cannot be opened is an error too.           *)
SendFileContent(send) ==
    \/ SendFileChunk([send |-> send, left |-> FileChunks])
    \/ /\ "failures" \in environment
       /\ sendQueue' = Tail(sendQueue) /\ loop' = "ended"
       /\ UNCHANGED <<parserVars, connectionVars, fileStream, situations>>

(* The base has written its first send, and calls what was to follow it.    *)
WriteNext ==
    /\ Idle /\ open /\ sendQueue # <<>>
    /\ LET first == Head(sendQueue)
       IN  /\ wire' = Append(wire, [connection |-> connection, send |-> first.send])
           /\ \/ /\ first.then = "plain" /\ OnPayloadSent
                 /\ sendQueue' = Tail(sendQueue) /\ UNCHANGED fileStream
              \/ first.then = "file" /\ SendFileContent(first.send)
              \/ first.then = "chunk" /\ SendFileChunk(fileStream)
    /\ UNCHANGED <<environment, serverSide, prepended, input, pendingResponseOptions, sends,
                   calling, connection, messages, delivered>>

-----------------------------------------------------------------------------
(* The connection and the peer.                                             *)
ConnectionUnchanged ==
    UNCHANGED <<environment, serverSide, prepended, input, pendingResponseOptions,
                fileStream, sends, wire, calling, loop, messages, delivered>>

(* openEndpoint of a client resets nothing of what an old connection left.  *)
OpenEndpoint ==
    /\ Followed /\ Idle /\ ~serverSide /\ ~open /\ connection < MaxOpens
    /\ connection = 0 \/ "reopen" \in environment
    /\ open' = TRUE /\ connection' = connection + 1 /\ stream' = <<>>
    /\ situations' = situations \union
         (IF \/ state \in Reading
             \/ <<prepended, chunkedBody, pendingResponseOptions, sendQueue>>
                  # <<<<>>, <<>>, <<>>, <<>>>>
          THEN {"residue"} ELSE {})
    /\ UNCHANGED <<parserVars, sendQueue, closing>>
    /\ ConnectionUnchanged

(* The parser is reset at once; what is still read of the message it was in *)
(* the middle of is read as the next one.                                   *)
CloseEndpoint ==
    /\ Followed /\ MayCall /\ "close" \in environment
    /\ ResetIncomingHttpState(pendingResponseOptions)
    /\ CloseConnection
    /\ situations' = situations \union (IF open' /\ state \in Reading THEN {"cut"} ELSE {})
    /\ UNCHANGED <<sendQueue, connection>>
    /\ ConnectionUnchanged

(* The action SSLLiveEndpoint has posted; it may find the next connection.  *)
CloseAction ==
    /\ Idle /\ closing > 0
    /\ closing' = closing - 1
    /\ open' = FALSE /\ stream' = <<>>
    /\ UNCHANGED <<parserVars, sendQueue, connection, situations>>
    /\ ConnectionUnchanged

(* A hangup or a failed read; or a queued send that finds no connection.    *)
LoseConnection ==
    /\ Idle /\ (open \/ ("SSL" \in environment /\ sendQueue # <<>>))
    /\ OnDisconnected(pendingResponseOptions)
    /\ UNCHANGED <<connection, situations>>
    /\ ConnectionUnchanged

(* TcpIpLiveEndpoint: a write that fails is an error of the action.         *)
FailWrite ==
    /\ Idle /\ sendQueue # <<>> /\ "SSL" \notin environment
    /\ loop' = "ended"
    /\ UNCHANGED <<environment, serverSide, readVars, pendingResponseOptions, sendVars,
                   calling, peerVars, delivered, situations>>

(* Requests of this connection that were written and have no answer.        *)
Unanswered ==
    {n \in DOMAIN sends : [connection |-> connection, send |-> n] \in Range(wire)}
      \ {messages[m].answers : m \in DOMAIN messages}
Oldest(S) == {n \in S : \A other \in S : n <= other}

PeerSends(kind) ==
    /\ Followed /\ loop = "running" /\ open /\ Len(messages) < MaxMessages
    /\ serverSide \/ kind # "bad"
    /\ \E answers \in {None} \union (IF serverSide THEN {} ELSE Oldest(Unanswered)) :
          /\ ~serverSide /\ answers = None => "unsolicited" \in environment
          /\ messages' = Append(messages, [kind |-> kind, connection |-> connection,
                                           answers |-> answers])
    /\ stream' = stream \o Tokens(Len(messages'), kind)
    /\ UNCHANGED <<environment, serverSide, readVars, pendingResponseOptions, sendVars,
                   calling, loop, open, closing, connection, delivered, situations>>

ParseStep ==
    \/ StartLine \/ InvalidRequest \/ HeaderLine \/ EndOfHeaders
    \/ ReadContent \/ ChunkSize \/ ChunkData \/ LastChunk
    \/ IgnoreUnsolicited \/ PrependRest \/ Misread

Call ==
    \/ SendRequest \/ (\E kind \in {"plain", "file"} : Respond(kind))
    \/ OpenEndpoint \/ CloseEndpoint

Next ==
    \/ Read \/ ParseStep \/ HandlerReturns \/ WriteNext \/ FailWrite
    \/ Call \/ CloseAction \/ LoseConnection
    \/ \E kind \in Kinds : PeerSends(kind)

Spec == Init /\ [][Next]_vars

(* The loop polls and runs the actions that send, the handler returns.      *)
FairSpec == Spec /\ WF_vars(Read) /\ WF_vars(ParseStep) /\ WF_vars(HandlerReturns)

-----------------------------------------------------------------------------
Expected(m) == messages[m].kind # "bad"

(* Over reads that end anywhere, several messages in a read, handlers that  *)
(* send, close or fail between them, connections that are closed between    *)
(* two messages and read on, and lost connections, the payload handler is   *)
(* given the messages of the peer, in order, none twice, each with its own  *)
(* whole body; and no line is taken for anything else.  The exceptions are  *)
(* unsolicited messages a client takes for a response, and what the code    *)
(* does not handle: a request that is written while a response is read      *)
(* ("overtaken"), closeEndpoint in the middle of a message ("cut"), and     *)
(* what openEndpoint finds of an old connection ("residue").                *)
DispatchedWhole ==
    situations \ {"misread"} \subseteq {"mixed", "refused"} =>
        /\ "misread" \notin situations
        /\ \A i \in DOMAIN delivered :
              /\ delivered[i].body = BodyOf(delivered[i].m)
              /\ \A j \in 1 .. i - 1 : delivered[j].m < delivered[i].m

(* "FIFO: response options are applied in the order requests were sent":    *)
(* a response is dispatched with the options of the request it answers,     *)
(* though several requests are sent before the first response, also from    *)
(* the handler of another and on a connection that is being closed or lost. *)
(* It is not so in the situations above: after a request that is written    *)
(* while a response is read, or is refused by the base, and on a connection *)
(* opened while options of the last one are pending, others may be applied. *)
OwnOptions ==
    ~serverSide /\ situations = {} =>
        \A i \in DOMAIN delivered : delivered[i].options = messages[delivered[i].m].answers

(* What is written of each response of a server: all of it, one piece after *)
(* the other, unless another response was queued before a file had been     *)
(* sent or one was refused; and when nothing is left to send every response *)
(* is complete, or else the connection is gone, or the loop ended with the  *)
(* error of a file that cannot be opened or a piece that is refused.        *)
Pieces(n) == {i \in DOMAIN wire : wire[i].send = n}
FilesContiguous ==
    serverSide /\ situations \subseteq {"cut", "misread"} =>
        /\ \A i, j \in DOMAIN wire : i < j => wire[i].send <= wire[j].send
        /\ loop = "running" /\ open /\ sendQueue = <<>> =>
              \A n \in DOMAIN sends :
                  Cardinality(Pieces(n)) = IF sends[n] = "file" THEN 1 + FileChunks ELSE 1

(* A message has arrived whole and has not been dispatched.                 *)
Waiting(m) ==
    /\ loop = "running" /\ open /\ situations = {}
    /\ m \in DOMAIN messages
    /\ messages[m].connection = connection /\ Expected(m)
    /\ serverSide \/ messages[m].answers # None
    /\ \A i \in DOMAIN delivered : delivered[i].m # m

(* Every message that has arrived is dispatched in the end, also when no    *)
(* byte follows it, unless its connection or the loop ends before.          *)
EachDispatched == \A m \in 1 .. MaxMessages : Waiting(m) ~> ~Waiting(m)
=============================================================================
