----------------------------- MODULE HttpStream -----------------------------
(***************************************************************************)
(* HttpServer::handleClient on one connection: recv, http_parser with the  *)
(* callbacks that fill an HttpRequest, the servlet, and send.              *)
(*                                                                         *)
(* A request travels as a sequence of pieces.  The strings the callbacks   *)
(* get (path, header name, header value) travel in two pieces each, so     *)
(* that a chunk may end before, within or after one.  The peer writes      *)
(* whole requests; the network delivers them in chunks.                    *)
(*                                                                         *)
(* Of the headers only Connection and Content-Length have an effect on the *)
(* server.  Chunked bodies and upgrades are left out, and so are chunks    *)
(* that fill the buffer of recv or contain a zero byte.  No body contains  *)
(* what looks like a request line: the rest of a body that a new parser    *)
(* gets is an error.                                                       *)
(*                                                                         *)
(* The server has several threads, so that the edge a wait needs may be    *)
(* dropped (Connections, HookedIO).                                        *)
(***************************************************************************)
EXTENDS Integers, Sequences, FiniteSets

CONSTANTS
  Paths,
  Routes,        \* the keys of mDatas
  Requests,      \* the requests that are made, see Request
  Clients,       \* the ways to use a connection, see ClientKind
  MaxRequests,   \* bound: requests on the connection
  Size,          \* the length of a response, in units that send takes
  MaxSize        \* the largest size_t

ClientKind == [split : BOOLEAN,   \* may a chunk end within a string?
               pipe  : BOOLEAN,   \* are requests sent ahead of answers?
               reset : BOOLEAN]   \* may the connection be reset?

Request == [path  : Paths,
            minor : {0, 1},       \* HTTP/1.0 or HTTP/1.1
            conn  : {"none", "close", "keep-alive"},
            body  : Nat]          \* its length, in pieces

ASSUME HttpAssumption ==
  /\ Routes \subseteq Paths /\ "partial" \notin Paths
  /\ Requests \subseteq Request
  /\ Clients \subseteq ClientKind
  /\ MaxRequests \in Nat
  /\ Size \in Nat \ {0} /\ MaxSize \in Nat /\ Size < MaxSize

VARIABLES
  client,    \* what this peer does, chosen once
  asked,     \* Seq(Requests): the requests it wrote
  stream,    \* their pieces
  arrived,   \* how many pieces the network has delivered
  missed,    \* history: the edge that should end the present wait was dropped
  peer,      \* "open", "shut" (FIN), "reset" (RST) or "broken" (RST reported)
  pc,        \* where handleClient is
  got,       \* how many pieces recv has returned: the end of buf
  at,        \* how many pieces the parser has consumed: p
  parser,    \* mParser
  run,       \* from the mark of the current string up to p
  data,      \* the HttpRequest mData, and isFinish
  response,  \* what the servlet made of it
  offset,    \* of the next send in send_buf
  answers    \* the responses that were sent completely

conn == <<client, asked, stream, arrived, missed>>
http == <<parser, run, data>>
out  == <<response, offset, answers>>
vars == <<conn, peer, pc, got, at, http, out>>

Kinds == {"method", "url", "version", "name", "colon", "value", "crlf",
          "length", "end", "body"}

Pieces == [kind : Kinds, req : 1 .. MaxRequests]

\* The kinds of the pieces of a request.
Layout(r) ==
  << "method", "url", "url", "version" >>
  \o (IF r.conn = "none" THEN << >>
      ELSE << "name", "name", "colon", "value", "value", "crlf" >>)
  \o (IF r.body = 0 THEN << >> ELSE << "length" >>)
  \o << "end" >>
  \o [k \in 1 .. r.body |-> "body"]

Wire(r, i) ==
  [k \in 1 .. Len(Layout(r)) |-> [kind |-> Layout(r)[k], req |-> i]]

\* A string is the sequence of its pieces.
Whole(s) == Len(s) = 2

IsConnection(key) == Whole(key) /\ key[1].kind = "name"
IsClose(val)      == Whole(val) /\ asked[val[1].req].conn = "close"
-----------------------------------------------------------------------------
\* HttpRequest and the callbacks.

HttpRequest ==
  [mPath |-> << >>, mTmpHeader |-> << >>, mKeepAlive |-> FALSE,
   mBody |-> << >>, isFinish |-> FALSE]

request_url_callback(d, s)          == [d EXCEPT !.mPath = s]
request_header_field_callback(d, s) == [d EXCEPT !.mTmpHeader = s]
request_body_callback(d, s)         == [d EXCEPT !.mBody = @ \o s]
\* Mutant: on_message_complete is not registered, as in HttpResponseParser.
request_body_complete_Unset(d) == d

request_body_complete(d)            == [d EXCEPT !.isFinish = TRUE]

request_header_value_callback(d, s) ==
  IF IsConnection(d.mTmpHeader)
  THEN [d EXCEPT !.mKeepAlive = ~ IsClose(s)]
  ELSE d
-----------------------------------------------------------------------------
\* http_parser_execute, one action per state.

\* content_length is 0 also for a request without that header.
http_parser_init ==
  [state |-> "s_start_req", minor |-> 0, content_length |-> 0,
   close |-> FALSE, keep_alive |-> FALSE]

http_should_keep_alive(p) == IF p.minor > 0 THEN ~ p.close ELSE p.keep_alive

NEW_MESSAGE(p) ==
  IF http_should_keep_alive(p) THEN "s_start_req" ELSE "s_dead"

Piece == stream[at + 1]

Asking == asked[Piece.req]     \* the request that the piece belongs to

On(state, kind) ==
  pc = "execute" /\ at < got /\ parser.state = state /\ Piece.kind = kind

\* The parser consumes the piece.
Becomes(p, s, d) ==
  /\ at' = at + 1 /\ parser' = p /\ run' = s /\ data' = d
  /\ UNCHANGED <<conn, peer, pc, got, out>>

To(state) == [parser EXCEPT !.state = state]

\* A string begins, or goes on.
Mark(from, kind, to)  == On(from, kind) /\ Becomes(To(to), << Piece >>, data)
More(state, kind)     == On(state, kind) /\ Becomes(parser, Append(run, Piece), data)

s_start_req ==
  /\ On("s_start_req", "method")
  /\ Becomes([http_parser_init EXCEPT !.state = "s_req_spaces_before_url"],
             run, data)

\* Line ends before a request line are skipped.
Blank ==
  /\ \E s \in {"s_start_req", "s_dead"}, k \in {"crlf", "end"} : On(s, k)
  /\ Becomes(parser, run, data)

Url ==
  \/ Mark("s_req_spaces_before_url", "url", "s_req_path")
  \/ More("s_req_path", "url")
  \/ /\ On("s_req_path", "version")
     /\ Becomes([To("s_header_field_start") EXCEPT !.minor = Asking.minor],
                run, request_url_callback(data, run))

HeaderField ==
  \/ Mark("s_header_field_start", "name", "s_header_field")
  \/ More("s_header_field", "name")
  \/ /\ On("s_header_field", "colon")
     /\ Becomes(To("s_header_value_discard_ws"), run,
                request_header_field_callback(data, run))

HeaderValue ==
  \/ Mark("s_header_value_discard_ws", "value", "s_header_value")
  \/ More("s_header_value", "value")

\* The parser matches the tokens of Connection across chunks, by index.
HeaderEnd ==
  /\ On("s_header_value", "crlf")
  /\ Becomes([To("s_header_field_start") EXCEPT
                !.close = Asking.conn = "close",
                !.keep_alive = Asking.conn = "keep-alive"],
             run, request_header_value_callback(data, run))

\* The line of Content-Length: h_content_length_num, and both callbacks.
ContentLength ==
  /\ On("s_header_field_start", "length")
  /\ Becomes([parser EXCEPT !.content_length = Asking.body], run,
             request_header_value_callback(
               request_header_field_callback(data, << Piece >>), << Piece >>))

\* Mutant: The end of the headers ends the request.
s_headers_done_NoBody ==
  /\ On("s_header_field_start", "end")
  /\ Becomes(To(NEW_MESSAGE(parser)), run, request_body_complete(data))

s_headers_done ==
  /\ On("s_header_field_start", "end")
  /\ IF parser.content_length = 0
     THEN Becomes(To(NEW_MESSAGE(parser)), run, request_body_complete(data))
     ELSE Becomes(To("s_body_identity"), run, data)

s_body_identity ==
  /\ On("s_body_identity", "body")
  /\ LET p == [parser EXCEPT !.content_length = @ - 1]
         d == request_body_callback(data, << Piece >>) IN
     IF p.content_length = 0
     THEN Becomes([p EXCEPT !.state = NEW_MESSAGE(p)], run,
                  request_body_complete(d))
     ELSE Becomes(p, run, d)

ExecuteStep ==
  \/ s_start_req \/ Blank \/ Url \/ HeaderField \/ HeaderValue
  \/ HeaderEnd \/ ContentLength \/ s_headers_done \/ s_body_identity

\* What is not the beginning of a request, or comes after one that closes:
\* execute returns less than it was given.
ParserError ==
  /\ pc = "execute" /\ at < got
  /\ \/ parser.state = "s_start_req" /\ Piece.kind \notin {"method", "crlf", "end"}
     \/ parser.state = "s_dead" /\ Piece.kind \notin {"crlf", "end"}
  /\ pc' = "closed"
  /\ UNCHANGED <<conn, peer, got, at, http, out>>

\* The chunk is used up.  A string that has a mark is passed on as it is.
ExecuteEnd ==
  /\ pc = "execute" /\ at = got
  /\ data' = CASE parser.state = "s_req_path"     -> request_url_callback(data, run)
               [] parser.state = "s_header_field" -> request_header_field_callback(data, run)
               [] parser.state = "s_header_value" -> request_header_value_callback(data, run)
               [] OTHER -> data
  /\ pc' = IF data.isFinish THEN "handle" ELSE "recv"
  /\ UNCHANGED <<conn, peer, got, at, parser, run, out>>
-----------------------------------------------------------------------------
\* handleClient.

\* The buffer gets all that has arrived.  If the parser is within a string,
\* its mark is the beginning of the buffer.
Recv ==
  /\ pc = "recv" /\ got < arrived
  /\ got' = arrived /\ run' = << >> /\ pc' = "execute"
  /\ UNCHANGED <<conn, peer, at, parser, data, out>>

RecvNothing ==
  /\ pc = "recv" /\ got = arrived /\ peer # "open"
  /\ pc' = "closed"
  /\ UNCHANGED <<conn, peer, got, at, http, out>>

\* recv would block: addEvent, and yield.
RecvWaits ==
  /\ pc = "recv" /\ got = arrived /\ peer = "open"
  /\ pc' = "wait"
  /\ UNCHANGED <<conn, peer, got, at, http, out>>

Readable == got < arrived \/ peer # "open"

\* The event wakes the fiber, and recv is called again.
Woken ==
  /\ pc = "wait" /\ Readable /\ ~ missed
  /\ pc' = "recv"
  /\ UNCHANGED <<conn, peer, got, at, http, out>>

\* ServletDispatch::handle.  A part of a path is not a key of mDatas.
PathOf(s) == IF Whole(s) THEN asked[s[1].req].path ELSE "partial"

\* The servlets' answer to d.  The path and the body it was made for are kept.
Servlet(d) ==
  [ path   |-> PathOf(d.mPath),
    status |-> IF PathOf(d.mPath) \in Routes THEN 200 ELSE 404,
    keep   |-> d.mKeepAlive,
    body   |-> Len(d.mBody) ]

Handle ==
  /\ pc = "handle" /\ response' = Servlet(data)
  /\ offset' = 0 /\ pc' = "send"
  /\ UNCHANGED <<conn, peer, got, at, http, answers>>

\* Mutant: The parser of one request is used for the next.
Send_KeepsRequest(n) ==
  /\ pc = "send" /\ ~ missed /\ peer \in {"open", "shut"} /\ n \in 1 .. Size - offset
  /\ offset' = offset + n
  /\ IF offset' # Size
     THEN UNCHANGED <<pc, http, answers>>
     ELSE /\ answers' = Append(answers, response)
          /\ pc' = IF data.mKeepAlive THEN "recv" ELSE "closed"
          /\ data' = [data EXCEPT !.isFinish = FALSE]
          /\ UNCHANGED <<parser, run>>
  /\ UNCHANGED <<conn, peer, got, at, response>>

\* Mutant: send is given the size of all of send_buf each time.
Send_WholeSize(n) ==
  /\ pc = "send" /\ ~ missed /\ peer \in {"open", "shut"} /\ n \in 1 .. Size
  /\ offset' = offset + n
  /\ IF offset' # Size
     THEN UNCHANGED <<pc, http, answers>>
     ELSE /\ answers' = Append(answers, response)
          /\ pc' = IF data.mKeepAlive THEN "recv" ELSE "closed"
          /\ parser' = http_parser_init /\ data' = HttpRequest /\ run' = << >>
  /\ UNCHANGED <<conn, peer, got, at, response>>

\* send takes n units, after a wait for room if need be.
Send(n) ==
  /\ pc = "send" /\ ~ missed /\ peer \in {"open", "shut"} /\ n \in 1 .. Size - offset
  /\ offset' = offset + n
  /\ IF offset' # Size
     THEN UNCHANGED <<pc, http, answers>>
     ELSE /\ answers' = Append(answers, response)
          /\ pc' = IF data.mKeepAlive THEN "recv" ELSE "closed"
          /\ parser' = http_parser_init /\ data' = HttpRequest /\ run' = << >>
  /\ UNCHANGED <<conn, peer, got, at, response>>

\* send returns -1, which is added to the unsigned offset.
SendFails ==
  /\ pc = "send" /\ peer = "reset"
  /\ offset' = (offset + MaxSize) % (MaxSize + 1)
  /\ peer' = "broken"
  /\ UNCHANGED <<conn, pc, got, at, http, response, answers>>

\* send again: SIGPIPE, which nobody catches.
SigPipe ==
  /\ pc = "send" /\ peer = "broken"
  /\ pc' = "killed"
  /\ UNCHANGED <<conn, peer, got, at, http, out>>

Server ==
  \/ ExecuteStep \/ ParserError \/ ExecuteEnd
  \/ Recv \/ RecvNothing \/ RecvWaits \/ Woken \/ Handle
  \/ \E n \in 1 .. Size : Send(n)
  \/ SendFails \/ SigPipe
-----------------------------------------------------------------------------
\* The idle fibers, the peer and the network.

\* Before the fiber that waits is registered, another thread's idle fiber is
\* told of what it waits for, and drops it.
EdgeDropped ==
  /\ ~ missed
  /\ \/ pc = "wait" /\ Readable
     \/ pc = "send" /\ peer \in {"open", "shut"}
  /\ missed' = TRUE
  /\ UNCHANGED <<client, asked, stream, arrived, peer, pc, got, at, http, out>>

Serving == pc \notin {"closed", "killed"}

Ask(r) ==
  /\ Serving /\ peer = "open" /\ Len(asked) < MaxRequests
  /\ client.pipe \/ Len(answers) = Len(asked)
  /\ asked' = Append(asked, r)
  /\ stream' = stream \o Wire(r, Len(asked) + 1)
  /\ UNCHANGED <<client, arrived, missed, peer, pc, got, at, http, out>>

\* Would a chunk that ends after piece n end within a string?
Splits(n) == n < Len(stream) /\ stream[n].kind \in {"url", "name", "value"}

\* A new edge, for who waits for data.
Arrive ==
  /\ Serving /\ peer = "open"
  /\ \E n \in arrived + 1 .. Len(stream) :
       (client.split \/ ~ Splits(n)) /\ arrived' = n
  /\ missed' = (missed /\ pc = "send")
  /\ UNCHANGED <<client, asked, stream, peer, pc, got, at, http, out>>

\* A new edge, whatever the fiber waits for.
Leave ==
  /\ Serving /\ peer = "open" /\ peer' = "shut" /\ missed' = FALSE
  /\ UNCHANGED <<client, asked, stream, arrived, pc, got, at, http, out>>

\* After a FIN the error is EPIPE, and SIGPIPE comes with the first send.
Reset ==
  /\ Serving /\ client.reset /\ peer \in {"open", "shut"}
  /\ peer' = IF peer = "open" THEN "reset" ELSE "broken"
  /\ missed' = FALSE
  /\ UNCHANGED <<client, asked, stream, arrived, pc, got, at, http, out>>

Init ==
  /\ client \in Clients
  /\ asked = << >> /\ stream = << >> /\ arrived = 0 /\ missed = FALSE /\ peer = "open"
  /\ pc = "recv" /\ got = 0 /\ at = 0
  /\ parser = http_parser_init /\ run = << >> /\ data = HttpRequest
  /\ response = [path |-> "partial", status |-> 0, keep |-> FALSE, body |-> 0]
  /\ offset = 0 /\ answers = << >>

Next ==
  Server \/ EdgeDropped \/ (\E r \in Requests : Ask(r)) \/ Arrive \/ Leave \/ Reset

Spec == Init /\ [][Next]_vars

\* handleClient goes on when it can, and is woken unless the edge was dropped
\* (Scheduler, HookedIO); the network delivers, and a peer reads what it is sent.
FairSpec == Spec /\ WF_vars(Server) /\ WF_vars(Arrive)
-----------------------------------------------------------------------------
\* Properties.

\* The client neither sends ahead nor has a string cut by a chunk.
Careful == ~ client.split /\ ~ client.pipe

\* Each variable holds a value of its kind, and what is parsed, received and
\* delivered is in this order.
TypeOK ==
  /\ client \in Clients
  /\ asked \in Seq(Requests) /\ Len(asked) <= MaxRequests
  /\ stream \in Seq(Pieces)
  /\ peer \in {"open", "shut", "reset", "broken"}
  /\ pc \in {"recv", "wait", "execute", "handle", "send", "closed", "killed"}
  /\ missed \in BOOLEAN /\ (missed => pc \in {"wait", "send"})
  /\ at \in Nat /\ got \in Nat /\ arrived \in Nat
  /\ at <= got /\ got <= arrived /\ arrived <= Len(stream)
  /\ parser \in [state : {"s_start_req", "s_req_spaces_before_url",
                          "s_req_path", "s_header_field_start",
                          "s_header_field", "s_header_value_discard_ws",
                          "s_header_value", "s_body_identity", "s_dead"},
                 minor : {0, 1}, content_length : Nat,
                 close : BOOLEAN, keep_alive : BOOLEAN]
  /\ run \in Seq(Pieces)
  /\ data \in [mPath : Seq(Pieces), mTmpHeader : Seq(Pieces),
               mKeepAlive : BOOLEAN, mBody : Seq(Pieces), isFinish : BOOLEAN]
  /\ response \in [path : Paths \cup {"partial"}, status : {0, 200, 404},
                   keep : BOOLEAN, body : Nat]
  /\ offset \in 0 .. MaxSize
  /\ peer \in {"open", "shut"} => offset <= Size

\* The requests whose last piece the parser has consumed.
Parsed ==
  {i \in DOMAIN asked : \A k \in DOMAIN stream : stream[k].req = i => k <= at}

\* handleClient answers no request before it has read all of it, and none
\* twice, whatever the client does; and the servlet gets a body complete and
\* in order, however the chunks cut it.
RequestIsWhole ==
  /\ Len(answers) + (IF pc \in {"handle", "send"} THEN 1 ELSE 0)
       <= Cardinality(Parsed)
  /\ pc \in {"handle", "send"} /\ ~ client.pipe =>
       LET n == Len(answers) + 1 IN
       data.mBody = [k \in 1 .. asked[n].body |-> [kind |-> "body", req |-> n]]

RR == INSTANCE RequestReply
        WITH open <- Serving, left <- peer # "open"

\* With a careful client handleClient does what RequestReply says: the answers
\* are those of the requests, in their order, and the connection ends after
\* the answer that says so or when the client has left.
RepliesInOrder ==
  [][Careful => RR!Next \/ UNCHANGED <<asked, answers, Serving, peer # "open">>]_vars

\* A request that has arrived is answered unless the client leaves, also if
\* it comes in pieces.  The one excuse is an edge that was dropped between
\* epoll_ctl and the registration (IOManager.cpp:102, 110, 227) with none after it.
EveryRequestAnswered ==
  []<>(~ missed) =>
    \A i \in 1 .. MaxRequests :
      ~ client.pipe /\ i <= Len(asked) /\ arrived = Len(stream)
        ~> Len(answers) >= i \/ peer # "open"
=============================================================================
