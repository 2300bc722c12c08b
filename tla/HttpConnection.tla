---------------------------- MODULE HttpConnection ----------------------------
(***************************************************************************)
(* A connection of katana::http::server, from handle_connection() to its   *)
(* client.                                                                 *)
(*                                                                         *)
(* The reactor calls handle_connection() when the socket is ready for what *)
(* the connection waits for.  It finishes the response it has begun, reads *)
(* and parses a request, dispatches it, writes the response, and goes on   *)
(* with what else it has read.  The client sends its requests without      *)
(* waiting for the responses, in segments, and may end or reset the        *)
(* connection.  The sockets are external; the router is not looked at: a   *)
(* request is answered with a response of ResponseSize units.              *)
(***************************************************************************)
EXTENDS HttpParser

CONSTANTS
  Scripts,       \* what the client may say: sequences of requests
  Splits,        \* the client's segments may end within a request
  ResponseSize,  \* the length of a response
  ReadSize,      \* the bytes that are read at once
  SendBuffer     \* what the client's end holds until the client takes it

ASSUME ConnectionAssumption ==
  /\ Splits \in BOOLEAN
  /\ ResponseSize \in Nat \ {0} /\ ReadSize \in Nat \ {0} /\ SendBuffer \in Nat \ {0}
  /\ Scripts \subseteq Seq(Seq([kind : STRING, n : Nat]))

VARIABLES
  sent,             \* how many units of its script the client has sent
  peer,             \* "open", "ended" or "reset" by the client
  received,         \* how many of them the server has read
  outbox,           \* what the server has written, not yet with the client
  delivered,        \* what the client has received
  pc,               \* where in handle_connection() the server is
  interest,         \* the event that the fd_watch asks for
  read_buffer,      \* read_buffer
  write_buffer,     \* write_buffer
  close_requested,  \* close_requested
  answered          \* history: the requests that were dispatched

client  == <<requests, sent, peer>>
socket  == <<received, outbox, delivered>>
buffers == <<read_buffer, write_buffer, close_requested, answered>>
vars    == <<client, parser, socket, pc, interest, buffers>>

Stream == FlattenSeq([r \in DOMAIN requests |-> [i \in DOMAIN requests[r] |-> <<r, i>>]])

\* The length of the stream up to the end of request r.
EndOf(r) == Cardinality({j \in DOMAIN Stream : Stream[j][1] <= r})

Init ==
  /\ requests \in Scripts
  /\ ParserInit
  /\ sent = 0
  /\ peer = "open"
  /\ received = 0
  /\ outbox = <<>>
  /\ delivered = <<>>
  /\ pc = "idle"
  /\ interest = "readable"
  /\ read_buffer = <<>>
  /\ write_buffer = <<>>
  /\ close_requested = FALSE
  /\ answered = <<>>

-----------------------------------------------------------------------------
(* The client. *)

Send ==
  /\ peer = "open"
  /\ sent' \in IF Splits THEN sent + 1 .. Len(Stream)
               ELSE {n \in {EndOf(r) : r \in DOMAIN requests} : n > sent}
  /\ UNCHANGED <<requests, peer, parser, socket, pc, interest, buffers>>

End ==
  /\ peer = "open"
  /\ peer' \in {"ended", "reset"}
  /\ UNCHANGED <<requests, sent, parser, socket, pc, interest, buffers>>

Receive ==
  /\ outbox # <<>>
  /\ delivered' = Append(delivered, Head(outbox))
  /\ outbox' = Tail(outbox)
  /\ UNCHANGED <<client, parser, received, pc, interest, buffers>>

-----------------------------------------------------------------------------
(* handle_connection() *)

Goto(label) == pc' = label

\* The state of the connection goes with the callback that holds it.
Close == Goto("closed") /\ UNCHANGED interest

\* watch->modify(), and back to the reactor.
WaitFor(event) == Goto("idle") /\ interest' = event

\* The reactor finds the socket ready and calls.
Ready ==
  \/ interest = "readable" /\ (received < sent \/ peer # "open")
  \/ interest = "writable" /\ Len(outbox) < SendBuffer
  \/ peer = "reset"

Continue == IF read_buffer # <<>> THEN "feed" ELSE "read"

Call ==
  /\ pc = "idle"
  /\ Ready
  /\ Goto(IF write_buffer # <<>> THEN "write" ELSE Continue)
  /\ UNCHANGED <<client, parser, socket, interest, buffers>>

\* What has arrived is read, as much of it as is asked for.
Read ==
  /\ pc = "read"
  /\ received < sent /\ peer # "reset"
  /\ received' = Min({sent, received + ReadSize})
  /\ read_buffer' = read_buffer \o SubSeq(Stream, received + 1, received')
  /\ Goto("feed")
  /\ UNCHANGED <<client, parser, outbox, delivered, interest,
                 write_buffer, close_requested, answered>>

ReadBlocks ==
  /\ pc = "read"
  /\ received = sent /\ peer = "open"
  /\ WaitFor("readable")
  /\ UNCHANGED <<client, parser, socket, buffers>>

ReadFails ==
  /\ pc = "read"
  /\ peer = "reset" \/ (received = sent /\ peer = "ended")
  /\ Close
  /\ UNCHANGED <<client, parser, socket, buffers>>

\* The parser is fed with all that has not been consumed.
Feed ==
  /\ pc = "feed"
  /\ Parse(read_buffer)
  /\ Goto("parse")
  /\ UNCHANGED <<client, socket, interest, buffers>>

RunParser ==
  /\ pc = "parse"
  /\ ParserStep
  /\ UNCHANGED <<client, socket, pc, interest, buffers>>

Response(n) == [i \in 1 .. ResponseSize |-> <<n, i>>]
BadRequest  == Response(0)

\* The response is left in the buffer when the connection is closed.
Refuse ==
  /\ pc = "parse"
  /\ result = "error"
  /\ write_buffer' = write_buffer \o BadRequest
  /\ Close
  /\ UNCHANGED <<client, parser, socket, read_buffer, close_requested, answered>>

Incomplete ==
  /\ pc = "parse"
  /\ result = "ok" /\ state # "complete"
  /\ Goto("read")
  /\ UNCHANGED <<client, parser, socket, interest, buffers>>

\* bytes_parsed() are consumed, and the request is dispatched.
Dispatch ==
  /\ pc = "parse"
  /\ result = "ok" /\ state = "complete"
  /\ read_buffer' = SubSeq(read_buffer, parse_pos + 1, Len(read_buffer))
  /\ answered' = Append(answered, [line |-> request.line, body |-> request.body])
  /\ close_requested' = ("close" \in request.headers)
  /\ write_buffer' = write_buffer \o Response(Len(answered'))
  /\ Goto("write")
  /\ UNCHANGED <<client, parser, socket, interest>>

\* socket.write() takes what there is room for.
Write ==
  /\ pc = "write"
  /\ peer # "reset"
  /\ write_buffer # <<>> /\ Len(outbox) < SendBuffer
  /\ LET n == Min({SendBuffer - Len(outbox), Len(write_buffer)})
     IN  /\ outbox' = outbox \o SubSeq(write_buffer, 1, n)
         /\ write_buffer' = SubSeq(write_buffer, n + 1, Len(write_buffer))
  /\ UNCHANGED <<client, parser, received, delivered, pc, interest,
                 read_buffer, close_requested, answered>>

\* Mutant: what is left of the response waits for the next request.
WriteBlocksRead ==
  /\ pc = "write"
  /\ peer # "reset"
  /\ write_buffer # <<>> /\ Len(outbox) = SendBuffer
  /\ WaitFor("readable")
  /\ UNCHANGED <<client, parser, socket, buffers>>

WriteBlocks ==
  /\ pc = "write"
  /\ peer # "reset"
  /\ write_buffer # <<>> /\ Len(outbox) = SendBuffer
  /\ WaitFor("writable")
  /\ UNCHANGED <<client, parser, socket, buffers>>

WriteFails ==
  /\ pc = "write"
  /\ peer = "reset" /\ write_buffer # <<>>
  /\ Close
  /\ UNCHANGED <<client, parser, socket, buffers>>

\* Mutant: the connection is closed with the response half written.
WrittenPartly ==
  /\ pc = "write"
  /\ close_requested
  /\ Close
  /\ UNCHANGED <<client, parser, socket, buffers>>

WrittenLast ==
  /\ pc = "write"
  /\ write_buffer = <<>> /\ close_requested
  /\ Close
  /\ UNCHANGED <<client, parser, socket, buffers>>

\* Mutant: the parser is not reset.
WrittenUnreset ==
  /\ pc = "write"
  /\ write_buffer = <<>> /\ ~close_requested
  /\ UNCHANGED parser
  /\ IF read_buffer = <<>> THEN WaitFor("readable") ELSE Goto("feed") /\ UNCHANGED interest
  /\ UNCHANGED <<client, socket, buffers>>

\* Mutant: what has been read of the next request waits for more.
WrittenWaits ==
  /\ pc = "write"
  /\ write_buffer = <<>> /\ ~close_requested
  /\ Reset
  /\ WaitFor("readable")
  /\ UNCHANGED <<client, socket, buffers>>

\* The parser is made ready for the next request.
Written ==
  /\ pc = "write"
  /\ write_buffer = <<>> /\ ~close_requested
  /\ Reset
  /\ IF read_buffer = <<>> THEN WaitFor("readable") ELSE Goto("feed") /\ UNCHANGED interest
  /\ UNCHANGED <<client, socket, buffers>>

-----------------------------------------------------------------------------
HandleConnection ==
  \/ Call \/ Read \/ ReadBlocks \/ ReadFails
  \/ Feed \/ RunParser \/ Refuse \/ Incomplete \/ Dispatch
  \/ Write \/ WriteBlocks \/ WriteFails \/ WrittenLast \/ Written

Next == Send \/ End \/ Receive \/ HandleConnection

Spec == Init /\ [][Next]_vars

\* The reactor goes on, and so does the client when there is something for it;
\* it need not say anything.
FairSpec == Spec /\ WF_vars(HandleConnection) /\ WF_vars(Receive)

-----------------------------------------------------------------------------
(* Properties. *)

Units == UNION {{r} \X DOMAIN requests[r] : r \in DOMAIN requests}
Labels == {"idle", "read", "feed", "parse", "write", "closed"}
Text  == Seq(Nat \X (1 .. ResponseSize))

TypeOK ==
  /\ state \in {"request_line", "headers", "body", "chunk_size", "chunk_data",
                "chunk_trailer", "complete"}
  /\ buffer \in Seq(Units)
  /\ parse_pos \in 0 .. Len(buffer)
  /\ content_length \in Nat /\ chunk_size \in Nat
  /\ request.line \in {0} \union DOMAIN requests
  /\ request.headers \subseteq Headers
  /\ request.body \in Seq(Units)
  /\ result \in {"parsing", "ok", "error"}
  /\ received \in 0 .. sent /\ sent \in 0 .. Len(Stream)
  /\ peer \in {"open", "ended", "reset"}
  /\ outbox \in Text /\ delivered \in Text /\ write_buffer \in Text
  /\ Len(outbox) <= SendBuffer
  /\ pc \in Labels
  /\ interest \in {"readable", "writable"}
  /\ read_buffer \in Seq(Units)
  /\ close_requested \in BOOLEAN

\* Requests as the client has meant them.
Bytes(r) == SelectSeq([i \in DOMAIN requests[r] |-> <<r, i>>],
                      LAMBDA u : Kind(u) = "byte")
Entire(r) ==
  /\ Last(requests[r]).kind \in {"end", "byte"}
  /\ Len(Bytes(r)) = FoldLeft(LAMBDA sum, unit : sum + unit.n, 0, requests[r])
Sent(r) == Entire(r) /\ EndOf(r) <= sent
Closing(r) == \E i \in DOMAIN requests[r] : requests[r][i].kind = "close"

\* The requests that are dispatched are the client's, in the order in which it
\* has sent them, each once and with its own body, and none after the one that
\* closes the connection.
AnsweredAsSent ==
  \A a \in DOMAIN answered :
    /\ a \in DOMAIN requests /\ Sent(a)
    /\ answered[a] = [line |-> a, body |-> Bytes(a)]
    /\ a > 1 => ~Closing(a - 1)

\* The client receives the responses to the requests that were dispatched, in
\* order, as they were made, and all of them, unless it resets the connection.
\* It receives nothing else: the 400 that is made for an invalid request is left
\* in write_buffer when the connection is closed (http_server.cpp:145), whatever
\* docs/HTTP_SERVER.md:395 says of it.
ResponsesKept ==
  LET made == FlattenSeq([a \in DOMAIN answered |-> Response(a)])
  IN  /\ IsPrefix(delivered \o outbox, made)
      /\ pc # "closed" => delivered \o outbox \o write_buffer = made
      /\ pc = "closed" /\ peer # "reset" => delivered \o outbox = made

\* Parser, socket and buffers are well typed, and no response to a request that
\* was dispatched is lost.
BuffersRight == TypeOK /\ ResponsesKept

\* Between two calls the connection waits for what it needs next: room, while
\* it has something to write, otherwise bytes; and it does not keep a request
\* that it could answer.
WaitsForTheRightThing ==
  pc = "idle" =>
    /\ interest = "writable" <=> write_buffer # <<>>
    /\ interest = "readable" =>
         ~\E r \in DOMAIN requests : Sent(r) /\ EndOf(r) <= received /\ r > Len(answered)

\* Every request is answered, and the client receives the answer, unless there
\* is a reset, the request is bad, or one before it is bad or closes the
\* connection.
Good(r) == \A q \in 1 .. r : Entire(q) /\ (q < r => ~Closing(q))

EveryRequestAnswered ==
  \A r \in 1 .. 4 :
    (r \in DOMAIN requests /\ Good(r) /\ Sent(r))
      ~> (peer = "reset" \/ <<r, ResponseSize>> \in ToSet(delivered))
=============================================================================
