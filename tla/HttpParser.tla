------------------------------ MODULE HttpParser ------------------------------
(***************************************************************************)
(* katana::http::parser, which is fed the bytes of a connection as they    *)
(* are read and finds a request in them.                                   *)
(*                                                                         *)
(* Bytes come in units: a line, the first part of one, or a byte of a      *)
(* body.  A unit <<r, i>> is the i-th of the r-th request of the client,   *)
(* requests[r][i], which says its kind and, of a Content-Length or a size  *)
(* of a chunk, the number n.  Every request is well formed but may be cut  *)
(* short, and within the limits on sizes and counts.  A body has no CRLF.  *)
(*                                                                         *)
(* parse() copies its argument into the buffer and runs from state to      *)
(* state until one makes no progress; result says what came of it.         *)
(***************************************************************************)
EXTENDS Integers, Sequences, FiniteSetsExt, SequencesExt

CONSTANTS
  COMPACT_THRESHOLD,  \* the length of what is parsed that is cut from the buffer
  MAX_HEADER_SIZE

ASSUME ParserAssumption == COMPACT_THRESHOLD \in Nat /\ MAX_HEADER_SIZE \in Nat

VARIABLES
  requests,        \* what the client says, a sequence of units for each request
  state,           \* state_
  buffer,          \* buffer_, as long as buffer_size_
  parse_pos,       \* parse_pos_
  content_length,  \* content_length_
  chunk_size,      \* current_chunk_size_
  request,         \* request_: the request line, the headers and the body
  result           \* "parsing" in parse(), else what the last call returned

parser == <<state, buffer, parse_pos, content_length, chunk_size, request, result>>

NoRequest == [line |-> 0, headers |-> {}, body |-> <<>>]

Reset ==
  /\ state' = "request_line"
  /\ buffer' = <<>>
  /\ parse_pos' = 0
  /\ content_length' = 0
  /\ chunk_size' = 0
  /\ request' = NoRequest
  /\ result' = "ok"

ParserInit ==
  /\ state = "request_line"
  /\ buffer = <<>>
  /\ parse_pos = 0
  /\ content_length = 0
  /\ chunk_size = 0
  /\ request = NoRequest
  /\ result = "ok"

-----------------------------------------------------------------------------
(* Lines. *)

Unit(u) == requests[u[1]][u[2]]
Kind(u) == Unit(u).kind

Headers == {"header", "length", "chunked", "close"}
Ending  == Headers \union {"line", "end", "size", "crlf"}

\* Where the next CRLF may be, and the line that it ends.
LineEnds == {i \in parse_pos + 1 .. Len(buffer) : Kind(buffer[i]) \in Ending}
LineEnd  == Min(LineEnds)
Line     == SubSeq(buffer, parse_pos + 1, LineEnd)

\* The line is one that the client has sent.
Whole ==
  LET r == Line[1][1]
      i == Line[1][2]
  IN  /\ \A j \in DOMAIN Line : Line[j] = <<r, i + j - 1>>
      /\ i > 1 => Kind(<<r, i - 1>>) \in Ending

LineIs(kinds) == Whole /\ Kind(Last(Line)) \in kinds

-----------------------------------------------------------------------------
(* parse() *)

Parse(data) ==
  /\ result # "parsing"
  /\ result' = "parsing"
  /\ buffer' = buffer \o data
  /\ UNCHANGED <<state, parse_pos, content_length, chunk_size, request>>

\* A state that takes a line.
Reads(from) ==
  /\ result = "parsing"
  /\ state = from
  /\ LineEnds # {}
  /\ parse_pos' = LineEnd
  /\ UNCHANGED <<buffer, result>>

ParseRequestLine ==
  /\ Reads("request_line")
  /\ LineIs({"line"})
  /\ state' = "headers"
  /\ request' = [request EXCEPT !.line = Last(Line)[1]]
  /\ UNCHANGED <<content_length, chunk_size>>

ParseHeader ==
  /\ Reads("headers")
  /\ LineIs(Headers)
  /\ request' = [request EXCEPT !.headers = @ \union {Kind(Last(Line))}]
  /\ content_length' = IF Kind(Last(Line)) = "length" THEN Unit(Last(Line)).n
                                                      ELSE content_length
  /\ UNCHANGED <<state, chunk_size>>

\* Whatever follows it, a line that begins with a name and a colon is a header.
ParseGarbledHeader ==
  /\ Reads("headers")
  /\ ~Whole /\ Kind(Line[1]) = "colon"
  /\ UNCHANGED <<state, content_length, chunk_size, request>>

ParseEndOfHeaders ==
  /\ Reads("headers")
  /\ LineIs({"end"})
  /\ state' = CASE "chunked" \in request.headers -> "chunk_size"
                [] "chunked" \notin request.headers /\ "length" \in request.headers -> "body"
                [] OTHER -> "complete"
  /\ UNCHANGED <<content_length, chunk_size, request>>

Remaining == Len(buffer) - parse_pos
Ahead(n)  == SubSeq(buffer, parse_pos + 1, parse_pos + n)

ParseBody ==
  /\ result = "parsing"
  /\ state = "body"
  /\ Remaining >= content_length
  /\ request' = [request EXCEPT !.body = Ahead(content_length)]
  /\ parse_pos' = parse_pos + content_length
  /\ state' = "complete"
  /\ UNCHANGED <<buffer, content_length, chunk_size, result>>

ParseChunkSize ==
  /\ Reads("chunk_size")
  /\ LineIs({"size"})
  /\ chunk_size' = Unit(Last(Line)).n
  /\ state' = IF chunk_size' = 0 THEN "chunk_trailer" ELSE "chunk_data"
  /\ UNCHANGED <<content_length, request>>

ParseChunkData ==
  /\ result = "parsing"
  /\ state = "chunk_data"
  /\ Remaining > chunk_size
  /\ Kind(buffer[parse_pos + chunk_size + 1]) = "crlf"
  /\ request' = [request EXCEPT !.body = @ \o Ahead(chunk_size)]
  /\ parse_pos' = parse_pos + chunk_size + 1
  /\ state' = "chunk_size"
  /\ UNCHANGED <<buffer, content_length, chunk_size, result>>

ParseChunkTrailer ==
  /\ Reads("chunk_trailer")
  /\ state' = "complete"
  /\ UNCHANGED <<content_length, chunk_size, request>>

-----------------------------------------------------------------------------
(* What parse() returns. *)

Malformed ==
  \/ /\ state \in {"request_line", "headers", "chunk_size"}
     /\ LineEnds # {}
     /\ ~LineIs(CASE state = "request_line" -> {"line"}
                  [] state = "headers"      -> Headers \union {"end"}
                  [] state = "chunk_size"   -> {"size"})
     /\ ~(state = "headers" /\ Kind(Line[1]) = "colon")
  \/ /\ state = "chunk_data"
     /\ Remaining > chunk_size
     /\ Kind(buffer[parse_pos + chunk_size + 1]) # "crlf"

Fail ==
  /\ result = "parsing"
  /\ Malformed
  /\ result' = "error"
  /\ UNCHANGED <<state, buffer, parse_pos, content_length, chunk_size, request>>

NoProgress ==
  CASE state \in {"request_line", "headers", "chunk_size", "chunk_trailer"} -> LineEnds = {}
    [] state = "body"       -> Remaining < content_length
    [] state = "chunk_data" -> Remaining <= chunk_size
    [] state = "complete"   -> TRUE

\* compact_buffer() cuts what is parsed, and bytes_parsed() with it.
Compact ==
  IF Remaining <= 0 \/ parse_pos > COMPACT_THRESHOLD \div 2
  THEN buffer' = Ahead(Remaining) /\ parse_pos' = 0
  ELSE UNCHANGED <<buffer, parse_pos>>

Return ==
  /\ result = "parsing"
  /\ NoProgress
  /\ result' = "ok"
  /\ IF parse_pos > COMPACT_THRESHOLD \/ Len(buffer) > 2 * MAX_HEADER_SIZE
     THEN Compact
     ELSE UNCHANGED <<buffer, parse_pos>>
  /\ UNCHANGED <<state, content_length, chunk_size, request>>

ParserStep ==
  \/ ParseRequestLine \/ ParseHeader \/ ParseGarbledHeader \/ ParseEndOfHeaders
  \/ ParseBody \/ ParseChunkSize \/ ParseChunkData \/ ParseChunkTrailer
  \/ Fail \/ Return
=============================================================================
