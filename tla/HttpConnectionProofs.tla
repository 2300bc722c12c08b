------------------------- MODULE HttpConnectionProofs -------------------------
(***************************************************************************)
(* Whatever a client sends and however its bytes are cut up, the buffers   *)
(* of a connection stay well formed, and no response to a request that was *)
(* dispatched is lost, repeated or sent out of order.                      *)
(***************************************************************************)
EXTENDS HttpConnection, FiniteSetTheorems, SequenceTheorems, TLAPS

-----------------------------------------------------------------------------
(* Numbers and sequences. *)


LEMMA LeastNumber ==
  ASSUME NEW T \in SUBSET Nat, T # {}
  PROVE  \E x \in T : \A y \in T : x <= y
<1>. DEFINE Below == {0 .. n - 1 : n \in T}
            R == StrictSubsetOrdering(Nat)
            S == FiniteSubsetsOf(Nat)
<1>1. Below # {}
  OBVIOUS
<1>2. \A n \in T : 0 .. n - 1 \in S
  BY FS_Interval DEF FiniteSubsetsOf
<1>3. Below \subseteq S
  BY <1>2
<1>4. IsWellFoundedOn(R, S)
  BY FS_StrictSubsetOrderingWellFounded
<1>5. PICK X \in Below : \A Y \in Below : ~(<<Y, X>> \in R)
  <2>. HIDE DEF Below, R, S
  <2>. QED  BY <1>1, <1>3, <1>4, WFMin
<1>6. PICK x \in T : X = 0 .. x - 1
  OBVIOUS
<1>7. ASSUME NEW y \in T PROVE x <= y
  <2>1. CASE y < x
    <3>1. 0 .. y - 1 \in Below
      OBVIOUS
    <3>2. y \in 0 .. x - 1 /\ y \notin 0 .. y - 1 /\ 0 .. y - 1 \subseteq 0 .. x - 1
      BY <2>1
    <3>3. <<0 .. y - 1, X>> \in R
      BY <1>6, <3>2 DEF StrictSubsetOrdering
    <3>. QED  BY <1>5, <3>1, <3>3
  <2>. QED  BY <2>1
<1>. QED  BY <1>7

\* The smaller of two numbers.
LEMMA SmallerOf ==
  ASSUME NEW x \in Int, NEW y \in Int
  PROVE  Min({x, y}) = IF x <= y THEN x ELSE y
<1>. DEFINE S == {x, y}
<1>1. PICK z \in S : \A w \in S : z <= w
  OBVIOUS
<1>2. Min(S) \in S /\ \A w \in S : Min(S) <= w
  BY <1>1 DEF Min
<1>. QED  BY <1>2

\* A piece of a sequence.
LEMMA PieceIs ==
  ASSUME NEW S, NEW s \in Seq(S), NEW m \in Int, NEW n \in Int, 1 <= m, n <= Len(s)
  PROVE  /\ SubSeq(s, m, n) \in Seq(S)
         /\ Len(SubSeq(s, m, n)) = IF m <= n THEN n - m + 1 ELSE 0
         /\ \A i \in 1 .. n - m + 1 : SubSeq(s, m, n)[i] = s[m + i - 1]
<1>1. \A i \in m .. n : s[i] \in S
  OBVIOUS
<1>. QED  BY <1>1, SubSeqProperties

\* FlattenSeq is defined by recursion over the sequence; the function that it names exists.
LEMMA FlattenIs ==
  ASSUME NEW s, NEW n \in Nat, n = Len(s), n # 0
  PROVE  \E f : /\ f[1] = s[1]
                /\ \A i \in 1 .. n : i # 1 => f[i] = f[i - 1] \o s[i]
                /\ FlattenSeq(s) = f[n]
<1>. DEFINE Joined(i, b) == b \o s[i]
            Scan(m, f) == f = [i \in 1 .. m |-> IF i = 1 THEN s[i] ELSE Joined(i,
                f[i - 1])]
            F == CHOOSE f : Scan(n, f)
<1>1. FlattenSeq(s) = F[n]
  BY DEF FlattenSeq
<1>. HIDE DEF Joined
<1>2. \A m \in Nat : \E f : Scan(m, f)
  <2>. DEFINE T == {m \in Nat : ~ \E f : Scan(m, f)}
  <2>. SUFFICES ASSUME T # {} PROVE FALSE
    OBVIOUS
  <2>1. PICK m \in T : \A k \in T : m <= k
    BY LeastNumber
  <2>2. Scan(0, [i \in 1 .. 0 |-> s])
    OBVIOUS
  <2>3. m # 0
    BY <2>1, <2>2
  <2>4. PICK f : Scan(m - 1, f)
    <3>1. m - 1 \in Nat /\ ~ m <= m - 1
      BY <2>1, <2>3
    <3>2. m - 1 \notin T
      BY <2>1, <3>1
    <3>. QED  BY <3>1, <3>2
  <2>. DEFINE g == [i \in 1 .. m |-> IF i # m THEN f[i]
                                     ELSE IF i = 1 THEN s[i] ELSE Joined(i, f[i - 1])]
  <2>5. \A i \in 1 .. m : g[i] = IF i = 1 THEN s[i] ELSE Joined(i, g[i - 1])
    <3>. TAKE i \in 1 .. m
    <3>1. m \in Nat /\ i \in Int
      BY <2>1
    <3>2. CASE i = m
      BY <3>1, <3>2
    <3>3. CASE i # m
      <4>1. i \in 1 .. m - 1
        BY <3>1, <3>3
      <4>2. f[i] = IF i = 1 THEN s[i] ELSE Joined(i, f[i - 1])
        BY <2>4, <4>1
      <4>3. i # 1 => i - 1 \in 1 .. m /\ i - 1 # m
        BY <3>1, <4>1
      <4>. QED  BY <3>3, <4>2, <4>3
    <3>. QED  BY <3>2, <3>3
  <2>6. Scan(m, g)
    BY <2>5
  <2>. QED  BY <2>1, <2>6
<1>3. Scan(n, F)
  BY <1>2
<1>. HIDE DEF F
<1>4. F[1] = s[1] /\ \A i \in 1 .. n : i # 1 => F[i] = Joined(i, F[i - 1])
  BY <1>3
<1>. QED  BY <1>1, <1>4 DEF Joined

\* What is flattened consists of the elements of the pieces.
LEMMA FlattenType ==
  ASSUME NEW S, NEW s \in Seq(Seq(S))
  PROVE  FlattenSeq(s) \in Seq(S)
<1>. DEFINE n == Len(s)
<1>1. n \in Nat /\ \A i \in 1 .. n : s[i] \in Seq(S)
  OBVIOUS
<1>2. CASE n = 0
  <2>1. s = <<>>
    BY <1>2
  <2>. QED  BY <1>2, <2>1 DEF FlattenSeq
<1>3. CASE n # 0
  <2>1. PICK f : /\ f[1] = s[1]
                 /\ \A i \in 1 .. n : i # 1 => f[i] = f[i - 1] \o s[i]
                 /\ FlattenSeq(s) = f[n]
    BY <1>1, <1>3, FlattenIs
  <2>. HIDE DEF n
  <2>. DEFINE T == {i \in 1 .. n : f[i] \notin Seq(S)}
  <2>. SUFFICES ASSUME T # {} PROVE FALSE
    BY <1>1, <1>3, <2>1
  <2>2. PICK m \in T : \A k \in T : m <= k
    <3>1. T \subseteq Nat
      OBVIOUS
    <3>. QED  BY <3>1, LeastNumber
  <2>3. m # 1
    BY <1>1, <2>1, <2>2
  <2>4. m - 1 \in 1 .. n /\ ~ m <= m - 1
    BY <1>1, <2>2, <2>3
  <2>5. f[m - 1] \in Seq(S)
    BY <2>2, <2>4
  <2>6. f[m] = f[m - 1] \o s[m]
    BY <2>1, <2>2, <2>3
  <2>7. s[m] \in Seq(S) /\ f[m] \notin Seq(S)
    BY <1>1, <2>2
  <2>. HIDE DEF T
  <2>. QED  BY <2>5, <2>6, <2>7, ConcatProperties
<1>. QED  BY <1>2, <1>3

\* One more piece comes behind the others.
LEMMA FlattenOneMore ==
  ASSUME NEW S, NEW s \in Seq(Seq(S)), NEW t \in Seq(Seq(S)), NEW n \in Nat,
         Len(s) = n, Len(t) = n + 1, \A i \in 1 .. n : t[i] = s[i]
  PROVE  FlattenSeq(t) = FlattenSeq(s) \o t[n + 1]
<1>1. PICK g : /\ g[1] = t[1]
               /\ \A i \in 1 .. n + 1 : i # 1 => g[i] = g[i - 1] \o t[i]
               /\ FlattenSeq(t) = g[n + 1]
  <2>1. n + 1 \in Nat /\ n + 1 # 0
    OBVIOUS
  <2>. QED  BY <2>1, FlattenIs
<1>2. t[n + 1] \in Seq(S)
  OBVIOUS
<1>3. CASE n = 0
  <2>1. s = <<>> /\ FlattenSeq(s) = <<>>
    BY <1>3 DEF FlattenSeq
  <2>2. FlattenSeq(t) = t[n + 1]
    BY <1>1, <1>3
  <2>. QED  BY <1>2, <2>1, <2>2, ConcatEmptySeq
<1>4. CASE n # 0
  <2>1. PICK f : /\ f[1] = s[1]
                 /\ \A i \in 1 .. n : i # 1 => f[i] = f[i - 1] \o s[i]
                 /\ FlattenSeq(s) = f[n]
    BY <1>4, FlattenIs
  <2>2. f[n] = g[n]
    <3>. DEFINE T == {i \in 1 .. n : f[i] # g[i]}
    <3>. SUFFICES ASSUME T # {} PROVE FALSE
      <4>1. n \in 1 .. n
        BY <1>4
      <4>. QED  BY <4>1
    <3>1. PICK m \in T : \A k \in T : m <= k
      <4>1. T \subseteq Nat
        OBVIOUS
      <4>. QED  BY <4>1, LeastNumber
    <3>2. m # 1
      BY <1>1, <2>1, <3>1
    <3>3. m - 1 \in 1 .. n /\ ~ m <= m - 1
      BY <3>1, <3>2
    <3>4. f[m - 1] = g[m - 1]
      BY <3>1, <3>3
    <3>5. m \in 1 .. n /\ m \in 1 .. n + 1 /\ f[m] # g[m]
      BY <3>1
    <3>. HIDE DEF T
    <3>6. f[m] = f[m - 1] \o s[m]
      BY <2>1, <3>2, <3>5
    <3>7. g[m] = g[m - 1] \o t[m]
      BY <1>1, <3>2, <3>5
    <3>8. t[m] = s[m]
      BY <3>5
    <3>. QED  BY <3>4, <3>5, <3>6, <3>7, <3>8
  <2>3. g[n + 1] = g[n] \o t[n + 1]
    <3>1. n + 1 \in 1 .. n + 1 /\ n + 1 # 1 /\ (n + 1) - 1 = n
      BY <1>4
    <3>. QED  BY <1>1, <3>1
  <2>. QED  BY <1>1, <2>1, <2>2, <2>3
<1>. QED  BY <1>3, <1>4

-----------------------------------------------------------------------------
(* The types. *)

Assumed == ParserAssumption /\ ConnectionAssumption

KnownStates == {"request_line", "headers", "body", "chunk_size", "chunk_data",
                "chunk_trailer", "complete"}
RequestsOf == [line : {0} \union DOMAIN requests, headers : SUBSET Headers,
    body : Seq(Units)]

ParserTyped ==
  /\ state \in KnownStates
  /\ buffer \in Seq(Units) /\ parse_pos \in 0 .. Len(buffer)
  /\ content_length \in Nat /\ chunk_size \in Nat
  /\ request \in RequestsOf
  /\ result \in {"parsing", "ok", "error"}

SocketTyped ==
  /\ sent \in 0 .. Len(Stream) /\ received \in 0 .. sent
  /\ peer \in {"open", "ended", "reset"}
  /\ outbox \in Text /\ delivered \in Text /\ Len(outbox) <= SendBuffer
  /\ pc \in Labels /\ interest \in {"readable", "writable"}

BuffersTyped ==
  /\ read_buffer \in Seq(Units) /\ write_buffer \in Text
  /\ close_requested \in BOOLEAN
  /\ answered \in Seq([line : {0} \union DOMAIN requests, body : Seq(Units)])

Typed == requests \in Scripts /\ ParserTyped /\ SocketTyped /\ BuffersTyped

\* A request has a known number and its units have a kind and a size.
LEMMA UnitsAre ==
  ASSUME Assumed, requests \in Scripts, NEW u \in Units
  PROVE  u[1] \in DOMAIN requests /\ Kind(u) \in STRING /\ Unit(u).n \in Nat
<1>. DEFINE R == [kind : STRING, n : Nat]
<1>1. requests \in Seq(Seq(R))
  BY DEF Assumed, ConnectionAssumption
<1>2. u[1] \in DOMAIN requests /\ u[2] \in DOMAIN requests[u[1]]
  BY DEF Units
<1>. HIDE DEF R
<1>3. requests[u[1]] \in Seq(R)
  BY <1>1, <1>2
<1>4. Unit(u) \in R
  BY <1>2, <1>3 DEF Unit
<1>5. \A r \in R : r.kind \in STRING /\ r.n \in Nat
  BY DEF R
<1>. QED  BY <1>2, <1>4, <1>5 DEF Kind

LEMMA StreamType ==
  ASSUME Assumed, requests \in Scripts
  PROVE  Stream \in Seq(Units) /\ Len(Stream) \in Nat
<1>. DEFINE S(r) == [i \in DOMAIN requests[r] |-> <<r, i>>]
            F == [r \in DOMAIN requests |-> S(r)]
<1>1. requests \in Seq(Seq([kind : STRING, n : Nat]))
  BY DEF Assumed, ConnectionAssumption
<1>2. \A r \in DOMAIN requests : S(r) \in Seq(Units)
  <2>. TAKE r \in DOMAIN requests
  <2>1. requests[r] \in Seq([kind : STRING, n : Nat])
    BY <1>1
  <2>2. PICK n \in Nat : DOMAIN requests[r] = 1 .. n
    BY <2>1
  <2>3. \A i \in 1 .. n : <<r, i>> \in Units
    BY <2>2 DEF Units
  <2>. QED  BY <2>2, <2>3
<1>3. PICK n \in Nat : DOMAIN requests = 1 .. n
  BY <1>1
<1>. HIDE DEF S
<1>4. F \in Seq(Seq(Units))
  BY <1>2, <1>3
<1>5. Stream = FlattenSeq(F)
  BY DEF Stream, S
<1>. HIDE DEF F
<1>6. Stream \in Seq(Units)
  BY <1>4, <1>5, FlattenType
<1>. QED  BY <1>6

LEMMA EndOfType ==
  ASSUME Assumed, requests \in Scripts, NEW r
  PROVE  EndOf(r) \in 0 .. Len(Stream)
<1>. DEFINE n == Len(Stream)
            E == {j \in DOMAIN Stream : Stream[j][1] <= r}
<1>1. n \in Nat /\ DOMAIN Stream = 1 .. n
  BY StreamType
<1>2. E \subseteq 1 .. n
  BY <1>1
<1>. HIDE DEF E, n
<1>3. IsFiniteSet(1 .. n) /\ Cardinality(1 .. n) = n
  BY <1>1, FS_Interval
<1>4. IsFiniteSet(E) /\ Cardinality(E) <= n /\ Cardinality(E) \in Nat
  BY <1>2, <1>3, FS_Subset, FS_CardinalityType
<1>. QED  BY <1>1, <1>4 DEF EndOf, E, n

\* What is made of the client's requests stays the same while they do.
LEMMA SameRequests ==
  requests' = requests =>
    /\ Units' = Units /\ RequestsOf' = RequestsOf /\ Stream' = Stream
BY DEF Units, RequestsOf, Stream

-----------------------------------------------------------------------------
(* The parser. *)

\* A line ends in the buffer behind what is parsed, with a unit of the client's.
LEMMA LineIsThere ==
  ASSUME Assumed, requests \in Scripts, ParserTyped, LineEnds # {}
  PROVE  /\ LineEnd \in parse_pos + 1 .. Len(buffer)
         /\ Last(Line) \in Units
<1>1. Len(buffer) \in Nat /\ parse_pos \in Nat /\ parse_pos <= Len(buffer)
  BY DEF ParserTyped
<1>2. LineEnds \subseteq Nat
  BY <1>1 DEF LineEnds
<1>3. \E m \in LineEnds : \A k \in LineEnds : m <= k
  BY <1>2, LeastNumber
<1>4. LineEnd \in LineEnds
  BY <1>3 DEF LineEnd, Min
<1>5. LineEnd \in parse_pos + 1 .. Len(buffer)
  BY <1>4 DEF LineEnds
<1>. DEFINE e == LineEnd
<1>. HIDE DEF e
<1>6. e \in Int /\ parse_pos + 1 \in Int /\ 1 <= parse_pos + 1 /\ parse_pos + 1 <= e
      /\ e <= Len(buffer)
  BY <1>1, <1>5 DEF e
<1>7. /\ Len(SubSeq(buffer, parse_pos + 1, e)) = e - (parse_pos + 1) + 1
      /\ \A i \in 1 .. e - (parse_pos + 1) + 1 :
           SubSeq(buffer, parse_pos + 1, e)[i] = buffer[(parse_pos + 1) + i - 1]
  <2>. DEFINE m == parse_pos + 1
  <2>1. m \in Int /\ 1 <= m /\ m <= e
    BY <1>6
  <2>2. buffer \in Seq(Units)
    BY DEF ParserTyped
  <2>. HIDE DEF m
  <2>3. /\ Len(SubSeq(buffer, m, e)) = e - m + 1
        /\ \A i \in 1 .. e - m + 1 : SubSeq(buffer, m, e)[i] = buffer[m + i - 1]
    BY <1>6, <2>1, <2>2, PieceIs
  <2>. QED  BY <2>3 DEF m
<1>8. Last(Line) = buffer[e]
  <2>1. Line = SubSeq(buffer, parse_pos + 1, e)
    BY DEF Line, e
  <2>. DEFINE n == e - (parse_pos + 1) + 1
  <2>2. n \in 1 .. n /\ (parse_pos + 1) + n - 1 = e
    BY <1>1, <1>6
  <2>. HIDE DEF n
  <2>3. SubSeq(buffer, parse_pos + 1, e)[n] = buffer[(parse_pos + 1) + n - 1]
    BY <1>7, <2>2 DEF n
  <2>. QED  BY <1>7, <2>1, <2>2, <2>3 DEF Last, n
<1>9. buffer[e] \in Units
  BY <1>1, <1>6 DEF ParserTyped
<1>. QED  BY <1>5, <1>8, <1>9

LEMMA RequestChanges ==
  ASSUME NEW q \in RequestsOf, NEW l \in {0} \union DOMAIN requests, NEW h \in Headers,
         NEW b \in Seq(Units)
  PROVE  /\ [q EXCEPT !.line = l] \in RequestsOf
         /\ [q EXCEPT !.headers = @ \union {h}] \in RequestsOf
         /\ [q EXCEPT !.body = b] \in RequestsOf
         /\ q.body \in Seq(Units)
<1>. DEFINE D == {0} \union DOMAIN requests
            B == Seq(Units)
<1>. HIDE DEF D, B
<1>1. l \in D /\ b \in B /\ q \in [line : D, headers : SUBSET Headers, body : B]
  BY DEF D, B, RequestsOf
<1>2. /\ [q EXCEPT !.line = l] \in [line : D, headers : SUBSET Headers, body : B]
      /\ [q EXCEPT !.headers = @ \union {h}] \in [line : D, headers : SUBSET Headers,
             body : B]
      /\ [q EXCEPT !.body = b] \in [line : D, headers : SUBSET Headers, body : B]
      /\ q.body \in B
  <2>. HIDE DEF Headers
  <2>. QED  BY <1>1
<1>. QED  BY <1>2 DEF D, B, RequestsOf

\* A state that takes a line moves behind it.
LEMMA ReadsMoves ==
  ASSUME Assumed, requests \in Scripts, ParserTyped, NEW from, Reads(from)
  PROVE  /\ buffer' = buffer /\ result' = "parsing" /\ parse_pos' \in 0 .. Len(buffer)
         /\ Last(Line) \in Units /\ Last(Line)[1] \in DOMAIN requests
         /\ Unit(Last(Line)).n \in Nat
<1>1. LineEnd \in parse_pos + 1 .. Len(buffer) /\ Last(Line) \in Units
  BY LineIsThere DEF Reads
<1>2. Len(buffer) \in Nat /\ parse_pos \in Nat
  BY DEF ParserTyped
<1>3. LineEnd \in 0 .. Len(buffer)
  BY <1>1, <1>2
<1>4. Last(Line)[1] \in DOMAIN requests /\ Unit(Last(Line)).n \in Nat
  BY <1>1, UnitsAre
<1>. QED  BY <1>1, <1>3, <1>4 DEF Reads

\* What is taken from the buffer consists of its units.
LEMMA AheadType ==
  ASSUME ParserTyped, NEW n \in Nat, parse_pos + n <= Len(buffer)
  PROVE  Ahead(n) \in Seq(Units) /\ Len(Ahead(n)) = n
<1>1. buffer \in Seq(Units) /\ parse_pos \in Nat
  BY DEF ParserTyped
<1>. DEFINE a == parse_pos + 1
            z == parse_pos + n
<1>2. a \in Int /\ z \in Int /\ 1 <= a /\ z <= Len(buffer) /\ z - a + 1 = n
      /\ (~ a <= z => n = 0)
  BY <1>1
<1>. HIDE DEF a, z
<1>3. SubSeq(buffer, a, z) \in Seq(Units)
      /\ Len(SubSeq(buffer, a, z)) = IF a <= z THEN z - a + 1 ELSE 0
  BY <1>1, <1>2, PieceIs
<1>. QED  BY <1>2, <1>3 DEF Ahead, a, z

LEMMA ParserStepTyped ==
  ASSUME Assumed, requests \in Scripts, ParserTyped, requests' = requests, ParserStep
  PROVE  ParserTyped'
<1>. DEFINE U == Units
            Q == RequestsOf
<1>1. Units' = U /\ RequestsOf' = Q
  BY SameRequests
<1>. HIDE DEF U, Q
<1>2. /\ state \in KnownStates /\ buffer \in Seq(U) /\ parse_pos \in 0 .. Len(buffer)
      /\ content_length \in Nat /\ chunk_size \in Nat /\ request \in Q
      /\ result \in {"parsing", "ok", "error"}
      /\ Len(buffer) \in Nat /\ parse_pos \in Nat
  BY DEF ParserTyped, U, Q
<1>. SUFFICES /\ state' \in KnownStates /\ buffer' \in Seq(U)
         /\ parse_pos' \in 0 .. Len(buffer')
              /\ content_length' \in Nat /\ chunk_size' \in Nat /\ request' \in Q
              /\ result' \in {"parsing", "ok", "error"}
  BY <1>1 DEF ParserTyped
<1>3. \A from : Reads(from) => /\ buffer' = buffer /\ result' = "parsing"
                               /\ parse_pos' \in 0 .. Len(buffer)
                               /\ Last(Line) \in U /\ Last(Line)[1] \in DOMAIN requests
                               /\ Unit(Last(Line)).n \in Nat
  BY ReadsMoves DEF U
<1>4. /\ \A l \in {0} \union DOMAIN requests : [request EXCEPT !.line = l] \in Q
      /\ \A h \in Headers : [request EXCEPT !.headers = @ \union {h}] \in Q
      /\ \A b \in Seq(U) : [request EXCEPT !.body = b] \in Q
  <2>1. 0 \in {0} \union DOMAIN requests /\ "header" \in Headers /\ <<>> \in Seq(U)
    BY EmptySeq DEF Headers
  <2>. HIDE DEF Headers
  <2>. QED  BY <1>2, <2>1, RequestChanges, Zenon DEF U, Q
<1>5. CASE ParseRequestLine
  <2>1. Reads("request_line") /\ request' = [request EXCEPT !.line = Last(Line)[1]]
    BY <1>5 DEF ParseRequestLine
  <2>2. Last(Line)[1] \in {0} \union DOMAIN requests
    BY <1>3, <2>1
  <2>3. request' \in Q
    BY <1>4, <2>1, <2>2, Zenon
  <2>. QED  BY <1>2, <1>3, <1>5, <2>1, <2>3 DEF ParseRequestLine, KnownStates
<1>6. CASE ParseHeader
  <2>1. Reads("headers") /\ Kind(Last(Line)) \in Headers
    BY <1>6 DEF ParseHeader, LineIs
  <2>2. [request EXCEPT !.headers = @ \union {Kind(Last(Line))}] \in Q
    BY <1>4, <2>1, Zenon
  <2>. QED  BY <1>2, <1>3, <1>6, <2>1, <2>2 DEF ParseHeader
<1>7. CASE ParseGarbledHeader
  BY <1>2, <1>3, <1>7 DEF ParseGarbledHeader
<1>8. CASE ParseEndOfHeaders
  BY <1>2, <1>3, <1>8 DEF ParseEndOfHeaders, KnownStates
<1>9. CASE ParseBody
  <2>1. parse_pos + content_length <= Len(buffer)
    BY <1>2, <1>9 DEF ParseBody, Remaining
  <2>2. Ahead(content_length) \in Seq(U)
    BY <1>2, <2>1, AheadType DEF U
  <2>3. request' \in Q
    BY <1>4, <1>9, <2>2, Zenon DEF ParseBody
  <2>. QED  BY <1>2, <1>9, <2>1, <2>3 DEF ParseBody, KnownStates
<1>10. CASE ParseChunkSize
  BY <1>2, <1>3, <1>10 DEF ParseChunkSize, KnownStates
<1>11. CASE ParseChunkData
  <2>1. parse_pos + chunk_size + 1 <= Len(buffer)
    BY <1>2, <1>11 DEF ParseChunkData, Remaining
  <2>2. Ahead(chunk_size) \in Seq(U)
    <3>1. parse_pos + chunk_size <= Len(buffer)
      BY <1>2, <2>1
    <3>. QED  BY <1>2, <3>1, AheadType DEF U
  <2>3. request.body \o Ahead(chunk_size) \in Seq(U)
    <3>1. request.body \in Seq(U)
      BY <1>2 DEF Q, U, RequestsOf
    <3>. QED  BY <2>2, <3>1, ConcatProperties
  <2>4. request' \in Q
    <3>1. request' = [request EXCEPT !.body = request.body \o Ahead(chunk_size)]
      BY <1>11 DEF ParseChunkData
    <3>. QED  BY <1>4, <2>3, <3>1, Zenon
  <2>. QED  BY <1>2, <1>11, <2>1, <2>4 DEF ParseChunkData, KnownStates
<1>12. CASE ParseChunkTrailer
  BY <1>2, <1>3, <1>12 DEF ParseChunkTrailer, KnownStates
<1>13. CASE Fail
  BY <1>2, <1>13 DEF Fail
<1>14. CASE Return
  <2>1. buffer' \in Seq(U) /\ parse_pos' \in 0 .. Len(buffer')
    <3>1. Remaining \in Nat /\ parse_pos + Remaining = Len(buffer)
      BY <1>2 DEF Remaining
    <3>2. Ahead(Remaining) \in Seq(U) /\ Len(Ahead(Remaining)) \in Nat
      BY <3>1, AheadType DEF U
    <3>3. \/ buffer' = Ahead(Remaining) /\ parse_pos' = 0
          \/ buffer' = buffer /\ parse_pos' = parse_pos
      BY <1>14 DEF Return, Compact
    <3>. QED  BY <1>2, <3>2, <3>3
  <2>. QED  BY <1>2, <1>14, <2>1 DEF Return
<1>. QED  BY <1>5, <1>6, <1>7, <1>8, <1>9, <1>10, <1>11, <1>12, <1>13,
         <1>14 DEF ParserStep

-----------------------------------------------------------------------------
(* The client, the socket and the buffers. *)

\* Every step leaves the client's script alone.
LEMMA RequestsStay ==
  [Next]_vars => requests' = requests
BY DEF Next, HandleConnection, vars, client, Send, End, Receive, Call, Read, ReadBlocks,
       ReadFails, Feed, RunParser, Refuse, Incomplete, Dispatch, Write, WriteBlocks,
       WriteFails, WrittenLast, Written

\* A response is a text, and so are all of them.
LEMMA ResponseType ==
  ASSUME Assumed, NEW n \in Nat
  PROVE  Response(n) \in Text
<1>1. ResponseSize \in Nat
  BY DEF Assumed, ConnectionAssumption
<1>. QED  BY <1>1 DEF Response, Text

Made == FlattenSeq([a \in DOMAIN answered |-> Response(a)])

LEMMA MadeType ==
  ASSUME Assumed, BuffersTyped
  PROVE  /\ Made \in Text
         /\ \A x : answered' = Append(answered, x)
              => Len(answered') \in Nat /\ Made' = Made \o Response(Len(answered'))
<1>. DEFINE n == Len(answered)
            T == Nat \X (1 .. ResponseSize)
            s == [a \in DOMAIN answered |-> Response(a)]
<1>1. n \in Nat /\ DOMAIN answered = 1 .. n
  BY DEF BuffersTyped
<1>2. \A a \in Nat : Response(a) \in Seq(T)
  BY ResponseType DEF Text
<1>. HIDE DEF T
<1>3. s \in Seq(Seq(T)) /\ Len(s) = n
  BY <1>1, <1>2
<1>4. Made \in Text
  <2>. HIDE DEF s
  <2>1. FlattenSeq(s) \in Seq(T)
    BY <1>3, FlattenType
  <2>. QED  BY <2>1 DEF Made, s, Text, T
<1>5. ASSUME NEW x, answered' = Append(answered, x)
      PROVE  Len(answered') \in Nat /\ Made' = Made \o Response(Len(answered'))
  <2>. DEFINE t == [a \in DOMAIN answered' |-> Response(a)]
  <2>1. Len(answered') = n + 1 /\ DOMAIN answered' = 1 .. n + 1
    BY <1>5 DEF BuffersTyped
  <2>2. t \in Seq(Seq(T)) /\ Len(t) = n + 1
    BY <1>1, <1>2, <2>1
  <2>3. t[n + 1] = Response(n + 1) /\ \A i \in 1 .. n : t[i] = s[i]
    BY <1>1, <2>1
  <2>4. Made' = FlattenSeq(t)
    BY DEF Made, Response
  <2>5. Made = FlattenSeq(s)
    BY DEF Made
  <2>. HIDE DEF s, t, n
  <2>6. FlattenSeq(t) = FlattenSeq(s) \o t[n + 1]
    BY <1>1, <1>3, <2>2, <2>3, FlattenOneMore
  <2>. QED  BY <1>1, <2>1, <2>3, <2>4, <2>5, <2>6
<1>. QED  BY <1>4, <1>5

LEMMA SocketNext ==
  ASSUME Assumed, Typed, Next, requests' = requests
  PROVE  SocketTyped'
<1>1. Stream' = Stream
  BY SameRequests
<1>2. /\ sent \in 0 .. Len(Stream) /\ received \in 0 .. sent /\ Len(Stream) \in Nat
      /\ peer \in {"open", "ended", "reset"}
      /\ outbox \in Text /\ delivered \in Text /\ write_buffer \in Text
      /\ Len(outbox) <= SendBuffer
      /\ pc \in Labels /\ interest \in {"readable", "writable"}
      /\ SendBuffer \in Nat \ {0} /\ ReadSize \in Nat \ {0}
  BY StreamType DEF Typed, SocketTyped, BuffersTyped, Assumed, ConnectionAssumption
<1>. SUFFICES /\ sent' \in 0 .. Len(Stream) /\ received' \in 0 .. sent'
              /\ peer' \in {"open", "ended", "reset"}
              /\ outbox' \in Text /\ delivered' \in Text /\ Len(outbox') <= SendBuffer
              /\ pc' \in Labels /\ interest' \in {"readable", "writable"}
  BY <1>1 DEF SocketTyped
<1>3. CASE Send
  <2>1. sent' \in 0 .. Len(Stream) /\ sent <= sent'
    <3>1. CASE Splits
      BY <1>2, <1>3, <3>1 DEF Send
    <3>2. CASE ~ Splits
      <4>1. PICK r \in DOMAIN requests : sent' = EndOf(r) /\ EndOf(r) > sent
        BY <1>3, <3>2 DEF Send
      <4>2. EndOf(r) \in 0 .. Len(Stream)
        BY EndOfType DEF Typed
      <4>. HIDE DEF EndOf
      <4>. QED  BY <1>2, <4>1, <4>2
    <3>. QED  BY <3>1, <3>2
  <2>2. UNCHANGED <<received, peer, outbox, delivered, pc, interest>>
    BY <1>3 DEF Send, socket
  <2>. QED  BY <1>2, <2>1, <2>2
<1>4. CASE End
  BY <1>2, <1>4 DEF End, socket
<1>5. CASE Receive
  <2>1. Head(outbox) \in Nat \X (1 .. ResponseSize) /\ Tail(outbox) \in Text
        /\ Len(Tail(outbox)) = Len(outbox) - 1 /\ Len(outbox) \in Nat
    BY <1>2, <1>5, HeadTailProperties DEF Receive, Text
  <2>2. Append(delivered, Head(outbox)) \in Text
    BY <1>2, <2>1, AppendProperties DEF Text
  <2>3. /\ outbox' = Tail(outbox) /\ delivered' = Append(delivered, Head(outbox))
        /\ UNCHANGED <<sent, received, peer, pc, interest>>
    BY <1>5 DEF Receive, client
  <2>. QED  BY <1>2, <2>1, <2>2, <2>3
<1>6. CASE Call
  BY <1>2, <1>6 DEF Call, Goto, Continue, Labels, client, socket
<1>7. CASE Read
  <2>1. Min({sent, received + ReadSize}) \in received .. sent
    <3>1. sent \in Int /\ received + ReadSize \in Int /\ received <= sent
          /\ received <= received + ReadSize /\ received \in Int
      BY <1>2
    <3>. DEFINE y == received + ReadSize
    <3>. HIDE DEF y
    <3>2. Min({sent, y}) = IF sent <= y THEN sent ELSE y
      BY <3>1, SmallerOf DEF y
    <3>. QED  BY <3>1, <3>2 DEF y
  <2>. HIDE DEF Min
  <2>2. /\ received' = Min({sent, received + ReadSize}) /\ pc' = "feed"
        /\ UNCHANGED <<sent, peer, outbox, delivered, interest>>
    BY <1>7 DEF Read, Goto, client
  <2>. QED  BY <1>2, <2>1, <2>2 DEF Labels
<1>8. CASE ReadBlocks \/ WriteBlocks
  BY <1>2, <1>8 DEF ReadBlocks, WriteBlocks, WaitFor, Goto, Labels, client, socket
<1>9. CASE ReadFails \/ Refuse \/ WriteFails \/ WrittenLast
  BY <1>2, <1>9 DEF ReadFails, Refuse, WriteFails, WrittenLast, Close, Goto, Labels,
         client,
                    socket
<1>10. CASE Feed \/ RunParser \/ Incomplete \/ Dispatch
  BY <1>2, <1>10 DEF Feed, RunParser, Incomplete, Dispatch, Goto, Labels, client, socket
<1>11. CASE Write
  <2>. DEFINE n == Min({SendBuffer - Len(outbox), Len(write_buffer)})
              x == SubSeq(write_buffer, 1, n)
  <2>1. n \in Nat /\ n <= SendBuffer - Len(outbox) /\ n <= Len(write_buffer)
    <3>. DEFINE a == SendBuffer - Len(outbox)
                b == Len(write_buffer)
    <3>1. a \in Nat /\ b \in Nat
      BY <1>2, <1>11 DEF Write, Text
    <3>. HIDE DEF a, b
    <3>2. Min({a, b}) = IF a <= b THEN a ELSE b
      BY <3>1, SmallerOf
    <3>. QED  BY <3>1, <3>2 DEF a, b
  <2>2. /\ outbox' = outbox \o x
        /\ UNCHANGED <<sent, received, peer, delivered, pc, interest>>
    BY <1>11 DEF Write, client
  <2>. HIDE DEF n
  <2>3. x \in Text /\ Len(x) = n
    <3>1. 1 \in Int /\ n \in Int /\ 1 <= 1 /\ n <= Len(write_buffer) /\ n - 1 + 1 = n
          /\ (~ 1 <= n => n = 0)
      BY <2>1
    <3>. QED  BY <1>2, <3>1, PieceIs DEF Text
  <2>. HIDE DEF x
  <2>4. outbox \o x \in Text /\ Len(outbox \o x) = Len(outbox) + n
    BY <1>2, <2>3, ConcatProperties DEF Text
  <2>5. Len(outbox) \in Nat
    BY <1>2 DEF Text
  <2>. QED  BY <1>2, <2>1, <2>2, <2>4, <2>5
<1>12. CASE Written
  BY <1>2, <1>12 DEF Written, WaitFor, Goto, Labels, client, socket
<1>. QED  BY <1>3, <1>4, <1>5, <1>6, <1>7, <1>8, <1>9, <1>10, <1>11, <1>12
          DEF Next, HandleConnection

\* An action that leaves the parser alone, or makes it new, or feeds it.
LEMMA ParserNext ==
  ASSUME Assumed, Typed, Next, requests' = requests
  PROVE  ParserTyped'
<1>1. Units' = Units /\ RequestsOf' = RequestsOf
  BY SameRequests
<1>2. CASE UNCHANGED parser
  BY <1>1, <1>2 DEF Typed, ParserTyped, parser
<1>3. CASE Reset
  <2>1. <<>> \in Seq(Units) /\ NoRequest \in RequestsOf
    BY EmptySeq DEF NoRequest, RequestsOf
  <2>2. Len(<<>>) = 0
    OBVIOUS
  <2>. QED  BY <1>1, <1>3, <2>1, <2>2 DEF Reset, ParserTyped, KnownStates
<1>4. CASE Parse(read_buffer)
  <2>. DEFINE U == Units
  <2>. HIDE DEF U
  <2>1. read_buffer \in Seq(U) /\ buffer \in Seq(U) /\ parse_pos \in 0 .. Len(buffer)
        /\ Len(buffer) \in Nat /\ Len(read_buffer) \in Nat
    BY DEF Typed, BuffersTyped, ParserTyped, U
  <2>2. /\ buffer \o read_buffer \in Seq(U)
        /\ Len(buffer \o read_buffer) = Len(buffer) + Len(read_buffer)
    BY <2>1, ConcatProperties
  <2>3. buffer' = buffer \o read_buffer /\ parse_pos' = parse_pos
    BY <1>4 DEF Parse
  <2>4. buffer' \in Seq(Units) /\ parse_pos' \in 0 .. Len(buffer')
    BY <2>1, <2>2, <2>3 DEF U
  <2>. QED  BY <1>1, <1>4, <2>4 DEF Parse, Typed, ParserTyped
<1>5. CASE ParserStep
  BY <1>5, ParserStepTyped DEF Typed
<1>6. \/ UNCHANGED parser \/ Reset \/ Parse(read_buffer) \/ ParserStep
  BY DEF Next, HandleConnection, Send, End, Receive, Call, Read, ReadBlocks, ReadFails,
         Feed,
         RunParser, Refuse, Incomplete, Dispatch, Write, WriteBlocks, WriteFails,
         WrittenLast, Written
<1>. QED  BY <1>2, <1>3, <1>4, <1>5, <1>6

LEMMA BuffersNext ==
  ASSUME Assumed, Typed, Next, requests' = requests
  PROVE  BuffersTyped'
<1>. DEFINE U == Units
            A == [line : {0} \union DOMAIN requests, body : Seq(U)]
<1>1. Units' = U
  BY SameRequests
<1>. HIDE DEF U
<1>2. /\ read_buffer \in Seq(U) /\ write_buffer \in Text /\ close_requested \in BOOLEAN
      /\ answered \in Seq(A) /\ Len(read_buffer) \in Nat
  BY DEF Typed, BuffersTyped, U
<1>. SUFFICES /\ read_buffer' \in Seq(U) /\ write_buffer' \in Text
              /\ close_requested' \in BOOLEAN /\ answered' \in Seq(A)
  BY <1>1 DEF BuffersTyped
<1>. HIDE DEF A
<1>3. CASE UNCHANGED buffers
  BY <1>2, <1>3 DEF buffers
<1>4. CASE Read
  <2>1. Stream \in Seq(U) /\ Len(Stream) \in Nat
    BY StreamType DEF Typed, U
  <2>2. received \in Nat /\ received' \in Nat /\ received' <= Len(Stream)
    <3>1. received \in Nat /\ SocketTyped'
      BY <2>1, SocketNext DEF Typed, SocketTyped
    <3>2. Stream' = Stream
      BY SameRequests
    <3>. QED  BY <2>1, <3>1, <3>2 DEF SocketTyped
  <2>. DEFINE m == received + 1
              n == received'
              x == SubSeq(Stream, m, n)
  <2>3. m \in Int /\ n \in Int /\ 1 <= m /\ n <= Len(Stream)
    BY <2>2
  <2>4. read_buffer' = read_buffer \o x
        /\ UNCHANGED <<write_buffer, close_requested, answered>>
    BY <1>4 DEF Read
  <2>. HIDE DEF m, n
  <2>5. x \in Seq(U)
    BY <2>1, <2>3, PieceIs
  <2>. HIDE DEF x
  <2>6. read_buffer \o x \in Seq(U)
    BY <1>2, <2>5, ConcatProperties
  <2>. QED  BY <1>2, <2>4, <2>6
<1>5. CASE Refuse
  <2>1. write_buffer \o BadRequest \in Text
    <3>1. BadRequest \in Text
      BY ResponseType DEF BadRequest
    <3>. QED  BY <1>2, <3>1, ConcatProperties DEF Text
  <2>. QED  BY <1>2, <1>5, <2>1 DEF Refuse
<1>6. CASE Dispatch
  <2>1. parse_pos \in Nat /\ request \in RequestsOf
    BY DEF Typed, ParserTyped
  <2>. DEFINE m == parse_pos + 1
              n == Len(read_buffer)
              x == [line |-> request.line, body |-> request.body]
  <2>2. m \in Int /\ n \in Int /\ 1 <= m /\ n <= Len(read_buffer)
    BY <1>2, <2>1
  <2>3. x \in A
    BY <2>1 DEF A, U, RequestsOf
  <2>4. /\ read_buffer' = SubSeq(read_buffer, m, n) /\ answered' = Append(answered, x)
        /\ close_requested' \in BOOLEAN
        /\ write_buffer' = write_buffer \o Response(Len(answered'))
    BY <1>6 DEF Dispatch
  <2>. HIDE DEF m, x
  <2>5. SubSeq(read_buffer, m, n) \in Seq(U)
    BY <1>2, <2>2, PieceIs
  <2>6. Append(answered, x) \in Seq(A)
    BY <1>2, <2>3, AppendProperties
  <2>7. write_buffer \o Response(Len(answered')) \in Text
    <3>1. Len(answered') \in Nat
      BY <2>4, <2>6
    <3>2. Response(Len(answered')) \in Text
      BY <3>1, ResponseType
    <3>. QED  BY <1>2, <3>2, ConcatProperties DEF Text
  <2>. QED  BY <2>4, <2>5, <2>6, <2>7
<1>7. CASE Write
  <2>1. Len(write_buffer) \in Nat /\ outbox \in Text /\ SendBuffer - Len(outbox) \in Nat
    BY <1>2, <1>7 DEF Typed, SocketTyped, Write, Assumed, ConnectionAssumption, Text
  <2>. DEFINE n == Min({SendBuffer - Len(outbox), Len(write_buffer)})
              x == SubSeq(write_buffer, n + 1, Len(write_buffer))
  <2>2. n \in Nat
    BY <2>1, SmallerOf
  <2>3. write_buffer' = x /\ UNCHANGED <<read_buffer, close_requested, answered>>
    BY <1>7 DEF Write
  <2>. HIDE DEF n
  <2>4. x \in Text
    <3>. DEFINE m == n + 1
                k == Len(write_buffer)
    <3>1. m \in Int /\ k \in Int /\ 1 <= m /\ k <= Len(write_buffer)
      BY <2>1, <2>2
    <3>. HIDE DEF m
    <3>2. SubSeq(write_buffer, m, k) \in Text
      BY <1>2, <3>1, PieceIs DEF Text
    <3>. QED  BY <3>2 DEF m
  <2>. QED  BY <1>2, <2>3, <2>4
<1>8. UNCHANGED buffers \/ Read \/ Refuse \/ Dispatch \/ Write
  BY DEF Next, HandleConnection, Send, End, Receive, Call, ReadBlocks, ReadFails, Feed,
         RunParser, Incomplete, WriteBlocks, WriteFails, WrittenLast, Written
<1>. QED  BY <1>3, <1>4, <1>5, <1>6, <1>7, <1>8

-----------------------------------------------------------------------------
(* The responses. *)

\* While a request is read there is nothing left to write, and what the client has and
\* will have is what was made, but for a refusal at the end.
InOrder ==
  /\ pc \in {"read", "feed", "parse"} => write_buffer = <<>>
  /\ ResponsesKept

\* A unit that the client takes leaves what it has and will have the same.
LEMMA TakenFromSocket ==
  ASSUME NEW T, NEW d \in Seq(T), NEW o \in Seq(T), o # <<>>
  PROVE  Append(d, Head(o)) \o Tail(o) = d \o o
<1>1. /\ Head(o) \in T /\ Tail(o) \in Seq(T) /\ <<Head(o)>> \in Seq(T)
      /\ Append(d, Head(o)) = d \o <<Head(o)>>
  BY HeadTailProperties, AppendIsConcat
<1>2. <<Head(o)>> \o Tail(o) = o
  OBVIOUS
<1>. QED  BY <1>1, <1>2, ConcatAssociative

\* Concatenation under a name of its own, by which its laws are instantiated.
Cat(s, t) == s \o t

LEMMA Regrouped ==
  ASSUME NEW T, NEW s \in Seq(T), NEW t \in Seq(T), NEW u \in Seq(T), NEW v \in Seq(T)
  PROVE  /\ Cat(Cat(s, t), Cat(u, v)) = Cat(Cat(Cat(s, t), u), v)
         /\ Cat(Cat(s, Cat(t, u)), v) = Cat(Cat(s, t), Cat(u, v))
<1>1. s \o t \in Seq(T)
  BY ConcatProperties
<1>2. ((s \o t) \o u) \o v = (s \o t) \o (u \o v)
  BY <1>1, ConcatAssociative, SMTT(30)
<1>3. (s \o t) \o u = s \o (t \o u)
  BY ConcatAssociative
<1>. QED  BY <1>2, <1>3 DEF Cat

\* So does what moves from the buffer into the socket.
LEMMA MovedToSocket ==
  ASSUME NEW T, NEW d \in Seq(T), NEW o \in Seq(T), NEW w \in Seq(T),
             NEW n \in 0 .. Len(w)
  PROVE  Cat(Cat(d, Cat(o, SubSeq(w, 1, n))), SubSeq(w, n + 1, Len(w))) = Cat(Cat(d, o),
             w)
<1>. DEFINE a == SubSeq(w, 1, n)
            b == SubSeq(w, n + 1, Len(w))
<1>1. a \in Seq(T) /\ b \in Seq(T)
  <2>1. 1 \in Int /\ n \in Int /\ n + 1 \in Int /\ Len(w) \in Int /\ n <= Len(w)
            /\ 1 <= n + 1
    OBVIOUS
  <2>. QED  BY <2>1, PieceIs
<1>2. Cat(a, b) = w
  <2>1. /\ 1 \in 1 .. Len(w) + 1 /\ n \in 1 - 1 .. Len(w) /\ Len(w) \in n .. Len(w)
    OBVIOUS
  <2>2. a \o b = SubSeq(w, 1, Len(w))
    BY <2>1, ConcatAdjacentSubSeq
  <2>. QED  BY <2>2, SubSeqFull DEF Cat
<1>3. Cat(Cat(d, Cat(o, a)), b) = Cat(Cat(d, o), Cat(a, b))
  <2>. HIDE DEF a, b
  <2>. QED  BY <1>1, Regrouped
<1>. QED  BY <1>2, <1>3

LEMMA PrefixOfItself ==
  ASSUME NEW T, NEW s \in Seq(T)
  PROVE  IsPrefix(s, s)
BY DEF IsPrefix

\* What has been sent of a text is a prefix of it.
LEMMA SentOf ==
  ASSUME NEW T, NEW s \in Seq(T), NEW w \in Seq(T), NEW t, s \o w = t
  PROVE  IsPrefix(s, t)
<1>1. Len(s) \in Nat /\ Len(w) \in Nat /\ t \in Seq(T) /\ Len(t) = Len(s) + Len(w)
  <2>1. s \o w \in Seq(T) /\ Len(s \o w) = Len(s) + Len(w)
    BY ConcatProperties
  <2>2. Len(s) \in Nat /\ Len(w) \in Nat
    BY LenProperties
  <2>. QED  BY <2>1, <2>2
<1>2. \A i \in 1 .. Len(s) : t[i] = s[i]
  <2>1. \A i \in 1 .. Len(s) : (s \o w)[i] = s[i]
    BY <1>1, ConcatProperties
  <2>. QED  BY <2>1
<1>3. SubSeq(s, 1, Len(s)) = s
  BY SubSeqFull
<1>4. /\ SubSeq(t, 1, Len(s)) \in Seq(T) /\ Len(SubSeq(t, 1, Len(s))) = Len(s)
      /\ \A i \in 1 .. Len(s) : SubSeq(t, 1, Len(s))[i] = s[i]
  BY <1>1, <1>2, SubSeqProperties
<1>5. SubSeq(t, 1, Len(s)) = s
  BY <1>4, SeqEqual
<1>. QED  BY <1>1, <1>3, <1>5 DEF IsPrefix

LEMMA InOrderNext ==
  ASSUME Assumed, Typed, Typed', InOrder, Next
  PROVE  InOrder'
<1>. DEFINE text == delivered \o outbox \o write_buffer
<1>0. /\ outbox \in Text /\ delivered \in Text /\ write_buffer \in Text /\ Made \in Text
      /\ delivered \o outbox \in Text /\ text \in Text
  <2>1. outbox \in Text /\ delivered \in Text /\ write_buffer \in Text /\ Made \in Text
    BY MadeType DEF Typed, SocketTyped, BuffersTyped
  <2>2. delivered \o outbox \in Text
    BY <2>1, ConcatProperties DEF Text
  <2>. QED  BY <2>1, <2>2, ConcatProperties DEF Text
<1>1. answered' = answered => Made' = Made
  BY DEF Made, Response
<1>2. delivered' \o outbox' \in Text /\ write_buffer' \in Text
  <2>1. outbox' \in Text /\ delivered' \in Text /\ write_buffer' \in Text
    BY DEF Typed, SocketTyped, BuffersTyped, Text
  <2>. QED  BY <2>1, ConcatProperties DEF Text
<1>. DEFINE KeptOf(d, o, w, made, c, p) ==
              /\ IsPrefix(d \o o, made)
              /\ c # "closed" => d \o o \o w = made
              /\ c = "closed" /\ p # "reset" => d \o o = made
<1>3. /\ ResponsesKept <=> KeptOf(delivered, outbox, write_buffer, Made, pc, peer)
      /\ ResponsesKept'
           <=> KeptOf(delivered', outbox', write_buffer', Made', pc', peer')
  BY Zenon DEF ResponsesKept, Made
\* The buffers stay, and with them what is on its way.
<1>4. ASSUME UNCHANGED <<delivered, outbox, write_buffer, answered>>,
             pc' \in {"read", "feed", "parse"} => write_buffer = <<>>,
             pc = "closed" => pc' = "closed",
             pc' = "closed" /\ pc # "closed" => write_buffer = <<>> \/ peer = "reset",
             peer = "reset" => peer' = "reset"
      PROVE  InOrder'
  <2>1. delivered' = delivered /\ outbox' = outbox /\ write_buffer' = write_buffer
        /\ Made' = Made
    BY <1>1, <1>4
  <2>2. pc' = "closed" /\ pc # "closed" /\ peer' # "reset" => delivered \o outbox = Made
    <3>. SUFFICES ASSUME pc' = "closed", pc # "closed", peer' # "reset"
                  PROVE  delivered \o outbox = Made
      OBVIOUS
    <3>1. write_buffer = <<>>
      BY <1>4
    <3>2. delivered \o outbox \o write_buffer = Made
      BY <1>3 DEF InOrder
    <3>. QED  BY <1>0, <3>1, <3>2, ConcatEmptySeq DEF Text
  <2>3. KeptOf(delivered, outbox, write_buffer, Made, pc, peer)
    BY <1>3 DEF InOrder
  <2>4. KeptOf(delivered, outbox, write_buffer, Made, pc', peer')
    BY <1>4, <2>2, <2>3
  <2>. HIDE DEF KeptOf
  <2>5. ResponsesKept'
    BY <1>3, <2>1, <2>4
  <2>. QED  BY <1>4, <2>1, <2>5 DEF InOrder
<1>5. CASE Receive
  <2>1. /\ delivered' = Append(delivered, Head(outbox)) /\ outbox' = Tail(outbox)
        /\ outbox # <<>>
        /\ UNCHANGED <<write_buffer, pc, peer, answered>>
    BY <1>5 DEF Receive, client, buffers
  <2>2. delivered' \o outbox' = delivered \o outbox
    BY <1>0, <2>1, TakenFromSocket DEF Text
  <2>3. KeptOf(delivered, outbox, write_buffer, Made, pc, peer)
    BY <1>3 DEF InOrder
  <2>4. KeptOf(delivered', outbox', write_buffer', Made', pc', peer')
    BY <1>1, <2>1, <2>2, <2>3
  <2>. HIDE DEF KeptOf
  <2>5. ResponsesKept'
    BY <1>3, <2>4
  <2>. QED  BY <1>1, <2>1, <2>2, <2>5 DEF InOrder
\* The answer to what is refused stays in the buffer.
<1>6. CASE Refuse
  <2>1. /\ UNCHANGED <<delivered, outbox, answered, peer>>
        /\ write_buffer' = write_buffer \o BadRequest /\ pc' = "closed"
        /\ write_buffer = <<>> /\ delivered \o outbox \o write_buffer = Made
    BY <1>3, <1>6 DEF Refuse, Close, Goto, client, socket, InOrder
  <2>2. delivered \o outbox = Made
    BY <1>0, <2>1, ConcatEmptySeq DEF Text
  <2>3. IsPrefix(delivered \o outbox, Made)
    BY <1>0, <2>2, PrefixOfItself DEF Text
  <2>4. KeptOf(delivered', outbox', write_buffer', Made', pc', peer')
    BY <1>1, <2>1, <2>2, <2>3
  <2>. HIDE DEF KeptOf
  <2>5. ResponsesKept'
    BY <1>3, <2>4
  <2>. QED  BY <2>1, <2>5 DEF InOrder
\* One more response is behind those that were made.
<1>7. CASE Dispatch
  <2>. DEFINE x == [line |-> request.line, body |-> request.body]
  <2>1. /\ UNCHANGED <<delivered, outbox>> /\ answered' = Append(answered, x)
        /\ write_buffer' = write_buffer \o Response(Len(answered')) /\ pc' = "write"
        /\ pc # "closed"
    BY <1>7 DEF Dispatch, Goto, socket
  <2>. HIDE DEF x
  <2>2. Len(answered') \in Nat /\ Made' = Made \o Response(Len(answered'))
    BY <2>1, MadeType DEF Typed
  <2>3. Response(Len(answered')) \in Text
    BY <2>2, ResponseType
  <2>. DEFINE y == Response(Len(answered'))
  <2>. HIDE DEF y
  <2>4. Cat(Cat(delivered, outbox), Cat(write_buffer, y))
          = Cat(Cat(Cat(delivered, outbox), write_buffer), y)
    BY <1>0, <2>3, Regrouped DEF Text, y
  <2>5. delivered \o outbox \o write_buffer = Made
    BY <1>3, <2>1 DEF InOrder
  <2>6. delivered' \o outbox' \o write_buffer' = Made'
    BY <2>1, <2>2, <2>4, <2>5 DEF Cat, y
  <2>7. IsPrefix(delivered' \o outbox', Made')
    BY <1>2, <2>6, SentOf DEF Text
  <2>8. KeptOf(delivered', outbox', write_buffer', Made', pc', peer')
    BY <2>1, <2>6, <2>7
  <2>. HIDE DEF KeptOf
  <2>9. ResponsesKept'
    BY <1>3, <2>8
  <2>. QED  BY <2>1, <2>9 DEF InOrder
<1>8. CASE Write
  <2>1. Len(write_buffer) \in Nat /\ SendBuffer - Len(outbox) \in Nat
    BY <1>0, <1>8 DEF Typed, SocketTyped, Write, Assumed, ConnectionAssumption, Text
  <2>. DEFINE n == Min({SendBuffer - Len(outbox), Len(write_buffer)})
  <2>2. n \in 0 .. Len(write_buffer)
    BY <2>1, SmallerOf
  <2>3. /\ UNCHANGED <<delivered, answered, pc, peer>> /\ pc = "write"
        /\ outbox' = outbox \o SubSeq(write_buffer, 1, n)
        /\ write_buffer' = SubSeq(write_buffer, n + 1, Len(write_buffer))
    BY <1>8 DEF Write, client
  <2>. HIDE DEF n
  <2>4. delivered' \o outbox' \o write_buffer' = Made'
    <3>1. Cat(Cat(delivered, Cat(outbox, SubSeq(write_buffer, 1, n))),
              SubSeq(write_buffer, n + 1, Len(write_buffer)))
            = Cat(Cat(delivered, outbox), write_buffer)
      BY <1>0, <2>2, MovedToSocket DEF Text
    <3>2. delivered \o outbox \o write_buffer = Made
      BY <1>3, <2>3 DEF InOrder
    <3>. QED  BY <1>1, <2>3, <3>1, <3>2 DEF Cat
  <2>5. IsPrefix(delivered' \o outbox', Made')
    BY <1>2, <2>4, SentOf DEF Text
  <2>6. KeptOf(delivered', outbox', write_buffer', Made', pc', peer')
    BY <2>3, <2>4, <2>5
  <2>. HIDE DEF KeptOf
  <2>7. ResponsesKept'
    BY <1>3, <2>6
  <2>. QED  BY <2>3, <2>7 DEF InOrder
<1>9. CASE Send \/ End
  BY <1>4, <1>9 DEF Send, End, socket, buffers, InOrder
<1>10. CASE Call
  BY <1>4, <1>10 DEF Call, Goto, Continue, client, socket, buffers
<1>11. CASE Read \/ ReadBlocks \/ ReadFails
  BY <1>4, <1>11 DEF Read, ReadBlocks, ReadFails, Close, WaitFor, Goto, client, socket,
         buffers,
                     InOrder
<1>12. CASE Feed \/ RunParser \/ Incomplete
  BY <1>4, <1>12 DEF Feed, RunParser, Incomplete, Goto, client, socket, buffers, InOrder
<1>13. CASE WriteBlocks \/ WriteFails
  BY <1>4, <1>13 DEF WriteBlocks, WriteFails, Close, WaitFor, Goto, client, socket,
         buffers
<1>14. CASE WrittenLast \/ Written
  BY <1>4, <1>14 DEF WrittenLast, Written, Close, WaitFor, Goto, client, socket, buffers
<1>. QED  BY <1>5, <1>6, <1>7, <1>8, <1>9, <1>10, <1>11, <1>12, <1>13, <1>14
          DEF Next, HandleConnection

-----------------------------------------------------------------------------
ConnectionRight == Typed /\ InOrder

LEMMA ConnectionRightInit ==
  Assumed /\ Init => ConnectionRight
<1>. SUFFICES ASSUME Assumed, Init PROVE ConnectionRight
  OBVIOUS
<1>1. <<>> \in Seq(Units) /\ <<>> \in Text /\ NoRequest \in RequestsOf /\ Len(<<>>) = 0
  BY EmptySeq DEF NoRequest, RequestsOf, Text
<1>2. <<>> \in Seq([line : {0} \union DOMAIN requests, body : Seq(Units)])
  BY EmptySeq
<1>3. Len(Stream) \in Nat /\ SendBuffer \in Nat
  BY StreamType DEF Init, Assumed, ConnectionAssumption
<1>4. requests \in Scripts /\ ParserTyped
  BY <1>1 DEF Init, ParserInit, ParserTyped, KnownStates
<1>5. SocketTyped
  BY <1>1, <1>3 DEF Init, SocketTyped, Labels
<1>6. BuffersTyped
  BY <1>1, <1>2 DEF Init, BuffersTyped
<1>7. Typed
  BY <1>4, <1>5, <1>6 DEF Typed
<1>8. Made = <<>>
  <2>. DEFINE s == [a \in DOMAIN answered |-> Response(a)]
  <2>1. s = <<>>
    BY DEF Init
  <2>. HIDE DEF s
  <2>. QED  BY <2>1 DEF Made, FlattenSeq, s
<1>9. delivered \o outbox \o write_buffer = <<>>
  BY <1>1, ConcatEmptySeq DEF Init, Text
<1>10. pc = "idle"
  BY DEF Init
<1>11. ResponsesKept
  <2>1. delivered \o outbox = <<>>
    BY <1>1, ConcatEmptySeq DEF Init, Text
  <2>2. IsPrefix(delivered \o outbox, Made)
    BY <1>1, <1>8, <2>1, PrefixOfItself DEF Text
  <2>. QED  BY <1>8, <1>9, <1>10, <2>2, Zenon DEF ResponsesKept, Made
<1>. QED  BY <1>7, <1>8, <1>9, <1>10, <1>11 DEF ConnectionRight, InOrder

LEMMA ConnectionRightNext ==
  Assumed /\ ConnectionRight /\ [Next]_vars => ConnectionRight'
<1>. SUFFICES ASSUME Assumed, ConnectionRight, [Next]_vars PROVE ConnectionRight'
  OBVIOUS
<1>1. requests' = requests
  BY RequestsStay
<1>2. CASE Next
  BY <1>1, <1>2, ParserNext, SocketNext, BuffersNext, InOrderNext DEF ConnectionRight,
         Typed
<1>3. CASE UNCHANGED vars
  <2>1. Units' = Units /\ RequestsOf' = RequestsOf /\ Stream' = Stream
    BY <1>1, SameRequests
  <2>2. UNCHANGED <<client, parser, socket, pc, interest, buffers>>
    BY <1>3 DEF vars
  <2>3. Typed'
    BY <1>1, <2>1, <2>2 DEF ConnectionRight, Typed, ParserTyped, SocketTyped,
           BuffersTyped,
                            client, parser, socket, buffers
  <2>4. InOrder'
    BY <2>2 DEF ConnectionRight, InOrder, ResponsesKept, Made, Response,
           client,
                socket, buffers
  <2>. QED  BY <2>3, <2>4 DEF ConnectionRight
<1>. QED  BY <1>2, <1>3

LEMMA ConnectionRightSafe ==
  ConnectionRight => BuffersRight
BY DEF ConnectionRight, Typed, ParserTyped, SocketTyped, BuffersTyped, RequestsOf,
       KnownStates,
       InOrder, BuffersRight, TypeOK

\* Whatever the client sends, in whatever segments, and whenever it ends or resets the
\* connection: the parser's positions stay inside its buffer, and the client receives the
\* responses to the requests that were dispatched in the order in which they were made,
\* each once, all of them before the connection is closed; what is made for an invalid
\* request it does not receive (http_server.cpp:47-279).
THEOREM BuffersCorrect == Spec => []BuffersRight
<1>1. Assumed
  BY ParserAssumption, ConnectionAssumption DEF Assumed
<1>. QED  BY <1>1, ConnectionRightInit, ConnectionRightNext, ConnectionRightSafe,
         PTL DEF Spec
=============================================================================
