--------------------------- MODULE MCHttpConnection ---------------------------
(* Scripts for HttpConnection. *)
EXTENDS HttpConnection

U(kind)       == [kind |-> kind, n |-> 0]
Size(kind, n) == [kind |-> kind, n |-> n]

Get     == <<U("line"), U("header"), U("end")>>
Post    == <<U("line"), Size("length", 2), U("end"), U("byte"), U("byte")>>
Chunks  == <<U("line"), U("chunked"), U("end"), Size("size", 1), U("byte"), U("crlf"),
             Size("size", 0), U("end")>>
Final   == <<U("line"), U("close"), U("end")>>

\* Requests that are cut short.
OnlyLine   == <<U("line")>>
Colon   == <<U("line"), U("colon")>>
Chunk   == <<U("line"), U("chunked"), U("end"), Size("size", 2), U("byte")>>

Posts     == {<<Post>>}

Pipelines == {<<Get, Post, Get>>, <<Chunks, Final, Get>>, <<Post, OnlyLine>>,
              <<Get, Colon>>, <<Chunk, Get>>}
=============================================================================
