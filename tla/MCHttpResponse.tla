---------------------------- MODULE MCHttpResponse ----------------------------
EXTENDS HttpResponse

\* Every sequence of up to three calls of a wrapped handler.
MCCall == {WriteHeader(s) : s \in {103, 200, 404}} \cup {Write(1)}
MCOthers == UNION {[1..n -> MCCall] : n \in 0..3}
=============================================================================
