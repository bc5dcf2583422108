---------------------------- MODULE MCHttpServer ----------------------------
(* A finite instance of HttpServer for TLC.                                  *)
EXTENDS HttpServer, TLC

CONSTANTS c1, c2, c3

Get(file, keepAlive) ==
    [get |-> TRUE, wellFormed |-> TRUE, file |-> file, keepAlive |-> keepAlive]
Malformed == [get |-> TRUE, wellFormed |-> FALSE, file |-> "full", keepAlive |-> TRUE]

\* One client asks twice and waits, one asks twice at once and sends a bad header, one
\* just connects.
ThreeClients ==
    (c1 :> <<Get("full", TRUE), Get("missing", FALSE)>>)
        @@ (c2 :> <<Get("empty", TRUE), Malformed>>)
        @@ (c3 :> <<>>)
OneWaits == [c \in Connections |-> c # c2]
=============================================================================
