---------------------------- MODULE MCHttpStream ----------------------------
(***************************************************************************)
(* HttpStream for TLC: clients that do one difficult thing each, and one   *)
(* that does two.                                                          *)
(***************************************************************************)
EXTENDS HttpStream

Client(s, p, r) == [split |-> s, pipe |-> p, reset |-> r]

MCClients == { Client(FALSE, FALSE, TRUE), Client(TRUE, FALSE, FALSE),
               Client(FALSE, TRUE, FALSE), Client(TRUE, TRUE, FALSE) }

MCRequests ==
  { [path |-> "/",  minor |-> 1, conn |-> "keep-alive", body |-> 1],
    [path |-> "/x", minor |-> 0, conn |-> "none",       body |-> 0],
    [path |-> "/x", minor |-> 1, conn |-> "close",      body |-> 2] }
=============================================================================
