----------------------------- MODULE MCHookedIO -----------------------------
(***************************************************************************)
(* Small instances of HookedIO.                                            *)
(***************************************************************************)
EXTENDS HookedIO

NoDirection == {}
Reads == {"EPOLLIN"}
AllDirections == Ev

\* One fiber reads and writes in turn.
HalfDuplex == [f \in Fibers |-> Ev]

\* One fiber reads and writes in turn, the others read, on the same
\* connection or on one of their own.
Readers ==
  LET server == CHOOSE f \in Fibers : TRUE
  IN  [f \in Fibers |-> IF f = server THEN Ev ELSE {"EPOLLIN"}]

\* One fiber reads and the others write.
FullDuplex ==
  LET reader == CHOOSE f \in Fibers : TRUE
  IN  [f \in Fibers |-> IF f = reader THEN {"EPOLLIN"} ELSE {"EPOLLOUT"}]
=============================================================================
