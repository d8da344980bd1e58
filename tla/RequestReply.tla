---------------------------- MODULE RequestReply ----------------------------
(***************************************************************************)
(* What an HTTP server promises on one connection: each request is         *)
(* answered once and in order, by the servlet of its own path and with its *)
(* own body, and the connection ends with an answer that says so or when   *)
(* the peer leaves.                                                        *)
(***************************************************************************)
EXTENDS Naturals, Sequences

CONSTANTS Requests, Routes

VARIABLES
  asked,     \* the requests, in the order in which the peer made them
  answers,   \* the answers so far
  open,      \* is the connection open?
  left       \* has the peer left?

Answer(r) ==
  [ path   |-> r.path,
    status |-> IF r.path \in Routes THEN 200 ELSE 404,
    keep   |-> r.conn = "keep-alive",
    body   |-> r.body ]

Init == asked = <<>> /\ answers = <<>> /\ open = TRUE /\ left = FALSE

Ask ==
  /\ open /\ ~left
  /\ \E r \in Requests : asked' = Append(asked, r)
  /\ UNCHANGED <<answers, open, left>>

Leave == ~left /\ left' = TRUE /\ UNCHANGED <<asked, answers, open>>

Reply ==
  /\ open /\ Len(answers) < Len(asked)
  /\ LET a == Answer(asked[Len(answers) + 1]) IN
     answers' = Append(answers, a) /\ open' = a.keep
  /\ UNCHANGED <<asked, left>>

HangUp == open /\ left /\ open' = FALSE /\ UNCHANGED <<asked, answers, left>>

Next == Ask \/ Leave \/ Reply \/ HangUp
=============================================================================
