------------------------------ MODULE MCLogger ------------------------------
(***************************************************************************)
(* Logger for TLC: one thread logs, another changes the appenders.         *)
(***************************************************************************)
EXTENDS Logger, TLC

CONSTANTS t1, t2

MCAlpha == Conversions \cup {"x"}

\* "%p    %d{%Y-%m-%d %H:%M:%S}     %f:%l    [%m]%n" with shorter blanks.
MCDefault ==
  << <<"%", "p">>, <<" ">>, <<"%", "d", "{", "%", "}">>, <<" ">>, <<"%", "f">>, <<":">>,
     <<"%", "l">>, <<" ">>, <<"[">>, <<"%", "m">>, <<"]">>, <<"%", "n">> >>

Tokens == { <<"%", "m">>, <<"%", "d">>, <<"%", "d", "{", "%", "}">>, <<"%", "d", "{", "}">>,
            <<"%", "%">>, <<" ">>, <<"x">>, <<"{">>, <<"}">> }

Patterns == UNION {[1 .. k -> Tokens] : k \in 0 .. 2}

File == "log.txt"

Changes ==
  [op : {"formatter"}, name : {File}, pattern : Patterns]
  \cup [op : {"add", "level"}, name : {File}, level : {4}]
  \cup [op : {"del"}, name : {"stdout", File}] \cup [op : {"setLevel"}, level : {0, 3}]

MCMay == (t1 :> [op : {"log"}, level : {1, 4}]) @@ (t2 :> Changes)
=============================================================================
