------------------------------- MODULE Logger -------------------------------
(***************************************************************************)
(* The logger, its appenders and the parser of their patterns.             *)
(*                                                                         *)
(* A pattern is a sequence of characters; it is kept as the tokens that    *)
(* logger.h:63-73 describes, each a sequence of characters, so that what   *)
(* LogFormatter::init makes of the characters can be compared with what    *)
(* the tokens mean.  LogAppender::mLock is not modelled: only the holder   *)
(* of Logger::mLock takes it.                                              *)
(***************************************************************************)
EXTENDS Integers, Sequences, FiniteSets, SequencesExt

CONSTANTS
  Threads,
  Names,       \* of appenders
  Stdout,
  Alpha,       \* the characters that isalpha accepts
  Default,     \* tokens of the pattern of a new LogAppender
  May          \* [Threads -> SUBSET Call]: what each thread may call

Conversions == {"m", "p", "d", "f", "l", "n", "T"}

Level == 0 .. 4     \* DEBUG to FATAL

Token == Seq(STRING)

Call ==
  [op : {"log", "setLevel"}, level : Level]
  \cup [op : {"add", "level"}, name : Names, level : Level]
  \cup [op : {"del"}, name : Names]
  \cup [op : {"formatter"}, name : Names, pattern : Seq(Token)]

NoCall == [op |-> "none"]

None == "none"

ASSUME LoggerAssumption ==
  /\ Stdout \in Names /\ May \in [Threads -> SUBSET Call] /\ None \notin Threads
  /\ Default \in Seq(Token)
  /\ Conversions \subseteq Alpha /\ Alpha \cap {"%", "{", "}"} = {}

VARIABLES
  mLevel,
  mAppends,   \* [Names -> appender or NoAppender]
  mLock,      \* the holder, or None
  pc,         \* [Threads -> Label]
  call,       \* [Threads -> Call]: the call a thread is in
  todo,       \* [Threads -> SUBSET Names]: appenders that log has to visit
  loc         \* the local variables of LogFormatter::init

vars == <<mLevel, mAppends, mLock, pc, call, todo, loc>>

NoAppender == [mLevel |-> -1]

Label == {"idle", "lock", "held", "each", "init", "scan", "push", "leave"}

Goto(t, l) == pc' = [pc EXCEPT ![t] = l]

Present == {n \in Names : mAppends[n] # NoAppender}
-----------------------------------------------------------------------------
\* What a pattern means.

\* What the item of conversion c writes; only that of %d uses the braces.
Field(c, fmt) ==
  IF c # "d" THEN <<"%", c>>
  ELSE <<"%", "d">> \o (IF fmt = << >> THEN <<"Y">> ELSE fmt)

\* What format writes for the items: a sequence of characters and fields.
Item(v) ==
  IF ~ v.conversion THEN [k \in DOMAIN v.str |-> << v.str[k] >>]
  ELSE IF Len(v.str) = 1 /\ v.str[1] \in Conversions
       THEN << Field(v.str[1], v.fmt) >> ELSE << >>

Items(vec) == FlattenSeq([k \in DOMAIN vec |-> Item(vec[k])])

\* What logger.h:63-73 says of a token.
Meaning(token) ==
  IF Len(token) = 1 THEN token
  ELSE IF token = <<"%", "%">> THEN <<"%">>
  ELSE Field(token[2], SubSeq(token, 4, Len(token) - 1))

\* A conversion is not followed by what would be read as a part of it.
Clear(pattern) ==
  \A k \in 1 .. Len(pattern) - 1 :
    LET next == Head(pattern[k + 1]) IN
    Len(pattern[k]) = 2 =>
      /\ next \notin Alpha \cup {"{"}
      /\ pattern[k] = <<"%", "%">> => next # "%"
-----------------------------------------------------------------------------
\* LogFormatter::init, for the appender that the holder of mLock works on.

Target(t) == IF call[t].op = "log" THEN Stdout ELSE call[t].name

mPattern(t) == FlattenSeq(mAppends[Target(t)].mPattern)

Size(t) == Len(mPattern(t))

\* The character at index k of the string.
At(t, k) == mPattern(t)[k + 1]

\* substr of the characters from index a to before index b.
Substr(t, a, b) == SubSeq(mPattern(t), a + 1, b)

NewLoc == [i |-> 0, idx |-> 0, state |-> 0, fmtBegin |-> 0, str |-> << >>,
           timeFmt |-> << >>, normalStr |-> << >>, vec |-> << >>]

Plain(s) == IF s = << >> THEN << >>
            ELSE << [str |-> s, fmt |-> << >>, conversion |-> FALSE] >>

Parse(t, l) == pc[t] = l /\ UNCHANGED <<mLevel, mLock, call, todo>>

Literal(t) ==
  /\ Parse(t, "init") /\ loc.i < Size(t) /\ At(t, loc.i) # "%"
  /\ loc' = [loc EXCEPT !.normalStr = Append(@, At(t, loc.i)), !.i = @ + 1]
  /\ UNCHANGED <<pc, mAppends>>

Doubled(t) == loc.i + 1 < Size(t) /\ At(t, loc.i + 1) = "%"

\* The second one is the next to be looked at.
Percent(t) ==
  /\ Parse(t, "init") /\ loc.i < Size(t) /\ At(t, loc.i) = "%" /\ Doubled(t)
  /\ loc' = [loc EXCEPT !.normalStr = Append(@, "%"), !.i = @ + 1]
  /\ UNCHANGED <<pc, mAppends>>

Conversion(t) ==
  /\ Parse(t, "init") /\ loc.i < Size(t) /\ At(t, loc.i) = "%" /\ ~ Doubled(t)
  /\ loc' = [loc EXCEPT !.idx = loc.i + 1, !.state = 0, !.fmtBegin = 0,
                        !.str = << >>, !.timeFmt = << >>]
  /\ Goto(t, "scan") /\ UNCHANGED mAppends

Scan(t, state) == Parse(t, "scan") /\ loc.idx < Size(t) /\ loc.state = state

EndOfName(t) ==
  /\ Scan(t, 0) /\ At(t, loc.idx) \notin Alpha \cup {"{"}
  /\ loc' = [loc EXCEPT !.str = Substr(t, loc.i + 1, loc.idx)]
  /\ Goto(t, "push") /\ UNCHANGED mAppends

\* Mutant: the brace itself is looked at again.
OpenBrace_stays(t) ==
  /\ Scan(t, 0) /\ At(t, loc.idx) = "{"
  /\ loc' = [loc EXCEPT !.str = Substr(t, loc.i + 1, loc.idx), !.state = 1,
                        !.fmtBegin = loc.idx + 1]
  /\ UNCHANGED <<pc, mAppends>>

OpenBrace(t) ==
  /\ Scan(t, 0) /\ At(t, loc.idx) = "{"
  /\ loc' = [loc EXCEPT !.str = Substr(t, loc.i + 1, loc.idx), !.state = 1,
                        !.fmtBegin = loc.idx + 1, !.idx = @ + 1]
  /\ UNCHANGED <<pc, mAppends>>

CloseBrace(t) ==
  /\ Scan(t, 1) /\ At(t, loc.idx) = "}"
  /\ loc' = [loc EXCEPT !.timeFmt = Substr(t, loc.fmtBegin, loc.idx), !.idx = @ + 1]
  /\ Goto(t, "push") /\ UNCHANGED mAppends

Skip(t) ==
  /\ \/ Scan(t, 0) /\ At(t, loc.idx) \in Alpha
     \/ Scan(t, 1) /\ At(t, loc.idx) # "}"
  /\ loc' = [loc EXCEPT
       !.idx = @ + 1,
       !.str = IF loc.idx + 1 = Size(t) /\ @ = << >> THEN Substr(t, loc.i + 1, Size(t)) ELSE @]
  /\ UNCHANGED <<pc, mAppends>>

Push(t) ==
  /\ Parse(t, pc[t]) /\ (pc[t] = "push" \/ (pc[t] = "scan" /\ loc.idx = Size(t)))
  /\ loc' = [loc EXCEPT
       !.i = loc.idx, !.normalStr = << >>,
       !.vec = @ \o Plain(loc.normalStr)
                 \o << [str |-> loc.str, fmt |-> loc.timeFmt, conversion |-> TRUE] >>]
  /\ Goto(t, "init") /\ UNCHANGED mAppends

\* The items are added to mItem, and init returns.
Assign(t) ==
  /\ Parse(t, "init") /\ loc.i = Size(t)
  /\ mAppends' = [mAppends EXCEPT ![Target(t)].mItem =
                    @ \o Items(loc.vec \o Plain(loc.normalStr))]
  /\ loc' = NewLoc
  /\ Goto(t, IF call[t].op = "log" THEN "held" ELSE "leave")

init(t) ==
  \/ Literal(t) \/ Percent(t) \/ Conversion(t) \/ EndOfName(t) \/ OpenBrace(t)
  \/ CloseBrace(t) \/ Skip(t) \/ Push(t) \/ Assign(t)
-----------------------------------------------------------------------------
\* The calls.

\* LOG tests the level of the logger without a lock; it takes time to build
\* the event.
Begin(t, c) ==
  /\ pc[t] = "idle" /\ c.op # "setLevel" /\ (c.op = "log" => c.level >= mLevel)
  /\ call' = [call EXCEPT ![t] = c] /\ Goto(t, "lock")
  /\ UNCHANGED <<mLevel, mAppends, mLock, todo, loc>>

\* There is no lock for this one either.
setLevel(t, c) ==
  /\ pc[t] = "idle" /\ c.op = "setLevel" /\ mLevel' = c.level
  /\ UNCHANGED <<mAppends, mLock, pc, call, todo, loc>>

Lock(t) ==
  /\ pc[t] = "lock" /\ mLock = None /\ mLock' = t /\ Goto(t, "held")
  /\ UNCHANGED <<mLevel, mAppends, call, todo, loc>>

Leave(t) ==
  /\ pc[t] = "leave" /\ mLock' = None /\ Goto(t, "idle")
  /\ call' = [call EXCEPT ![t] = NoCall]
  /\ UNCHANGED <<mLevel, mAppends, todo, loc>>

\* A thread at the body of op.
Body(t, op) == pc[t] = "held" /\ call[t].op = op /\ UNCHANGED <<mLevel, mLock, call, loc>>

Construct(name, level) ==
  mAppends' = [mAppends EXCEPT
    ![name] = [mLevel |-> level, mPattern |-> Default, mItem |-> << >>]]

log(t) ==
  /\ Body(t, "log")
  /\ IF Present = {}
     THEN Construct(Stdout, 0) /\ Goto(t, "init") /\ UNCHANGED todo
     ELSE todo' = [todo EXCEPT ![t] = Present] /\ Goto(t, "each") /\ UNCHANGED mAppends

\* Has appender a still to write the event of t?
Writes(t, a) == a \in todo[t] /\ call[t].level >= mAppends[a].mLevel

\* One appender after the other writes its line.
Each(t) ==
  /\ pc[t] = "each"
  /\ \E a \in todo[t] :
       /\ todo' = [todo EXCEPT ![t] = @ \ {a}]
       /\ Goto(t, IF todo'[t] = {} THEN "leave" ELSE "each")
  /\ UNCHANGED <<mLevel, mAppends, mLock, call, loc>>

addAppender(t) ==
  /\ Body(t, "add") /\ UNCHANGED todo
  /\ IF call[t].name \in Present THEN Goto(t, "leave") /\ UNCHANGED mAppends
     ELSE Construct(call[t].name, call[t].level) /\ Goto(t, "init")

delAppender(t) ==
  /\ Body(t, "del") /\ Goto(t, "leave") /\ UNCHANGED todo
  /\ mAppends' = [mAppends EXCEPT ![call[t].name] = NoAppender]

setAppenderLevel(t) ==
  /\ Body(t, "level") /\ Goto(t, "leave") /\ UNCHANGED todo
  /\ IF call[t].name \notin Present THEN UNCHANGED mAppends
     ELSE mAppends' = [mAppends EXCEPT ![call[t].name].mLevel = call[t].level]

\* Mutants: setPattern keeps the items; the early return keeps the lock.
setAppenderFormatter_keeps(t) ==
  /\ Body(t, "formatter") /\ UNCHANGED todo
  /\ IF call[t].name \notin Present THEN Goto(t, "leave") /\ UNCHANGED mAppends
     ELSE /\ Goto(t, "init")
          /\ mAppends' = [mAppends EXCEPT ![call[t].name].mPattern = call[t].pattern]

setAppenderFormatter_locked(t) ==
  /\ Body(t, "formatter") /\ UNCHANGED todo
  /\ IF call[t].name \notin Present THEN Goto(t, "idle") /\ UNCHANGED mAppends
     ELSE /\ Goto(t, "init")
          /\ mAppends' = [mAppends EXCEPT ![call[t].name].mPattern = call[t].pattern,
                                          ![call[t].name].mItem = << >>]

setAppenderFormatter(t) ==
  /\ Body(t, "formatter") /\ UNCHANGED todo
  /\ IF call[t].name \notin Present THEN Goto(t, "leave") /\ UNCHANGED mAppends
     ELSE /\ Goto(t, "init")
          /\ mAppends' = [mAppends EXCEPT ![call[t].name].mPattern = call[t].pattern,
                                          ![call[t].name].mItem = << >>]

Steps(t) ==
  \/ log(t) \/ Each(t) \/ addAppender(t) \/ delAppender(t) \/ setAppenderLevel(t)
  \/ setAppenderFormatter(t) \/ init(t) \/ Leave(t)

Init ==
  /\ mLevel = 0 /\ mAppends = [a \in Names |-> NoAppender] /\ mLock = None
  /\ pc = [t \in Threads |-> "idle"] /\ call = [t \in Threads |-> NoCall]
  /\ todo = [t \in Threads |-> {}] /\ loc = NewLoc

Next ==
  \E t \in Threads :
    \/ \E c \in May[t] : Begin(t, c) \/ setLevel(t, c)
    \/ Lock(t) \/ Steps(t)

\* A thread that holds mLock goes on.  The mutex itself is not fair.
Spec == Init /\ [][Next]_vars /\ \A t \in Threads : WF_vars(Steps(t))
-----------------------------------------------------------------------------
\* Properties.

\* Each variable holds a value of its kind, and no index or substr of init
\* leaves the pattern, whatever it is: at() and substr() throw nothing.
TypeOK ==
  /\ mLevel \in Level /\ mLock \in Threads \cup {None}
  /\ \A a \in Present : mAppends[a].mLevel \in Level
  /\ pc \in [Threads -> Label] /\ \A t \in Threads : todo[t] \subseteq Names
  /\ \A t \in Threads : call[t] \in May[t] \cup {NoCall}
  /\ loc.state \in {0, 1}
  /\ \A t \in Threads :
       /\ pc[t] = "init" => loc.i \in 0 .. Size(t)
       /\ pc[t] \in {"scan", "push"} =>
            /\ loc.i + 1 <= loc.idx /\ loc.idx <= Size(t)
            /\ loc.state = 1 => loc.fmtBegin \in loc.i + 1 .. loc.idx

\* The lines of an event are those of whole patterns, in the documented
\* meaning of their tokens: no line is written by an appender that is gone,
\* by one whose pattern is just read, or by the items of two patterns.
LinesAreWhole ==
  \A t \in Threads, a \in Names : Writes(t, a) =>
    /\ a \in Present
    /\ Clear(mAppends[a].mPattern) =>
         mAppends[a].mItem = [k \in DOMAIN mAppends[a].mPattern
                                |-> Meaning(mAppends[a].mPattern[k])]

\* Every call gives the lock back: the parser ends for every pattern.
LockIsFreed == \A t \in Threads : mLock = t ~> mLock # t
=============================================================================
