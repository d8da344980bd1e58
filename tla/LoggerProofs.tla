---------------------------- MODULE LoggerProofs ----------------------------
(***************************************************************************)
(* Proofs about Logger: LogFormatter::init stays inside of every pattern,  *)
(* and a line consists of what the documentation says of the tokens of one *)
(* pattern.                                                                *)
(***************************************************************************)
EXTENDS Logger, SequenceTheorems, WellFoundedInduction, TLAPS

\* A set of numbers that is not empty has a least element; a proof by
\* induction takes the set of the counterexamples.
LEMMA Least ==
  \A T \in SUBSET Nat : T # {} => \E n \in T : \A m \in T : n <= m
<1>1. IsWellFoundedOn({ss \in Nat \X Nat : ss[1] < ss[2]}, Nat)
  BY NatLessThanWellFounded DEF OpToRel
<1>2. SUFFICES ASSUME NEW T \in SUBSET Nat, T # {} PROVE \E n \in T : \A m \in T : n <= m
  OBVIOUS
<1> DEFINE R == {ss \in Nat \X Nat : ss[1] < ss[2]}
<1>3. \E x \in T : \A y \in T : ~ (<<y, x>> \in R)
  <2> HIDE DEF R
  <2>1. IsWellFoundedOn(R, Nat)
    BY <1>1 DEF R
  <2> QED  BY <1>2, <2>1, WFMin
<1>4. \A x, y \in T : ~ (<<y, x>> \in R) => x <= y
  OBVIOUS
<1> QED  BY <1>3, <1>4

-----------------------------------------------------------------------------
\* What FlattenSeq does, for sequences of sequences over any set.

\* f is the recursive function of FlattenSeq, for the first n elements of s.
IsFlat(f, s, n) == f = [i \in 1 .. n |-> IF i = 1 THEN s[i] ELSE f[i - 1] \o s[i]]

LEMMA FlatEmpty == FlattenSeq(<< >>) = << >>
BY DEF FlattenSeq

LEMMA FlatIs ==
  ASSUME NEW s, Len(s) # 0
  PROVE  FlattenSeq(s) = (CHOOSE f : IsFlat(f, s, Len(s)))[Len(s)]
BY DEF FlattenSeq, IsFlat

LEMMA FlatExists ==
  ASSUME NEW s, NEW n \in Nat
  PROVE  \E f : IsFlat(f, s, n)
<1> DEFINE Bad == {k \in Nat : ~ \E f : IsFlat(f, s, k)}
<1>1. SUFFICES ASSUME Bad # {} PROVE FALSE
  OBVIOUS
<1>2. PICK k \in Bad : \A m \in Bad : k <= m
  BY <1>1, Least
<1>3. CASE k = 0
  <2>1. IsFlat([i \in {} |-> s], s, 0)
    BY DEF IsFlat
  <2> QED  BY <1>2, <1>3, <2>1
<1>4. CASE k # 0
  <2>1. k - 1 \in Nat /\ k - 1 \notin Bad
    BY <1>2, <1>4
  <2>2. PICK f : IsFlat(f, s, k - 1)
    BY <2>1
  <2> DEFINE g == [i \in 1 .. k |-> IF i = 1 THEN s[i]
                                   ELSE IF i = k THEN f[i - 1] \o s[i] ELSE f[i]]
  <2>3. g = [i \in 1 .. k |-> IF i = 1 THEN s[i]
                             ELSE IF i = k THEN f[i - 1] \o s[i] ELSE f[i]]
    OBVIOUS
  <2> HIDE DEF g
  <2>4. DOMAIN g = 1 .. k /\ DOMAIN f = 1 .. k - 1
    BY <2>2, <2>3 DEF IsFlat
  <2>5. \A i \in 1 .. k : i = 1 => g[i] = s[i]
    BY <2>3
  <2>6. \A i \in 1 .. k : i # 1 /\ i = k => g[i] = f[i - 1] \o s[i]
    BY <2>3
  <2>7. \A i \in 1 .. k : i # 1 /\ i # k => g[i] = f[i]
    BY <2>3
  <2>8. \A i \in 1 .. k - 1 : f[i] = IF i = 1 THEN s[i] ELSE f[i - 1] \o s[i]
    BY <2>2 DEF IsFlat
  <2>9. \A i \in 1 .. k - 1 : g[i] = f[i]
    BY <2>1, <2>5, <2>7, <2>8
  <2>10. \A i \in 1 .. k : i # 1 => i - 1 \in 1 .. k - 1
    BY <2>1
  <2>11. \A i \in 1 .. k : i # 1 /\ i # k => i \in 1 .. k - 1
    BY <2>1
  <2>12. ASSUME NEW i \in 1 .. k, i # 1 PROVE g[i] = g[i - 1] \o s[i]
    <3>1. g[i - 1] = f[i - 1]
      BY <2>9, <2>10, <2>12
    <3>2. CASE i = k
      BY <2>6, <2>12, <3>1, <3>2
    <3>3. CASE i # k
      <4>1. g[i] = f[i] /\ f[i] = f[i - 1] \o s[i]
        BY <2>7, <2>8, <2>11, <2>12, <3>3
      <4> QED  BY <3>1, <4>1
    <3> QED  BY <3>2, <3>3
  <2>13. \A i \in 1 .. k : g[i] = IF i = 1 THEN s[i] ELSE g[i - 1] \o s[i]
    BY <2>5, <2>12
  <2>14. g = [i \in DOMAIN g |-> g[i]]
    BY <2>3
  <2>15. IsFlat(g, s, k)
    BY <2>4, <2>13, <2>14 DEF IsFlat
  <2> QED  BY <1>2, <2>15
<1> QED  BY <1>3, <1>4

\* It depends on the first elements only.
Agree(s, r, n) == \A i \in 1 .. n : s[i] = r[i]

LEMMA FlatAgree ==
  ASSUME NEW s, NEW r, NEW m \in Nat, NEW n \in Nat, NEW f, NEW g, m <= n,
         IsFlat(f, s, m), IsFlat(g, r, n), Agree(s, r, m)
  PROVE  Agree(f, g, m)
<1> DEFINE Bad == {i \in 1 .. m : f[i] # g[i]}
<1>1. SUFFICES ASSUME Bad # {} PROVE FALSE
  BY DEF Agree
<1>2. Bad \in SUBSET Nat
  OBVIOUS
<1>3. \E k \in Bad : \A i \in Bad : k <= i
  <2> HIDE DEF Bad
  <2> QED  BY <1>1, <1>2, Least
<1>4. PICK k \in Bad : \A i \in Bad : k <= i
  BY <1>3
<1>5. k \in 1 .. m /\ k \in 1 .. n /\ f[k] # g[k]
  BY <1>4
<1>6. \A i \in 1 .. m : f[i] = IF i = 1 THEN s[i] ELSE f[i - 1] \o s[i]
  BY DEF IsFlat
<1>7. \A i \in 1 .. n : g[i] = IF i = 1 THEN r[i] ELSE g[i - 1] \o r[i]
  BY DEF IsFlat
<1>8. k # 1
  BY <1>5, <1>6, <1>7 DEF Agree
<1>9. k - 1 \in 1 .. m
  BY <1>5, <1>8
<1>10. f[k - 1] = g[k - 1]
  BY <1>4, <1>9
<1>11. f[k] = f[k - 1] \o s[k] /\ g[k] = g[k - 1] \o r[k] /\ s[k] = r[k]
  BY <1>5, <1>6, <1>7, <1>8 DEF Agree
<1> QED  BY <1>5, <1>10, <1>11

LEMMA FlatAppend ==
  ASSUME NEW S, NEW s \in Seq(Seq(S)), NEW x \in Seq(S)
  PROVE  FlattenSeq(Append(s, x)) = FlattenSeq(s) \o x
<1> DEFINE n == Len(s)
           r == Append(s, x)
           f == CHOOSE h : IsFlat(h, s, n)
           g == CHOOSE h : IsFlat(h, r, n + 1)
<1>1. n \in Nat /\ Len(r) = n + 1 /\ (\A i \in 1 .. n : s[i] = r[i]) /\ r[n + 1] = x
  BY AppendProperties, LenProperties
<1> HIDE DEF n, r
<1>2. IsFlat(f, s, n) /\ IsFlat(g, r, n + 1)
  <2>1. \E h : IsFlat(h, s, n)
    BY <1>1, FlatExists
  <2>2. n + 1 \in Nat
    BY <1>1
  <2>3. \E h : IsFlat(h, r, n + 1)
    BY <2>2, FlatExists
  <2> QED  BY <2>1, <2>3
<1> HIDE DEF f, g
<1>3. FlattenSeq(r) = g[n + 1]
  BY <1>1, FlatIs DEF g
<1>4. CASE n = 0
  <2>1. s = << >>
    BY <1>4, EmptySeq DEF n
  <2>2. g[1] = x
    BY <1>1, <1>2, <1>4 DEF IsFlat
  <2> QED  BY <1>3, <1>4, <2>1, <2>2, FlatEmpty DEF r
<1>5. CASE n # 0
  <2>1. FlattenSeq(s) = f[n]
    BY <1>1, <1>5, FlatIs DEF f, n
  <2>2. f[n] = g[n]
    <3>1. n \in Nat /\ n + 1 \in Nat /\ n <= n + 1
      BY <1>1
    <3>2. Agree(f, g, n)
      <4>1. Agree(s, r, n)
        BY <1>1 DEF Agree
      <4>2. IsFlat(f, s, n) /\ IsFlat(g, r, n + 1)
        BY <1>2
      <4> QED  BY <4>1, <4>2, <3>1, FlatAgree
    <3>3. n \in 1 .. n
      BY <1>1, <1>5
    <3> QED  BY <3>2, <3>3 DEF Agree
  <2>3. g[n + 1] = g[n] \o r[n + 1]
    <3>1. \A i \in 1 .. n + 1 : g[i] = IF i = 1 THEN r[i] ELSE g[i - 1] \o r[i]
      BY <1>2 DEF IsFlat
    <3>2. n + 1 \in 1 .. n + 1 /\ n + 1 # 1 /\ (n + 1) - 1 = n
      BY <1>1, <1>5
    <3> QED  BY <3>1, <3>2
  <2> QED  BY <1>1, <1>3, <2>1, <2>2, <2>3 DEF r
<1> QED  BY <1>4, <1>5

-----------------------------------------------------------------------------
\* The prefixes of a text that is kept as tokens.

\* The characters of the first k tokens, and their number.
Before(P, k) == FlattenSeq(SubSeq(P, 1, k))
Off(P, k) == Len(Before(P, k))

LEMMA BeforeNext ==
  ASSUME NEW S, NEW P \in Seq(Seq(S)), NEW k \in 0 .. Len(P) - 1
  PROVE  Before(P, k + 1) = Before(P, k) \o P[k + 1]
<1>1. Len(P) \in Nat /\ k + 1 \in 1 .. Len(P) /\ k \in Int /\ (k + 1) - 1 = k
  BY LenProperties
<1>2. P[k + 1] \in Seq(S)
  BY <1>1, ElementOfSeq
<1>3. \A i \in 1 .. k : P[i] \in Seq(S)
  BY <1>1, ElementOfSeq
<1>4. SubSeq(P, 1, k) \in Seq(Seq(S))
  BY <1>1, <1>3, SubSeqProperties
<1>5. SubSeq(P, 1, k + 1) = Append(SubSeq(P, 1, k), P[k + 1])
  <2>1. SubSeq(P, 1, k + 1) = SubSeq(P, 1, (k + 1) - 1) \o << P[k + 1] >>
    <3>1. 1 \in 1 .. Len(P) /\ k + 1 \in 1 .. Len(P)
      BY <1>1
    <3> QED  BY <3>1, SubSeqRecursiveSecond
  <2> QED  BY <1>1, <1>2, <1>4, <2>1, AppendIsConcat
<1> QED  BY <1>2, <1>4, <1>5, FlatAppend DEF Before

LEMMA BeforeEnds ==
  ASSUME NEW S, NEW P \in Seq(Seq(S))
  PROVE  Before(P, 0) = << >> /\ Before(P, Len(P)) = FlattenSeq(P)
<1>1. SubSeq(P, 1, 0) = << >>
  BY SubSeqEmpty
<1>2. SubSeq(P, 1, Len(P)) = P
  BY SubSeqFull
<1> QED  BY <1>1, <1>2, FlatEmpty DEF Before

LEMMA BeforeType ==
  ASSUME NEW S, NEW P \in Seq(Seq(S)), NEW k \in 0 .. Len(P)
  PROVE  Before(P, k) \in Seq(S)
<1> DEFINE Bad == {j \in 0 .. Len(P) : Before(P, j) \notin Seq(S)}
<1>1. SUFFICES ASSUME Bad # {} PROVE FALSE
  OBVIOUS
<1>2. Len(P) \in Nat
  BY LenProperties
<1>3. Bad \in SUBSET Nat
  BY <1>2
<1>4. \E n \in Bad : \A j \in Bad : n <= j
  <2> HIDE DEF Bad
  <2> QED  BY <1>1, <1>3, Least
<1>5. PICK n \in Bad : \A j \in Bad : n <= j
  BY <1>4
<1>6. n \in 0 .. Len(P) /\ Before(P, n) \notin Seq(S)
  BY <1>5
<1>7. n # 0
  <2>1. Before(P, 0) = << >>
    BY BeforeEnds
  <2>2. << >> \in Seq(S)
    BY EmptySeq
  <2> QED  BY <1>6, <2>1, <2>2
<1>8. n - 1 \in 0 .. Len(P) - 1 /\ n - 1 \in 0 .. Len(P) /\ (n - 1) + 1 = n /\ ~ n <= n - 1
  BY <1>2, <1>6, <1>7
<1>9. Before(P, n - 1) \in Seq(S)
  BY <1>5, <1>8
<1>10. P[n] \in Seq(S)
  BY <1>2, <1>6, <1>7, ElementOfSeq
<1>11. Before(P, n) = Before(P, n - 1) \o P[n]
  <2>1. Before(P, (n - 1) + 1) = Before(P, n - 1) \o P[(n - 1) + 1]
    BY <1>8, BeforeNext
  <2> QED  BY <1>8, <2>1
<1> QED  BY <1>6, <1>9, <1>10, <1>11, ConcatProperties

LEMMA OffNext ==
  ASSUME NEW S, NEW P \in Seq(Seq(S)), NEW k \in 0 .. Len(P) - 1
  PROVE  /\ Off(P, k) \in Nat /\ Len(P[k + 1]) \in Nat
         /\ Off(P, k + 1) = Off(P, k) + Len(P[k + 1])
         /\ \A i \in 1 .. Off(P, k) : Before(P, k + 1)[i] = Before(P, k)[i]
         /\ \A i \in 1 .. Len(P[k + 1]) : Before(P, k + 1)[Off(P, k) + i] = P[k + 1][i]
<1>1. Len(P) \in Nat /\ k \in 0 .. Len(P) /\ k + 1 \in 1 .. Len(P)
  BY LenProperties
<1>2. P[k + 1] \in Seq(S) /\ Before(P, k) \in Seq(S)
  BY <1>1, ElementOfSeq, BeforeType
<1>3. Before(P, k + 1) = Before(P, k) \o P[k + 1]
  BY BeforeNext
<1> DEFINE a == Before(P, k)
           b == P[k + 1]
<1>4. a \in Seq(S) /\ b \in Seq(S)
  BY <1>2
<1> HIDE DEF a, b
<1>5. Len(a) \in Nat /\ Len(b) \in Nat
  BY <1>4, LenProperties
<1>6. /\ Len(a \o b) = Len(a) + Len(b)
      /\ \A i \in 1 .. Len(a) + Len(b) : (a \o b)[i] = IF i <= Len(a) THEN a[i] ELSE b[i - Len(a)]
  BY <1>4, ConcatProperties
<1>7. \A i \in 1 .. Len(a) : (a \o b)[i] = a[i]
  BY <1>5, <1>6
<1>8. ASSUME NEW i \in 1 .. Len(b) PROVE (a \o b)[Len(a) + i] = b[i]
  <2>1. Len(a) + i \in 1 .. Len(a) + Len(b) /\ ~ Len(a) + i <= Len(a) /\ (Len(a) + i) - Len(a) = i
    BY <1>5
  <2> QED  BY <1>6, <2>1
<1> QED  BY <1>3, <1>5, <1>6, <1>7, <1>8 DEF Off, a, b
\* One prefix continues the other.
LEMMA BeforeGrows ==
  ASSUME NEW S, NEW P \in Seq(Seq(S)), NEW k \in 0 .. Len(P), NEW n \in 0 .. Len(P), k <= n
  PROVE  /\ Off(P, k) \in Nat /\ Off(P, n) \in Nat /\ Off(P, k) <= Off(P, n)
         /\ \A i \in 1 .. Off(P, k) : Before(P, n)[i] = Before(P, k)[i]
<1> DEFINE Good(m) == /\ Off(P, m) \in Nat /\ Off(P, k) <= Off(P, m)
                      /\ \A i \in 1 .. Off(P, k) : Before(P, m)[i] = Before(P, k)[i]
           Bad == {m \in k .. n : ~ Good(m)}
<1>1. Len(P) \in Nat /\ k \in Nat /\ n \in Nat
  BY LenProperties
<1>2. Off(P, k) \in Nat
  BY BeforeType, LenProperties DEF Off
<1>3. Good(k)
  BY <1>2
<1> HIDE DEF Good
<1>4. Bad = {}
  <2>1. SUFFICES ASSUME Bad # {} PROVE FALSE
    OBVIOUS
  <2>2. Bad \in SUBSET Nat
    BY <1>1
  <2>3. \E m \in Bad : \A j \in Bad : m <= j
    <3> HIDE DEF Bad
    <3> QED  BY <2>1, <2>2, Least
  <2>4. PICK m \in Bad : \A j \in Bad : m <= j
    BY <2>3
  <2>5. m \in k .. n /\ ~ Good(m) /\ m # k
    BY <1>3, <2>4
  <2>6. m - 1 \in k .. n /\ m - 1 \in 0 .. Len(P) - 1 /\ ~ m <= m - 1 /\ (m - 1) + 1 = m
    BY <1>1, <2>5
  <2>7. Good(m - 1)
    BY <2>4, <2>6
  <2>8. /\ Off(P, m - 1) \in Nat /\ Len(P[m]) \in Nat
        /\ Off(P, m) = Off(P, m - 1) + Len(P[m])
        /\ \A i \in 1 .. Off(P, m - 1) : Before(P, m)[i] = Before(P, m - 1)[i]
    <3>1. m - 1 \in 0 .. Len(P) - 1
      BY <2>6
    <3>2. /\ Off(P, m - 1) \in Nat /\ Len(P[(m - 1) + 1]) \in Nat
          /\ Off(P, (m - 1) + 1) = Off(P, m - 1) + Len(P[(m - 1) + 1])
          /\ \A i \in 1 .. Off(P, m - 1) : Before(P, (m - 1) + 1)[i] = Before(P, m - 1)[i]
      BY <3>1, OffNext
    <3> QED  BY <2>6, <3>2
  <2>9. Off(P, m) \in Nat /\ Off(P, k) <= Off(P, m)
    BY <1>2, <2>7, <2>8 DEF Good
  <2>10. ASSUME NEW i \in 1 .. Off(P, k) PROVE Before(P, m)[i] = Before(P, k)[i]
    <3>1. i \in 1 .. Off(P, m - 1)
      BY <1>2, <2>7, <2>8 DEF Good
    <3>2. Before(P, m - 1)[i] = Before(P, k)[i]
      BY <2>7 DEF Good
    <3> QED  BY <2>8, <3>1, <3>2
  <2>11. Good(m)
    BY <2>9, <2>10 DEF Good
  <2> QED  BY <2>5, <2>11
<1>5. Good(n)
  <2>1. n \in k .. n
    BY <1>1
  <2> QED  BY <1>4, <2>1
<1> QED  BY <1>2, <1>5 DEF Good

\* Where the characters of a token are in the text.
LEMMA InText ==
  ASSUME NEW S, NEW P \in Seq(Seq(S)), NEW k \in 0 .. Len(P) - 1
  PROVE  /\ FlattenSeq(P) \in Seq(S) /\ Off(P, k) \in Nat
         /\ Off(P, k + 1) = Off(P, k) + Len(P[k + 1])
         /\ Off(P, k + 1) <= Len(FlattenSeq(P))
         /\ \A i \in 1 .. Len(P[k + 1]) : FlattenSeq(P)[Off(P, k) + i] = P[k + 1][i]
<1>1. /\ Len(P) \in Nat /\ k \in 0 .. Len(P) /\ k + 1 \in 0 .. Len(P)
      /\ Len(P) \in 0 .. Len(P) /\ k + 1 <= Len(P)
  BY LenProperties
<1>2. Before(P, Len(P)) = FlattenSeq(P)
  BY BeforeEnds
<1>3. FlattenSeq(P) \in Seq(S)
  BY <1>1, <1>2, BeforeType
<1>4. /\ Off(P, k) \in Nat /\ Len(P[k + 1]) \in Nat
      /\ Off(P, k + 1) = Off(P, k) + Len(P[k + 1])
      /\ \A i \in 1 .. Len(P[k + 1]) : Before(P, k + 1)[Off(P, k) + i] = P[k + 1][i]
  BY OffNext
<1>5. /\ Off(P, k + 1) <= Off(P, Len(P))
      /\ \A i \in 1 .. Off(P, k + 1) : Before(P, Len(P))[i] = Before(P, k + 1)[i]
  BY <1>1, BeforeGrows
<1>6. \A i \in 1 .. Len(P[k + 1]) : Off(P, k) + i \in 1 .. Off(P, k + 1)
  BY <1>4
<1>7. ASSUME NEW i \in 1 .. Len(P[k + 1]) PROVE FlattenSeq(P)[Off(P, k) + i] = P[k + 1][i]
  BY <1>2, <1>4, <1>5, <1>6
<1>8. Off(P, Len(P)) = Len(FlattenSeq(P))
  BY <1>2 DEF Off
<1> QED  BY <1>3, <1>4, <1>5, <1>7, <1>8
-----------------------------------------------------------------------------
Parsing(t) == pc[t] \in {"init", "scan", "push"}

Holding(t) == pc[t] \in Label \ {"idle", "lock"}

\* A text with the characters that a field brings in.
Written == Seq(STRING \cup {"%", "d", "Y"})

Appender == [mLevel : Level, mPattern : Seq(Token), mItem : Seq(Written)]

Part == [str : Token, fmt : Token, conversion : BOOLEAN]

Locals == [i : Nat, idx : Nat, state : {0, 1}, fmtBegin : Nat, str : Token,
           timeFmt : Token, normalStr : Token, vec : Seq(Part)]

\* The types of the variables.
Kinds ==
  /\ mLevel \in Level /\ mLock \in Threads \cup {None}
  /\ mAppends \in [Names -> Appender \cup {NoAppender}]
  /\ pc \in [Threads -> Label] /\ todo \in [Threads -> SUBSET Names]
  /\ call \in [Threads -> Call \cup {NoCall}]
  /\ loc \in Locals

\* mLock keeps all but one thread from the appenders and from loc; each thread
\* is in a call it may make, at a place of that call.
Turns ==
  /\ \A t \in Threads : Holding(t) => mLock = t
  /\ \A t \in Threads : call[t] \in May[t] \cup {NoCall}
  /\ \A t \in Threads : pc[t] # "idle" => call[t] # NoCall
  /\ \A t \in Threads : todo[t] # {} => pc[t] = "each" /\ todo[t] \subseteq Present
  /\ \A t \in Threads : Parsing(t) =>
       call[t].op \in {"log", "add", "formatter"} /\ Target(t) \in Present
  /\ (\A t \in Threads : ~ Parsing(t)) => loc = NewLoc

\* The indexes of init are inside of the pattern.
Inside(t) ==
  /\ pc[t] = "init" => loc.i <= Size(t)
  /\ pc[t] \in {"scan", "push"} =>
       /\ loc.i + 1 <= loc.idx /\ loc.idx <= Size(t)
       /\ loc.state = 1 => loc.i + 1 <= loc.fmtBegin /\ loc.fmtBegin <= loc.idx

Indexes == \A t \in Threads : Inside(t)

-----------------------------------------------------------------------------
\* Where init is in a pattern of documented tokens, none of which runs into
\* the next one.

\* The tokens that logger.h:63-73 describes.
IsLiteral(token) == Len(token) = 1 /\ token[1] # "%"
Left == "{"
Right == "}"
IsConversion(token) ==
  /\ Len(token) >= 2 /\ token[1] = "%" /\ token[2] \in Conversions
  /\ Len(token) # 2 =>
       /\ Len(token) >= 4 /\ token[2] = "d" /\ token[3] = Left /\ token[Len(token)] = Right
       /\ \A k \in 4 .. Len(token) - 1 : token[k] # Right
PercentSign == <<"%", "%">>
IsToken(token) == IsLiteral(token) \/ token = PercentSign \/ IsConversion(token)

\* What is to be written for the first k tokens, and for what has been read.
Meanings(P, k) == [j \in 1 .. k |-> Meaning(P[j])]
Out == Items(loc.vec \o Plain(loc.normalStr))

Pat(t) == mAppends[Target(t)].mPattern

\* After k tokens, or before the second percent sign of the last of them.
Between(t, k) ==
  /\ Out = Meanings(Pat(t), k)
  /\ \/ loc.i = Off(Pat(t), k)
     \/ k > 0 /\ Pat(t)[k] = PercentSign /\ loc.i + 1 = Off(Pat(t), k)

\* Behind a conversion, of which the second percent sign is one.
AtPercent(t, k) ==
  /\ k > 0 /\ Pat(t)[k] = PercentSign /\ loc.i + 1 = Off(Pat(t), k)
  /\ loc.idx = loc.i + 1 /\ loc.state = 0 /\ loc.str = << >> /\ loc.timeFmt = << >>

InToken(t, token) ==
  \/ loc.state = 0 /\ loc.idx = loc.i + 1 /\ loc.str = << >> /\ loc.timeFmt = << >>
  \/ /\ loc.state = 0 /\ loc.idx = loc.i + 2 /\ loc.timeFmt = << >>
     /\ loc.str = IF loc.idx = Size(t) THEN << token[2] >> ELSE << >>
  \/ /\ loc.state = 1 /\ Len(token) # 2 /\ loc.fmtBegin = loc.i + 3
     /\ loc.str = << token[2] >> /\ loc.timeFmt = << >>
     /\ loc.i + 3 <= loc.idx /\ loc.idx < loc.i + Len(token)

AtConversion(t, k) ==
  /\ k < Len(Pat(t)) /\ IsConversion(Pat(t)[k + 1]) /\ loc.i = Off(Pat(t), k)
  /\ pc[t] = "scan" => InToken(t, Pat(t)[k + 1])
  /\ pc[t] = "push" =>
       /\ loc.idx = Off(Pat(t), k + 1) /\ loc.str = << Pat(t)[k + 1][2] >>
       /\ loc.timeFmt = SubSeq(Pat(t)[k + 1], 4, Len(Pat(t)[k + 1]) - 1)

Reading(t) ==
  /\ pc[t] = "init" => \E k \in 0 .. Len(Pat(t)) : Between(t, k)
  /\ pc[t] \in {"scan", "push"} =>
       \E k \in 0 .. Len(Pat(t)) :
         Out = Meanings(Pat(t), k) /\ (AtPercent(t, k) \/ AtConversion(t, k))

Documented(P) == \A k \in DOMAIN P : IsToken(P[k])

\* The items of an appender are those of its pattern, or init is at work.
Settled(a) ==
  /\ Documented(mAppends[a].mPattern)
  /\ \/ /\ \E t \in Threads : Parsing(t) /\ Target(t) = a
        /\ mAppends[a].mItem = << >>
     \/ Clear(mAppends[a].mPattern) =>
          mAppends[a].mItem = Meanings(mAppends[a].mPattern, Len(mAppends[a].mPattern))

Wholes ==
  /\ \A t \in Threads : Parsing(t) => mAppends[Target(t)].mItem = << >>
  /\ \A t \in Threads : Parsing(t) /\ Clear(Pat(t)) => Reading(t)
  /\ \A a \in Present : Settled(a)
-----------------------------------------------------------------------------
\* The first invariant, and what it says of the thread at work.

Base == Kinds /\ Turns /\ Indexes

LEMMA TextIsString ==
  ASSUME NEW P \in Seq(Token)
  PROVE  FlattenSeq(P) \in Token /\ Len(FlattenSeq(P)) \in Nat
<1>1. Len(P) \in 0 .. Len(P) /\ P \in Seq(Seq(STRING))
  BY LenProperties DEF Token
<1>2. FlattenSeq(P) \in Seq(STRING)
  BY <1>1, BeforeType, BeforeEnds
<1> QED  BY <1>2, LenProperties DEF Token

LEMMA PatternIsText ==
  ASSUME Kinds, NEW t \in Threads, Target(t) \in Present
  PROVE  /\ Target(t) \in Names /\ mAppends[Target(t)] \in Appender
         /\ mAppends[Target(t)].mPattern \in Seq(Token)
         /\ mPattern(t) \in Token /\ Size(t) \in Nat
<1>1. Target(t) \in Names /\ mAppends[Target(t)] \in Appender
  BY DEF Kinds, Present
<1>2. mAppends[Target(t)].mPattern \in Seq(Token)
  BY <1>1 DEF Appender
<1> QED  BY <1>1, <1>2, TextIsString DEF mPattern, Size

LEMMA CharactersAreStrings ==
  ASSUME NEW s \in Token
  PROVE  /\ \A k \in 1 .. Len(s) : s[k] \in STRING
         /\ \A a \in Int, b \in Int : 1 <= a /\ b <= Len(s) => SubSeq(s, a, b) \in Token
<1>1. Len(s) \in Nat
  BY LenProperties DEF Token
<1>2. \A k \in 1 .. Len(s) : s[k] \in STRING
  BY ElementOfSeq DEF Token
<1>3. ASSUME NEW a \in Int, NEW b \in Int, 1 <= a, b <= Len(s) PROVE SubSeq(s, a, b) \in Token
  <2>1. \A k \in a .. b : s[k] \in STRING
    BY <1>1, <1>2, <1>3
  <2> QED  BY <2>1, SubSeqProperties DEF Token
<1> QED  BY <1>2, <1>3

\* Only the holder of mLock is at work.
LEMMA Others ==
  ASSUME Turns, NEW t \in Threads, mLock = t, NEW u \in Threads, u # t
  PROVE  ~ Holding(u) /\ ~ Parsing(u) /\ todo[u] = {} /\ Inside(u)
<1>1. ~ Holding(u)
  BY DEF Turns
<1>2. pc[u] \notin {"each", "init", "scan", "push"}
  BY <1>1 DEF Holding, Label
<1>3. todo[u] = {}
  BY <1>2 DEF Turns
<1> QED  BY <1>1, <1>2, <1>3 DEF Parsing, Inside

LEMMA ParserHolds ==
  ASSUME Base, NEW t \in Threads, Parsing(t)
  PROVE  /\ mLock = t /\ todo[t] = {} /\ call[t].op \in {"log", "add", "formatter"}
         /\ Target(t) \in Present /\ mPattern(t) \in Token /\ Size(t) \in Nat /\ pc[t] \in Label
<1>1. Holding(t) /\ pc[t] # "each" /\ pc[t] \in Label
  BY DEF Parsing, Holding, Label
<1>2. mLock = t /\ todo[t] = {} /\ call[t].op \in {"log", "add", "formatter"} /\ Target(t) \in Present
  BY <1>1 DEF Base, Turns
<1> QED  BY <1>1, <1>2, PatternIsText DEF Base

\* A step of init that does not end it.
LEMMA ParserStep ==
  ASSUME Base, NEW t \in Threads, Parsing(t),
         UNCHANGED <<mLevel, mLock, call, todo, mAppends>>,
         NEW l \in {"init", "scan", "push"}, pc' = [pc EXCEPT ![t] = l],
         loc' \in Locals, Inside(t)'
  PROVE  Base'
<1>1. Kinds'
  BY DEF Base, Kinds, Label
<1>2. \A u \in Threads \ {t} : pc'[u] = pc[u]
  BY DEF Base, Kinds
<1>3. pc'[t] = l
  BY DEF Base, Kinds
<1>4. mLock = t /\ todo[t] = {} /\ call[t].op \in {"log", "add", "formatter"}
      /\ Target(t) \in Present
  BY ParserHolds
<1>5. Present' = Present /\ Target(t)' = Target(t)
  BY DEF Present, Target
<1>6. \A u \in Threads \ {t} : (~ Holding(u) /\ ~ Parsing(u) /\ todo[u] = {})'
  BY <1>2, <1>4, Others DEF Base, Holding, Parsing
<1>7. Parsing(t)' /\ pc'[t] # "each"
  BY <1>3 DEF Parsing
<1>8. Turns'
  <2>1. \A u \in Threads : Holding(u)' => mLock' = u
    BY <1>4, <1>6
  <2>2. \A u \in Threads : call'[u] \in May[u] \cup {NoCall}
    BY DEF Base, Turns
  <2>3. ASSUME NEW u \in Threads, pc'[u] # "idle" PROVE call'[u] # NoCall
    <3>1. pc[u] # "idle"
      BY <1>2, <2>3 DEF Parsing
    <3> QED  BY <3>1 DEF Base, Turns
  <2>4. \A u \in Threads : todo'[u] = {}
    BY <1>4, <1>6
  <2>5. \A u \in Threads : Parsing(u)' =>
          call'[u].op \in {"log", "add", "formatter"} /\ Target(u)' \in Present'
    BY <1>4, <1>5, <1>6
  <2> QED  BY <1>7, <2>1, <2>2, <2>3, <2>4, <2>5 DEF Turns
<1>9. Indexes'
  <2>1. ASSUME NEW u \in Threads, u # t PROVE Inside(u)'
    BY <1>6, <2>1 DEF Inside, Parsing
  <2> QED  BY <2>1 DEF Indexes
<1> QED  BY <1>1, <1>8, <1>9 DEF Base

LEMMA LocalsKept ==
  ASSUME Base
  PROVE  /\ loc \in Locals /\ loc.i \in Nat /\ loc.idx \in Nat /\ loc.fmtBegin \in Nat
         /\ loc.state \in {0, 1} /\ loc.str \in Token /\ loc.timeFmt \in Token
         /\ loc.normalStr \in Token /\ loc.vec \in Seq(Part)
BY DEF Base, Kinds, Locals

LEMMA PlainIsSeq ==
  ASSUME NEW s \in Token
  PROVE  Plain(s) \in Seq(Part)
<1>1. << >> \in Token
  BY EmptySeq DEF Token
<1>2. [str |-> s, fmt |-> << >>, conversion |-> FALSE] \in Part
  BY <1>1 DEF Part
<1> DEFINE p == [str |-> s, fmt |-> << >>, conversion |-> FALSE]
<1> HIDE DEF p
<1>3. << p >> \in Seq(Part) /\ << >> \in Seq(Part)
  BY <1>2 DEF p
<1> QED  BY <1>3 DEF Plain, p

\* What the steps of init do to the pattern of t: nothing.
LEMMA SameText ==
  ASSUME NEW t \in Threads, UNCHANGED <<call, mAppends>>
  PROVE  /\ mPattern(t)' = mPattern(t) /\ Size(t)' = Size(t) /\ Pat(t)' = Pat(t)
         /\ Target(t)' = Target(t)
BY DEF mPattern, Size, Pat, Target

LEMMA LiteralKeeps ==
  ASSUME Base, NEW t \in Threads, Literal(t) \/ Percent(t)
  PROVE  Base'
<1>1. pc[t] = "init" /\ UNCHANGED <<mLevel, mLock, call, todo, mAppends, pc>> /\ loc.i < Size(t)
  BY DEF Literal, Percent, Parse
<1>2. Parsing(t)
  BY <1>1 DEF Parsing
<1>3. mPattern(t) \in Token /\ Size(t) \in Nat
  BY <1>2, ParserHolds
<1>4. PICK c \in STRING : loc' = [loc EXCEPT !.normalStr = Append(@, c), !.i = @ + 1]
  <2>1. loc.i + 1 \in 1 .. Len(mPattern(t))
    BY <1>1, <1>3, LocalsKept DEF Size
  <2>2. At(t, loc.i) \in STRING
    BY <1>3, <2>1, CharactersAreStrings DEF At
  <2>3. loc' = [loc EXCEPT !.normalStr = Append(@, At(t, loc.i)), !.i = @ + 1]
    BY DEF Literal, Percent
  <2> QED  BY <2>2, <2>3
<1>5. loc' \in Locals
  <2>1. Append(loc.normalStr, c) \in Token /\ loc.i + 1 \in Nat
    BY LocalsKept DEF Token
  <2> QED  BY <1>4, <2>1 DEF Base, Kinds, Locals
<1>6. Inside(t)'
  <2>1. loc'.i = loc.i + 1 /\ pc'[t] = "init" /\ Size(t)' = Size(t)
    BY <1>1, <1>4, LocalsKept, SameText DEF Locals
  <2> QED  BY <1>1, <1>3, <2>1, LocalsKept DEF Inside
<1>7. pc' = [pc EXCEPT ![t] = "init"]
  BY <1>1 DEF Base, Kinds
<1> QED  BY <1>1, <1>2, <1>5, <1>6, <1>7, ParserStep

LEMMA ConversionKeeps ==
  ASSUME Base, NEW t \in Threads, Conversion(t)
  PROVE  Base'
<1>1. /\ pc[t] = "init" /\ UNCHANGED <<mLevel, mLock, call, todo, mAppends>> /\ loc.i < Size(t)
      /\ pc' = [pc EXCEPT ![t] = "scan"]
      /\ loc' = [loc EXCEPT !.idx = loc.i + 1, !.state = 0, !.fmtBegin = 0,
                        !.str = << >>, !.timeFmt = << >>]
  BY DEF Conversion, Parse, Goto
<1>2. Parsing(t)
  BY <1>1 DEF Parsing
<1>3. Size(t) \in Nat
  BY <1>2, ParserHolds
<1>4. loc' \in Locals
  <2>1. << >> \in Token /\ loc.i + 1 \in Nat
    BY LocalsKept, EmptySeq DEF Token
  <2> QED  BY <1>1, <2>1 DEF Base, Kinds, Locals
<1>5. Inside(t)'
  <2>1. loc'.i = loc.i /\ loc'.idx = loc.i + 1 /\ loc'.state = 0
    BY <1>1, LocalsKept DEF Locals
  <2>2. pc'[t] = "scan" /\ Size(t)' = Size(t)
    BY <1>1, SameText DEF Base, Kinds
  <2> QED  BY <1>1, <1>3, <2>1, <2>2, LocalsKept DEF Inside
<1> QED  BY <1>1, <1>2, <1>4, <1>5, ParserStep

\* The four steps of scan.
LEMMA ScanKeeps ==
  ASSUME Base, NEW t \in Threads, EndOfName(t) \/ OpenBrace(t) \/ CloseBrace(t) \/ Skip(t)
  PROVE  Base'
<1>1. /\ pc[t] = "scan" /\ UNCHANGED <<mLevel, mLock, call, todo, mAppends>>
      /\ loc.idx < Size(t)
  BY DEF EndOfName, OpenBrace, CloseBrace, Skip, Scan, Parse
<1>2. Parsing(t)
  BY <1>1 DEF Parsing
<1>3. mPattern(t) \in Token /\ Size(t) \in Nat /\ Size(t) = Len(mPattern(t))
  BY <1>2, ParserHolds DEF Size
<1>4. /\ loc.i + 1 <= loc.idx /\ loc.idx <= Size(t)
      /\ loc.state = 1 => loc.i + 1 <= loc.fmtBegin /\ loc.fmtBegin <= loc.idx
  BY <1>1 DEF Base, Indexes, Inside
<1>5. \A a \in Nat, b \in Nat : b <= Size(t) => Substr(t, a, b) \in Token
  <2>1. \A a \in Nat, b \in Nat : 1 <= a + 1 /\ a + 1 \in Int /\ b \in Int
    OBVIOUS
  <2> QED  BY <1>3, <2>1, CharactersAreStrings DEF Substr
<1>6. loc.i + 1 \in Nat /\ loc.idx + 1 \in Nat /\ loc.idx \in Nat /\ loc.fmtBegin \in Nat
      /\ loc.idx <= Size(t) /\ Size(t) <= Size(t)
  BY <1>3, <1>4, LocalsKept
<1>7. Substr(t, loc.i + 1, loc.idx) \in Token /\ Substr(t, loc.fmtBegin, loc.idx) \in Token
      /\ Substr(t, loc.i + 1, Size(t)) \in Token
  BY <1>3, <1>5, <1>6
<1>8. Size(t)' = Size(t)
  BY <1>1, SameText
<1>9. CASE EndOfName(t)
  <2>1. loc' = [loc EXCEPT !.str = Substr(t, loc.i + 1, loc.idx)]
        /\ pc' = [pc EXCEPT ![t] = "push"]
    BY <1>9 DEF EndOfName, Goto
  <2>2. loc' \in Locals
    BY <1>7, <2>1 DEF Base, Kinds, Locals
  <2>3. loc'.i = loc.i /\ loc'.idx = loc.idx /\ loc'.state = loc.state /\ loc'.fmtBegin = loc.fmtBegin
    BY <2>1, LocalsKept DEF Locals
  <2>4. pc'[t] = "push"
    BY <2>1 DEF Base, Kinds
  <2>5. Inside(t)'
    BY <1>4, <1>8, <2>3, <2>4 DEF Inside
  <2> QED  BY <1>1, <1>2, <2>1, <2>2, <2>5, ParserStep
<1>10. CASE OpenBrace(t)
  <2>1. loc' = [loc EXCEPT !.str = Substr(t, loc.i + 1, loc.idx), !.state = 1,
                        !.fmtBegin = loc.idx + 1, !.idx = @ + 1]
        /\ pc' = pc
    BY <1>10 DEF OpenBrace
  <2>2. loc' \in Locals
    BY <1>6, <1>7, <2>1 DEF Base, Kinds, Locals
  <2>3. loc'.i = loc.i /\ loc'.idx = loc.idx + 1 /\ loc'.fmtBegin = loc.idx + 1
    BY <2>1, LocalsKept DEF Locals
  <2>4. pc' = [pc EXCEPT ![t] = "scan"] /\ pc'[t] = "scan"
    BY <1>1, <2>1 DEF Base, Kinds
  <2>5. Inside(t)'
    BY <1>1, <1>3, <1>4, <1>8, <2>3, <2>4, LocalsKept DEF Inside
  <2> QED  BY <1>1, <1>2, <2>2, <2>4, <2>5, ParserStep
<1>11. CASE CloseBrace(t)
  <2>1. loc' = [loc EXCEPT !.timeFmt = Substr(t, loc.fmtBegin, loc.idx), !.idx = @ + 1]
        /\ pc' = [pc EXCEPT ![t] = "push"]
    BY <1>11 DEF CloseBrace, Goto
  <2>2. loc' \in Locals
    BY <1>6, <1>7, <2>1 DEF Base, Kinds, Locals
  <2>3. loc'.i = loc.i /\ loc'.idx = loc.idx + 1 /\ loc'.state = loc.state
        /\ loc'.fmtBegin = loc.fmtBegin
    BY <2>1, LocalsKept DEF Locals
  <2>4. pc'[t] = "push"
    BY <2>1 DEF Base, Kinds
  <2>5. Inside(t)'
    BY <1>1, <1>3, <1>4, <1>8, <2>3, <2>4, LocalsKept DEF Inside
  <2> QED  BY <1>1, <1>2, <2>1, <2>2, <2>5, ParserStep
<1>12. CASE Skip(t)
  <2>1. PICK s \in Token : loc' = [loc EXCEPT !.idx = @ + 1, !.str = s]
    <3>1. (IF loc.idx + 1 = Size(t) /\ loc.str = << >> THEN Substr(t, loc.i + 1, Size(t))
           ELSE loc.str) \in Token
      BY <1>7, LocalsKept
    <3> QED  BY <1>12, <3>1 DEF Skip
  <2>2. loc' \in Locals
    BY <1>6, <2>1 DEF Base, Kinds, Locals
  <2>3. loc'.i = loc.i /\ loc'.idx = loc.idx + 1 /\ loc'.state = loc.state
        /\ loc'.fmtBegin = loc.fmtBegin
    BY <2>1, LocalsKept DEF Locals
  <2>4. pc' = [pc EXCEPT ![t] = "scan"] /\ pc'[t] = "scan"
    BY <1>1, <1>12 DEF Skip, Base, Kinds
  <2>5. Inside(t)'
    BY <1>1, <1>3, <1>4, <1>8, <2>3, <2>4, LocalsKept DEF Inside
  <2> QED  BY <1>1, <1>2, <2>2, <2>4, <2>5, ParserStep
<1> QED  BY <1>9, <1>10, <1>11, <1>12

LEMMA PushKeeps ==
  ASSUME Base, NEW t \in Threads, Push(t)
  PROVE  Base'
<1> DEFINE conv == [str |-> loc.str, fmt |-> loc.timeFmt, conversion |-> TRUE]
<1>1. /\ pc[t] \in {"scan", "push"} /\ UNCHANGED <<mLevel, mLock, call, todo, mAppends>>
      /\ pc' = [pc EXCEPT ![t] = "init"]
      /\ loc' = [loc EXCEPT !.i = loc.idx, !.normalStr = << >>,
                   !.vec = @ \o Plain(loc.normalStr) \o << conv >>]
  BY DEF Push, Parse, Goto
<1>2. Parsing(t)
  BY <1>1 DEF Parsing
<1>3. Size(t) \in Nat
  BY <1>2, ParserHolds
<1>4. conv \in Part
  BY LocalsKept DEF Part
<1> HIDE DEF conv
<1>5. loc.vec \o Plain(loc.normalStr) \o << conv >> \in Seq(Part)
  <2>1. Plain(loc.normalStr) \in Seq(Part) /\ loc.vec \in Seq(Part) /\ << conv >> \in Seq(Part)
    BY <1>4, LocalsKept, PlainIsSeq
  <2> QED  BY <2>1, ConcatProperties
<1>6. loc' \in Locals
  <2>1. << >> \in Token
    BY EmptySeq DEF Token
  <2> QED  BY <1>1, <1>5, <2>1 DEF Base, Kinds, Locals
<1>7. Inside(t)'
  <2>1. loc'.i = loc.idx
    BY <1>1, LocalsKept DEF Locals
  <2>2. pc'[t] = "init" /\ Size(t)' = Size(t)
    BY <1>1, SameText DEF Base, Kinds
  <2>3. loc.idx <= Size(t)
    BY <1>1 DEF Base, Indexes, Inside
  <2> QED  BY <2>1, <2>2, <2>3 DEF Inside
<1> QED  BY <1>1, <1>2, <1>6, <1>7, ParserStep

LEMMA CallKinds ==
  ASSUME NEW c \in Call
  PROVE  /\ c.op \in {"log", "setLevel", "add", "level", "del", "formatter"}
         /\ c.op \in {"add", "level", "del", "formatter"} => c.name \in Names
         /\ c.op \in {"log", "setLevel", "add", "level"} => c.level \in Level
         /\ c.op = "formatter" => c.pattern \in Seq(Token)
<1>1. CASE c \in [op : {"log", "setLevel"}, level : Level]
  <2>1. c.op \in {"log", "setLevel"} /\ c.level \in Level
    BY <1>1
  <2> QED  BY <2>1
<1>2. CASE c \in [op : {"add", "level"}, name : Names, level : Level]
  <2>1. c.op \in {"add", "level"} /\ c.level \in Level /\ c.name \in Names
    BY <1>2
  <2> QED  BY <2>1
<1>3. CASE c \in [op : {"del"}, name : Names]
  <2>1. c.op = "del" /\ c.name \in Names
    BY <1>3
  <2> QED  BY <2>1
<1>4. CASE c \in [op : {"formatter"}, name : Names, pattern : Seq(Token)]
  <2>1. c.op = "formatter" /\ c.name \in Names /\ c.pattern \in Seq(Token)
    BY <1>4
  <2> QED  BY <2>1
<1> QED  BY <1>1, <1>2, <1>3, <1>4 DEF Call

LEMMA Calls ==
  ASSUME LoggerAssumption, Base, NEW t \in Threads, pc[t] # "idle"
  PROVE  /\ call[t] \in May[t] /\ call[t] \in Call
         /\ call[t].op \in {"add", "level", "del", "formatter"} => call[t].name \in Names
         /\ call[t].op \in {"log", "setLevel", "add", "level"} => call[t].level \in Level
         /\ call[t].op = "formatter" => call[t].pattern \in Seq(Token)
<1>1. call[t] \in May[t] /\ May[t] \subseteq Call
  BY DEF Base, Turns, LoggerAssumption
<1>2. call[t] \in Call
  BY <1>1
<1> QED  BY <1>1, <1>2, CallKinds

LEMMA ZeroIsLeast == \A n \in Nat : 0 <= n
OBVIOUS

LEMMA ZeroIsLevel == 0 \in Level
BY DEF Level

LEMMA AppenderIsPresent == \A x \in Appender : x # NoAppender
BY DEF Appender, NoAppender, Level

\* The holder of mLock: nobody reads a pattern but it.
LEMMA Holder ==
  ASSUME Base, NEW t \in Threads, pc[t] \in {"held", "each", "leave"}
  PROVE  /\ mLock = t /\ loc = NewLoc
         /\ pc[t] # "each" => todo[t] = {}
         /\ \A u \in Threads : ~ Parsing(u)
<1>1. mLock = t
  BY DEF Base, Turns, Holding, Label
<1>2. \A u \in Threads : ~ Parsing(u)
  <2>1. ~ Parsing(t)
    BY DEF Parsing
  <2> QED  BY <1>1, <2>1, Others DEF Base
<1> QED  BY <1>1, <1>2 DEF Base, Turns

\* A step of the holder, or of the thread that becomes the holder.
LEMMA HolderStep ==
  ASSUME Base, NEW t \in Threads, mLock \in {t, None}, None \notin Threads,
         mLock' \in {t, None}, Kinds',
         \A u \in Threads \ {t} : UNCHANGED <<pc[u], call[u], todo[u]>>,
         Holding(t)' => mLock' = t,
         call'[t] \in May[t] \cup {NoCall},
         pc'[t] # "idle" => call'[t] # NoCall,
         todo'[t] # {} => pc'[t] = "each" /\ todo'[t] \subseteq Present',
         Parsing(t)' => call'[t].op \in {"log", "add", "formatter"} /\ Target(t)' \in Present',
         Parsing(t)' \/ loc' = NewLoc,
         Inside(t)'
  PROVE  Base'
<1>1. \A u \in Threads \ {t} : ~ Holding(u)
  BY DEF Base, Turns
<1>2. \A u \in Threads \ {t} : ~ Holding(u)' /\ ~ Parsing(u)' /\ pc'[u] # "each"
  BY <1>1 DEF Holding, Parsing, Label
<1>3. \A u \in Threads \ {t} : todo'[u] = {}
  BY <1>1, <1>2 DEF Base, Turns, Holding, Label
<1>4. Turns'
  <2>1. \A u \in Threads : Holding(u)' => mLock' = u
    BY <1>2
  <2>2. \A u \in Threads : call'[u] \in May[u] \cup {NoCall}
    BY DEF Base, Turns
  <2>3. \A u \in Threads : pc'[u] # "idle" => call'[u] # NoCall
    BY DEF Base, Turns
  <2>4. \A u \in Threads : todo'[u] # {} => pc'[u] = "each" /\ todo'[u] \subseteq Present'
    BY <1>3
  <2>5. \A u \in Threads : Parsing(u)' =>
          call'[u].op \in {"log", "add", "formatter"} /\ Target(u)' \in Present'
    BY <1>2
  <2>6. (\A u \in Threads : ~ Parsing(u)') => loc' = NewLoc
    OBVIOUS
  <2> QED  BY <2>1, <2>2, <2>3, <2>4, <2>5, <2>6 DEF Turns
<1>5. Indexes'
  <2>1. \A u \in Threads \ {t} : Inside(u)'
    BY <1>2 DEF Inside, Parsing
  <2> QED  BY <2>1 DEF Indexes
<1> QED  BY <1>4, <1>5 DEF Base

\* The first step of init.
LEMMA AtStart ==
  ASSUME Kinds, NEW t \in Threads, Target(t) \in Present, loc = NewLoc, pc[t] = "init"
  PROVE  Inside(t)
<1>1. Size(t) \in Nat
  BY PatternIsText
<1>2. loc.i = 0
  BY DEF NewLoc
<1> QED  BY <1>1, <1>2 DEF Inside

LEMMA CallStepsKeep ==
  ASSUME LoggerAssumption, Base, NEW t \in Threads,
         \/ Lock(t) \/ Leave(t) \/ Each(t)
         \/ \E c \in May[t] : Begin(t, c) \/ setLevel(t, c)
  PROVE  Base'
<1> USE DEF Goto
<1>1. /\ pc \in [Threads -> Label] /\ call \in [Threads -> Call \cup {NoCall}]
      /\ todo \in [Threads -> SUBSET Names] /\ mLock \in Threads \cup {None}
      /\ mLevel \in Level /\ loc \in Locals /\ None \notin Threads
      /\ mAppends \in [Names -> Appender \cup {NoAppender}]
      /\ call[t] \in May[t] \cup {NoCall} /\ May[t] \subseteq Call
  BY DEF Base, Kinds, Turns, LoggerAssumption
<1>2. CASE Lock(t)
  <2>1. /\ pc[t] = "lock" /\ mLock = None /\ mLock' = t /\ pc' = [pc EXCEPT ![t] = "held"]
        /\ UNCHANGED <<mLevel, mAppends, call, todo, loc>>
    BY <1>2 DEF Lock
  <2>2. pc'[t] = "held" /\ \A u \in Threads \ {t} : pc'[u] = pc[u]
    BY <1>1, <2>1
  <2>3. loc = NewLoc /\ todo[t] = {} /\ call[t] # NoCall
    <3>1. \A u \in Threads : ~ Parsing(u)
      BY <1>1, <2>1 DEF Base, Turns, Holding, Parsing, Label
    <3> QED  BY <2>1, <3>1 DEF Base, Turns
  <2>4. Kinds'
    BY <1>1, <2>1 DEF Kinds, Label
  <2>5. ~ Parsing(t)' /\ Inside(t)'
    BY <2>2 DEF Parsing, Inside
  <2> QED  BY <1>1, <2>1, <2>2, <2>3, <2>4, <2>5, HolderStep
<1>3. CASE Leave(t)
  <2>1. /\ pc[t] = "leave" /\ mLock' = None /\ pc' = [pc EXCEPT ![t] = "idle"]
        /\ call' = [call EXCEPT ![t] = NoCall]
        /\ UNCHANGED <<mLevel, mAppends, todo, loc>>
    BY <1>3 DEF Leave
  <2>2. /\ pc'[t] = "idle" /\ call'[t] = NoCall
        /\ \A u \in Threads \ {t} : pc'[u] = pc[u] /\ call'[u] = call[u]
    BY <1>1, <2>1
  <2>3. loc = NewLoc /\ todo[t] = {} /\ mLock = t
    BY <2>1, Holder
  <2>4. Kinds'
    BY <1>1, <2>1 DEF Kinds, Label
  <2>5. ~ Parsing(t)' /\ Inside(t)' /\ ~ Holding(t)'
    BY <2>2 DEF Parsing, Inside, Holding
  <2> QED  BY <1>1, <2>1, <2>2, <2>3, <2>4, <2>5, HolderStep
<1>4. CASE Each(t)
  <2>1. PICK a \in todo[t] :
          /\ todo' = [todo EXCEPT ![t] = @ \ {a}]
          /\ pc' = [pc EXCEPT ![t] = IF todo'[t] = {} THEN "leave" ELSE "each"]
    BY <1>4 DEF Each
  <2>2. pc[t] = "each" /\ UNCHANGED <<mLevel, mAppends, mLock, call, loc>>
    BY <1>4 DEF Each
  <2>3. /\ todo'[t] = todo[t] \ {a} /\ pc'[t] = IF todo'[t] = {} THEN "leave" ELSE "each"
        /\ \A u \in Threads \ {t} : pc'[u] = pc[u] /\ todo'[u] = todo[u]
    BY <1>1, <2>1
  <2>4. loc = NewLoc /\ mLock = t
    BY <2>2, Holder
  <2>5. Kinds'
    BY <1>1, <2>1, <2>2, <2>3 DEF Kinds, Label
  <2>6. ~ Parsing(t)' /\ Inside(t)' /\ call[t] # NoCall
    BY <2>2, <2>3 DEF Parsing, Inside, Base, Turns
  <2>7. todo'[t] # {} => pc'[t] = "each" /\ todo'[t] \subseteq Present'
    BY <2>2, <2>3 DEF Base, Turns, Present
  <2> QED  BY <1>1, <2>2, <2>3, <2>4, <2>5, <2>6, <2>7, HolderStep
<1>5. ASSUME NEW c \in May[t], Begin(t, c) PROVE Base'
  <2>1. /\ pc[t] = "idle" /\ call' = [call EXCEPT ![t] = c] /\ pc' = [pc EXCEPT ![t] = "lock"]
        /\ UNCHANGED <<mLevel, mAppends, mLock, todo, loc>>
    BY <1>5 DEF Begin
  <2>2. /\ pc'[t] = "lock" /\ call'[t] = c /\ todo[t] = {}
        /\ \A u \in Threads \ {t} : pc'[u] = pc[u] /\ call'[u] = call[u]
    BY <1>1, <2>1 DEF Base, Turns
  <2>3. c \in Call /\ c # NoCall
    <3>1. c \in Call
      BY <1>1
    <3>2. c.op # "none"
      BY <3>1, CallKinds
    <3>3. NoCall.op = "none"
      BY DEF NoCall
    <3> QED  BY <3>1, <3>2, <3>3
  <2>4. Kinds'
    <3>1. call' \in [Threads -> Call \cup {NoCall}]
      BY <1>1, <2>1, <2>3
    <3>2. pc' \in [Threads -> Label]
      BY <1>1, <2>1 DEF Label
    <3> QED  BY <1>1, <2>1, <3>1, <3>2 DEF Kinds
  <2>5. \A u \in Threads : (Holding(u)' => Holding(u)) /\ (Parsing(u)' <=> Parsing(u))
    <3>1. ASSUME NEW u \in Threads, u # t
          PROVE (Holding(u)' <=> Holding(u)) /\ (Parsing(u)' <=> Parsing(u))
      BY <2>2, <3>1 DEF Holding, Parsing
    <3>2. ~ Holding(t)' /\ ~ Parsing(t)' /\ ~ Parsing(t)
      BY <2>1, <2>2 DEF Holding, Parsing
    <3> QED  BY <3>1, <3>2
  <2>6. Present' = Present /\ \A u \in Threads \ {t} : Target(u)' = Target(u)
    <3>1. Present' = Present
      BY <2>1 DEF Present
    <3>2. \A u \in Threads \ {t} : Target(u)' = Target(u)
      BY <2>2 DEF Target
    <3> QED  BY <3>1, <3>2
  <2>7. ~ Parsing(t)
    BY <2>1 DEF Parsing
  <2>8. Turns'
    <3>1. \A u \in Threads : Holding(u)' => mLock' = u
      BY <2>1, <2>5 DEF Base, Turns
    <3>2. \A u \in Threads : call'[u] \in May[u] \cup {NoCall}
      BY <2>2 DEF Base, Turns
    <3>3. \A u \in Threads : pc'[u] # "idle" => call'[u] # NoCall
      BY <2>2, <2>3 DEF Base, Turns
    <3>4. \A u \in Threads : todo'[u] # {} => pc'[u] = "each" /\ todo'[u] \subseteq Present'
      BY <2>1, <2>2, <2>6 DEF Base, Turns
    <3>5. \A u \in Threads : Parsing(u)' =>
            call'[u].op \in {"log", "add", "formatter"} /\ Target(u)' \in Present'
      BY <2>2, <2>5, <2>6, <2>7 DEF Base, Turns
    <3>6. (\A u \in Threads : ~ Parsing(u)') => loc' = NewLoc
      BY <2>1, <2>5 DEF Base, Turns
    <3> QED  BY <3>1, <3>2, <3>3, <3>4, <3>5, <3>6 DEF Turns
  <2>9. Indexes'
    <3>1. ASSUME NEW u \in Threads, u # t PROVE Inside(u)'
      <4>1. Size(u)' = Size(u)
        BY <2>1, <2>6, <3>1 DEF Size, mPattern
      <4> QED  BY <2>1, <2>2, <3>1, <4>1 DEF Base, Indexes, Inside
    <3>2. Inside(t)'
      BY <2>2 DEF Inside
    <3> QED  BY <3>1, <3>2 DEF Indexes
  <2> QED  BY <2>4, <2>8, <2>9 DEF Base
<1>6. ASSUME NEW c \in May[t], setLevel(t, c) PROVE Base'
  <2>1. c.op = "setLevel" /\ mLevel' = c.level /\ UNCHANGED <<mAppends, mLock, pc, call, todo, loc>>
    BY <1>6 DEF setLevel
  <2>2. c.level \in Level
    <3>1. c \in Call
      BY <1>1
    <3> QED  BY <2>1, <3>1, CallKinds
  <2>3. Kinds'
    BY <1>1, <2>1, <2>2 DEF Kinds
  <2>4. Turns' = Turns /\ Indexes' = Indexes
    BY <2>1 DEF Turns, Indexes, Holding, Parsing, Present, Target, Inside, Size, mPattern
  <2> QED  BY <2>3, <2>4 DEF Base
<1> QED  BY <1>2, <1>3, <1>4, <1>5, <1>6

\* A step of a body: what becomes of the appenders, and where t goes.
LEMMA BodyStep ==
  ASSUME LoggerAssumption, Base, NEW t \in Threads, pc[t] = "held",
         UNCHANGED <<mLevel, mLock, call, loc>>,
         NEW l \in {"init", "each", "leave"}, pc' = [pc EXCEPT ![t] = l],
         NEW T \in SUBSET Names, todo' = [todo EXCEPT ![t] = T],
         mAppends' \in [Names -> Appender \cup {NoAppender}],
         T # {} => l = "each" /\ T \subseteq Present',
         l = "init" => call[t].op \in {"log", "add", "formatter"} /\ Target(t)' \in Present'
  PROVE  Base'
<1>1. /\ pc \in [Threads -> Label] /\ todo \in [Threads -> SUBSET Names]
      /\ None \notin Threads /\ call[t] \in May[t] \cup {NoCall} /\ call[t] # NoCall
  BY DEF Base, Kinds, Turns, LoggerAssumption
<1>2. mLock = t /\ loc = NewLoc
  BY Holder
<1>3. Kinds'
  BY <1>1 DEF Base, Kinds, Label
<1>4. /\ pc'[t] = l /\ todo'[t] = T
      /\ \A u \in Threads \ {t} : pc'[u] = pc[u] /\ todo'[u] = todo[u]
  BY <1>1
<1>5. Parsing(t)' => l = "init"
  BY <1>4 DEF Parsing
<1>6. Inside(t)'
  <2>1. CASE l = "init"
    <3>1. Kinds' /\ Target(t)' \in Present' /\ loc' = NewLoc /\ pc'[t] = "init"
      BY <1>2, <1>3, <1>4, <2>1
    <3>2. Size(t)' \in Nat
      <4>1. mAppends'[Target(t)'] \in Appender
        BY <3>1 DEF Present
      <4>2. mAppends'[Target(t)'].mPattern \in Seq(Token)
        BY <4>1 DEF Appender
      <4>3. Size(t)' = Len(FlattenSeq(mAppends'[Target(t)'].mPattern))
        BY DEF mPattern, Size
      <4> QED  BY <4>2, <4>3, TextIsString
    <3>3. loc'.i = 0
      <4>1. NewLoc.i = 0
        BY DEF NewLoc
      <4> QED  BY <3>1, <4>1
    <3>4. loc'.i <= Size(t)'
      BY <3>2, <3>3, ZeroIsLeast
    <3> QED  BY <3>1, <3>4 DEF Inside
  <2>2. CASE l # "init"
    BY <1>4, <2>2 DEF Inside
  <2> QED  BY <2>1, <2>2
<1> QED  BY <1>1, <1>2, <1>3, <1>4, <1>5, <1>6, HolderStep

LEMMA AppenderStepsKeep ==
  ASSUME LoggerAssumption, Base, NEW t \in Threads,
         \/ log(t) \/ addAppender(t) \/ delAppender(t) \/ setAppenderLevel(t)
         \/ setAppenderFormatter(t)
  PROVE  Base'
<1> USE DEF Goto
<1>1. /\ pc \in [Threads -> Label] /\ todo \in [Threads -> SUBSET Names]
      /\ mAppends \in [Names -> Appender \cup {NoAppender}]
      /\ Stdout \in Names /\ Default \in Seq(Token)
  BY DEF Base, Kinds, LoggerAssumption
<1>2. pc[t] = "held" /\ UNCHANGED <<mLevel, mLock, call, loc>>
  BY DEF log, addAppender, delAppender, setAppenderLevel, setAppenderFormatter, Body
<1>3. todo[t] = {} /\ todo = [todo EXCEPT ![t] = {}] /\ {} \in SUBSET Names
  BY <1>1, <1>2, Holder
<1>4. /\ call[t].op \in {"add", "level", "del", "formatter"} => call[t].name \in Names
      /\ call[t].op \in {"log", "setLevel", "add", "level"} => call[t].level \in Level
      /\ call[t].op = "formatter" => call[t].pattern \in Seq(Token)
  <2>1. pc[t] # "idle"
    BY <1>2
  <2> QED  BY <2>1, Calls
<1>5. << >> \in Seq(Written)
  BY EmptySeq
<1>6. \A level \in Level :
        [mLevel |-> level, mPattern |-> Default, mItem |-> << >>] \in Appender
  BY <1>1, <1>5 DEF Appender
<1>7. ASSUME pc' = [pc EXCEPT ![t] = "leave"], UNCHANGED todo,
             mAppends' \in [Names -> Appender \cup {NoAppender}]
      PROVE Base'
  <2>1. todo' = [todo EXCEPT ![t] = {}]
    BY <1>3, <1>7
  <2> QED  BY <1>2, <1>3, <1>7, <2>1, BodyStep
<1>8. ASSUME NEW n \in Names, NEW x \in Appender, mAppends' = [mAppends EXCEPT ![n] = x],
             pc' = [pc EXCEPT ![t] = "init"], UNCHANGED todo,
             call[t].op \in {"log", "add", "formatter"}, Target(t) = n
      PROVE Base'
  <2>1. todo' = [todo EXCEPT ![t] = {}]
    BY <1>3, <1>8
  <2>2. mAppends' \in [Names -> Appender \cup {NoAppender}] /\ mAppends'[n] # NoAppender
    BY <1>1, <1>8, AppenderIsPresent
  <2>3. Target(t)' \in Present'
    BY <1>2, <1>8, <2>2 DEF Target, Present
  <2> QED  BY <1>2, <1>3, <1>8, <2>1, <2>2, <2>3, BodyStep
<1>9. CASE log(t)
  <2>1. call[t].op = "log" /\ Target(t) = Stdout
    BY <1>9 DEF log, Body, Target
  <2>2. CASE Present = {}
    <3>1. /\ mAppends' = [mAppends EXCEPT ![Stdout] =
                            [mLevel |-> 0, mPattern |-> Default, mItem |-> << >>]]
          /\ pc' = [pc EXCEPT ![t] = "init"] /\ UNCHANGED todo
      BY <1>9, <2>2 DEF log, Construct
    <3>2. [mLevel |-> 0, mPattern |-> Default, mItem |-> << >>] \in Appender
      BY <1>6, ZeroIsLevel
    <3> QED  BY <1>1, <1>8, <2>1, <3>1, <3>2
  <2>3. CASE Present # {}
    <3>1. todo' = [todo EXCEPT ![t] = Present] /\ pc' = [pc EXCEPT ![t] = "each"]
          /\ UNCHANGED mAppends
      BY <1>9, <2>3 DEF log
    <3>2. Present \in SUBSET Names /\ Present \subseteq Present'
      BY <3>1 DEF Present
    <3> QED  BY <1>1, <1>2, <3>1, <3>2, BodyStep
  <2> QED  BY <2>2, <2>3
<1>10. CASE addAppender(t)
  <2>1. call[t].op = "add" /\ Target(t) = call[t].name /\ UNCHANGED todo /\ call[t].name \in Names
    BY <1>4, <1>10 DEF addAppender, Body, Target
  <2>2. CASE call[t].name \in Present
    BY <1>1, <1>7, <1>10, <2>1, <2>2 DEF addAppender
  <2>3. CASE call[t].name \notin Present
    <3>1. /\ mAppends' = [mAppends EXCEPT ![call[t].name] =
                            [mLevel |-> call[t].level, mPattern |-> Default, mItem |-> << >>]]
          /\ pc' = [pc EXCEPT ![t] = "init"]
      BY <1>10, <2>3 DEF addAppender, Construct
    <3>2. [mLevel |-> call[t].level, mPattern |-> Default, mItem |-> << >>] \in Appender
      BY <1>4, <1>6, <2>1
    <3> QED  BY <1>8, <2>1, <3>1, <3>2
  <2> QED  BY <2>2, <2>3
<1>11. CASE delAppender(t)
  <2>1. pc' = [pc EXCEPT ![t] = "leave"] /\ UNCHANGED todo
        /\ mAppends' = [mAppends EXCEPT ![call[t].name] = NoAppender]
    BY <1>11 DEF delAppender
  <2> QED  BY <1>1, <1>7, <2>1
<1>12. CASE setAppenderLevel(t)
  <2>1. pc' = [pc EXCEPT ![t] = "leave"] /\ UNCHANGED todo /\ call[t].op = "level"
    BY <1>12 DEF setAppenderLevel, Body
  <2>2. CASE call[t].name \notin Present
    BY <1>1, <1>7, <1>12, <2>1, <2>2 DEF setAppenderLevel
  <2>3. CASE call[t].name \in Present
    <3>1. mAppends' = [mAppends EXCEPT ![call[t].name].mLevel = call[t].level]
      BY <1>12, <2>3 DEF setAppenderLevel
    <3>2. mAppends[call[t].name] \in Appender
      BY <1>1, <2>3 DEF Present
    <3>3. [mAppends[call[t].name] EXCEPT !.mLevel = call[t].level] \in Appender
      BY <1>4, <2>1, <3>2 DEF Appender
    <3> QED  BY <1>1, <1>7, <2>1, <3>1, <3>3
  <2> QED  BY <2>2, <2>3
<1>13. CASE setAppenderFormatter(t)
  <2>1. call[t].op = "formatter" /\ Target(t) = call[t].name /\ UNCHANGED todo
        /\ call[t].name \in Names
    BY <1>4, <1>13 DEF setAppenderFormatter, Body, Target
  <2>2. CASE call[t].name \notin Present
    BY <1>1, <1>7, <1>13, <2>1, <2>2 DEF setAppenderFormatter
  <2>3. CASE call[t].name \in Present
    <3> DEFINE n == call[t].name
               x == [mAppends[n] EXCEPT !.mPattern = call[t].pattern, !.mItem = << >>]
    <3>1. /\ mAppends' = [mAppends EXCEPT ![n].mPattern = call[t].pattern, ![n].mItem = << >>]
          /\ pc' = [pc EXCEPT ![t] = "init"]
      BY <1>13, <2>3 DEF setAppenderFormatter
    <3>2. n \in Names /\ mAppends[n] \in Appender
      BY <1>1, <2>1, <2>3 DEF Present
    <3>3. x \in Appender
      BY <1>4, <1>5, <2>1, <3>2 DEF Appender
    <3>4. mAppends' = [mAppends EXCEPT ![n] = x]
      BY <1>1, <3>1, <3>2
    <3> QED  BY <1>8, <2>1, <3>1, <3>2, <3>3, <3>4
  <2> QED  BY <2>2, <2>3
<1> QED  BY <1>9, <1>10, <1>11, <1>12, <1>13

-----------------------------------------------------------------------------
\* What format writes for the items.

LEMMA FieldType ==
  ASSUME NEW c \in STRING, NEW fmt \in Token
  PROVE  Field(c, fmt) \in Written
<1> DEFINE Char == STRING \cup {"%", "d", "Y"}
<1>1. Token \subseteq Seq(Char) /\ Written = Seq(Char)
  <2>1. STRING \subseteq Char
    OBVIOUS
  <2> QED  BY <2>1, SeqMonotonic DEF Token, Written
<1>2. "%" \in Char /\ "d" \in Char /\ "Y" \in Char /\ c \in Char
  OBVIOUS
<1> HIDE DEF Char
<1>3. <<"%", c>> \in Seq(Char) /\ <<"%", "d">> \in Seq(Char) /\ <<"Y">> \in Seq(Char)
  BY <1>2
<1>4. (IF fmt = << >> THEN <<"Y">> ELSE fmt) \in Seq(Char)
  BY <1>1, <1>3
<1>5. <<"%", "d">> \o (IF fmt = << >> THEN <<"Y">> ELSE fmt) \in Seq(Char)
  BY <1>3, <1>4, ConcatProperties
<1> QED  BY <1>1, <1>3, <1>5 DEF Field

\* The plain characters, each of them a text of its own.
Singles(s) == [k \in DOMAIN s |-> << s[k] >>]

LEMMA CharIsWritten == \A c \in STRING : << c >> \in Written
<1> DEFINE Char == STRING \cup {"%", "d", "Y"}
<1>1. \A c \in STRING : c \in Char
  OBVIOUS
<1>2. Written = Seq(Char)
  BY DEF Written
<1> HIDE DEF Char
<1>3. \A c \in Char : << c >> \in Seq(Char)
  OBVIOUS
<1> QED  BY <1>1, <1>2, <1>3

LEMMA SinglesType ==
  ASSUME NEW s \in Token
  PROVE  Singles(s) \in Seq(Written) /\ Len(Singles(s)) = Len(s)
<1>1. Len(s) \in Nat /\ DOMAIN s = 1 .. Len(s)
  BY LenProperties DEF Token
<1>2. \A k \in 1 .. Len(s) : << s[k] >> \in Written
  <2>1. ASSUME NEW k \in 1 .. Len(s) PROVE << s[k] >> \in Seq(STRING \cup {"%", "d", "Y"})
    <3>1. s[k] \in STRING
      BY CharactersAreStrings
    <3> QED  BY <3>1
  <2> QED  BY <2>1 DEF Written
<1>3. Singles(s) = [k \in 1 .. Len(s) |-> << s[k] >>]
  BY <1>1 DEF Singles
<1>4. Singles(s) \in [1 .. Len(s) -> Written]
  BY <1>2, <1>3
<1> QED  BY <1>1, <1>4

LEMMA IsAppend ==
  ASSUME NEW T, NEW a \in Seq(T), NEW s \in Seq(T), NEW x \in T,
         Len(a) = Len(s) + 1, a[Len(s) + 1] = x, \A k \in 1 .. Len(s) : a[k] = s[k]
  PROVE  a = Append(s, x)
<1> DEFINE b == Append(s, x)
<1>1. /\ b \in Seq(T) /\ Len(b) = Len(s) + 1 /\ b[Len(s) + 1] = x
      /\ \A k \in 1 .. Len(s) : b[k] = s[k]
  BY AppendProperties
<1> HIDE DEF b
<1>2. Len(s) \in Nat
  BY LenProperties
<1>3. \A k \in 1 .. Len(a) : k \in 1 .. Len(s) \/ k = Len(s) + 1
  BY <1>2
<1>4. \A k \in 1 .. Len(a) : a[k] = b[k]
  BY <1>1, <1>3
<1>5. a = b
  BY <1>1, <1>4, SeqEqual
<1> QED  BY <1>5 DEF b

LEMMA SinglesAppend ==
  ASSUME NEW S, NEW s \in Seq(S), NEW c \in S
  PROVE  Singles(Append(s, c)) = Append(Singles(s), << c >>)
<1> DEFINE r == Append(s, c)
<1>1. /\ r \in Seq(S) /\ Len(r) = Len(s) + 1 /\ r[Len(s) + 1] = c
      /\ \A k \in 1 .. Len(s) : r[k] = s[k]
  BY AppendProperties
<1> HIDE DEF r
<1>2. /\ Len(s) \in Nat /\ DOMAIN s = 1 .. Len(s) /\ DOMAIN r = 1 .. Len(r)
      /\ Len(s) + 1 \in 1 .. Len(s) + 1 /\ \A k \in 1 .. Len(s) : k \in 1 .. Len(s) + 1
  <2>1. Len(s) \in Nat /\ DOMAIN s = 1 .. Len(s) /\ DOMAIN r = 1 .. Len(r)
    BY <1>1, LenProperties
  <2> QED  BY <2>1
<1>3. \A k \in 1 .. Len(s) + 1 : r[k] \in S /\ << r[k] >> \in Seq(S)
  <2>1. \A k \in 1 .. Len(s) + 1 : r[k] \in S
    BY <1>1, ElementOfSeq
  <2> QED  BY <2>1
<1>4. /\ Singles(s) = [k \in 1 .. Len(s) |-> << s[k] >>]
      /\ Singles(r) = [k \in 1 .. Len(s) + 1 |-> << r[k] >>]
  BY <1>1, <1>2 DEF Singles
<1>5. Singles(r) \in Seq(Seq(S)) /\ Len(Singles(r)) = Len(s) + 1
  <2>1. Singles(r) \in [1 .. Len(s) + 1 -> Seq(S)]
    BY <1>3, <1>4
  <2> QED  BY <1>2, <2>1
<1>6. Singles(s) \in Seq(Seq(S)) /\ Len(Singles(s)) = Len(s)
  <2>1. \A k \in 1 .. Len(s) : << s[k] >> \in Seq(S)
    BY <1>1, <1>2, <1>3
  <2>2. Singles(s) \in [1 .. Len(s) -> Seq(S)]
    BY <1>4, <2>1
  <2> QED  BY <1>2, <2>2
<1>7. Singles(r)[Len(s) + 1] = << c >>
  BY <1>1, <1>2, <1>4
<1>8. \A k \in 1 .. Len(s) : Singles(r)[k] = Singles(s)[k]
  BY <1>1, <1>2, <1>4
<1>9. << c >> \in Seq(S)
  OBVIOUS
<1>10. Singles(r) = Append(Singles(s), << c >>)
  BY <1>5, <1>6, <1>7, <1>8, <1>9, IsAppend
<1> QED  BY <1>10 DEF r

LEMMA ItemType ==
  ASSUME NEW v \in Part
  PROVE  Item(v) \in Seq(Written)
<1>1. v.str \in Token /\ v.fmt \in Token /\ v.conversion \in BOOLEAN
  BY DEF Part
<1>2. CASE ~ v.conversion
  BY <1>1, <1>2, SinglesType DEF Item, Singles
<1>3. CASE v.conversion /\ Len(v.str) = 1 /\ v.str[1] \in Conversions
  <2>1. v.str[1] \in STRING
    <3>1. 1 \in 1 .. Len(v.str)
      BY <1>3
    <3> QED  BY <1>1, <3>1, CharactersAreStrings
  <2>2. Field(v.str[1], v.fmt) \in Written
    BY <1>1, <2>1, FieldType
  <2>3. Item(v) = << Field(v.str[1], v.fmt) >>
    BY <1>3 DEF Item
  <2> QED  BY <2>2, <2>3
<1>4. CASE v.conversion /\ ~ (Len(v.str) = 1 /\ v.str[1] \in Conversions)
  BY <1>4, EmptySeq DEF Item
<1> QED  BY <1>2, <1>3, <1>4

LEMMA ItemsAppend ==
  ASSUME NEW vec \in Seq(Part), NEW v \in Part
  PROVE  Items(Append(vec, v)) = Items(vec) \o Item(v)
<1> DEFINE s == [k \in DOMAIN vec |-> Item(vec[k])]
           r == [k \in DOMAIN Append(vec, v) |-> Item(Append(vec, v)[k])]
<1>1. Len(vec) \in Nat /\ DOMAIN vec = 1 .. Len(vec)
      /\ DOMAIN Append(vec, v) = 1 .. Len(vec) + 1 /\ Append(vec, v)[Len(vec) + 1] = v
      /\ \A k \in 1 .. Len(vec) : Append(vec, v)[k] = vec[k] /\ vec[k] \in Part
  OBVIOUS
<1>2. s \in Seq(Seq(Written)) /\ Len(s) = Len(vec)
  <2>1. \A k \in 1 .. Len(vec) : Item(vec[k]) \in Seq(Written)
    BY <1>1, ItemType
  <2>2. s \in [1 .. Len(vec) -> Seq(Written)]
    BY <1>1, <2>1
  <2> QED  BY <1>1, <2>2
<1>3. Item(v) \in Seq(Written)
  BY ItemType
<1>4. r = Append(s, Item(v))
  <2>1. \A k \in 1 .. Len(vec) : r[k] = Item(vec[k]) /\ s[k] = Item(vec[k])
    BY <1>1
  <2>2. r[Len(s) + 1] = Item(v)
    BY <1>1, <1>2
  <2>3. r \in Seq(Seq(Written)) /\ Len(r) = Len(s) + 1
    <3>1. \A k \in 1 .. Len(vec) + 1 : r[k] \in Seq(Written)
      <4>1. \A k \in 1 .. Len(vec) + 1 : k \in 1 .. Len(vec) \/ k = Len(vec) + 1
        BY <1>1
      <4>2. \A k \in 1 .. Len(vec) : r[k] \in Seq(Written)
        BY <1>1, <2>1, ItemType
      <4> QED  BY <1>2, <1>3, <2>2, <4>1, <4>2
    <3>2. r \in [1 .. Len(vec) + 1 -> Seq(Written)]
      BY <1>1, <3>1
    <3> QED  BY <1>1, <1>2, <3>2
  <2> HIDE DEF s, r
  <2> QED  BY <1>2, <1>3, <2>1, <2>2, <2>3, IsAppend
<1> HIDE DEF s, r
<1>5. FlattenSeq(Append(s, Item(v))) = FlattenSeq(s) \o Item(v)
  BY <1>2, <1>3, FlatAppend
<1> QED  BY <1>4, <1>5 DEF Items, s, r

LEMMA ItemsType ==
  ASSUME NEW vec \in Seq(Part)
  PROVE  Items(vec) \in Seq(Written)
<1> DEFINE s == [k \in DOMAIN vec |-> Item(vec[k])]
<1>1. Len(vec) \in Nat /\ DOMAIN vec = 1 .. Len(vec) /\ \A k \in 1 .. Len(vec) : vec[k] \in Part
  OBVIOUS
<1>2. \A k \in 1 .. Len(vec) : Item(vec[k]) \in Seq(Written)
  BY <1>1, ItemType
<1>3. s \in [1 .. Len(vec) -> Seq(Written)]
  BY <1>1, <1>2
<1>4. s \in Seq(Seq(Written)) /\ Len(s) \in 0 .. Len(s)
  BY <1>1, <1>3
<1> HIDE DEF s
<1>5. FlattenSeq(s) \in Seq(Written)
  BY <1>4, BeforeType, BeforeEnds
<1> QED  BY <1>5 DEF Items, s

LEMMA OutType ==
  ASSUME Base
  PROVE  loc.vec \o Plain(loc.normalStr) \in Seq(Part) /\ Out \in Seq(Written)
<1>1. loc.vec \o Plain(loc.normalStr) \in Seq(Part)
  <2>1. loc.vec \in Seq(Part) /\ Plain(loc.normalStr) \in Seq(Part)
    BY LocalsKept, PlainIsSeq
  <2> QED  BY <2>1, ConcatProperties
<1> QED  BY <1>1, ItemsType DEF Out

LEMMA NewLocIsLocals == NewLoc \in Locals
<1>1. << >> \in Token /\ << >> \in Seq(Part)
  BY EmptySeq DEF Token
<1> QED  BY <1>1 DEF NewLoc, Locals

\* What Assign does to the appenders.
LEMMA AssignIs ==
  ASSUME Base, NEW t \in Threads, Assign(t)
  PROVE  LET n == Target(t) IN
         /\ n \in Present /\ Parsing(t) /\ mLock = t
         /\ [mAppends[n] EXCEPT !.mItem = @ \o Out] \in Appender
         /\ mAppends' = [mAppends EXCEPT ![n] = [mAppends[n] EXCEPT !.mItem = @ \o Out]]
         /\ loc' = NewLoc /\ UNCHANGED <<mLevel, mLock, call, todo>>
         /\ \E l \in {"held", "leave"} : pc' = [pc EXCEPT ![t] = l]
<1> DEFINE n == Target(t)
           x == [mAppends[n] EXCEPT !.mItem = @ \o Out]
<1>1. Parsing(t)
  BY DEF Assign, Parse, Parsing
<1>2. n \in Present /\ mLock = t
  BY <1>1, ParserHolds
<1>3. n \in Names /\ mAppends[n] \in Appender /\ mAppends \in [Names -> Appender \cup {NoAppender}]
  BY <1>2, PatternIsText DEF Base, Kinds
<1>4. x \in Appender
  <2>1. mAppends[n].mItem \in Seq(Written)
    BY <1>3 DEF Appender
  <2>2. mAppends[n].mItem \o Out \in Seq(Written)
    BY <2>1, OutType, ConcatProperties
  <2> QED  BY <1>3, <2>2 DEF Appender
<1>5. mAppends' = [mAppends EXCEPT ![n].mItem = @ \o Out]
  BY DEF Assign, Out
<1>6. mAppends' = [mAppends EXCEPT ![n] = x]
  BY <1>3, <1>5
<1>7. loc' = NewLoc /\ UNCHANGED <<mLevel, mLock, call, todo>>
  BY DEF Assign, Parse
<1>8. \E l \in {"held", "leave"} : pc' = [pc EXCEPT ![t] = l]
  BY DEF Assign, Goto
<1> QED  BY <1>1, <1>2, <1>4, <1>6, <1>7, <1>8

LEMMA AssignKeeps ==
  ASSUME LoggerAssumption, Base, NEW t \in Threads, Assign(t)
  PROVE  Base'
<1> DEFINE n == Target(t)
           x == [mAppends[n] EXCEPT !.mItem = @ \o Out]
<1>1. /\ n \in Present /\ Parsing(t) /\ mLock = t /\ x \in Appender
      /\ mAppends' = [mAppends EXCEPT ![n] = x]
      /\ loc' = NewLoc /\ UNCHANGED <<mLevel, mLock, call, todo>>
  BY AssignIs
<1> HIDE DEF n, x
<1>2. PICK l \in {"held", "leave"} : pc' = [pc EXCEPT ![t] = l]
  BY AssignIs
<1>3. /\ pc \in [Threads -> Label] /\ None \notin Threads
      /\ mAppends \in [Names -> Appender \cup {NoAppender}]
      /\ call[t] \in May[t] \cup {NoCall}
  BY DEF Base, Kinds, Turns, LoggerAssumption
<1>4. pc'[t] = l /\ \A u \in Threads \ {t} : pc'[u] = pc[u]
  BY <1>2, <1>3
<1>5. todo[t] = {} /\ call[t] # NoCall
  <2>1. pc[t] # "idle"
    BY <1>1 DEF Parsing
  <2> QED  BY <1>1, <2>1, ParserHolds DEF Base, Turns
<1>6. Kinds'
  <2>1. pc' \in [Threads -> Label]
    BY <1>2, <1>3 DEF Label
  <2>2. mAppends' \in [Names -> Appender \cup {NoAppender}]
    BY <1>1, <1>3
  <2> QED  BY <1>1, <2>1, <2>2, NewLocIsLocals DEF Base, Kinds
<1>7. ~ Parsing(t)' /\ Inside(t)'
  BY <1>4 DEF Parsing, Inside
<1> QED  BY <1>1, <1>3, <1>4, <1>5, <1>6, <1>7, HolderStep

LEMMA BaseHolds ==
  ASSUME LoggerAssumption
  PROVE  Spec => []Base
<1>1. Init => Base
  <2> SUFFICES ASSUME Init PROVE Base
    OBVIOUS
  <2>1. Kinds
    <3>1. mLevel \in Level /\ mLock \in Threads \cup {None} /\ loc \in Locals
      BY NewLocIsLocals, ZeroIsLevel DEF Init
    <3>2. mAppends \in [Names -> Appender \cup {NoAppender}]
      BY DEF Init
    <3>3. pc \in [Threads -> Label] /\ todo \in [Threads -> SUBSET Names]
          /\ call \in [Threads -> Call \cup {NoCall}]
      BY DEF Init, Label
    <3> QED  BY <3>1, <3>2, <3>3 DEF Kinds
  <2>2. Turns
    BY DEF Init, Turns, Holding, Parsing
  <2>3. Indexes
    BY DEF Init, Indexes, Inside
  <2> QED  BY <2>1, <2>2, <2>3 DEF Base
<1>2. Base /\ [Next]_vars => Base'
  <2> SUFFICES ASSUME Base, [Next]_vars PROVE Base'
    OBVIOUS
  <2>1. CASE UNCHANGED vars
    BY <2>1 DEF vars, Base, Kinds, Turns, Indexes, Holding, Parsing, Present, Target, Inside,
                Size, mPattern
  <2>2. ASSUME NEW t \in Threads, NEW c \in May[t], Begin(t, c) \/ setLevel(t, c) PROVE Base'
    BY <2>2, CallStepsKeep
  <2>3. ASSUME NEW t \in Threads, Lock(t) \/ Leave(t) \/ Each(t) PROVE Base'
    BY <2>3, CallStepsKeep
  <2>4. ASSUME NEW t \in Threads, \/ log(t) \/ addAppender(t) \/ delAppender(t)
                                  \/ setAppenderLevel(t) \/ setAppenderFormatter(t)
        PROVE Base'
    BY <2>4, AppenderStepsKeep
  <2>5. ASSUME NEW t \in Threads, init(t) PROVE Base'
    BY <2>5, LiteralKeeps, ConversionKeeps, ScanKeeps, PushKeeps, AssignKeeps DEF init
  <2> QED  BY <2>1, <2>2, <2>3, <2>4, <2>5 DEF Next, Steps
<1> QED  BY <1>1, <1>2, PTL DEF Spec

LEMMA BaseIsTyped == Base => TypeOK
<1> SUFFICES ASSUME Base PROVE TypeOK
  OBVIOUS
<1>1. /\ mLevel \in Level /\ mLock \in Threads \cup {None} /\ pc \in [Threads -> Label]
      /\ \A t \in Threads : todo[t] \subseteq Names
      /\ \A t \in Threads : call[t] \in May[t] \cup {NoCall}
      /\ loc.state \in {0, 1} /\ loc.i \in Nat /\ loc.idx \in Nat /\ loc.fmtBegin \in Nat
  BY LocalsKept DEF Base, Kinds, Turns
<1>2. \A a \in Present : mAppends[a].mLevel \in Level
  <2>1. \A a \in Present : mAppends[a] \in Appender
    BY DEF Base, Kinds, Present
  <2> QED  BY <2>1 DEF Appender
<1>3. ASSUME NEW t \in Threads, pc[t] = "init" PROVE loc.i \in 0 .. Size(t)
  <2>1. Size(t) \in Nat
    BY <1>3, ParserHolds DEF Parsing
  <2>2. loc.i <= Size(t)
    BY <1>3 DEF Base, Indexes, Inside
  <2>3. loc.i \in Nat
    BY LocalsKept
  <2> QED  BY <2>1, <2>2, <2>3
<1>4. ASSUME NEW t \in Threads, pc[t] \in {"scan", "push"}
      PROVE /\ loc.i + 1 <= loc.idx /\ loc.idx <= Size(t)
            /\ loc.state = 1 => loc.fmtBegin \in loc.i + 1 .. loc.idx
  <2>1. /\ loc.i + 1 <= loc.idx /\ loc.idx <= Size(t)
        /\ loc.state = 1 => loc.i + 1 <= loc.fmtBegin /\ loc.fmtBegin <= loc.idx
    BY <1>4 DEF Base, Indexes, Inside
  <2>2. loc.i \in Nat /\ loc.idx \in Nat /\ loc.fmtBegin \in Nat
    BY LocalsKept
  <2> QED  BY <2>1, <2>2
<1> QED  BY <1>1, <1>2, <1>3, <1>4 DEF TypeOK

\* Every variable holds a value of its kind, and no pattern, whatever it is,
\* leads an index of LogFormatter::init outside of it (logger.cpp:164-231):
\* only the holder of mLock changes the pattern or the indexes.
THEOREM TypeCorrect ==
  ASSUME LoggerAssumption
  PROVE  Spec => []TypeOK
BY BaseHolds, BaseIsTyped, PTL

-----------------------------------------------------------------------------
\* The tokens, and where init finds them.

LEMMA LiteralToken ==
  ASSUME NEW token \in Token, IsLiteral(token)
  PROVE  Len(token) = 1 /\ token[1] # "%" /\ Meaning(token) = << token[1] >>
<1>1. Len(token) = 1 /\ token[1] # "%"
  BY DEF IsLiteral
<1>2. token = << token[1] >>
  BY <1>1 DEF Token
<1> QED  BY <1>1, <1>2 DEF Meaning

LEMMA PercentToken ==
  /\ Len(PercentSign) = 2 /\ PercentSign[1] = "%" /\ PercentSign[2] = "%"
  /\ Meaning(PercentSign) = <<"%">>
<1>1. Len(PercentSign) = 2 /\ PercentSign[1] = "%" /\ PercentSign[2] = "%"
  BY DEF PercentSign
<1> QED  BY <1>1 DEF Meaning, PercentSign

LEMMA ConversionToken ==
  ASSUME NEW token \in Token, IsConversion(token)
  PROVE  /\ Len(token) \in Nat /\ Len(token) >= 2 /\ token[1] = "%"
         /\ token[2] \in Conversions /\ token[2] # "%"
         /\ token # PercentSign
         /\ Meaning(token) = Field(token[2], SubSeq(token, 4, Len(token) - 1))
<1>1. Len(token) \in Nat
  BY LenProperties DEF Token
<1>2. Len(token) >= 2 /\ token[1] = "%" /\ token[2] \in Conversions
  BY DEF IsConversion
<1>3. token[2] # "%"
  BY <1>2 DEF Conversions
<1>4. token # PercentSign
  BY <1>3, PercentToken
<1>5. Len(token) # 1 /\ token # <<"%", "%">>
  BY <1>1, <1>2, <1>4 DEF PercentSign
<1> QED  BY <1>1, <1>2, <1>3, <1>4, <1>5 DEF Meaning

LEMMA TokenLength ==
  ASSUME NEW token \in Token, IsToken(token)
  PROVE  Len(token) \in Nat /\ Len(token) >= 1
<1>1. Len(token) \in Nat
  BY LenProperties DEF Token
<1> QED  BY <1>1, LiteralToken, PercentToken, ConversionToken DEF IsToken

\* A part of a text that is equal to a token.
LEMMA SameSubSeq ==
  ASSUME NEW S, NEW s \in Seq(S), NEW r \in Seq(S), NEW o \in Nat, o + Len(r) <= Len(s),
         \A j \in 1 .. Len(r) : s[o + j] = r[j],
         NEW a \in Nat, NEW b \in Nat, a >= 1, b <= Len(r)
  PROVE  SubSeq(s, o + a, o + b) = SubSeq(r, a, b)
<1>1. Len(s) \in Nat /\ Len(r) \in Nat
  BY LenProperties
<1> DEFINE x == SubSeq(s, o + a, o + b)
           y == SubSeq(r, a, b)
<1>2. /\ x \in Seq(S) /\ Len(x) = IF o + a <= o + b THEN o + b - (o + a) + 1 ELSE 0
      /\ \A i \in 1 .. o + b - (o + a) + 1 : x[i] = s[o + a + i - 1]
  <2>1. \A i \in o + a .. o + b : s[i] \in S
    <3>1. \A i \in o + a .. o + b : i \in 1 .. Len(s)
      BY <1>1
    <3> QED  BY <3>1, ElementOfSeq
  <2>2. o + a \in Int /\ o + b \in Int
    OBVIOUS
  <2> QED  BY <2>1, <2>2, SubSeqProperties
<1>3. /\ y \in Seq(S) /\ Len(y) = IF a <= b THEN b - a + 1 ELSE 0
      /\ \A i \in 1 .. b - a + 1 : y[i] = r[a + i - 1]
  <2>1. \A i \in a .. b : r[i] \in S
    <3>1. \A i \in a .. b : i \in 1 .. Len(r)
      BY <1>1
    <3> QED  BY <3>1, ElementOfSeq
  <2>2. a \in Int /\ b \in Int
    OBVIOUS
  <2> QED  BY <2>1, <2>2, SubSeqProperties
<1> HIDE DEF x, y
<1>4. Len(x) = Len(y) /\ Len(y) \in Nat
  BY <1>2, <1>3
<1>5. ASSUME NEW i \in 1 .. Len(x) PROVE x[i] = y[i]
  <2>1. /\ i \in Nat /\ i \in 1 .. b - a + 1 /\ i \in 1 .. o + b - (o + a) + 1
        /\ a + i - 1 \in 1 .. Len(r) /\ o + a + i - 1 = o + (a + i - 1)
    BY <1>1, <1>3, <1>4
  <2>2. x[i] = s[o + (a + i - 1)] /\ y[i] = r[a + i - 1]
    BY <1>2, <1>3, <2>1
  <2>3. s[o + (a + i - 1)] = r[a + i - 1]
    BY <2>1
  <2> QED  BY <2>2, <2>3
<1>6. x = y
  BY <1>2, <1>3, <1>4, <1>5, SeqEqual
<1> QED  BY <1>6 DEF x, y

LEMMA OneElement ==
  ASSUME NEW S, NEW s \in Seq(S), Len(s) >= 2
  PROVE  SubSeq(s, 2, 2) = << s[2] >>
<1>1. Len(s) \in Nat
  BY LenProperties
<1>2. s[2] \in S
  <2>1. 2 \in 1 .. Len(s)
    BY <1>1
  <2> QED  BY <2>1, ElementOfSeq
<1> DEFINE x == SubSeq(s, 2, 2)
           y == << s[2] >>
<1>3. x \in Seq(S) /\ Len(x) = 1 /\ x[1] = s[2]
  <2>1. \A i \in 2 .. 2 : s[i] \in S
    BY <1>2
  <2>2. /\ x \in Seq(S) /\ Len(x) = (IF 2 <= 2 THEN 2 - 2 + 1 ELSE 0)
        /\ \A i \in 1 .. 2 - 2 + 1 : x[i] = s[2 + i - 1]
    BY <2>1, SubSeqProperties
  <2> HIDE DEF x
  <2>3. x[1] = s[2 + 1 - 1]
    BY <2>2
  <2> QED  BY <2>2, <2>3
<1>4. y \in Seq(S) /\ Len(y) = 1 /\ y[1] = s[2]
  BY <1>2
<1> HIDE DEF x, y
<1>5. \A i \in 1 .. Len(x) : x[i] = y[i]
  BY <1>3, <1>4
<1>6. x = y
  BY <1>3, <1>4, <1>5, SeqEqual
<1> QED  BY <1>6 DEF x, y

LEMMA TokenAt ==
  ASSUME Kinds, NEW t \in Threads, Target(t) \in Present, NEW k \in 0 .. Len(Pat(t)) - 1
  PROVE  /\ Off(Pat(t), k) \in Nat /\ Pat(t)[k + 1] \in Token /\ Len(Pat(t)[k + 1]) \in Nat
         /\ Off(Pat(t), k + 1) = Off(Pat(t), k) + Len(Pat(t)[k + 1])
         /\ Off(Pat(t), k + 1) <= Size(t) /\ Size(t) \in Nat
         /\ \A j \in Nat : j < Len(Pat(t)[k + 1]) =>
              At(t, Off(Pat(t), k) + j) = Pat(t)[k + 1][j + 1]
         /\ \A a, b \in Nat : b <= Len(Pat(t)[k + 1]) =>
              Substr(t, Off(Pat(t), k) + a, Off(Pat(t), k) + b)
                = SubSeq(Pat(t)[k + 1], a + 1, b)
<1> DEFINE P == Pat(t)
           T == mPattern(t)
           o == Off(P, k)
           r == P[k + 1]
<1>1. /\ P \in Seq(Token) /\ T = FlattenSeq(P) /\ T \in Token /\ Size(t) \in Nat
      /\ Size(t) = Len(T)
  BY PatternIsText DEF Pat, mPattern, Size
<1>2. P \in Seq(Seq(STRING)) /\ k \in 0 .. Len(P) - 1
  BY <1>1 DEF Token
<1> HIDE DEF P, T
<1>3. /\ o \in Nat /\ Off(P, k + 1) = o + Len(r) /\ Off(P, k + 1) <= Len(T)
      /\ \A i \in 1 .. Len(r) : T[o + i] = r[i]
  BY <1>1, <1>2, InText
<1>4. r \in Token /\ Len(r) \in Nat
  <2>1. k + 1 \in 1 .. Len(P)
    BY <1>1, <1>2, LenProperties
  <2>2. r \in Token
    BY <1>1, <2>1, ElementOfSeq
  <2> QED  BY <2>2, LenProperties DEF Token
<1> HIDE DEF o, r
<1>5. ASSUME NEW j \in Nat, j < Len(r) PROVE At(t, o + j) = r[j + 1]
  <2>1. j + 1 \in 1 .. Len(r) /\ (o + j) + 1 = o + (j + 1)
    BY <1>3, <1>4, <1>5
  <2> QED  BY <1>3, <2>1 DEF At, T
<1>6. ASSUME NEW a \in Nat, NEW b \in Nat, b <= Len(r)
      PROVE Substr(t, o + a, o + b) = SubSeq(r, a + 1, b)
  <2>1. /\ T \in Seq(STRING) /\ r \in Seq(STRING) /\ o + Len(r) <= Len(T)
        /\ a + 1 \in Nat /\ a + 1 >= 1 /\ (o + a) + 1 = o + (a + 1)
    BY <1>1, <1>3, <1>4 DEF Token
  <2>2. SubSeq(T, o + (a + 1), o + b) = SubSeq(r, a + 1, b)
    BY <1>3, <1>6, <2>1, SameSubSeq
  <2> QED  BY <2>1, <2>2 DEF Substr, T
<1> QED  BY <1>1, <1>3, <1>4, <1>5, <1>6 DEF P, o, r

LEMMA AtTheEnd ==
  ASSUME Kinds, NEW t \in Threads, Target(t) \in Present
  PROVE  /\ Len(Pat(t)) \in Nat /\ Off(Pat(t), 0) = 0 /\ Off(Pat(t), Len(Pat(t))) = Size(t)
<1> DEFINE P == Pat(t)
<1>1. P \in Seq(Token) /\ Size(t) = Len(FlattenSeq(P))
  BY PatternIsText DEF Pat, mPattern, Size
<1> HIDE DEF P
<1>2. P \in Seq(Seq(STRING)) /\ Len(P) \in Nat
  BY <1>1, LenProperties DEF Token
<1>3. Before(P, 0) = << >> /\ Before(P, Len(P)) = FlattenSeq(P)
  BY <1>2, BeforeEnds
<1>4. Len(<< >>) = 0
  BY EmptySeq
<1> QED  BY <1>1, <1>2, <1>3, <1>4 DEF Off, P

-----------------------------------------------------------------------------
\* How what is to be written grows.

LEMMA ItemsEmpty == Items(<< >>) = << >>
<1>1. [k \in DOMAIN << >> |-> Item(<< >>[k])] = << >>
  OBVIOUS
<1> QED  BY <1>1, FlatEmpty DEF Items

LEMMA OutIs ==
  ASSUME NEW vec \in Seq(Part), NEW s \in Token
  PROVE  Items(vec \o Plain(s)) = Items(vec) \o Singles(s)
<1>1. Items(vec) \in Seq(Written)
  BY ItemsType
<1>2. CASE s = << >>
  <2>1. Singles(s) = << >>
    BY <1>2 DEF Singles
  <2>2. vec \o Plain(s) = vec
    BY <1>2 DEF Plain
  <2>3. Items(vec) \o << >> = Items(vec)
    BY <1>1
  <2> QED  BY <2>1, <2>2, <2>3
<1>3. CASE s # << >>
  <2> DEFINE p == [str |-> s, fmt |-> << >>, conversion |-> FALSE]
  <2>1. Plain(s) = << p >>
    BY <1>3 DEF Plain
  <2>2. p \in Part
    <3>1. << >> \in Token
      BY EmptySeq DEF Token
    <3> QED  BY <3>1 DEF Part
  <2>3. Item(p) = Singles(s)
    BY DEF Item, Singles
  <2> HIDE DEF p
  <2>4. vec \o << p >> = Append(vec, p)
    BY <2>2, AppendIsConcat
  <2> QED  BY <2>1, <2>2, <2>3, <2>4, ItemsAppend
<1> QED  BY <1>2, <1>3

\* A plain character.
LEMMA OutPlain ==
  ASSUME Base, NEW c \in STRING, loc'.vec = loc.vec, loc'.normalStr = Append(loc.normalStr, c)
  PROVE  Out' = Append(Out, << c >>)
<1> DEFINE v == loc.vec
           s == loc.normalStr
           w == loc'.vec
           r == loc'.normalStr
<1>1. v \in Seq(Part) /\ s \in Token /\ w = v /\ r = Append(s, c)
  BY LocalsKept
<1>2. Out = Items(v \o Plain(s)) /\ Out' = Items(w \o Plain(r))
  BY DEF Out
<1> HIDE DEF v, s, w, r
<1>3. r \in Token
  BY <1>1 DEF Token
<1>4. Out = Items(v) \o Singles(s) /\ Out' = Items(v) \o Singles(r)
  BY <1>1, <1>2, <1>3, OutIs
<1>5. Singles(r) = Append(Singles(s), << c >>)
  BY <1>1, SinglesAppend DEF Token
<1> DEFINE a == Items(v)
           b == Singles(s)
           e == << c >>
<1>6. a \in Seq(Written) /\ b \in Seq(Written)
  BY <1>1, ItemsType, SinglesType
<1>7. e \in Written
  BY CharIsWritten
<1> HIDE DEF a, b, e
<1>8. a \o Append(b, e) = Append(a \o b, e)
  <2> DEFINE x == a \o Append(b, e)
  <2>1. Append(b, e) \in Seq(Written) /\ Len(Append(b, e)) = Len(b) + 1
        /\ Append(b, e)[Len(b) + 1] = e /\ \A i \in 1 .. Len(b) : Append(b, e)[i] = b[i]
    BY <1>6, <1>7, AppendProperties
  <2>2. Append(b, e) = b \o << e >> /\ Append(a \o b, e) = (a \o b) \o << e >>
    BY <1>6, <1>7, AppendIsConcat, ConcatProperties
  <2>3. << e >> \in Seq(Written)
    BY <1>7
  <2> QED  BY <1>6, <2>2, <2>3, ConcatAssociative
<1> QED  BY <1>4, <1>5, <1>8 DEF a, b, e

\* A conversion, and the plain characters before it.
LEMMA OutPush ==
  ASSUME Base, NEW v \in Part, loc'.normalStr = << >>,
         loc'.vec = loc.vec \o Plain(loc.normalStr) \o << v >>
  PROVE  Out' = Out \o Item(v)
<1> DEFINE u == loc.vec \o Plain(loc.normalStr)
           w == loc'.vec
           r == loc'.normalStr
<1>1. u \in Seq(Part) /\ Out = Items(u)
  BY OutType DEF Out
<1>2. w = u \o << v >> /\ r = << >>
  OBVIOUS
<1>3. Out' = Items(w \o Plain(r))
  BY DEF Out
<1> HIDE DEF u, w, r
<1>4. w = Append(u, v) /\ w \in Seq(Part)
  BY <1>1, <1>2, AppendIsConcat, AppendProperties
<1>5. w \o Plain(r) = w
  BY <1>2, <1>4 DEF Plain
<1> QED  BY <1>1, <1>3, <1>4, <1>5, ItemsAppend

LEMMA MeaningsNext ==
  ASSUME NEW P, NEW k \in Nat
  PROVE  Meanings(P, k + 1) = Append(Meanings(P, k), Meaning(P[k + 1]))
<1> DEFINE a == Meanings(P, k + 1)
           s == Meanings(P, k)
           T == {Meaning(P[j]) : j \in 1 .. k + 1}
           x == Meaning(P[k + 1])
<1>1. a = [j \in 1 .. k + 1 |-> Meaning(P[j])] /\ s = [j \in 1 .. k |-> Meaning(P[j])]
  BY DEF Meanings
<1>2. x \in T /\ (\A j \in 1 .. k + 1 : Meaning(P[j]) \in T)
      /\ \A j \in 1 .. k : Meaning(P[j]) \in T
  OBVIOUS
<1> HIDE DEF a, s, T, x
<1>3. a \in [1 .. k + 1 -> T] /\ s \in [1 .. k -> T]
  BY <1>1, <1>2
<1>4. a \in Seq(T) /\ s \in Seq(T) /\ Len(a) = k + 1 /\ Len(s) = k
  BY <1>3
<1>5. a[k + 1] = x /\ \A j \in 1 .. k : a[j] = s[j]
  BY <1>1 DEF x
<1>6. a = Append(s, x)
  BY <1>2, <1>4, <1>5, IsAppend
<1> QED  BY <1>6 DEF a, s, x

\* Nothing is read yet.
LEMMA OutAtStart ==
  ASSUME NEW P, loc = NewLoc
  PROVE  Out = Meanings(P, 0)
<1>1. loc.vec = << >> /\ loc.normalStr = << >>
  BY DEF NewLoc
<1>2. << >> \o Plain(<< >>) = << >>
  BY DEF Plain
<1>3. Out = << >>
  BY <1>1, <1>2, ItemsEmpty DEF Out
<1>4. Meanings(P, 0) = << >>
  BY DEF Meanings
<1> QED  BY <1>3, <1>4

-----------------------------------------------------------------------------
\* Each step of init goes on reading the tokens.

LEMMA Context ==
  ASSUME Base, Wholes, NEW t \in Threads, Parsing(t)
  PROVE  /\ Kinds /\ Target(t) \in Present /\ Pat(t) \in Seq(Token) /\ Len(Pat(t)) \in Nat
         /\ Size(t) \in Nat /\ loc.i \in Nat /\ loc.idx \in Nat
         /\ \A k \in 0 .. Len(Pat(t)) - 1 :
              Pat(t)[k + 1] \in Token /\ IsToken(Pat(t)[k + 1])
<1>1. Kinds /\ Target(t) \in Present /\ Size(t) \in Nat
  BY ParserHolds DEF Base
<1>2. Pat(t) \in Seq(Token)
  BY <1>1, PatternIsText DEF Pat
<1>3. Len(Pat(t)) \in Nat /\ DOMAIN Pat(t) = 1 .. Len(Pat(t))
  BY <1>2, LenProperties
<1>4. Documented(Pat(t))
  BY <1>1 DEF Wholes, Settled, Pat
<1>5. ASSUME NEW k \in 0 .. Len(Pat(t)) - 1
      PROVE Pat(t)[k + 1] \in Token /\ IsToken(Pat(t)[k + 1])
  <2>1. k + 1 \in 1 .. Len(Pat(t))
    BY <1>3
  <2> QED  BY <1>2, <1>3, <1>4, <2>1, ElementOfSeq DEF Documented
<1> QED  BY <1>1, <1>2, <1>3, <1>5, LocalsKept

LEMMA ClearAt ==
  ASSUME NEW P \in Seq(Token), Clear(P), NEW k \in 1 .. Len(P) - 1, Len(P[k]) = 2,
         P[k + 1] \in Token
  PROVE  /\ P[k + 1][1] \notin Alpha /\ P[k + 1][1] # Left
         /\ P[k] = PercentSign => P[k + 1][1] # "%"
<1>1. Head(P[k + 1]) = P[k + 1][1]
  OBVIOUS
<1> QED  BY <1>1 DEF Clear, PercentSign, Left

\* The ways to be in a pattern after a step.
LEMMA BetweenNext ==
  ASSUME NEW t \in Threads, UNCHANGED <<call, mAppends>>, pc'[t] = "init",
         NEW k \in 0 .. Len(Pat(t)), Out' = Meanings(Pat(t), k),
         \/ loc'.i = Off(Pat(t), k)
         \/ k > 0 /\ Pat(t)[k] = PercentSign /\ loc'.i + 1 = Off(Pat(t), k)
  PROVE  Reading(t)'
<1>1. Pat(t)' = Pat(t)
  BY SameText
<1>2. Between(t, k)'
  BY <1>1 DEF Between
<1>3. \E j \in 0 .. Len(Pat(t)') : Between(t, j)'
  BY <1>1, <1>2
<1> QED  BY <1>3 DEF Reading

LEMMA PercentNext ==
  ASSUME NEW t \in Threads, UNCHANGED <<call, mAppends>>, pc'[t] \in {"scan", "push"},
         NEW k \in 0 .. Len(Pat(t)), Out' = Meanings(Pat(t), k),
         k > 0 /\ Pat(t)[k] = PercentSign, loc'.i + 1 = Off(Pat(t), k),
         loc'.idx = loc'.i + 1, loc'.state = 0, loc'.str = << >>, loc'.timeFmt = << >>
  PROVE  Reading(t)'
<1>1. Pat(t)' = Pat(t)
  BY SameText
<1>2. AtPercent(t, k)' /\ Out' = Meanings(Pat(t)', k)
  BY <1>1 DEF AtPercent
<1>3. \E j \in 0 .. Len(Pat(t)') :
        Out' = Meanings(Pat(t)', j) /\ (AtPercent(t, j)' \/ AtConversion(t, j)')
  BY <1>1, <1>2
<1> QED  BY <1>3 DEF Reading

LEMMA ConversionNext ==
  ASSUME NEW t \in Threads, UNCHANGED <<call, mAppends>>, pc'[t] \in {"scan", "push"},
         NEW k \in 0 .. Len(Pat(t)), Out' = Meanings(Pat(t), k),
         k < Len(Pat(t)), IsConversion(Pat(t)[k + 1]), loc'.i = Off(Pat(t), k),
         pc'[t] = "scan" => InToken(t, Pat(t)[k + 1])',
         pc'[t] = "push" =>
           /\ loc'.idx = Off(Pat(t), k + 1) /\ loc'.str = << Pat(t)[k + 1][2] >>
           /\ loc'.timeFmt = SubSeq(Pat(t)[k + 1], 4, Len(Pat(t)[k + 1]) - 1)
  PROVE  Reading(t)'
<1>1. Pat(t)' = Pat(t)
  BY SameText
<1>2. AtConversion(t, k)' /\ Out' = Meanings(Pat(t)', k)
  BY <1>1 DEF AtConversion
<1>3. \E j \in 0 .. Len(Pat(t)') :
        Out' = Meanings(Pat(t)', j) /\ (AtPercent(t, j)' \/ AtConversion(t, j)')
  BY <1>1, <1>2
<1> QED  BY <1>3 DEF Reading

\* In init, between two tokens, or before the second percent sign of one.
LEMMA InitReads ==
  ASSUME Base, Wholes, NEW t \in Threads, Clear(Pat(t)),
         Literal(t) \/ Percent(t) \/ Conversion(t)
  PROVE  Reading(t)'
<1>1. /\ pc[t] = "init" /\ Parsing(t) /\ UNCHANGED <<call, mAppends>> /\ loc.i < Size(t)
      /\ pc' = IF Conversion(t) THEN [pc EXCEPT ![t] = "scan"] ELSE pc
  <2>1. Conversion(t) => ~ Doubled(t) /\ At(t, loc.i) = "%"
    BY DEF Conversion
  <2>2. Literal(t) \/ Percent(t) => ~ Conversion(t)
    BY DEF Literal, Percent, Conversion
  <2> QED  BY <2>1, <2>2 DEF Literal, Percent, Conversion, Parse, Parsing, Goto
<1>2. /\ Kinds /\ Target(t) \in Present /\ Pat(t) \in Seq(Token) /\ Len(Pat(t)) \in Nat
      /\ Size(t) \in Nat /\ loc.i \in Nat
      /\ \A k \in 0 .. Len(Pat(t)) - 1 : Pat(t)[k + 1] \in Token /\ IsToken(Pat(t)[k + 1])
  BY <1>1, Context
<1>3. PICK k \in 0 .. Len(Pat(t)) : Between(t, k)
  BY <1>1 DEF Wholes, Reading
<1>4. Out = Meanings(Pat(t), k) /\ k \in Nat /\ k <= Len(Pat(t))
  BY <1>2, <1>3 DEF Between
\* What a plain character does.
<1>5. ASSUME NEW c \in STRING, Literal(t) \/ Percent(t),
             loc' = [loc EXCEPT !.normalStr = Append(@, c), !.i = @ + 1]
      PROVE Out' = Append(Out, << c >>) /\ loc'.i = loc.i + 1 /\ pc'[t] = "init"
  <2>1. loc'.vec = loc.vec /\ loc'.normalStr = Append(loc.normalStr, c) /\ loc'.i = loc.i + 1
    BY <1>5, LocalsKept DEF Locals
  <2>2. pc'[t] = "init"
    BY <1>1, <1>5 DEF Literal, Percent
  <2> QED  BY <2>1, <2>2, OutPlain
<1>6. At(t, loc.i) \in STRING
  <2>1. mPattern(t) \in Token /\ Size(t) = Len(mPattern(t))
    BY <1>1, ParserHolds DEF Size
  <2>2. loc.i + 1 \in 1 .. Len(mPattern(t))
    BY <1>1, <1>2, <2>1
  <2> QED  BY <2>1, <2>2, CharactersAreStrings DEF At
<1>7. CASE loc.i = Off(Pat(t), k)
  <2> DEFINE token == Pat(t)[k + 1]
  <2>1. k \in 0 .. Len(Pat(t)) - 1 /\ k < Len(Pat(t))
    <3>1. k # Len(Pat(t))
      BY <1>1, <1>2, <1>7, AtTheEnd
    <3> QED  BY <1>2, <1>4, <3>1
  <2>2. /\ token \in Token /\ IsToken(token)
        /\ Off(Pat(t), k) \in Nat /\ Len(token) \in Nat
        /\ Off(Pat(t), k + 1) = Off(Pat(t), k) + Len(token) /\ Off(Pat(t), k + 1) <= Size(t)
        /\ \A j \in Nat : j < Len(token) => At(t, Off(Pat(t), k) + j) = token[j + 1]
    BY <1>2, <2>1, TokenAt
  <2> HIDE DEF token
  <2>3. Len(token) >= 1
    BY <2>2, TokenLength
  <2>4. At(t, loc.i) = token[1]
    <3>1. 0 < Len(token) /\ 0 + 1 = 1 /\ loc.i + 0 = loc.i
      BY <1>2, <2>2, <2>3
    <3> QED  BY <1>7, <2>2, <3>1
  <2>5. Len(token) >= 2 => (loc.i + 1 < Size(t) /\ At(t, loc.i + 1) = token[2])
    <3>1. ASSUME Len(token) >= 2 PROVE loc.i + 1 < Size(t) /\ At(t, loc.i + 1) = token[2]
      <4>1. 1 < Len(token) /\ 1 + 1 = 2 /\ loc.i + 1 < Size(t)
        BY <1>2, <1>7, <2>2, <3>1
      <4> QED  BY <1>7, <2>2, <4>1
    <3> QED  BY <3>1
  <2>6. k + 1 \in 0 .. Len(Pat(t)) /\ k + 1 > 0
    BY <1>2, <2>1
  <2>7. Meanings(Pat(t), k + 1) = Append(Out, Meaning(token))
    BY <1>4, MeaningsNext DEF token
  <2>8. CASE IsLiteral(token)
    <3>1. Len(token) = 1 /\ token[1] # "%" /\ Meaning(token) = << token[1] >>
      BY <2>2, <2>8, LiteralToken
    <3>2. Literal(t)
      BY <2>4, <3>1 DEF Percent, Conversion
    <3>3. loc' = [loc EXCEPT !.normalStr = Append(@, At(t, loc.i)), !.i = @ + 1]
      BY <3>2 DEF Literal
    <3>4. Out' = Append(Out, << At(t, loc.i) >>) /\ loc'.i = loc.i + 1 /\ pc'[t] = "init"
      BY <1>5, <1>6, <3>2, <3>3
    <3>5. Out' = Meanings(Pat(t), k + 1)
      BY <2>4, <2>7, <3>1, <3>4
    <3>6. loc'.i = Off(Pat(t), k + 1)
      BY <1>7, <2>2, <3>1, <3>4
    <3> QED  BY <1>1, <2>6, <3>4, <3>5, <3>6, BetweenNext
  <2>9. CASE token = PercentSign
    <3>1. Len(token) = 2 /\ token[1] = "%" /\ token[2] = "%" /\ Meaning(token) = <<"%">>
      BY <2>9, PercentToken
    <3>2. Doubled(t) /\ Percent(t)
      BY <2>2, <2>4, <2>5, <3>1 DEF Doubled, Literal, Conversion
    <3>3. loc' = [loc EXCEPT !.normalStr = Append(@, At(t, loc.i)), !.i = @ + 1]
      BY <2>4, <3>1, <3>2 DEF Percent
    <3>4. Out' = Append(Out, << At(t, loc.i) >>) /\ loc'.i = loc.i + 1 /\ pc'[t] = "init"
      BY <1>5, <1>6, <3>2, <3>3
    <3>5. Out' = Meanings(Pat(t), k + 1)
      BY <2>4, <2>7, <3>1, <3>4
    <3>6. loc'.i + 1 = Off(Pat(t), k + 1)
      BY <1>2, <1>7, <2>2, <3>1, <3>4
    <3>7. Pat(t)[k + 1] = PercentSign
      BY <2>9 DEF token
    <3> QED  BY <1>1, <2>6, <3>4, <3>5, <3>6, <3>7, BetweenNext
  <2>10. CASE IsConversion(token)
    <3>1. Len(token) >= 2 /\ token[1] = "%" /\ token[2] # "%"
      BY <2>2, <2>10, ConversionToken
    <3>2. ~ Doubled(t) /\ Conversion(t)
      BY <2>4, <2>5, <3>1 DEF Doubled, Literal, Percent
    <3>3. /\ loc'.i = loc.i /\ loc'.idx = loc.i + 1 /\ loc'.state = 0 /\ loc'.str = << >>
          /\ loc'.timeFmt = << >> /\ loc'.vec = loc.vec /\ loc'.normalStr = loc.normalStr
      BY <3>2, LocalsKept DEF Conversion, Locals
    <3>4. pc'[t] = "scan"
      BY <1>1, <3>2 DEF Base, Kinds
    <3>5. Out' = Meanings(Pat(t), k)
      BY <1>4, <3>3 DEF Out
    <3>6. InToken(t, token)'
      BY <3>3 DEF InToken
    <3>7. pc'[t] \in {"scan", "push"} /\ pc'[t] # "push" /\ loc'.i = Off(Pat(t), k)
      BY <1>7, <3>3, <3>4
    <3>8. IsConversion(Pat(t)[k + 1]) /\ InToken(t, Pat(t)[k + 1])'
      BY <1>1, <2>10, <3>6, SameText DEF token, InToken
    <3> QED  BY <1>1, <2>1, <3>5, <3>7, <3>8, ConversionNext
  <2> QED  BY <2>2, <2>8, <2>9, <2>10 DEF IsToken
<1>8. CASE k > 0 /\ Pat(t)[k] = PercentSign /\ loc.i + 1 = Off(Pat(t), k)
  <2>1. k - 1 \in 0 .. Len(Pat(t)) - 1 /\ (k - 1) + 1 = k
    BY <1>2, <1>4, <1>8
  <2>2. /\ Off(Pat(t), k - 1) \in Nat /\ Off(Pat(t), k) = Off(Pat(t), k - 1) + 2
        /\ \A j \in Nat : j < 2 => At(t, Off(Pat(t), k - 1) + j) = PercentSign[j + 1]
    <3>1. /\ Off(Pat(t), k - 1) \in Nat
          /\ Off(Pat(t), (k - 1) + 1) = Off(Pat(t), k - 1) + Len(Pat(t)[(k - 1) + 1])
          /\ \A j \in Nat : j < Len(Pat(t)[(k - 1) + 1]) =>
               At(t, Off(Pat(t), k - 1) + j) = Pat(t)[(k - 1) + 1][j + 1]
      BY <1>2, <2>1, TokenAt
    <3>2. Pat(t)[(k - 1) + 1] = PercentSign /\ Len(PercentSign) = 2
      BY <1>8, <2>1, PercentToken
    <3> QED  BY <2>1, <3>1, <3>2
  <2>3. At(t, loc.i) = "%"
    <3>1. loc.i = Off(Pat(t), k - 1) + 1 /\ 1 \in Nat /\ 1 < 2 /\ 1 + 1 = 2
      BY <1>2, <1>8, <2>2
    <3> QED  BY <2>2, <3>1, PercentToken
  <2>4. ~ Doubled(t)
    <3>1. SUFFICES ASSUME loc.i + 1 < Size(t), At(t, loc.i + 1) = "%" PROVE FALSE
      BY DEF Doubled
    <3>2. k \in 0 .. Len(Pat(t)) - 1 /\ k \in 1 .. Len(Pat(t)) - 1
      <4>1. k # Len(Pat(t))
        BY <1>2, <1>8, <3>1, AtTheEnd
      <4> QED  BY <1>2, <1>4, <1>8, <4>1
    <3>3. Pat(t)[k + 1] \in Token /\ Len(Pat(t)[k + 1]) \in Nat /\ Len(Pat(t)[k + 1]) >= 1
      BY <1>2, <3>2, TokenLength
    <3>4. At(t, Off(Pat(t), k) + 0) = Pat(t)[k + 1][0 + 1]
      <4>1. 0 \in Nat /\ 0 < Len(Pat(t)[k + 1])
        BY <3>3
      <4> QED  BY <1>2, <3>2, <4>1, TokenAt
    <3>5. Off(Pat(t), k) + 0 = loc.i + 1 /\ 0 + 1 = 1
      BY <1>2, <1>8
    <3>6. Len(Pat(t)[k]) = 2
      BY <1>8, PercentToken
    <3>7. Pat(t)[k + 1][1] # "%"
      BY <1>2, <1>8, <3>2, <3>3, <3>6, ClearAt
    <3> QED  BY <3>1, <3>4, <3>5, <3>7
  <2>5. Conversion(t)
    BY <2>3, <2>4 DEF Literal, Percent
  <2>6. /\ loc'.i = loc.i /\ loc'.idx = loc.i + 1 /\ loc'.state = 0 /\ loc'.str = << >>
        /\ loc'.timeFmt = << >> /\ loc'.vec = loc.vec /\ loc'.normalStr = loc.normalStr
    BY <2>5, LocalsKept DEF Conversion, Locals
  <2>7. pc'[t] \in {"scan", "push"}
    BY <1>1, <2>5 DEF Base, Kinds
  <2>8. Out' = Meanings(Pat(t), k)
    BY <1>4, <2>6 DEF Out
  <2>9. loc'.i + 1 = Off(Pat(t), k) /\ loc'.idx = loc'.i + 1
    BY <1>8, <2>6
  <2> QED  BY <1>1, <1>8, <2>6, <2>7, <2>8, <2>9, PercentNext
<1> QED  BY <1>3, <1>7, <1>8 DEF Between

\* What each step of scan looks for.
LEMMA Looks ==
  ASSUME NEW t
  PROVE  /\ EndOfName(t) => loc.state = 0 /\ At(t, loc.idx) \notin Alpha /\ At(t, loc.idx) # Left
         /\ OpenBrace(t) => loc.state = 0 /\ At(t, loc.idx) = Left
         /\ CloseBrace(t) => loc.state = 1 /\ At(t, loc.idx) = Right
         /\ Skip(t) => \/ loc.state = 0 /\ At(t, loc.idx) \in Alpha
                       \/ loc.state = 1 /\ At(t, loc.idx) # Right
<1>1. EndOfName(t) => loc.state = 0 /\ At(t, loc.idx) \notin Alpha /\ At(t, loc.idx) # Left
  BY DEF EndOfName, Scan, Left
<1>2. OpenBrace(t) => loc.state = 0 /\ At(t, loc.idx) = Left
  BY DEF OpenBrace, Scan, Left
<1>3. CloseBrace(t) => loc.state = 1 /\ At(t, loc.idx) = Right
  BY DEF CloseBrace, Scan, Right
<1>4. Skip(t) => \/ loc.state = 0 /\ At(t, loc.idx) \in Alpha
                 \/ loc.state = 1 /\ At(t, loc.idx) # Right
  BY DEF Skip, Scan, Right
<1> QED  BY <1>1, <1>2, <1>3, <1>4

Letters == Conversions \subseteq Alpha /\ Alpha \cap {"%", "{", "}"} = {}

LEMMA InLetters ==
  ASSUME Letters
  PROVE  (\A c \in Conversions : c \in Alpha /\ c # Left) /\ Left \notin Alpha
BY DEF Letters, Left

\* Behind the second percent sign of a token, all steps lead to "push".
LEMMA ScanPercentReads ==
  ASSUME Base, Wholes, NEW t \in Threads, Clear(Pat(t)), pc[t] = "scan",
         EndOfName(t) \/ OpenBrace(t) \/ CloseBrace(t) \/ Skip(t),
         NEW k \in 0 .. Len(Pat(t)), Out = Meanings(Pat(t), k), AtPercent(t, k)
  PROVE  Reading(t)'
<1>1. Parsing(t) /\ UNCHANGED <<call, mAppends>> /\ loc.idx < Size(t)
  BY DEF EndOfName, OpenBrace, CloseBrace, Skip, Scan, Parse, Parsing
<1>2. /\ Kinds /\ Target(t) \in Present /\ Pat(t) \in Seq(Token) /\ Len(Pat(t)) \in Nat
      /\ Size(t) \in Nat /\ loc.i \in Nat
      /\ \A j \in 0 .. Len(Pat(t)) - 1 : Pat(t)[j + 1] \in Token /\ IsToken(Pat(t)[j + 1])
  BY <1>1, Context
<1>3. /\ k > 0 /\ Pat(t)[k] = PercentSign /\ loc.i + 1 = Off(Pat(t), k)
      /\ loc.idx = loc.i + 1 /\ loc.state = 0 /\ loc.str = << >> /\ loc.timeFmt = << >>
  BY DEF AtPercent
<1>4. k \in 0 .. Len(Pat(t)) - 1 /\ k \in 1 .. Len(Pat(t)) - 1
  <2>1. k # Len(Pat(t))
    BY <1>1, <1>2, <1>3, AtTheEnd
  <2> QED  BY <1>2, <1>3, <2>1
<1>5. Pat(t)[k + 1] \in Token /\ Len(Pat(t)[k + 1]) \in Nat /\ Len(Pat(t)[k + 1]) >= 1
  BY <1>2, <1>4, TokenLength
<1>6. At(t, loc.idx) \notin Alpha /\ At(t, loc.idx) # Left
  <2>1. At(t, Off(Pat(t), k) + 0) = Pat(t)[k + 1][0 + 1]
    <3>1. 0 \in Nat /\ 0 < Len(Pat(t)[k + 1])
      BY <1>5
    <3> QED  BY <1>2, <1>4, <3>1, TokenAt
  <2>2. Off(Pat(t), k) + 0 = loc.idx /\ 0 + 1 = 1
    BY <1>2, <1>3
  <2>3. Len(Pat(t)[k]) = 2
    BY <1>3, PercentToken
  <2>4. Pat(t)[k + 1][1] \notin Alpha /\ Pat(t)[k + 1][1] # Left
    BY <1>2, <1>4, <1>5, <2>3, ClearAt
  <2> QED  BY <2>1, <2>2, <2>4
<1>7. EndOfName(t)
  BY <1>3, <1>6, Looks
<1>8. loc' = [loc EXCEPT !.str = << >>]
  <2>1. Substr(t, loc.i + 1, loc.idx) = << >>
    <3>1. (loc.i + 1) + 1 \in Int /\ loc.idx \in Int /\ loc.idx < (loc.i + 1) + 1
      BY <1>2, <1>3
    <3> QED  BY <3>1, SubSeqEmpty DEF Substr
  <2> QED  BY <1>7, <2>1 DEF EndOfName
<1>9. /\ loc'.i = loc.i /\ loc'.idx = loc.idx /\ loc'.state = loc.state /\ loc'.str = << >>
      /\ loc'.timeFmt = loc.timeFmt /\ loc'.vec = loc.vec /\ loc'.normalStr = loc.normalStr
  BY <1>8, LocalsKept DEF Locals
<1>10. pc'[t] \in {"scan", "push"}
  BY <1>7 DEF EndOfName, Goto, Base, Kinds
<1>11. Out' = Meanings(Pat(t), k)
  BY <1>9 DEF Out
<1>12. loc'.i + 1 = Off(Pat(t), k) /\ loc'.idx = loc'.i + 1 /\ loc'.state = 0 /\ loc'.timeFmt = << >>
  BY <1>3, <1>9
<1> QED  BY <1>1, <1>3, <1>9, <1>10, <1>11, <1>12, PercentNext

\* Where an index x stands in the token of length n that begins at index i.
LEMMA Places ==
  ASSUME NEW i \in Nat, NEW x \in Nat, NEW n \in Nat
  PROVE  /\ x = i + 2 /\ 3 < n => x + 1 = i + 3 /\ i + 3 <= x + 1 /\ x + 1 < i + n
         /\ i + 3 <= x /\ x < i + n =>
              /\ x - i \in Nat /\ 3 <= x - i /\ x - i < n /\ i + (x - i) = x
              /\ i + 3 <= x + 1
              /\ (x - i) + 1 = n => x + 1 = i + n
              /\ (x - i) + 1 # n => x + 1 < i + n
OBVIOUS

\* In a conversion: after the percent sign, after its name, in the braces.
LEMMA ScanConversionReads ==
  ASSUME Letters, Base, Wholes, NEW t \in Threads, Clear(Pat(t)), pc[t] = "scan",
         EndOfName(t) \/ OpenBrace(t) \/ CloseBrace(t) \/ Skip(t),
         NEW k \in 0 .. Len(Pat(t)), Out = Meanings(Pat(t), k), AtConversion(t, k)
  PROVE  Reading(t)'
<1> DEFINE token == Pat(t)[k + 1]
<1>1. /\ Parsing(t) /\ UNCHANGED <<call, mAppends>> /\ loc.idx < Size(t)
      /\ (loc.state = 0 \/ loc.state = 1)
  BY LocalsKept DEF EndOfName, OpenBrace, CloseBrace, Skip, Scan, Parse, Parsing
<1>2. /\ Kinds /\ Target(t) \in Present /\ Pat(t) \in Seq(Token) /\ Len(Pat(t)) \in Nat
      /\ Size(t) \in Nat /\ loc.i \in Nat /\ loc.idx \in Nat
      /\ \A j \in 0 .. Len(Pat(t)) - 1 : Pat(t)[j + 1] \in Token /\ IsToken(Pat(t)[j + 1])
  BY <1>1, Context
<1>3. /\ k < Len(Pat(t)) /\ IsConversion(token) /\ loc.i = Off(Pat(t), k) /\ InToken(t, token)
  BY DEF AtConversion, token
<1>4. k \in 0 .. Len(Pat(t)) - 1 /\ k + 1 \in Nat
  BY <1>2, <1>3
<1>5. /\ token \in Token /\ Len(token) \in Nat
      /\ Off(Pat(t), k + 1) = loc.i + Len(token) /\ Off(Pat(t), k + 1) <= Size(t)
      /\ \A j \in Nat : j < Len(token) => At(t, loc.i + j) = token[j + 1]
      /\ \A a, b \in Nat : b <= Len(token) =>
           Substr(t, loc.i + a, loc.i + b) = SubSeq(token, a + 1, b)
  <2> DEFINE o == Off(Pat(t), k)
  <2>1. /\ token \in Token /\ Len(token) \in Nat
        /\ Off(Pat(t), k + 1) = o + Len(token) /\ Off(Pat(t), k + 1) <= Size(t)
        /\ \A j \in Nat : j < Len(token) => At(t, o + j) = token[j + 1]
        /\ \A a, b \in Nat : b <= Len(token) =>
             Substr(t, o + a, o + b) = SubSeq(token, a + 1, b)
    BY <1>2, <1>4, TokenAt
  <2>2. loc.i = o
    BY <1>3
  <2> HIDE DEF token, o
  <2> QED  BY <2>1, <2>2
<1>5a. /\ Len(token) \in Nat /\ Off(Pat(t), k + 1) = loc.i + Len(token)
       /\ Off(Pat(t), k + 1) <= Size(t)
  BY <1>5
\* The next character, when it is not one of the token.
<1>6. ASSUME Len(token) = 2, loc.idx = loc.i + 2
      PROVE At(t, loc.idx) \notin Alpha /\ At(t, loc.idx) # Left
  <2>1. k + 1 \in 0 .. Len(Pat(t)) - 1 /\ k + 1 \in 1 .. Len(Pat(t)) - 1
    <3>1. k + 1 # Len(Pat(t))
      BY <1>1, <1>2, <1>6, <1>5a, AtTheEnd
    <3> QED  BY <1>2, <1>4, <3>1
  <2>2. Pat(t)[(k + 1) + 1] \in Token /\ Len(Pat(t)[(k + 1) + 1]) \in Nat
        /\ Len(Pat(t)[(k + 1) + 1]) >= 1
    BY <1>2, <2>1, TokenLength
  <2>3. At(t, Off(Pat(t), k + 1) + 0) = Pat(t)[(k + 1) + 1][0 + 1]
    <3>1. 0 \in Nat /\ 0 < Len(Pat(t)[(k + 1) + 1])
      BY <2>2
    <3> QED  BY <1>2, <2>1, <3>1, TokenAt
  <2>4. Off(Pat(t), k + 1) + 0 = loc.idx /\ 0 + 1 = 1
    BY <1>2, <1>6, <1>5a
  <2>5. Pat(t)[(k + 1) + 1][1] \notin Alpha /\ Pat(t)[(k + 1) + 1][1] # Left
    BY <1>2, <1>6, <2>1, <2>2, ClearAt
  <2> QED  BY <2>3, <2>4, <2>5
<1> HIDE DEF token
<1>7. /\ Len(token) >= 2 /\ token[2] \in Conversions /\ token[2] \in Alpha /\ token[2] # Left
      /\ Len(token) # 2 =>
           /\ Len(token) >= 4 /\ token[3] = Left /\ token[3] \notin Alpha
           /\ \A j \in 4 .. Len(token) - 1 : token[j] # Right
  BY <1>3, InLetters DEF IsConversion
\* After the step, t is in the token, or at its end.
<1>8. ASSUME UNCHANGED <<loc.i, loc.vec, loc.normalStr>>,
             \/ pc' = [pc EXCEPT ![t] = "scan"] /\ InToken(t, token)'
             \/ /\ pc' = [pc EXCEPT ![t] = "push"] /\ loc'.idx = Off(Pat(t), k + 1)
                /\ loc'.str = << token[2] >>
                /\ loc'.timeFmt = SubSeq(token, 4, Len(token) - 1)
      PROVE Reading(t)'
  <2>1. Out' = Meanings(Pat(t), k) /\ loc'.i = Off(Pat(t), k)
    BY <1>3, <1>8 DEF Out
  <2>2. \/ pc'[t] = "scan" /\ InToken(t, token)'
        \/ /\ pc'[t] = "push" /\ loc'.idx = Off(Pat(t), k + 1) /\ loc'.str = << token[2] >>
           /\ loc'.timeFmt = SubSeq(token, 4, Len(token) - 1)
    BY <1>8 DEF Base, Kinds
  <2>3. token' = token
    BY <1>1, SameText DEF token
  <2>4. InToken(t, token)' => InToken(t, Pat(t)[k + 1])'
    BY DEF token
  <2>5. IsConversion(Pat(t)[k + 1])
    BY <1>3 DEF token
  <2>6. pc'[t] \in {"scan", "push"}
    BY <2>2
  <2>7. pc'[t] = "push" =>
           /\ loc'.idx = Off(Pat(t), k + 1) /\ loc'.str = << Pat(t)[k + 1][2] >>
           /\ loc'.timeFmt = SubSeq(Pat(t)[k + 1], 4, Len(Pat(t)[k + 1]) - 1)
    BY <2>2 DEF token
  <2>8. pc'[t] = "scan" => InToken(t, Pat(t)[k + 1])'
    BY <2>2, <2>4
  <2> QED  BY <1>1, <1>3, <2>1, <2>5, <2>6, <2>7, <2>8, ConversionNext
<1>9. Size(t)' = Size(t)
  BY <1>1, SameText
<1>10. CASE loc.state = 0 /\ loc.idx = loc.i + 1 /\ loc.str = << >> /\ loc.timeFmt = << >>
  <2>1. At(t, loc.idx) = token[2]
    <3>1. 1 < Len(token) /\ 1 + 1 = 2
      BY <1>5, <1>7
    <3> QED  BY <1>5, <1>10, <3>1
  <2>2. Skip(t)
    BY <1>7, <1>10, <2>1, Looks
  <2>3. loc.idx + 1 = Size(t) => Substr(t, loc.i + 1, Size(t)) = << token[2] >>
    <3>1. SUFFICES ASSUME loc.idx + 1 = Size(t)
                   PROVE Substr(t, loc.i + 1, Size(t)) = << token[2] >>
      OBVIOUS
    <3>2. Size(t) = loc.i + 2 /\ 1 + 1 = 2
      BY <1>2, <1>10, <3>1
    <3>3. Substr(t, loc.i + 1, loc.i + 2) = SubSeq(token, 2, 2)
      BY <1>5, <1>7, <3>2
    <3> QED  BY <1>5, <1>7, <3>2, <3>3, OneElement DEF Token
  <2>4. /\ loc' = [loc EXCEPT !.idx = loc.i + 2,
                              !.str = IF loc.i + 2 = Size(t) THEN << token[2] >> ELSE << >>]
        /\ pc' = pc
    <3>1. loc.idx + 1 = loc.i + 2
      BY <1>2, <1>10
    <3> QED  BY <1>10, <2>2, <2>3, <3>1 DEF Skip
  <2>5. /\ loc'.i = loc.i /\ loc'.idx = loc.i + 2 /\ loc'.state = 0 /\ loc'.timeFmt = << >>
        /\ loc'.str = IF loc.i + 2 = Size(t) THEN << token[2] >> ELSE << >>
        /\ loc'.vec = loc.vec /\ loc'.normalStr = loc.normalStr
    BY <1>10, <2>4, LocalsKept DEF Locals
  <2>6. token' = token
    BY <1>1, SameText DEF token
  <2>7. InToken(t, token)'
    BY <1>9, <2>5, <2>6 DEF InToken
  <2>8. pc' = [pc EXCEPT ![t] = "scan"]
    BY <2>4 DEF Base, Kinds
  <2> QED  BY <1>8, <2>5, <2>7, <2>8
<1>11. CASE /\ loc.state = 0 /\ loc.idx = loc.i + 2 /\ loc.timeFmt = << >>
            /\ loc.str = IF loc.idx = Size(t) THEN << token[2] >> ELSE << >>
  <2>1. Substr(t, loc.i + 1, loc.idx) = << token[2] >>
    <3>1. 1 + 1 = 2 /\ loc.idx = loc.i + 2
      BY <1>11
    <3>2. Substr(t, loc.i + 1, loc.i + 2) = SubSeq(token, 2, 2)
      BY <1>5, <1>7, <3>1
    <3> QED  BY <1>5, <1>7, <3>1, <3>2, OneElement DEF Token
  <2>2. CASE Len(token) = 2
    <3>1. EndOfName(t)
      BY <1>6, <1>11, <2>2, Looks DEF token
    <3>2. loc' = [loc EXCEPT !.str = << token[2] >>] /\ pc' = [pc EXCEPT ![t] = "push"]
      BY <2>1, <3>1 DEF EndOfName, Goto
    <3>3. /\ loc'.i = loc.i /\ loc'.idx = loc.idx /\ loc'.timeFmt = << >>
          /\ loc'.str = << token[2] >> /\ loc'.vec = loc.vec /\ loc'.normalStr = loc.normalStr
      BY <1>11, <3>2, LocalsKept DEF Locals
    <3>4. SubSeq(token, 4, Len(token) - 1) = << >>
      <4>1. Len(token) - 1 \in Int /\ Len(token) - 1 < 4 /\ 4 \in Int
        BY <2>2
      <4> QED  BY <4>1, SubSeqEmpty
    <3>5. loc'.idx = Off(Pat(t), k + 1)
      BY <1>5, <1>11, <2>2, <3>3
    <3> QED  BY <1>8, <3>2, <3>3, <3>4, <3>5
  <2>3. CASE Len(token) # 2
    <3>1. At(t, loc.idx) = Left
      <4>1. 2 < Len(token) /\ 2 + 1 = 3
        BY <1>5, <1>7, <2>3
      <4>2. At(t, loc.i + 2) = token[3]
        BY <1>5, <4>1
      <4> QED  BY <1>7, <1>11, <2>3, <4>2
    <3>2. OpenBrace(t)
      BY <1>7, <1>11, <2>3, <3>1, Looks
    <3>3. loc' = [loc EXCEPT !.str = << token[2] >>, !.state = 1,
                             !.fmtBegin = loc.idx + 1, !.idx = @ + 1] /\ pc' = pc
      BY <2>1, <3>2 DEF OpenBrace
    <3>4. /\ loc'.i = loc.i /\ loc'.idx = loc.idx + 1 /\ loc'.timeFmt = << >>
          /\ loc'.fmtBegin = loc.idx + 1 /\ loc'.state = 1
          /\ loc'.str = << token[2] >> /\ loc'.vec = loc.vec /\ loc'.normalStr = loc.normalStr
      BY <1>11, <3>3, LocalsKept DEF Locals
    <3>5. token' = token
      BY <1>1, SameText DEF token
    <3>6. /\ loc'.idx = loc'.i + 3 /\ loc'.fmtBegin = loc'.i + 3 /\ loc'.i + 3 <= loc'.idx
          /\ loc'.idx < loc'.i + Len(token)
      <4>1. loc.i \in Nat /\ loc.idx \in Nat /\ Len(token) \in Nat
        BY <1>2, <1>5a
      <4>2. loc.idx = loc.i + 2 /\ 3 < Len(token)
        <5>1. Len(token) >= 4
          BY <1>7, <2>3
        <5> QED  BY <1>11, <4>1, <5>1
      <4>3. loc.idx + 1 = loc.i + 3 /\ loc.i + 3 <= loc.idx + 1 /\ loc.idx + 1 < loc.i + Len(token)
        BY <4>1, <4>2, Places
      <4> QED  BY <3>4, <4>3
    <3>7. InToken(t, token)'
      BY <2>3, <3>4, <3>5, <3>6 DEF InToken
    <3>8. pc' = [pc EXCEPT ![t] = "scan"]
      BY <3>3 DEF Base, Kinds
    <3> QED  BY <1>8, <3>4, <3>7, <3>8
  <2> QED  BY <2>2, <2>3
<1>12. CASE /\ loc.state = 1 /\ Len(token) # 2 /\ loc.fmtBegin = loc.i + 3
            /\ loc.str = << token[2] >> /\ loc.timeFmt = << >>
            /\ loc.i + 3 <= loc.idx /\ loc.idx < loc.i + Len(token)
  <2> DEFINE j == loc.idx - loc.i
  <2>1. j \in Nat /\ 3 <= j /\ j < Len(token) /\ loc.i + j = loc.idx
    <3>1. loc.i \in Nat /\ loc.idx \in Nat /\ Len(token) \in Nat
      BY <1>2, <1>5a
    <3>2. loc.i + 3 <= loc.idx /\ loc.idx < loc.i + Len(token)
      BY <1>12
    <3> QED  BY <3>1, <3>2, Places
  <2>2. At(t, loc.idx) = token[j + 1]
    BY <1>5, <2>1
  <2> HIDE DEF j
  <2>3. token' = token
    BY <1>1, SameText DEF token
  <2>4. CASE At(t, loc.idx) = Right
    <3>1. CloseBrace(t)
      BY <1>12, <2>4, Looks
    <3>2. j + 1 = Len(token)
      <4>1. j + 1 \notin 4 .. Len(token) - 1
        BY <1>7, <1>12, <2>2, <2>4
      <4> QED  BY <1>5, <2>1, <4>1
    <3>3. Substr(t, loc.fmtBegin, loc.idx) = SubSeq(token, 4, Len(token) - 1)
      <4>1. 3 \in Nat /\ j <= Len(token) /\ 3 + 1 = 4 /\ j = Len(token) - 1
        BY <1>5, <2>1, <3>2
      <4>2. Substr(t, loc.i + 3, loc.i + j) = SubSeq(token, 3 + 1, j)
        BY <1>5, <2>1, <4>1
      <4> QED  BY <1>12, <2>1, <4>1, <4>2
    <3>4. loc' = [loc EXCEPT !.timeFmt = SubSeq(token, 4, Len(token) - 1), !.idx = @ + 1]
          /\ pc' = [pc EXCEPT ![t] = "push"]
      BY <3>1, <3>3 DEF CloseBrace, Goto
    <3>5. /\ loc'.i = loc.i /\ loc'.idx = loc.idx + 1 /\ loc'.str = << token[2] >>
          /\ loc'.timeFmt = SubSeq(token, 4, Len(token) - 1)
          /\ loc'.vec = loc.vec /\ loc'.normalStr = loc.normalStr
      BY <1>12, <3>4, LocalsKept DEF Locals
    <3>6. loc'.idx = Off(Pat(t), k + 1)
      <4>1. loc.idx + 1 = loc.i + Len(token)
        <5>1. loc.i \in Nat /\ loc.idx \in Nat /\ Len(token) \in Nat
          BY <1>2, <1>5a
        <5>2. loc.i + 3 <= loc.idx /\ loc.idx < loc.i + Len(token)
          BY <1>12
        <5>3. (loc.idx - loc.i) + 1 = Len(token)
          BY <3>2 DEF j
        <5> QED  BY <5>1, <5>2, <5>3, Places
      <4>2. loc'.idx = loc.idx + 1
        BY <3>5
      <4> QED  BY <1>5a, <4>1, <4>2
    <3> QED  BY <1>8, <3>4, <3>5, <3>6
  <2>5. CASE At(t, loc.idx) # Right
    <3>1. Skip(t)
      BY <1>12, <2>5, Looks
    <3>2. loc.str # << >>
      BY <1>12
    <3>3. loc' = [loc EXCEPT !.idx = @ + 1, !.str = @] /\ pc' = pc
      BY <3>1, <3>2 DEF Skip
    <3>4. /\ loc'.i = loc.i /\ loc'.idx = loc.idx + 1 /\ loc'.str = << token[2] >>
          /\ loc'.timeFmt = << >> /\ loc'.state = 1 /\ loc'.fmtBegin = loc.fmtBegin
          /\ loc'.vec = loc.vec /\ loc'.normalStr = loc.normalStr
      BY <1>12, <3>3, LocalsKept DEF Locals
    <3>5. j + 1 # Len(token)
      <4>1. Len(token) # 2 => token[Len(token)] = Right
        BY <1>3 DEF IsConversion
      <4> QED  BY <1>12, <2>2, <2>5, <4>1
    <3>6. loc'.i + 3 <= loc'.idx /\ loc'.idx < loc'.i + Len(token) /\ loc'.fmtBegin = loc'.i + 3
      <4>1. loc.i \in Nat /\ loc.idx \in Nat /\ Len(token) \in Nat
        BY <1>2, <1>5a
      <4>2. loc.i + 3 <= loc.idx /\ loc.idx < loc.i + Len(token)
        BY <1>12
      <4>3. (loc.idx - loc.i) + 1 # Len(token)
        BY <3>5 DEF j
      <4>4. loc.i + 3 <= loc.idx + 1 /\ loc.idx + 1 < loc.i + Len(token)
        BY <4>1, <4>2, <4>3, Places
      <4> QED  BY <1>12, <3>4, <4>4
    <3>7. InToken(t, token)'
      BY <1>12, <2>3, <3>4, <3>6 DEF InToken
    <3>8. pc' = [pc EXCEPT ![t] = "scan"]
      BY <3>3 DEF Base, Kinds
    <3> QED  BY <1>8, <3>4, <3>7, <3>8
  <2> QED  BY <2>4, <2>5
<1> QED  BY <1>3, <1>10, <1>11, <1>12 DEF InToken

\* The item of a conversion, or of the nothing behind a second percent sign.
LEMMA PushReads ==
  ASSUME Base, Wholes, NEW t \in Threads, Clear(Pat(t)), Push(t)
  PROVE  Reading(t)'
<1> DEFINE conv == [str |-> loc.str, fmt |-> loc.timeFmt, conversion |-> TRUE]
           token(k) == Pat(t)[k + 1]
<1>1. /\ pc[t] \in {"scan", "push"} /\ Parsing(t) /\ UNCHANGED <<call, mAppends>>
      /\ pc' = [pc EXCEPT ![t] = "init"]
      /\ pc[t] = "scan" => loc.idx = Size(t)
  BY DEF Push, Parse, Parsing, Goto
<1>2. /\ Kinds /\ Target(t) \in Present /\ Pat(t) \in Seq(Token) /\ Len(Pat(t)) \in Nat
      /\ Size(t) \in Nat /\ loc.i \in Nat /\ loc.idx \in Nat
      /\ \A j \in 0 .. Len(Pat(t)) - 1 : Pat(t)[j + 1] \in Token /\ IsToken(Pat(t)[j + 1])
  BY <1>1, Context
<1>3. PICK k \in 0 .. Len(Pat(t)) :
        Out = Meanings(Pat(t), k) /\ (AtPercent(t, k) \/ AtConversion(t, k))
  BY <1>1 DEF Wholes, Reading
<1>4. conv \in Part
  BY LocalsKept DEF Part
<1>5. /\ loc' = [loc EXCEPT !.i = loc.idx, !.normalStr = << >>,
                   !.vec = @ \o Plain(loc.normalStr) \o << conv >>]
  BY DEF Push
<1> HIDE DEF conv
<1>6. /\ loc'.i = loc.idx /\ loc'.normalStr = << >>
      /\ loc'.vec = loc.vec \o Plain(loc.normalStr) \o << conv >>
  BY <1>5, LocalsKept DEF Locals
<1>7. Out' = Out \o Item(conv)
  BY <1>4, <1>6, OutPush
<1>8. pc'[t] = "init"
  BY <1>1 DEF Base, Kinds
<1>9. Out \in Seq(Written)
  BY OutType
<1>10. CASE AtPercent(t, k)
  <2>1. loc.idx = loc.i + 1 /\ loc.i + 1 = Off(Pat(t), k) /\ loc.str = << >>
    BY <1>10 DEF AtPercent
  <2>2. Item(conv) = << >>
    <3>1. conv.conversion /\ conv.str = << >>
      BY <2>1 DEF conv
    <3>2. Len(<< >>) # 1
      OBVIOUS
    <3> QED  BY <3>1, <3>2 DEF Item
  <2>3. Out' = Meanings(Pat(t), k)
    BY <1>3, <1>7, <1>9, <2>2
  <2>4. loc'.i = Off(Pat(t), k)
    BY <1>6, <2>1
  <2> QED  BY <1>1, <1>8, <2>3, <2>4, BetweenNext
<1>11. CASE AtConversion(t, k)
  <2> DEFINE r == Pat(t)[k + 1]
  <2>1. k < Len(Pat(t)) /\ IsConversion(r) /\ loc.i = Off(Pat(t), k)
    BY <1>11 DEF AtConversion
  <2>2. k \in 0 .. Len(Pat(t)) - 1 /\ k + 1 \in 0 .. Len(Pat(t)) /\ k \in Nat
    BY <1>2, <1>3, <2>1
  <2>3. /\ r \in Token /\ Len(r) \in Nat
        /\ Off(Pat(t), k + 1) = loc.i + Len(r) /\ Off(Pat(t), k + 1) <= Size(t)
    <3> DEFINE o == Off(Pat(t), k)
    <3>1. /\ r \in Token /\ Len(r) \in Nat
          /\ Off(Pat(t), k + 1) = o + Len(r) /\ Off(Pat(t), k + 1) <= Size(t)
      BY <1>2, <2>2, TokenAt
    <3>2. loc.i = o
      BY <2>1
    <3> HIDE DEF r, o
    <3> QED  BY <3>1, <3>2
  <2>4. /\ loc.idx = Off(Pat(t), k + 1) /\ loc.str = << r[2] >>
        /\ loc.timeFmt = SubSeq(r, 4, Len(r) - 1)
    <3>1. CASE pc[t] = "push"
      BY <1>11, <3>1 DEF AtConversion
    <3>2. CASE pc[t] = "scan"
      <4>1. InToken(t, r) /\ loc.idx = Size(t)
        BY <1>1, <1>11, <3>2 DEF AtConversion
      <4>2. Len(r) >= 2 /\ (Len(r) # 2 => Len(r) >= 4)
        BY <2>1 DEF IsConversion
      <4> HIDE DEF r
      <4>3. ~ (loc.idx = loc.i + 1)
        BY <1>2, <2>3, <4>1, <4>2
      <4>4. ~ (loc.i + 3 <= loc.idx /\ loc.idx < loc.i + Len(r))
        BY <1>2, <2>3, <4>1
      <4>5. /\ loc.idx = loc.i + 2 /\ loc.timeFmt = << >>
            /\ loc.str = IF loc.idx = Size(t) THEN << r[2] >> ELSE << >>
        BY <4>1, <4>3, <4>4 DEF InToken
      <4>6. Len(r) = 2
        BY <1>2, <2>3, <4>1, <4>2, <4>5
      <4>7. SubSeq(r, 4, Len(r) - 1) = << >>
        <5>1. Len(r) - 1 \in Int /\ Len(r) - 1 < 4 /\ 4 \in Int
          BY <4>6
        <5> QED  BY <5>1, SubSeqEmpty
      <4>8. loc.idx = Off(Pat(t), k + 1)
        BY <2>3, <4>5, <4>6
      <4> QED  BY <4>1, <4>5, <4>7, <4>8
    <3> QED  BY <1>1, <3>1, <3>2
  <2>5. r[2] \in Conversions /\ Meaning(r) = Field(r[2], SubSeq(r, 4, Len(r) - 1))
    BY <2>1, <2>3, ConversionToken
  <2>6. Item(conv) = << Meaning(r) >>
    <3>1. conv.conversion /\ conv.str = << r[2] >> /\ conv.fmt = SubSeq(r, 4, Len(r) - 1)
      BY <2>4 DEF conv
    <3> HIDE DEF r
    <3>2. Len(<< r[2] >>) = 1 /\ << r[2] >>[1] = r[2]
      OBVIOUS
    <3>3. Len(conv.str) = 1 /\ conv.str[1] = r[2]
      BY <3>1, <3>2
    <3>4. Item(conv) = << Field(conv.str[1], conv.fmt) >>
      BY <2>5, <3>1, <3>3 DEF Item
    <3> QED  BY <2>5, <3>1, <3>3, <3>4
  <2>7. Out' = Meanings(Pat(t), k + 1)
    <3>1. Meaning(r) \in Written
      <4>1. Item(conv) \in Seq(Written)
        BY <1>4, ItemType
      <4>2. << Meaning(r) >>[1] = Meaning(r) /\ 1 \in 1 .. Len(<< Meaning(r) >>)
        OBVIOUS
      <4> QED  BY <2>6, <4>1, <4>2, ElementOfSeq
    <3>2. Out \o << Meaning(r) >> = Append(Out, Meaning(r))
      BY <1>9, <3>1, AppendIsConcat
    <3>3. Meanings(Pat(t), k + 1) = Append(Meanings(Pat(t), k), Meaning(Pat(t)[k + 1]))
      BY <2>2, MeaningsNext
    <3> QED  BY <1>3, <1>7, <2>6, <3>2, <3>3
  <2>8. loc'.i = Off(Pat(t), k + 1)
    BY <1>6, <2>4
  <2> QED  BY <1>1, <1>8, <2>2, <2>7, <2>8, BetweenNext
<1> QED  BY <1>3, <1>10, <1>11

-----------------------------------------------------------------------------
\* The second invariant, step by step.

\* What the documentation asks of the patterns, logger.h:63-73.
AllDocumented ==
  /\ Documented(Default)
  /\ \A t \in Threads : \A c \in May[t] : c.op = "formatter" => Documented(c.pattern)

\* A step of init that does not end it.
LEMMA ReadingWholes ==
  ASSUME Base, Wholes, NEW t \in Threads, Parsing(t), Parsing(t)',
         UNCHANGED <<call, mAppends>>, \A u \in Threads \ {t} : pc'[u] = pc[u],
         Clear(Pat(t)) => Reading(t)'
  PROVE  Wholes'
<1>1. mLock = t
  BY ParserHolds
<1>2. \A u \in Threads : Parsing(u)' => u = t
  BY <1>1, Others DEF Base, Parsing
<1>3. /\ Present' = Present /\ Pat(t)' = Pat(t) /\ Target(t)' = Target(t)
      /\ \A u \in Threads : Target(u)' = Target(u)
  BY DEF Present, Pat, Target
<1>4. \A u \in Threads : Parsing(u) => u = t
  BY <1>1, Others DEF Base
<1>5. mAppends[Target(t)].mItem = << >>
  BY DEF Wholes
<1>6. ASSUME NEW a \in Present PROVE Settled(a)'
  <2>1. Settled(a)
    BY DEF Wholes
  <2>2. CASE Target(t) = a
    BY <1>3, <1>5, <2>1, <2>2 DEF Settled
  <2>3. CASE Target(t) # a
    <3>1. ~ \E u \in Threads : Parsing(u) /\ Target(u) = a
      BY <1>4, <2>3
    <3> QED  BY <2>1, <3>1 DEF Settled
  <2> QED  BY <2>2, <2>3
<1> QED  BY <1>2, <1>3, <1>5, <1>6 DEF Wholes

\* A step that is not one of init, when nobody is in init after it.
LEMMA QuietWholes ==
  ASSUME \A u \in Threads : ~ Parsing(u)',
         \A a \in Present' : Settled(a)'
  PROVE  Wholes'
BY DEF Wholes

\* An appender whose pattern and items stay as they are, out of init.
LEMMA StaysSettled ==
  ASSUME Wholes, \A u \in Threads : ~ Parsing(u), NEW a \in Present,
         mAppends'[a].mPattern = mAppends[a].mPattern,
         mAppends'[a].mItem = mAppends[a].mItem
  PROVE  Settled(a)'
<1>1. Settled(a)
  BY DEF Wholes
<1> QED  BY <1>1 DEF Settled

\* t begins to read the pattern of appender n.
LEMMA StartWholes ==
  ASSUME Base, Wholes, Base', NEW t \in Threads, pc[t] = "held", pc'[t] = "init",
         UNCHANGED <<call, loc>>, Target(t) \in Names,
         NEW x \in Appender, mAppends' = [mAppends EXCEPT ![Target(t)] = x],
         x.mItem = << >>, Documented(x.mPattern)
  PROVE  Wholes'
<1> DEFINE n == Target(t)
<1>1. loc = NewLoc /\ \A u \in Threads : ~ Parsing(u)
  BY Holder
<1>2. Parsing(t)' /\ Target(t)' = n
  BY DEF Parsing, Target
<1>3. \A u \in Threads : Parsing(u)' => u = t
  <2>1. \A u \in Threads : Parsing(u)' => Holding(u)'
    BY DEF Parsing, Holding, Label
  <2> QED  BY <1>2, <2>1 DEF Base, Turns
<1>4. mAppends'[n] = x /\ \A a \in Names : a # n => mAppends'[a] = mAppends[a]
  BY DEF Base, Kinds
<1> HIDE DEF n
<1>5. Target(t)' \in Present'
  BY <1>2 DEF Base, Turns
<1>6. Reading(t)'
  <2>1. Out' = Meanings(Pat(t)', 0)
    <3>1. Out' = Out
      BY DEF Out
    <3> QED  BY <1>1, <3>1, OutAtStart
  <2>2. loc'.i = 0
    <3>1. NewLoc.i = 0
      BY DEF NewLoc
    <3> QED  BY <1>1, <3>1
  <2>3. Pat(t)' = x.mPattern
    BY <1>2, <1>4 DEF Pat
  <2>4. Off(Pat(t)', 0) = 0 /\ 0 \in 0 .. Len(Pat(t)')
    <3>1. x.mPattern \in Seq(Token)
      BY DEF Appender
    <3>2. x.mPattern \in Seq(Seq(STRING)) /\ Len(x.mPattern) \in Nat
      BY <3>1, LenProperties DEF Token
    <3>3. Before(x.mPattern, 0) = << >>
      BY <3>2, BeforeEnds
    <3>4. Len(<< >>) = 0
      BY EmptySeq
    <3>5. Off(x.mPattern, 0) = 0
      BY <3>3, <3>4 DEF Off
    <3> QED  BY <2>3, <3>2, <3>5
  <2>5. Between(t, 0)'
    BY <2>1, <2>2, <2>4 DEF Between
  <2>6. \E k \in 0 .. Len(Pat(t)') : Between(t, k)'
    BY <2>4, <2>5
  <2>7. pc'[t] \notin {"scan", "push"}
    OBVIOUS
  <2> QED  BY <2>6, <2>7 DEF Reading
<1>7. ASSUME NEW a \in Present' PROVE Settled(a)'
  <2>1. a \in Names
    BY DEF Present
  <2>2. CASE a = n
    BY <1>2, <1>4, <2>2 DEF Settled
  <2>3. CASE a # n
    <3>1. mAppends'[a] = mAppends[a] /\ a \in Present
      BY <1>4, <2>1, <2>3 DEF Present
    <3> QED  BY <1>1, <3>1, StaysSettled
  <2> QED  BY <2>2, <2>3
<1> QED  BY <1>2, <1>3, <1>4, <1>6, <1>7 DEF Wholes

\* The end of init: the items are those of the whole pattern.
LEMMA AssignWholes ==
  ASSUME Base, Wholes, NEW t \in Threads, Assign(t)
  PROVE  Wholes'
<1> DEFINE n == Target(t)
           x == [mAppends[n] EXCEPT !.mItem = @ \o Out]
<1>1. /\ n \in Present /\ Parsing(t) /\ mLock = t /\ x \in Appender
      /\ mAppends' = [mAppends EXCEPT ![n] = x]
  BY AssignIs
<1>2. pc[t] = "init" /\ loc.i = Size(t)
  BY DEF Assign, Parse
<1>3. \A u \in Threads : ~ Parsing(u)'
  <2>1. \E l \in {"held", "leave"} : pc' = [pc EXCEPT ![t] = l]
    BY AssignIs
  <2>2. pc \in [Threads -> Label]
    BY DEF Base, Kinds
  <2>3. ~ Parsing(t)' /\ \A u \in Threads \ {t} : pc'[u] = pc[u]
    BY <2>1, <2>2 DEF Parsing
  <2>4. \A u \in Threads \ {t} : ~ Parsing(u)
    BY <1>1, Others DEF Base
  <2> QED  BY <2>3, <2>4 DEF Parsing
<1>4. /\ Kinds /\ Pat(t) \in Seq(Token) /\ Len(Pat(t)) \in Nat /\ Size(t) \in Nat
      /\ \A k \in 0 .. Len(Pat(t)) - 1 : Pat(t)[k + 1] \in Token /\ IsToken(Pat(t)[k + 1])
  BY <1>1, Context
<1>5. mAppends[n] \in Appender /\ n \in Names /\ mAppends[n].mItem = << >>
      /\ Pat(t) = mAppends[n].mPattern
  BY <1>1, <1>4, PatternIsText DEF Wholes, Pat
<1>6. ASSUME Clear(Pat(t)) PROVE Out = Meanings(Pat(t), Len(Pat(t)))
  <2>1. PICK k \in 0 .. Len(Pat(t)) : Between(t, k)
    BY <1>1, <1>2, <1>6 DEF Wholes, Reading
  <2>2. SUFFICES ASSUME k # Len(Pat(t)) PROVE FALSE
    BY <2>1 DEF Between
  <2>3. k \in 0 .. Len(Pat(t)) - 1
    BY <1>4, <2>2
  <2>4. /\ Off(Pat(t), k) \in Nat /\ Len(Pat(t)[k + 1]) \in Nat
        /\ Off(Pat(t), k + 1) = Off(Pat(t), k) + Len(Pat(t)[k + 1])
        /\ Off(Pat(t), k + 1) <= Size(t)
    BY <1>1, <1>4, <2>3, TokenAt
  <2>5. Len(Pat(t)[k + 1]) >= 1
    BY <1>4, <2>3, TokenLength
  <2>6. loc.i = Off(Pat(t), k) \/ loc.i + 1 = Off(Pat(t), k)
    BY <2>1 DEF Between
  <2> QED  BY <1>2, <1>4, <2>4, <2>5, <2>6
<1>7. Out \in Seq(Written)
  BY OutType
<1>8. x.mItem = Out /\ x.mPattern = Pat(t)
  <2>1. x.mItem = << >> \o Out /\ x.mPattern = Pat(t)
    BY <1>5 DEF Appender
  <2>2. << >> \o Out = Out
    BY <1>7
  <2> QED  BY <2>1, <2>2
<1>9. mAppends'[n] = x /\ \A a \in Names : a # n => mAppends'[a] = mAppends[a]
  BY <1>1, <1>5 DEF Base, Kinds
<1>10. \A u \in Threads : Parsing(u) => u = t
  BY <1>1, Others DEF Base
<1>11. Documented(Pat(t))
  BY <1>1, <1>5 DEF Wholes, Settled
<1> HIDE DEF n, x
<1>12. ASSUME NEW a \in Present' PROVE Settled(a)'
  <2>1. a \in Names
    BY DEF Present
  <2>2. CASE a = n
    BY <1>6, <1>8, <1>9, <1>11, <2>2 DEF Settled
  <2>3. CASE a # n
    <3>1. mAppends'[a] = mAppends[a] /\ a \in Present
      BY <1>9, <2>1, <2>3 DEF Present
    <3>2. ~ \E u \in Threads : Parsing(u) /\ Target(u) = a
      BY <1>10, <2>3 DEF n
    <3>3. Settled(a)
      BY <3>1 DEF Wholes
    <3> QED  BY <3>1, <3>2, <3>3 DEF Settled
  <2> QED  BY <2>2, <2>3
<1> QED  BY <1>3, <1>12, QuietWholes

\* A step that changes neither an appender nor what a thread in init sees.
LEMMA KeptWholes ==
  ASSUME Wholes, UNCHANGED <<mAppends, loc>>,
         \A u \in Threads : Parsing(u)' <=> Parsing(u),
         \A u \in Threads : Parsing(u) => pc'[u] = pc[u] /\ Target(u)' = Target(u)
  PROVE  Wholes'
<1>1. Present' = Present
  BY DEF Present
<1>2. ASSUME NEW u \in Threads, Parsing(u)
      PROVE Pat(u)' = Pat(u) /\ (Reading(u)' <=> Reading(u))
  <2>1. pc'[u] = pc[u] /\ Target(u)' = Target(u)
    BY <1>2
  <2>2. Pat(u)' = Pat(u) /\ Size(u)' = Size(u)
    BY <2>1 DEF Pat, Size, mPattern
  <2>3. Out' = Out
    BY DEF Out
  <2>4. \A token : InToken(u, token)' <=> InToken(u, token)
    BY <2>2 DEF InToken
  <2>5. \A k : Between(u, k)' <=> Between(u, k)
    BY <2>2, <2>3 DEF Between
  <2>6. \A k : AtPercent(u, k)' <=> AtPercent(u, k)
    BY <2>2 DEF AtPercent
  <2>7. \A k : AtConversion(u, k)' <=> AtConversion(u, k)
    BY <2>1, <2>2, <2>4 DEF AtConversion
  <2>8. Reading(u)' <=> Reading(u)
    BY <2>1, <2>2, <2>3, <2>5, <2>6, <2>7 DEF Reading
  <2> QED  BY <2>2, <2>8
<1>3. ASSUME NEW a \in Present PROVE Settled(a)'
  <2>1. Settled(a)
    BY DEF Wholes
  <2> QED  BY <2>1 DEF Settled
<1>4. \A u \in Threads : Parsing(u)' => mAppends'[Target(u)'].mItem = << >>
  BY DEF Wholes
<1>5. \A u \in Threads : Parsing(u)' /\ Clear(Pat(u))' => Reading(u)'
  BY <1>2 DEF Wholes
<1> QED  BY <1>1, <1>3, <1>4, <1>5 DEF Wholes

LEMMA CallStepsWholes ==
  ASSUME Base, Wholes, NEW t \in Threads,
         \/ Lock(t) \/ Leave(t) \/ Each(t)
         \/ \E c \in May[t] : Begin(t, c) \/ setLevel(t, c)
  PROVE  Wholes'
<1> USE DEF Goto
<1>1. /\ pc \in [Threads -> Label] /\ call \in [Threads -> Call \cup {NoCall}]
  BY DEF Base, Kinds
<1>2. ASSUME UNCHANGED <<mAppends, loc>>, NEW l \in {"lock", "held", "each", "leave", "idle"},
             pc' = [pc EXCEPT ![t] = l], ~ Parsing(t),
             \A u \in Threads \ {t} : call'[u] = call[u]
      PROVE  Wholes'
  <2>1. pc'[t] = l /\ \A u \in Threads \ {t} : pc'[u] = pc[u]
    BY <1>1, <1>2
  <2>2. ~ Parsing(t)'
    BY <2>1 DEF Parsing
  <2>3. \A u \in Threads \ {t} : (Parsing(u)' <=> Parsing(u)) /\ Target(u)' = Target(u)
    BY <1>2, <2>1 DEF Parsing, Target
  <2>4. \A u \in Threads : Parsing(u)' <=> Parsing(u)
    BY <1>2, <2>2, <2>3
  <2>5. \A u \in Threads : Parsing(u) => pc'[u] = pc[u] /\ Target(u)' = Target(u)
    BY <1>2, <2>1, <2>3
  <2> QED  BY <1>2, <2>4, <2>5, KeptWholes
<1>3. CASE Lock(t)
  <2>1. /\ pc[t] = "lock" /\ pc' = [pc EXCEPT ![t] = "held"]
        /\ UNCHANGED <<mAppends, call, loc>>
    BY <1>3 DEF Lock
  <2> QED  BY <1>2, <2>1 DEF Parsing
<1>4. CASE Leave(t)
  <2>1. /\ pc[t] = "leave" /\ pc' = [pc EXCEPT ![t] = "idle"]
        /\ call' = [call EXCEPT ![t] = NoCall] /\ UNCHANGED <<mAppends, loc>>
    BY <1>4 DEF Leave
  <2> QED  BY <1>1, <1>2, <2>1 DEF Parsing
<1>5. CASE Each(t)
  <2>1. PICK l \in {"leave", "each"} :
          /\ pc[t] = "each" /\ pc' = [pc EXCEPT ![t] = l]
          /\ UNCHANGED <<mAppends, call, loc>>
    BY <1>5 DEF Each
  <2> QED  BY <1>2, <2>1 DEF Parsing
<1>6. ASSUME NEW c \in May[t], Begin(t, c) PROVE Wholes'
  <2>1. /\ pc[t] = "idle" /\ call' = [call EXCEPT ![t] = c] /\ pc' = [pc EXCEPT ![t] = "lock"]
        /\ UNCHANGED <<mAppends, loc>>
    BY <1>6 DEF Begin
  <2> QED  BY <1>1, <1>2, <2>1 DEF Parsing
<1>7. ASSUME NEW c \in May[t], setLevel(t, c) PROVE Wholes'
  <2>1. UNCHANGED <<mAppends, pc, call, loc>>
    BY <1>7 DEF setLevel
  <2> QED  BY <2>1, KeptWholes DEF Parsing, Target
<1> QED  BY <1>3, <1>4, <1>5, <1>6, <1>7

LEMMA InitSteps ==
  ASSUME Letters, Base, Wholes, NEW t \in Threads, init(t)
  PROVE  Wholes'
<1>1. CASE Assign(t)
  BY <1>1, AssignWholes
<1>2. CASE ~ Assign(t)
  <2>1. \/ Literal(t) \/ Percent(t) \/ Conversion(t) \/ Push(t)
        \/ EndOfName(t) \/ OpenBrace(t) \/ CloseBrace(t) \/ Skip(t)
    BY <1>2 DEF init
  <2>2. Parsing(t) /\ Parsing(t)' /\ UNCHANGED <<call, mAppends>>
        /\ \A u \in Threads \ {t} : pc'[u] = pc[u]
    <3>1. pc \in [Threads -> Label]
      BY DEF Base, Kinds
    <3>2. Parsing(t) /\ UNCHANGED <<call, mAppends>>
          /\ (pc' = pc \/ \E l \in {"init", "scan", "push"} : pc' = [pc EXCEPT ![t] = l])
      BY <2>1 DEF Literal, Percent, Conversion, EndOfName, OpenBrace, CloseBrace, Skip,
                  Push, Scan, Parse, Parsing, Goto
    <3> QED  BY <3>1, <3>2 DEF Parsing
  <2>3. ASSUME Clear(Pat(t)) PROVE Reading(t)'
    <3>1. CASE Literal(t) \/ Percent(t) \/ Conversion(t)
      BY <2>3, <3>1, InitReads
    <3>2. CASE Push(t)
      BY <2>3, <3>2, PushReads
    <3>3. CASE EndOfName(t) \/ OpenBrace(t) \/ CloseBrace(t) \/ Skip(t)
      <4>1. pc[t] = "scan"
        BY <3>3 DEF EndOfName, OpenBrace, CloseBrace, Skip, Scan, Parse
      <4>2. Reading(t)
        BY <2>2, <2>3 DEF Wholes
      <4>3. PICK k \in 0 .. Len(Pat(t)) :
              Out = Meanings(Pat(t), k) /\ (AtPercent(t, k) \/ AtConversion(t, k))
        BY <4>1, <4>2 DEF Reading
      <4>4. CASE AtPercent(t, k)
        BY <2>3, <3>3, <4>1, <4>3, <4>4, ScanPercentReads
      <4>5. CASE AtConversion(t, k)
        BY <2>3, <3>3, <4>1, <4>3, <4>5, ScanConversionReads
      <4> QED  BY <4>3, <4>4, <4>5
    <3> QED  BY <2>1, <3>1, <3>2, <3>3
  <2> QED  BY <2>2, <2>3, ReadingWholes
<1> QED  BY <1>1, <1>2

LEMMA AppenderStepsWholes ==
  ASSUME LoggerAssumption, AllDocumented, Base, Wholes, Base', NEW t \in Threads,
         \/ log(t) \/ addAppender(t) \/ delAppender(t) \/ setAppenderLevel(t)
         \/ setAppenderFormatter(t)
  PROVE  Wholes'
<1> USE DEF Goto
<1>1. /\ pc \in [Threads -> Label] /\ mAppends \in [Names -> Appender \cup {NoAppender}]
      /\ Stdout \in Names /\ Default \in Seq(Token)
  BY DEF Base, Kinds, LoggerAssumption
<1>2. pc[t] = "held" /\ UNCHANGED <<call, loc>>
  BY DEF log, addAppender, delAppender, setAppenderLevel, setAppenderFormatter, Body
<1>3. /\ call[t] \in May[t]
      /\ call[t].op \in {"add", "level", "del", "formatter"} => call[t].name \in Names
      /\ call[t].op \in {"log", "setLevel", "add", "level"} => call[t].level \in Level
      /\ call[t].op = "formatter" => call[t].pattern \in Seq(Token)
  <2>1. pc[t] # "idle"
    BY <1>2
  <2> QED  BY <2>1, Calls
<1>4. << >> \in Seq(Written)
  BY EmptySeq
<1>5. \A level \in Level :
        [mLevel |-> level, mPattern |-> Default, mItem |-> << >>] \in Appender
  BY <1>1, <1>4 DEF Appender
<1>6. Documented(Default) /\ (call[t].op = "formatter" => Documented(call[t].pattern))
  BY <1>3 DEF AllDocumented
<1>7. \A u \in Threads : ~ Parsing(u)
  BY <1>2, Holder
<1>8. ASSUME NEW l \in {"each", "leave"}, pc' = [pc EXCEPT ![t] = l],
             \A a \in Present' : /\ a \in Present
                                 /\ mAppends'[a].mPattern = mAppends[a].mPattern
                                 /\ mAppends'[a].mItem = mAppends[a].mItem
      PROVE  Wholes'
  <2>1. \A u \in Threads : ~ Parsing(u)'
    BY <1>1, <1>7, <1>8 DEF Parsing
  <2>2. ASSUME NEW a \in Present' PROVE Settled(a)'
    BY <1>7, <1>8, <2>2, StaysSettled
  <2> QED  BY <2>1, <2>2, QuietWholes
<1>9. ASSUME NEW l \in {"each", "leave"}, pc' = [pc EXCEPT ![t] = l], UNCHANGED mAppends
      PROVE  Wholes'
  <2>1. Present' = Present
    BY <1>9 DEF Present
  <2> QED  BY <1>8, <1>9, <2>1
<1>10. ASSUME NEW n \in Names, NEW x \in Appender, mAppends' = [mAppends EXCEPT ![n] = x],
              pc' = [pc EXCEPT ![t] = "init"], Target(t) = n, x.mItem = << >>,
              Documented(x.mPattern)
       PROVE  Wholes'
  <2>1. pc'[t] = "init"
    BY <1>1, <1>10
  <2> QED  BY <1>2, <1>10, <2>1, StartWholes
<1>11. ASSUME NEW n \in Names, NEW level \in Level, Target(t) = n, Construct(n, level),
              pc' = [pc EXCEPT ![t] = "init"]
       PROVE  Wholes'
  <2> DEFINE x == [mLevel |-> level, mPattern |-> Default, mItem |-> << >>]
  <2>1. x \in Appender /\ x.mItem = << >> /\ x.mPattern = Default
    BY <1>5
  <2>2. mAppends' = [mAppends EXCEPT ![n] = x]
    BY <1>11 DEF Construct
  <2> HIDE DEF x
  <2> QED  BY <1>6, <1>10, <1>11, <2>1, <2>2
<1>12. CASE log(t)
  <2>1. call[t].op = "log" /\ Target(t) = Stdout
    BY <1>12 DEF log, Body, Target
  <2>2. CASE Present = {}
    <3>1. Construct(Stdout, 0) /\ pc' = [pc EXCEPT ![t] = "init"]
      BY <1>12, <2>2 DEF log
    <3> QED  BY <1>1, <1>11, <2>1, <3>1, ZeroIsLevel
  <2>3. CASE Present # {}
    BY <1>9, <1>12, <2>3 DEF log
  <2> QED  BY <2>2, <2>3
<1>13. CASE addAppender(t)
  <2>1. call[t].op = "add" /\ Target(t) = call[t].name
    BY <1>13 DEF addAppender, Body, Target
  <2>2. CASE call[t].name \in Present
    BY <1>9, <1>13, <2>2 DEF addAppender
  <2>3. CASE call[t].name \notin Present
    <3>1. Construct(call[t].name, call[t].level) /\ pc' = [pc EXCEPT ![t] = "init"]
      BY <1>13, <2>3 DEF addAppender
    <3> QED  BY <1>3, <1>11, <2>1, <3>1
  <2> QED  BY <2>2, <2>3
<1>14. CASE delAppender(t)
  <2>1. pc' = [pc EXCEPT ![t] = "leave"]
        /\ mAppends' = [mAppends EXCEPT ![call[t].name] = NoAppender]
    BY <1>14 DEF delAppender
  <2>2. \A a \in Names : mAppends'[a] = mAppends[a] \/ mAppends'[a] = NoAppender
    BY <1>1, <2>1
  <2>3. \A a \in Present' : a \in Present /\ mAppends'[a] = mAppends[a]
    BY <2>2 DEF Present
  <2> QED  BY <1>8, <2>1, <2>3
<1>15. CASE setAppenderLevel(t)
  <2>1. pc' = [pc EXCEPT ![t] = "leave"] /\ call[t].op = "level"
    BY <1>15 DEF setAppenderLevel, Body
  <2>2. CASE call[t].name \notin Present
    BY <1>9, <1>15, <2>1, <2>2 DEF setAppenderLevel
  <2>3. CASE call[t].name \in Present
    <3> DEFINE n == call[t].name
               x == [mAppends[n] EXCEPT !.mLevel = call[t].level]
    <3>1. mAppends' = [mAppends EXCEPT ![n] = x]
      BY <1>15, <2>3 DEF setAppenderLevel
    <3>2. mAppends[n] \in Appender
      BY <1>1, <2>3 DEF Present
    <3>3. x.mPattern = mAppends[n].mPattern /\ x.mItem = mAppends[n].mItem
      BY <3>2 DEF Appender
    <3>4. n \in Names /\ n \in Present
      BY <1>3, <2>1, <2>3
    <3> HIDE DEF n, x
    <3>5. mAppends'[n] = x /\ \A a \in Names : a # n => mAppends'[a] = mAppends[a]
      BY <1>1, <3>1, <3>4
    <3>6. ASSUME NEW a \in Present'
          PROVE  /\ a \in Present /\ mAppends'[a].mPattern = mAppends[a].mPattern
                 /\ mAppends'[a].mItem = mAppends[a].mItem
      <4>1. a \in Names /\ mAppends'[a] # NoAppender
        BY DEF Present
      <4>2. CASE a = n
        BY <3>3, <3>4, <3>5, <4>2
      <4>3. CASE a # n
        BY <3>5, <4>1, <4>3 DEF Present
      <4> QED  BY <4>2, <4>3
    <3> QED  BY <1>8, <2>1, <3>6
  <2> QED  BY <2>2, <2>3
<1>16. CASE setAppenderFormatter(t)
  <2>1. call[t].op = "formatter" /\ Target(t) = call[t].name
    BY <1>16 DEF setAppenderFormatter, Body, Target
  <2>2. CASE call[t].name \notin Present
    BY <1>9, <1>16, <2>1, <2>2 DEF setAppenderFormatter
  <2>3. CASE call[t].name \in Present
    <3> DEFINE n == call[t].name
               x == [mAppends[n] EXCEPT !.mPattern = call[t].pattern, !.mItem = << >>]
    <3>1. /\ mAppends' = [mAppends EXCEPT ![n].mPattern = call[t].pattern, ![n].mItem = << >>]
          /\ pc' = [pc EXCEPT ![t] = "init"]
      BY <1>16, <2>3 DEF setAppenderFormatter
    <3>2. n \in Names /\ mAppends[n] \in Appender
      BY <1>1, <1>3, <2>1, <2>3 DEF Present
    <3>3. x \in Appender /\ x.mItem = << >> /\ x.mPattern = call[t].pattern
      BY <1>3, <1>4, <2>1, <3>2 DEF Appender
    <3>4. mAppends' = [mAppends EXCEPT ![n] = x]
      BY <1>1, <3>1, <3>2
    <3>5. Documented(call[t].pattern) /\ Target(t) = n
      BY <1>6, <2>1
    <3> HIDE DEF n, x
    <3> QED  BY <1>10, <3>1, <3>2, <3>3, <3>4, <3>5
  <2> QED  BY <2>2, <2>3
<1> QED  BY <1>12, <1>13, <1>14, <1>15, <1>16

LEMMA AlphaSplits == ASSUME LoggerAssumption PROVE Letters
BY DEF LoggerAssumption, Letters

LEMMA WholesHolds ==
  ASSUME LoggerAssumption, AllDocumented
  PROVE  Spec => []Wholes
<1>1. Init => Wholes
  <2> SUFFICES ASSUME Init PROVE Wholes
    OBVIOUS
  <2>1. Present = {} /\ \A t \in Threads : ~ Parsing(t)
    BY DEF Init, Present, Parsing
  <2> QED  BY <2>1 DEF Wholes
<1>2. Base /\ Base' /\ Wholes /\ [Next]_vars => Wholes'
  <2> SUFFICES ASSUME Base, Base', Wholes, [Next]_vars PROVE Wholes'
    OBVIOUS
  <2>1. CASE UNCHANGED vars
    <3>1. UNCHANGED <<mAppends, pc, call, loc>>
      BY <2>1 DEF vars
    <3> QED  BY <3>1, KeptWholes DEF Parsing, Target
  <2>2. ASSUME NEW t \in Threads, NEW c \in May[t], Begin(t, c) \/ setLevel(t, c) PROVE Wholes'
    BY <2>2, CallStepsWholes
  <2>3. ASSUME NEW t \in Threads, Lock(t) \/ Leave(t) \/ Each(t) PROVE Wholes'
    BY <2>3, CallStepsWholes
  <2>4. ASSUME NEW t \in Threads, \/ log(t) \/ addAppender(t) \/ delAppender(t)
                                  \/ setAppenderLevel(t) \/ setAppenderFormatter(t)
        PROVE Wholes'
    BY <2>4, AppenderStepsWholes
  <2>5. ASSUME NEW t \in Threads, init(t) PROVE Wholes'
    BY <2>5, AlphaSplits, InitSteps
  <2> QED  BY <2>1, <2>2, <2>3, <2>4, <2>5 DEF Next, Steps
<1>3. Spec => []Base
  BY BaseHolds
<1> QED  BY <1>1, <1>2, <1>3, PTL DEF Spec

LEMMA WholesAreLines == Base /\ Wholes => LinesAreWhole
<1> SUFFICES ASSUME Base, Wholes, NEW t \in Threads, NEW a \in Names, Writes(t, a)
             PROVE  /\ a \in Present
                    /\ Clear(mAppends[a].mPattern) =>
                         mAppends[a].mItem = [k \in DOMAIN mAppends[a].mPattern
                                                |-> Meaning(mAppends[a].mPattern[k])]
  BY DEF LinesAreWhole
<1>1. a \in Present /\ pc[t] = "each"
  BY DEF Writes, Base, Turns
<1>2. \A u \in Threads : ~ Parsing(u)
  BY <1>1, Holder
<1>3. Clear(mAppends[a].mPattern) =>
        mAppends[a].mItem = Meanings(mAppends[a].mPattern, Len(mAppends[a].mPattern))
  BY <1>1, <1>2 DEF Wholes, Settled
<1>4. DOMAIN mAppends[a].mPattern = 1 .. Len(mAppends[a].mPattern)
  <2>1. mAppends[a] \in Appender
    BY <1>1 DEF Base, Kinds, Present
  <2>2. mAppends[a].mPattern \in Seq(Token)
    BY <2>1 DEF Appender
  <2> QED  BY <2>2, LenProperties
<1> QED  BY <1>1, <1>3, <1>4 DEF Meanings

\* An appender writes its line with the items of its whole pattern, which mean
\* what logger.h:63-73 says of the tokens: only the holder of mLock adds,
\* removes or parses (logger.cpp:155-231), and init finds each token where it
\* begins.  The patterns that the calls bring in are of documented tokens, any
\* number of them and of any length.
THEOREM LinesOfWholePatterns ==
  ASSUME LoggerAssumption, AllDocumented
  PROVE  Spec => []LinesAreWhole
BY BaseHolds, WholesHolds, WholesAreLines, PTL
=============================================================================
