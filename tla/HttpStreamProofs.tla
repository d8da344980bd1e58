-------------------------- MODULE HttpStreamProofs --------------------------
(***************************************************************************)
(* Proofs about HttpStream: requests are answered when they have been read *)
(* completely and not twice, and with a careful client handleClient        *)
(* implements RequestReply.                                                *)
(***************************************************************************)
EXTENDS HttpStream, SequenceTheorems, FiniteSetTheorems, TLAPS

\* In Layout(r): the last piece before Content-Length, the end of the headers,
\* and the last piece.
Before(r) == IF r.conn = "none" THEN 4 ELSE 10
EndOf(r)  == Before(r) + (IF r.body = 0 THEN 1 ELSE 2)
Total(r)  == EndOf(r) + r.body

\* m pieces of one kind.
Str(kind, i, m) == [x \in 1 .. m |-> [kind |-> kind, req |-> i]]

\* ends[i] is the number of pieces up to the end of request i.
Placed(ends) ==
  /\ ends \in [0 .. Len(asked) -> Nat]
  /\ ends[0] = 0 /\ ends[Len(asked)] = Len(stream)
  /\ \A i, j \in 0 .. Len(asked) : i <= j => ends[i] <= ends[j]
  /\ \A i \in 1 .. Len(asked) :
       /\ ends[i] = ends[i - 1] + Total(asked[i])
       /\ \A k \in 1 .. Total(asked[i]) :
            stream[ends[i - 1] + k] = [kind |-> Layout(asked[i])[k], req |-> i]
  /\ \A p \in 1 .. Len(stream) :
       \E i \in 1 .. Len(asked) : \E k \in 1 .. Total(asked[i]) : p = ends[i - 1] + k

\* Pieces of requests that were asked.
Seen == [kind : Kinds, req : 1 .. Len(asked)]

Known == run \in Seq(Seen) /\ data.mPath \in Seq(Seen)

Replies == [path : Paths \cup {"partial"}, status : {0, 200, 404},
            keep : BOOLEAN, body : Nat]

Sent == answers \in Seq(Replies)

\* The state of the parser when it has consumed k pieces of r.
Spot(r, k) ==
  /\ \/ parser.state = "s_req_spaces_before_url" /\ k = 1
     \/ parser.state = "s_req_path" /\ k \in {2, 3}
     \/ parser.state = "s_header_field_start" /\ k = 4
     \/ parser.state = "s_header_field" /\ r.conn # "none" /\ k \in {5, 6}
     \/ parser.state = "s_header_value_discard_ws" /\ r.conn # "none" /\ k = 7
     \/ parser.state = "s_header_value" /\ r.conn # "none" /\ k \in {8, 9}
     \/ parser.state = "s_header_field_start" /\ r.conn # "none" /\ k = 10
     \/ parser.state = "s_header_field_start" /\ r.body # 0 /\ k = Before(r) + 1
     \/ parser.state = "s_body_identity" /\ EndOf(r) <= k
  /\ parser.content_length = IF k <= Before(r) THEN 0
                             ELSE IF k <= EndOf(r) THEN r.body ELSE Total(r) - k

\* The strings that are complete then, or under way.
Strings(i, k) ==
  /\ parser.state = "s_req_path" => run = Str("url", i, k - 1)
  /\ k >= 4 => data.mPath = Str("url", i, 2)
  /\ parser.state = "s_header_field" => run = Str("name", i, k - 4)
  /\ parser.state \in {"s_header_value_discard_ws", "s_header_value"} =>
       data.mTmpHeader = Str("name", i, 2)
  /\ parser.state = "s_header_value" => run = Str("value", i, k - 7)
  /\ data.mKeepAlive = (k >= 10 /\ asked[i].conn = "keep-alive")

\* What of request i is in the HttpRequest, if it is the only one.
Filled(i, k) ==
  /\ i = Len(answers) + 1 /\ ~ data.isFinish
  /\ data.mBody = Str("body", i, k - EndOf(asked[i]))
  /\ ~ client.split => Strings(i, k)

Between == parser.state \in {"s_start_req", "s_dead"}

\* Within a request the parser has consumed all of it from its beginning on.
Parsing(ends) ==
  ~ Between =>
     \E i \in 1 .. Len(asked) : \E k \in 1 .. Total(asked[i]) - 1 :
       at = ends[i - 1] + k /\ Spot(asked[i], k) /\ (~ client.pipe => Filled(i, k))

\* The HttpRequest is that of request i.
Received(i) ==
  /\ data.mBody = Str("body", i, asked[i].body)
  /\ ~ client.split =>
       data.mPath = Str("url", i, 2) /\ data.mKeepAlive = (asked[i].conn = "keep-alive")

\* Without pipelining there is one request at a time.
Single(ends) ==
  ~ client.pipe =>
    /\ Len(answers) <= Len(asked) /\ Len(asked) <= Len(answers) + 1
    /\ data.isFinish => /\ Between /\ Len(asked) = Len(answers) + 1
                        /\ at = Len(stream) /\ Received(Len(asked))
    /\ parser.state = "s_start_req" /\ ~ data.isFinish =>
         /\ at = ends[Len(answers)] /\ data.mBody = << >>
         /\ ~ client.split => ~ data.mKeepAlive
    /\ parser.state = "s_dead" => data.isFinish

\* No chunk ends within a string.
Uncut ==
  ~ client.split =>
    \A n \in {got, arrived} : n > 0 => stream[n].kind \notin {"url", "name", "value"}

\* handleClient comes to the servlet with a request that is complete, and a
\* send that is not woken is one to a peer that can still read.
Serves ==
  /\ pc \in {"recv", "wait", "handle", "send"} => at = got
  /\ pc \in {"handle", "send"} => data.isFinish
  /\ pc = "send" /\ Careful => response = RR!Answer(asked[Len(asked)])
  /\ pc = "send" /\ missed => peer \in {"open", "shut"}

\* No more answers than requests that were read.
Counted == Len(answers) + (IF data.isFinish THEN 1 ELSE 0) <= Cardinality(Parsed)

Local(ends) == Placed(ends) /\ Parsing(ends) /\ Single(ends)

IInv == /\ TypeOK /\ Known /\ Sent /\ Uncut /\ Serves /\ Counted
        /\ \E ends \in [0 .. Len(asked) -> Nat] : Local(ends)
-----------------------------------------------------------------------------
\* Facts about strings of pieces and the layout of a request.

LEMMA StrType ==
  ASSUME NEW kind \in Kinds, NEW R, NEW i \in R, NEW m \in Nat
  PROVE  /\ Str(kind, i, m) \in Seq([kind : Kinds, req : R])
         /\ Len(Str(kind, i, m)) = m
         /\ \A x \in 1 .. m : Str(kind, i, m)[x] = [kind |-> kind, req |-> i]
<1>1. Str(kind, i, m) \in [1 .. m -> [kind : Kinds, req : R]]
  BY DEF Str
<1>2. Str(kind, i, m) \in Seq([kind : Kinds, req : R])
  BY <1>1, SeqDef
<1>3. DOMAIN Str(kind, i, m) = 1 .. m
  BY DEF Str
<1>4. Len(Str(kind, i, m)) = m
  BY <1>2, <1>3, LenProperties
<1> QED  BY <1>2, <1>4 DEF Str

LEMMA StrEmpty ==
  ASSUME NEW kind, NEW i, NEW m \in Int, m <= 0
  PROVE  Str(kind, i, m) = << >>
<1>1. 1 .. m = {}
  OBVIOUS
<1> QED  BY <1>1 DEF Str

\* One more piece of the kind.
LEMMA StrGrows ==
  ASSUME NEW kind \in Kinds, NEW i, NEW m \in Nat
  PROVE  /\ Append(Str(kind, i, m), [kind |-> kind, req |-> i]) = Str(kind, i, m + 1)
         /\ Str(kind, i, m) \o << [kind |-> kind, req |-> i] >> = Str(kind, i, m + 1)
         /\ << [kind |-> kind, req |-> i] >> = Str(kind, i, 1)
<1> DEFINE S == [kind : Kinds, req : {i}]
           e == [kind |-> kind, req |-> i]
           s == Str(kind, i, m)
           t == Str(kind, i, m + 1)
<1>0. \A n \in Nat : /\ Str(kind, i, n) \in Seq(S) /\ Len(Str(kind, i, n)) = n
                     /\ \A x \in 1 .. n : Str(kind, i, n)[x] = e
  <2> SUFFICES ASSUME NEW n \in Nat
               PROVE  /\ Str(kind, i, n) \in Seq(S) /\ Len(Str(kind, i, n)) = n
                      /\ \A x \in 1 .. n : Str(kind, i, n)[x] = e
    OBVIOUS
  <2> DEFINE R == {i}
  <2>1. i \in R /\ S = [kind : Kinds, req : R]
    OBVIOUS
  <2> HIDE DEF R, S
  <2>2. /\ Str(kind, i, n) \in Seq([kind : Kinds, req : R]) /\ Len(Str(kind, i, n)) = n
        /\ \A x \in 1 .. n : Str(kind, i, n)[x] = [kind |-> kind, req |-> i]
    BY <2>1, StrType
  <2> QED  BY <2>1, <2>2
<1>1. /\ s \in Seq(S) /\ Len(s) = m /\ \A x \in 1 .. m : s[x] = e
      /\ t \in Seq(S) /\ Len(t) = m + 1 /\ \A x \in 1 .. m + 1 : t[x] = e
      /\ e \in S
  <2> HIDE DEF S
  <2>1. e \in S
    BY DEF S
  <2> QED  BY <1>0, <2>1
<1>2. Str(kind, i, 1) \in Seq(S) /\ Len(Str(kind, i, 1)) = 1 /\ Str(kind, i, 1)[1] = e
  <2> HIDE DEF S, e
  <2>1. 1 \in Nat /\ 1 \in 1 .. 1
    OBVIOUS
  <2> QED  BY <1>0, <2>1
<1>3. /\ << e >> \in Seq(S) /\ Len(<< e >>) = 1 /\ << e >>[1] = e
      /\ Append(s, e) \in Seq(S) /\ Len(Append(s, e)) = m + 1
      /\ \A x \in 1 .. m : Append(s, e)[x] = s[x]
      /\ Append(s, e)[m + 1] = e
      /\ Append(s, e) = s \o << e >>
  <2> HIDE DEF S, e, s
  <2> QED  BY <1>1, AppendProperties, AppendIsConcat
<1> HIDE DEF S, e, s, t
<1>4. << e >> = Str(kind, i, 1)
  BY <1>2, <1>3, SeqEqual
<1>5. \A x \in 1 .. m + 1 : Append(s, e)[x] = t[x]
  BY <1>1, <1>3
<1>6. Append(s, e) = t
  BY <1>1, <1>3, <1>5, SeqEqual
<1> QED  BY <1>3, <1>4, <1>6 DEF e, s, t

\* What each piece of a request is.
LEMMA LayoutShape ==
  ASSUME NEW r \in Request
  PROVE  /\ Layout(r) \in Seq(Kinds) /\ Len(Layout(r)) = Total(r)
         /\ Layout(r)[1] = "method" /\ Layout(r)[2] = "url" /\ Layout(r)[3] = "url"
         /\ Layout(r)[4] = "version"
         /\ r.conn # "none" =>
              /\ Layout(r)[5] = "name" /\ Layout(r)[6] = "name" /\ Layout(r)[7] = "colon"
              /\ Layout(r)[8] = "value" /\ Layout(r)[9] = "value" /\ Layout(r)[10] = "crlf"
         /\ r.body # 0 => Layout(r)[Before(r) + 1] = "length"
         /\ Layout(r)[EndOf(r)] = "end"
         /\ \A k \in EndOf(r) + 1 .. Total(r) : Layout(r)[k] = "body"
<1> DEFINE a == << "method", "url", "url", "version" >>
           b == IF r.conn = "none" THEN << >>
                ELSE << "name", "name", "colon", "value", "value", "crlf" >>
           c == IF r.body = 0 THEN << >> ELSE << "length" >>
           d == << "end" >>
           e == [k \in 1 .. r.body |-> "body"]
<1>1. r.body \in Nat /\ r.conn \in {"none", "close", "keep-alive"}
  BY DEF Request
<1>2. /\ a \in Seq(Kinds) /\ Len(a) = 4
      /\ a[1] = "method" /\ a[2] = "url" /\ a[3] = "url" /\ a[4] = "version"
  BY DEF Kinds
<1>3. /\ b \in Seq(Kinds) /\ Len(b) = Before(r) - 4
      /\ r.conn # "none" => /\ b[1] = "name" /\ b[2] = "name" /\ b[3] = "colon"
                            /\ b[4] = "value" /\ b[5] = "value" /\ b[6] = "crlf"
  <2>1. CASE r.conn = "none"
    BY <2>1 DEF Before
  <2>2. CASE r.conn # "none"
    <3>1. b = << "name", "name", "colon", "value", "value", "crlf" >>
      BY <2>2
    <3>2. Before(r) - 4 = 6
      BY <2>2 DEF Before
    <3> HIDE DEF b
    <3> QED  BY <3>1, <3>2 DEF Kinds
  <2> QED  BY <2>1, <2>2
<1>4. /\ c \in Seq(Kinds) /\ Len(c) = EndOf(r) - Before(r) - 1
      /\ r.body # 0 => c[1] = "length"
  <2>1. CASE r.body = 0
    BY <2>1 DEF EndOf, Before
  <2>2. CASE r.body # 0
    <3>1. c = << "length" >> /\ EndOf(r) - Before(r) - 1 = 1
      BY <2>2 DEF EndOf, Before
    <3> QED  BY <2>2, <3>1 DEF Kinds
  <2> QED  BY <2>1, <2>2
<1>5. d \in Seq(Kinds) /\ Len(d) = 1 /\ d[1] = "end"
  BY DEF Kinds
<1>6. e \in Seq(Kinds) /\ Len(e) = r.body /\ \A k \in 1 .. r.body : e[k] = "body"
  <2>1. e \in [1 .. r.body -> Kinds] /\ DOMAIN e = 1 .. r.body
    BY DEF Kinds
  <2>2. e \in Seq(Kinds)
    BY <1>1, <2>1, SeqDef
  <2> QED  BY <1>1, <2>1, <2>2, LenProperties
<1> HIDE DEF a, b, c, d, e
<1>7. /\ a \o b \in Seq(Kinds) /\ Len(a \o b) = Before(r)
      /\ \A k \in 1 .. Before(r) : (a \o b)[k] = IF k <= 4 THEN a[k] ELSE b[k - 4]
  <2>1. /\ a \o b \in Seq(Kinds) /\ Len(a \o b) = Len(a) + Len(b)
        /\ \A k \in 1 .. Len(a) + Len(b) :
             (a \o b)[k] = IF k <= Len(a) THEN a[k] ELSE b[k - Len(a)]
    BY <1>2, <1>3, ConcatProperties
  <2> QED  BY <1>2, <1>3, <2>1 DEF Before
<1>8. /\ (a \o b) \o c \in Seq(Kinds) /\ Len((a \o b) \o c) = EndOf(r) - 1
      /\ \A k \in 1 .. EndOf(r) - 1 :
           ((a \o b) \o c)[k] = IF k <= Before(r) THEN (a \o b)[k] ELSE c[k - Before(r)]
  <2> DEFINE u == a \o b
  <2>1. u \in Seq(Kinds) /\ Len(u) = Before(r)
    BY <1>7
  <2> HIDE DEF u
  <2>2. /\ u \o c \in Seq(Kinds) /\ Len(u \o c) = Len(u) + Len(c)
        /\ \A k \in 1 .. Len(u) + Len(c) :
             (u \o c)[k] = IF k <= Len(u) THEN u[k] ELSE c[k - Len(u)]
    BY <1>4, <2>1, ConcatProperties
  <2> QED  BY <1>4, <2>1, <2>2 DEF u, EndOf, Before
<1>9. /\ ((a \o b) \o c) \o d \in Seq(Kinds) /\ Len(((a \o b) \o c) \o d) = EndOf(r)
      /\ \A k \in 1 .. EndOf(r) :
           (((a \o b) \o c) \o d)[k] = IF k <= EndOf(r) - 1 THEN ((a \o b) \o c)[k] ELSE "end"
  <2> DEFINE u == (a \o b) \o c
  <2>1. u \in Seq(Kinds) /\ Len(u) = EndOf(r) - 1
    BY <1>8
  <2> HIDE DEF u
  <2>2. /\ u \o d \in Seq(Kinds) /\ Len(u \o d) = Len(u) + Len(d)
        /\ \A k \in 1 .. Len(u) + Len(d) :
             (u \o d)[k] = IF k <= Len(u) THEN u[k] ELSE d[k - Len(u)]
    BY <1>5, <2>1, ConcatProperties
  <2> QED  BY <1>5, <2>1, <2>2 DEF u, EndOf, Before
<1>10. /\ Layout(r) \in Seq(Kinds) /\ Len(Layout(r)) = Total(r)
       /\ \A k \in 1 .. Total(r) :
            Layout(r)[k] = IF k <= EndOf(r) THEN (((a \o b) \o c) \o d)[k] ELSE "body"
  <2> DEFINE u == ((a \o b) \o c) \o d
  <2>1. u \in Seq(Kinds) /\ Len(u) = EndOf(r)
    BY <1>9
  <2>2. Layout(r) = u \o e
    BY DEF Layout, a, b, c, d, e
  <2> HIDE DEF u
  <2>3. /\ u \o e \in Seq(Kinds) /\ Len(u \o e) = Len(u) + Len(e)
        /\ \A k \in 1 .. Len(u) + Len(e) :
             (u \o e)[k] = IF k <= Len(u) THEN u[k] ELSE e[k - Len(u)]
    BY <1>6, <2>1, ConcatProperties
  <2>4. Total(r) = EndOf(r) + r.body /\ EndOf(r) \in Nat
    BY <1>1 DEF Total, EndOf, Before
  <2>5. Layout(r) \in Seq(Kinds) /\ Len(Layout(r)) = Total(r)
    BY <1>6, <2>1, <2>2, <2>3, <2>4
  <2>6. ASSUME NEW k \in 1 .. Total(r)
        PROVE  Layout(r)[k] = IF k <= EndOf(r) THEN u[k] ELSE "body"
    <3>1. k \in 1 .. Len(u) + Len(e)
      BY <1>6, <2>1, <2>4
    <3>2. Layout(r)[k] = IF k <= EndOf(r) THEN u[k] ELSE e[k - EndOf(r)]
      BY <2>1, <2>2, <2>3, <3>1
    <3>3. ~ (k <= EndOf(r)) => k - EndOf(r) \in 1 .. r.body
      BY <1>1, <2>4
    <3> QED  BY <1>6, <3>2, <3>3
  <2> QED  BY <2>5, <2>6 DEF u
<1>11. \A k \in 1 .. Before(r) : Layout(r)[k] = IF k <= 4 THEN a[k] ELSE b[k - 4]
  <2> SUFFICES ASSUME NEW k \in 1 .. Before(r)
               PROVE  Layout(r)[k] = IF k <= 4 THEN a[k] ELSE b[k - 4]
    OBVIOUS
  <2>1. /\ k \in 1 .. Total(r) /\ k <= EndOf(r) /\ k \in 1 .. EndOf(r) /\ k <= EndOf(r) - 1
        /\ k \in 1 .. EndOf(r) - 1 /\ k <= Before(r)
    BY <1>1 DEF Total, EndOf, Before
  <2> QED  BY <1>7, <1>8, <1>9, <1>10, <2>1
<1>12. r.body # 0 => Layout(r)[Before(r) + 1] = "length"
  BY <1>1, <1>4, <1>8, <1>9, <1>10 DEF Total, EndOf, Before
<1>13. Layout(r)[EndOf(r)] = "end" /\ \A k \in EndOf(r) + 1 .. Total(r) : Layout(r)[k] = "body"
  <2>1. EndOf(r) \in Nat \ {0} /\ Total(r) = EndOf(r) + r.body
    BY <1>1 DEF Total, EndOf, Before
  <2>2. Layout(r)[EndOf(r)] = "end"
    <3>1. EndOf(r) \in 1 .. Total(r) /\ EndOf(r) \in 1 .. EndOf(r) /\ ~ (EndOf(r) <= EndOf(r) - 1)
      BY <1>1, <2>1
    <3>2. EndOf(r) <= EndOf(r)
      BY <2>1
    <3> QED  BY <1>9, <1>10, <3>1, <3>2
  <2>3. ASSUME NEW k \in EndOf(r) + 1 .. Total(r) PROVE Layout(r)[k] = "body"
    <3>1. k \in 1 .. Total(r) /\ ~ (k <= EndOf(r))
      BY <1>1, <2>1
    <3> QED  BY <1>10, <3>1
  <2> QED  BY <2>2, <2>3
<1>14. /\ Layout(r)[1] = "method" /\ Layout(r)[2] = "url" /\ Layout(r)[3] = "url"
       /\ Layout(r)[4] = "version"
  <2>1. Before(r) \in {4, 10}
    BY DEF Before
  <2> QED  BY <1>2, <1>11, <2>1
<1>15. r.conn # "none" =>
         /\ Layout(r)[5] = "name" /\ Layout(r)[6] = "name" /\ Layout(r)[7] = "colon"
         /\ Layout(r)[8] = "value" /\ Layout(r)[9] = "value" /\ Layout(r)[10] = "crlf"
  <2>1. r.conn # "none" => Before(r) = 10
    BY DEF Before
  <2> QED  BY <1>3, <1>11, <2>1
<1> QED  BY <1>10, <1>12, <1>13, <1>14, <1>15

LEMMA Sizes ==
  ASSUME NEW r \in Request
  PROVE  /\ r.body \in Nat /\ r.conn \in {"none", "close", "keep-alive"} /\ r.minor \in {0, 1}
         /\ r.path \in Paths
         /\ Before(r) \in {4, 10} /\ (Before(r) = 4 <=> r.conn = "none")
         /\ EndOf(r) \in Nat /\ EndOf(r) = IF r.body = 0 THEN Before(r) + 1 ELSE Before(r) + 2
         /\ Total(r) \in Nat /\ Total(r) = EndOf(r) + r.body
BY DEF Request, Before, EndOf, Total

\* The kind of a piece tells its place.
LEMMA KindAt ==
  ASSUME NEW r \in Request, NEW k \in 1 .. Total(r)
  PROVE  /\ Layout(r)[k] \in Kinds
         /\ Layout(r)[k] = "method" <=> k = 1
         /\ Layout(r)[k] = "url" <=> k \in {2, 3}
         /\ Layout(r)[k] = "version" <=> k = 4
         /\ Layout(r)[k] = "name" <=> r.conn # "none" /\ k \in {5, 6}
         /\ Layout(r)[k] = "colon" <=> r.conn # "none" /\ k = 7
         /\ Layout(r)[k] = "value" <=> r.conn # "none" /\ k \in {8, 9}
         /\ Layout(r)[k] = "crlf" <=> r.conn # "none" /\ k = 10
         /\ Layout(r)[k] = "length" <=> r.body # 0 /\ k = Before(r) + 1
         /\ Layout(r)[k] = "end" <=> k = EndOf(r)
         /\ Layout(r)[k] = "body" <=> k > EndOf(r)
<1> DEFINE L == Layout(r)
           B == Before(r)
           E == EndOf(r)
           T == Total(r)
<1>1. /\ B \in {4, 10} /\ (B = 4 <=> r.conn = "none") /\ r.body \in Nat
      /\ E \in Nat /\ E = (IF r.body = 0 THEN B + 1 ELSE B + 2)
      /\ T \in Nat /\ T = E + r.body /\ k \in 1 .. T
  BY Sizes
<1>2. /\ L[1] = "method" /\ L[2] = "url" /\ L[3] = "url" /\ L[4] = "version"
      /\ B = 10 => /\ L[5] = "name" /\ L[6] = "name" /\ L[7] = "colon"
                   /\ L[8] = "value" /\ L[9] = "value" /\ L[10] = "crlf"
      /\ r.body # 0 => L[B + 1] = "length"
      /\ L[E] = "end" /\ \A m \in E + 1 .. T : L[m] = "body"
  <2>1. B = 10 => r.conn # "none"
    BY <1>1
  <2> QED  BY <2>1, LayoutShape
<1> HIDE DEF L, B, E, T
<1>3. CASE k \in 1 .. 4
  BY <1>1, <1>2, <1>3 DEF Kinds, L, B, E
<1>4. CASE k \in 5 .. B
  <2>1. B = 10 /\ k \in {5, 6, 7, 8, 9, 10} /\ r.conn # "none" /\ k < B + 1 /\ k < E
    BY <1>1, <1>4
  <2> QED  BY <1>1, <1>2, <2>1 DEF Kinds, L, B, E
<1>5. CASE k = B + 1 /\ r.body # 0
  <2>1. k < E /\ k # 1 /\ k \notin {2, 3, 4} /\ (r.conn # "none" => k > 10)
    BY <1>1, <1>5
  <2> QED  BY <1>1, <1>2, <1>5, <2>1 DEF Kinds, L, B, E
<1>6. CASE k = E
  <2>1. k # 1 /\ k \notin {2, 3, 4} /\ (r.conn # "none" => k > 10) /\ (r.body # 0 => k # B + 1)
    BY <1>1, <1>6
  <2> QED  BY <1>1, <1>2, <1>6, <2>1 DEF Kinds, L, B, E
<1>7. CASE k \in E + 1 .. T
  <2>1. /\ k # 1 /\ k \notin {2, 3, 4} /\ (r.conn # "none" => k > 10)
        /\ (r.body # 0 => k # B + 1) /\ k # E /\ k > E
    BY <1>1, <1>7
  <2> QED  BY <1>1, <1>2, <1>7, <2>1 DEF Kinds, L, B, E
<1>8. k \in 1 .. 4 \/ k \in 5 .. B \/ (k = B + 1 /\ r.body # 0) \/ k = E \/ k \in E + 1 .. T
  BY <1>1
<1> QED  BY <1>3, <1>4, <1>5, <1>6, <1>7, <1>8

-----------------------------------------------------------------------------
\* Which piece comes next.

LEMMA Asked ==
  ASSUME TypeOK, NEW i \in 1 .. Len(asked)
  PROVE  asked[i] \in Requests /\ asked[i] \in Request
BY HttpAssumption, ElementOfSeq DEF TypeOK

LEMMA Lengths ==
  ASSUME TypeOK
  PROVE  /\ Len(asked) \in Nat /\ Len(stream) \in Nat /\ at <= Len(stream)
         /\ DOMAIN asked = 1 .. Len(asked) /\ DOMAIN stream = 1 .. Len(stream)
BY LenProperties DEF TypeOK

LEMMA PieceOf ==
  ASSUME TypeOK, NEW ends, Placed(ends), NEW i \in 1 .. Len(asked),
         NEW k \in 1 .. Total(asked[i])
  PROVE  /\ ends[i - 1] \in Nat /\ ends[i] \in Nat /\ ends[i] = ends[i - 1] + Total(asked[i])
         /\ ends[i - 1] + k \in 1 .. Len(stream)
         /\ stream[ends[i - 1] + k] = [kind |-> Layout(asked[i])[k], req |-> i]
<1>1. Len(asked) \in Nat /\ i - 1 \in 0 .. Len(asked) /\ i \in 0 .. Len(asked)
      /\ Len(asked) \in 0 .. Len(asked)
  BY Lengths
<1>2. ends[i - 1] \in Nat /\ ends[i] \in Nat /\ ends[i] <= ends[Len(asked)]
  <2>1. ends \in [0 .. Len(asked) -> Nat]
    BY DEF Placed
  <2>2. \A m, n \in 0 .. Len(asked) : m <= n => ends[m] <= ends[n]
    BY DEF Placed
  <2> QED  BY <1>1, <2>1, <2>2
<1>3. Total(asked[i]) \in Nat
  BY Asked, Sizes
<1>4. ends[i] = ends[i - 1] + Total(asked[i]) /\ ends[Len(asked)] = Len(stream)
  BY DEF Placed
<1>5. stream[ends[i - 1] + k] = [kind |-> Layout(asked[i])[k], req |-> i]
  BY DEF Placed
<1> QED  BY <1>2, <1>3, <1>4, <1>5, Lengths

\* Within a request.
LEMMA NextPiece ==
  ASSUME TypeOK, NEW ends, Placed(ends), NEW i \in 1 .. Len(asked),
         NEW k \in 0 .. Total(asked[i]) - 1, at = ends[i - 1] + k
  PROVE  /\ Piece = [kind |-> Layout(asked[i])[k + 1], req |-> i]
         /\ Asking = asked[i]
<1>1. k + 1 \in 1 .. Total(asked[i])
  BY Asked, Sizes
<1>2. /\ ends[i - 1] \in Nat
      /\ stream[ends[i - 1] + (k + 1)] = [kind |-> Layout(asked[i])[k + 1], req |-> i]
  BY <1>1, PieceOf
<1>3. at + 1 = ends[i - 1] + (k + 1)
  BY <1>2
<1> QED  BY <1>2, <1>3 DEF Piece, Asking

\* Anywhere.
LEMMA SomePiece ==
  ASSUME TypeOK, NEW ends, Placed(ends), at < got
  PROVE  \E i \in 1 .. Len(asked) : \E k \in 0 .. Total(asked[i]) - 1 :
           /\ at = ends[i - 1] + k
           /\ Piece = [kind |-> Layout(asked[i])[k + 1], req |-> i]
<1>1. at + 1 \in 1 .. Len(stream)
  BY Lengths DEF TypeOK
<1> PICK i \in 1 .. Len(asked) : \E k \in 1 .. Total(asked[i]) : at + 1 = ends[i - 1] + k
  BY <1>1 DEF Placed
<1> PICK k \in 1 .. Total(asked[i]) : at + 1 = ends[i - 1] + k
  OBVIOUS
<1>2. k - 1 \in 0 .. Total(asked[i]) - 1 /\ ends[i - 1] \in Nat /\ k = (k - 1) + 1
  <2>1. Total(asked[i]) \in Nat
    BY Asked, Sizes
  <2>2. ends[i - 1] \in Nat
    BY PieceOf
  <2> QED  BY <2>1, <2>2
<1>3. at = ends[i - 1] + (k - 1)
  <2>1. at \in Nat /\ k \in Int /\ ends[i - 1] \in Nat
    BY <1>2 DEF TypeOK
  <2> QED  BY <2>1
<1>4. Piece = [kind |-> Layout(asked[i])[(k - 1) + 1], req |-> i]
  BY <1>2, <1>3, NextPiece
<1> QED  BY <1>2, <1>3, <1>4

-----------------------------------------------------------------------------
\* The requests that have been read.

LEMMA ParsedFinite ==
  ASSUME TypeOK
  PROVE  IsFiniteSet(Parsed) /\ Cardinality(Parsed) \in Nat /\ Cardinality(Parsed) <= Len(asked)
<1>1. Parsed \in SUBSET (1 .. Len(asked)) /\ Len(asked) \in Nat
  BY Lengths DEF Parsed
<1>2. IsFiniteSet(1 .. Len(asked)) /\ Cardinality(1 .. Len(asked)) = Len(asked)
  BY <1>1, FS_Interval
<1>3. IsFiniteSet(Parsed) /\ Cardinality(Parsed) <= Cardinality(1 .. Len(asked))
  BY <1>1, <1>2, FS_Subset
<1> QED  BY <1>2, <1>3, FS_CardinalityType

LEMMA ParsedKept ==
  ASSUME TypeOK, at' \in Nat, at <= at', UNCHANGED <<asked, stream>>
  PROVE  Cardinality(Parsed') \in Nat /\ Cardinality(Parsed) <= Cardinality(Parsed')
<1>1. Parsed' \in SUBSET (1 .. Len(asked))
  BY Lengths DEF Parsed
<1>2. IsFiniteSet(1 .. Len(asked))
  BY Lengths, FS_Interval
<1>3. IsFiniteSet(Parsed') /\ Cardinality(Parsed') \in Nat
  BY <1>1, <1>2, FS_Subset, FS_CardinalityType
<1>4. Parsed \in SUBSET Parsed'
  <2> SUFFICES ASSUME NEW i \in Parsed, NEW k \in DOMAIN stream, stream[k].req = i
               PROVE  k <= at'
    BY DEF Parsed
  <2>1. k <= at /\ k \in Nat /\ at \in Nat
    BY Lengths DEF Parsed, TypeOK
  <2> QED  BY <2>1
<1> QED  BY <1>3, <1>4, FS_Subset

\* The last piece of a request makes it one more.
LEMMA ParsedGrows ==
  ASSUME TypeOK, NEW ends, Placed(ends), NEW i \in 1 .. Len(asked), at + 1 = ends[i],
         at' = at + 1, UNCHANGED <<asked, stream>>
  PROVE  Cardinality(Parsed') \in Nat /\ Cardinality(Parsed) + 1 <= Cardinality(Parsed')
<1>1. Total(asked[i]) \in 1 .. Total(asked[i]) /\ ends[i] = ends[i - 1] + Total(asked[i])
      /\ ends[i] \in 1 .. Len(stream) /\ stream[ends[i]].req = i
  <2>1. Total(asked[i]) \in 1 .. Total(asked[i])
    <3>1. Total(asked[i]) \in Nat /\ Total(asked[i]) >= 1
      BY Asked, Sizes
    <3> QED  BY <3>1
  <2>2. /\ ends[i] = ends[i - 1] + Total(asked[i])
        /\ ends[i - 1] + Total(asked[i]) \in 1 .. Len(stream)
        /\ stream[ends[i - 1] + Total(asked[i])] =
             [kind |-> Layout(asked[i])[Total(asked[i])], req |-> i]
    BY <2>1, PieceOf
  <2> QED  BY <2>1, <2>2
<1>2. i \notin Parsed
  <2>1. ends[i] \in DOMAIN stream /\ ~ (ends[i] <= at)
    BY <1>1, Lengths DEF TypeOK
  <2> QED  BY <1>1, <2>1 DEF Parsed
<1>3. i \in Parsed'
  <2> SUFFICES ASSUME NEW p \in 1 .. Len(stream), stream[p].req = i
               PROVE  p <= at'
    BY Lengths DEF Parsed
  <2> PICK j \in 1 .. Len(asked) : \E k \in 1 .. Total(asked[j]) : p = ends[j - 1] + k
    BY DEF Placed
  <2> PICK k \in 1 .. Total(asked[j]) : p = ends[j - 1] + k
    OBVIOUS
  <2>1. /\ stream[p] = [kind |-> Layout(asked[j])[k], req |-> j]
        /\ ends[j - 1] \in Nat /\ ends[j] = ends[j - 1] + Total(asked[j])
    BY PieceOf
  <2>2. j = i
    BY <2>1
  <2>3. p <= ends[i] /\ ends[i] = at'
    <3>1. Total(asked[j]) \in Nat
      BY Asked, Sizes
    <3>2. p <= ends[j]
      BY <2>1, <3>1
    <3> QED  BY <2>2, <3>2
  <2> QED  BY <2>3
<1>4. Parsed \cup {i} \in SUBSET Parsed'
  <2> SUFFICES ASSUME NEW j \in Parsed, NEW k \in DOMAIN stream, stream[k].req = j
               PROVE  k <= at'
    BY <1>3 DEF Parsed
  <2>1. k <= at /\ k \in Nat /\ at \in Nat
    BY Lengths DEF Parsed, TypeOK
  <2> QED  BY <2>1
<1>5. IsFiniteSet(Parsed') /\ Cardinality(Parsed') \in Nat
  <2>1. Parsed' \in SUBSET (1 .. Len(asked))
    BY Lengths DEF Parsed
  <2>2. IsFiniteSet(1 .. Len(asked))
    BY Lengths, FS_Interval
  <2> QED  BY <2>1, <2>2, FS_Subset, FS_CardinalityType
<1>6. Cardinality(Parsed \cup {i}) = Cardinality(Parsed) + 1
  BY <1>2, ParsedFinite, FS_AddElement
<1> QED  BY <1>4, <1>5, <1>6, FS_Subset

-----------------------------------------------------------------------------
\* One piece further.

Parsers == [state : {"s_start_req", "s_req_spaces_before_url",
                     "s_req_path", "s_header_field_start",
                     "s_header_field", "s_header_value_discard_ws",
                     "s_header_value", "s_body_identity", "s_dead"},
            minor : {0, 1}, content_length : Nat,
            close : BOOLEAN, keep_alive : BOOLEAN]

Datas == [mPath : Seq(Pieces), mTmpHeader : Seq(Pieces),
          mKeepAlive : BOOLEAN, mBody : Seq(Pieces), isFinish : BOOLEAN]

\* The next piece is number k + 1 of request i.
Here(ends, i, k) ==
  /\ i \in 1 .. Len(asked) /\ k \in 0 .. Total(asked[i]) - 1
  /\ Local(ends) /\ at = ends[i - 1] + k
  /\ Piece = [kind |-> Layout(asked[i])[k + 1], req |-> i] /\ Asking = asked[i]

\* The parser consumes a piece, with some effect on itself and the request.
Consumes ==
  /\ pc = "execute" /\ at < got /\ at' = at + 1
  /\ parser' \in Parsers /\ run' \in Seq(Pieces) /\ data' \in Datas
  /\ run' \in Seq(Seen) /\ data'.mPath \in Seq(Seen)
  /\ UNCHANGED <<conn, peer, pc, got, out>>

LEMMA Inside ==
  ASSUME IInv, at < got
  PROVE  \E ends, i, k :
           /\ Here(ends, i, k)
           /\ ~ Between => /\ k \in 1 .. Total(asked[i]) - 1 /\ Spot(asked[i], k)
                           /\ ~ client.pipe => Filled(i, k)
<1> PICK ends \in [0 .. Len(asked) -> Nat] : Local(ends)
  BY DEF IInv
<1>1. TypeOK /\ Placed(ends) /\ Parsing(ends)
  BY DEF IInv, Local
<1>2. CASE Between
  <2>1. PICK i \in 1 .. Len(asked) : \E k \in 0 .. Total(asked[i]) - 1 :
               /\ at = ends[i - 1] + k
               /\ Piece = [kind |-> Layout(asked[i])[k + 1], req |-> i]
    BY <1>1, SomePiece
  <2>2. PICK k \in 0 .. Total(asked[i]) - 1 :
               /\ at = ends[i - 1] + k
               /\ Piece = [kind |-> Layout(asked[i])[k + 1], req |-> i]
    BY <2>1
  <2>3. Here(ends, i, k)
    BY <2>2 DEF Here, Asking
  <2> QED  BY <1>2, <2>3
<1>3. CASE ~ Between
  <2>1. PICK i \in 1 .. Len(asked) : \E k \in 1 .. Total(asked[i]) - 1 :
               at = ends[i - 1] + k /\ Spot(asked[i], k) /\ (~ client.pipe => Filled(i, k))
    BY <1>1, <1>3 DEF Parsing
  <2>2. PICK k \in 1 .. Total(asked[i]) - 1 :
               at = ends[i - 1] + k /\ Spot(asked[i], k) /\ (~ client.pipe => Filled(i, k))
    BY <2>1
  <2>3. k \in 0 .. Total(asked[i]) - 1
    <3>1. Total(asked[i]) \in Nat
      BY <1>1, Asked, Sizes
    <3> QED  BY <2>2, <3>1
  <2>4. Piece = [kind |-> Layout(asked[i])[k + 1], req |-> i] /\ Asking = asked[i]
    BY <1>1, <2>2, <2>3, NextPiece
  <2>5. Here(ends, i, k)
    BY <2>2, <2>3, <2>4 DEF Here
  <2> QED  BY <2>2, <2>5
<1> QED  BY <1>2, <1>3

\* A place is given by a request and the number of its pieces before it.
LEMMA Boundary ==
  ASSUME TypeOK, NEW ends, Placed(ends), NEW n \in 0 .. Len(asked),
         NEW i \in 1 .. Len(asked), NEW k \in 0 .. Total(asked[i]) - 1,
         ends[n] = ends[i - 1] + k
  PROVE  n = i - 1 /\ k = 0
<1> DEFINE T == Total(asked[i])
<1>1. /\ Len(asked) \in Nat /\ ends[i - 1] \in Nat /\ T \in Nat /\ T > 0
      /\ ends[i] = ends[i - 1] + T /\ k \in 0 .. T - 1
  <2>1. T \in Nat /\ T > 0
    BY Asked, Sizes
  <2>2. 1 \in 1 .. T
    BY <2>1
  <2> QED  BY <2>1, <2>2, Lengths, PieceOf
<1>2. \A x, y \in 0 .. Len(asked) : x <= y => ends[x] <= ends[y]
  BY DEF Placed
<1>3. ends[n] \in Nat
  BY DEF Placed
<1>4. ~ (i <= n)
  <2>1. i \in 0 .. Len(asked) /\ ends[n] < ends[i]
    BY <1>1, <1>3
  <2> QED  BY <1>1, <1>2, <1>3, <2>1
<1>5. ~ (n + 1 <= i - 1)
  <2> SUFFICES ASSUME n + 1 <= i - 1 PROVE FALSE
    OBVIOUS
  <2>1. n + 1 \in 1 .. Len(asked) /\ n + 1 \in 0 .. Len(asked) /\ i - 1 \in 0 .. Len(asked)
        /\ (n + 1) - 1 = n
    BY <1>1
  <2>2. ends[n + 1] <= ends[i - 1]
    BY <1>2, <2>1
  <2>3. Total(asked[n + 1]) \in Nat /\ Total(asked[n + 1]) > 0
    <3> DEFINE r == asked[n + 1]
    <3>1. r \in Request
      BY <2>1, Asked
    <3> HIDE DEF r
    <3>2. /\ r.body \in Nat /\ Before(r) \in {4, 10} /\ Total(r) \in Nat
          /\ EndOf(r) = IF r.body = 0 THEN Before(r) + 1 ELSE Before(r) + 2
          /\ Total(r) = EndOf(r) + r.body
      BY <3>1, Sizes
    <3> QED  BY <3>2 DEF r
  <2>4. ends[n + 1] = ends[n] + Total(asked[n + 1])
    BY <2>1 DEF Placed
  <2> QED  BY <1>1, <1>3, <2>2, <2>3, <2>4
<1> HIDE DEF T
<1>6. n = i - 1
  BY <1>1, <1>4, <1>5
<1> QED  BY <1>1, <1>6

\* What does not depend on the piece.
LEMMA Frame ==
  ASSUME IInv, Consumes, NEW ends, Local(ends)
  PROVE  /\ TypeOK' /\ Known' /\ Sent' /\ Uncut' /\ Serves' /\ Placed(ends)'
         /\ ends \in [0 .. Len(asked) -> Nat]'
<1> USE DEF Consumes, conn, out
<1>1. at' \in Nat /\ at' <= got'
  BY DEF IInv, TypeOK
<1>2. TypeOK'
  BY <1>1 DEF IInv, TypeOK, Parsers, Datas
<1>3. Known'
  BY DEF Known, Seen
<1>7. Sent'
  BY DEF IInv, Sent
<1>4. Uncut'
  BY DEF IInv, Uncut
<1>5. Serves'
  BY DEF Serves
<1>6. Placed(ends)' /\ ends \in [0 .. Len(asked) -> Nat]'
  BY DEF Local, Placed
<1> QED  BY <1>2, <1>3, <1>4, <1>5, <1>6, <1>7

\* Within a request.
LEMMA Further ==
  ASSUME IInv, Consumes, NEW ends, NEW i, NEW k, Here(ends, i, k),
         NEW n \in 1 .. Total(asked[i]) - 1, n = k + 1, ~ Between',
         Spot(asked[i], n)', ~ client.pipe => Filled(i, n)',
         data'.isFinish = data.isFinish
  PROVE  IInv'
<1>1. TypeOK /\ Local(ends) /\ Placed(ends) /\ Single(ends) /\ Counted
  BY DEF IInv, Here, Local
<1>2. /\ TypeOK' /\ Known' /\ Sent' /\ Uncut' /\ Serves' /\ Placed(ends)'
      /\ ends \in [0 .. Len(asked) -> Nat]'
  BY <1>1, Frame
<1>3. UNCHANGED <<client, asked, stream, answers>> /\ at' = at + 1 /\ at \in Nat
  BY <1>1 DEF Consumes, conn, out, TypeOK
<1>4. Counted'
  <2>1. Cardinality(Parsed') \in Nat /\ Cardinality(Parsed) <= Cardinality(Parsed')
    BY <1>1, <1>3, ParsedKept
  <2>2. Cardinality(Parsed) \in Nat
    BY <1>1, ParsedFinite
  <2>3. Len(answers) + (IF data.isFinish THEN 1 ELSE 0) <= Cardinality(Parsed)
    BY <1>1 DEF Counted
  <2>4. Cardinality(Parsed)' = Cardinality(Parsed')
    OBVIOUS
  <2>5. Len(answers) + (IF data.isFinish THEN 1 ELSE 0) \in Int
    <3>1. Len(answers) \in Nat
      BY LenProperties DEF IInv, Sent
    <3> QED  BY <3>1
  <2> QED  BY <1>3, <2>1, <2>2, <2>3, <2>4, <2>5 DEF Counted
<1>5. Parsing(ends)'
  <2>1. i \in 1 .. Len(asked) /\ at' = ends[i - 1] + n
    <3>1. /\ i \in 1 .. Len(asked) /\ k \in 0 .. Total(asked[i]) - 1
          /\ at = ends[i - 1] + k
      BY DEF Here
    <3>2. i - 1 \in 0 .. Len(asked)
      BY <1>1, <3>1, Lengths
    <3>3. ends[i - 1] \in Nat
      BY <1>1, <3>2 DEF Placed
    <3>4. k \in Int
      BY <3>1
    <3> QED  BY <1>3, <3>1, <3>3, <3>4
  <2> QED  BY <1>3, <2>1 DEF Parsing
<1>6. Single(ends)'
  <2> SUFFICES ASSUME ~ client.pipe PROVE Single(ends)'
    BY <1>3 DEF Single
  <2>1. ~ data'.isFinish
    BY DEF Filled
  <2> QED  BY <1>1, <1>3, <2>1 DEF Single, Between
<1> QED  BY <1>2, <1>4, <1>5, <1>6 DEF IInv, Local

\* The last piece of a request.
LEMMA Completes ==
  ASSUME IInv, Consumes, NEW ends, NEW i, Here(ends, i, Total(asked[i]) - 1),
         Between', data'.isFinish,
         ~ client.pipe => i = Len(answers) + 1 /\ Received(i)'
  PROVE  IInv'
<1>1. TypeOK /\ Local(ends) /\ Placed(ends) /\ Single(ends) /\ Counted
  BY DEF IInv, Here, Local
<1>2. /\ TypeOK' /\ Known' /\ Sent' /\ Uncut' /\ Serves' /\ Placed(ends)'
      /\ ends \in [0 .. Len(asked) -> Nat]'
  BY <1>1, Frame
<1>3. UNCHANGED <<client, asked, stream, answers>> /\ at' = at + 1 /\ at \in Nat
  BY <1>1 DEF Consumes, conn, out, TypeOK
<1>4. i \in 1 .. Len(asked) /\ at + 1 = ends[i]
  <2>1. i \in 1 .. Len(asked) /\ at = ends[i - 1] + (Total(asked[i]) - 1)
    BY DEF Here
  <2>2. Total(asked[i]) \in Nat /\ ends[i] = ends[i - 1] + Total(asked[i])
    BY <1>1, <2>1, Asked, Sizes DEF Placed
  <2>3. ends[i - 1] \in Nat
    <3>1. i - 1 \in 0 .. Len(asked)
      BY <1>1, <2>1, Lengths
    <3> QED  BY <1>1, <3>1 DEF Placed
  <2> QED  BY <2>1, <2>2, <2>3
<1>5. Len(answers) \in Nat /\ Len(asked) \in Nat
  BY <1>1, Lengths, LenProperties DEF IInv, Sent
<1>6. Counted'
  <2>1. Cardinality(Parsed') \in Nat /\ Cardinality(Parsed) + 1 <= Cardinality(Parsed')
    BY <1>1, <1>3, <1>4, ParsedGrows
  <2>2. Cardinality(Parsed) \in Nat
    BY <1>1, ParsedFinite
  <2>3. Len(answers) <= Cardinality(Parsed)
    BY <1>1, <1>5, <2>2 DEF Counted
  <2>4. Cardinality(Parsed)' = Cardinality(Parsed')
    OBVIOUS
  <2> QED  BY <1>3, <1>5, <2>1, <2>2, <2>3, <2>4 DEF Counted
<1>7. Parsing(ends)'
  BY DEF Parsing
<1>8. Single(ends)'
  <2> SUFFICES ASSUME ~ client.pipe PROVE Single(ends)'
    BY <1>3 DEF Single
  <2>1. i = Len(answers) + 1 /\ Received(i)'
    OBVIOUS
  <2>2. Len(answers) <= Len(asked) /\ Len(asked) <= Len(answers) + 1
    BY <1>1 DEF Single
  <2>3. i = Len(asked)
    BY <1>4, <1>5, <2>1, <2>2
  <2>4. at' = Len(stream)
    BY <1>1, <1>3, <1>4, <2>3 DEF Placed
  <2> QED  BY <1>3, <2>1, <2>2, <2>3, <2>4 DEF Single
<1> QED  BY <1>2, <1>6, <1>7, <1>8 DEF IInv, Local

\* What holds of a request and its next piece.
LEMMA Place ==
  ASSUME TypeOK, NEW ends, NEW i, NEW k, Here(ends, i, k)
  PROVE  /\ asked[i] \in Request /\ i \in 1 .. Len(asked) /\ i \in 1 .. MaxRequests
         /\ k \in Nat /\ k + 1 \in 1 .. Total(asked[i])
         /\ Piece.kind = Layout(asked[i])[k + 1] /\ Piece.req = i
         /\ Piece \in Pieces /\ Piece \in Seen /\ Piece = [kind |-> Piece.kind, req |-> i]
<1>1. i \in 1 .. Len(asked) /\ asked[i] \in Request /\ k \in 0 .. Total(asked[i]) - 1
      /\ Piece = [kind |-> Layout(asked[i])[k + 1], req |-> i]
  BY Asked DEF Here
<1>2. Total(asked[i]) \in Nat
  BY <1>1, Sizes
<1>3. k \in Nat /\ k + 1 \in 1 .. Total(asked[i])
  BY <1>1, <1>2
<1>4. i \in 1 .. MaxRequests
  BY <1>1, Lengths, HttpAssumption DEF TypeOK
<1>5. Layout(asked[i])[k + 1] \in Kinds
  BY <1>1, <1>3, KindAt
<1> QED  BY <1>1, <1>3, <1>4, <1>5 DEF Pieces, Seen

\* Records of a parser with another state.
LEMMA ToType ==
  ASSUME TypeOK, NEW s \in {"s_start_req", "s_req_spaces_before_url",
                            "s_req_path", "s_header_field_start",
                            "s_header_field", "s_header_value_discard_ws",
                            "s_header_value", "s_body_identity", "s_dead"}
  PROVE  /\ parser \in Parsers /\ To(s) \in Parsers /\ To(s).state = s
         /\ To(s).content_length = parser.content_length
         /\ data \in Datas /\ run \in Seq(Pieces)
<1>1. data \in Datas /\ run \in Seq(Pieces)
  BY DEF TypeOK, Datas
<1>2. parser \in Parsers
  BY DEF TypeOK, Parsers
<1> QED  BY <1>1, <1>2 DEF Parsers, To

\* The body does not grow before the end of the headers.
LEMMA NoBody ==
  ASSUME NEW r \in Request, NEW i, NEW k \in Nat, k + 1 <= EndOf(r)
  PROVE  Str("body", i, k - EndOf(r)) = << >> /\ Str("body", i, k + 1 - EndOf(r)) = << >>
<1>1. EndOf(r) \in Nat
  BY Sizes
<1> QED  BY <1>1, StrEmpty


LEMMA Fills ==
  ASSUME NEW i, NEW n, UNCHANGED <<client, asked, answers>>, i = Len(answers) + 1,
         ~ data'.isFinish, data'.mBody = Str("body", i, n - EndOf(asked[i])),
         ~ client.split => Strings(i, n)'
  PROVE  Filled(i, n)'
<1>1. data'.mBody = Str("body", i, n - EndOf(asked'[i])) /\ i = Len(answers') + 1
  OBVIOUS
<1>2. client' = client
  OBVIOUS
<1> QED  BY <1>1, <1>2 DEF Filled

\* Without pipelining, what comes between requests is the next request.
LEMMA Alone ==
  ASSUME IInv, at < got, Between, ~ client.pipe, NEW ends, NEW i, NEW k, Here(ends, i, k)
  PROVE  /\ i = Len(answers) + 1 /\ k = 0
         /\ parser.state = "s_start_req" /\ ~ data.isFinish /\ data.mBody = << >>
         /\ ~ client.split => ~ data.mKeepAlive
<1>1. TypeOK /\ Placed(ends) /\ Single(ends)
  BY DEF IInv, Here, Local
<1>2. at < Len(stream)
  BY <1>1, Lengths DEF TypeOK
<1>3. ~ data.isFinish
  <2>1. at # Len(stream)
    BY <1>1, <1>2, Lengths DEF TypeOK
  <2> QED  BY <1>1, <2>1 DEF Single
<1>4. parser.state = "s_start_req"
  BY <1>1, <1>3 DEF Single, Between
<1>5. Len(answers) \in 0 .. Len(asked)
  <2>1. Len(answers) \in Nat
    BY LenProperties DEF IInv, Sent
  <2>2. Len(answers) <= Len(asked)
    BY <1>1 DEF Single
  <2>3. Len(asked) \in Nat
    BY <1>1, Lengths
  <2> QED  BY <2>1, <2>2, <2>3
<1>6. at = ends[Len(answers)] /\ data.mBody = << >> /\ (~ client.split => ~ data.mKeepAlive)
  BY <1>1, <1>3, <1>4 DEF Single
<1>7. i \in 1 .. Len(asked) /\ k \in 0 .. Total(asked[i]) - 1 /\ at = ends[i - 1] + k
  BY DEF Here
<1>8. Len(answers) = i - 1 /\ k = 0
  BY <1>1, <1>5, <1>6, <1>7, Boundary
<1>9. i = Len(answers) + 1
  BY <1>1, <1>7, <1>8, Lengths
<1> QED  BY <1>3, <1>4, <1>6, <1>8, <1>9
-----------------------------------------------------------------------------
\* The steps of the parser.

LEMMA StartStep ==
  ASSUME IInv, s_start_req
  PROVE  IInv'
<1>1. /\ pc = "execute" /\ at < got /\ parser.state = "s_start_req" /\ Piece.kind = "method"
      /\ at' = at + 1 /\ run' = run /\ data' = data
      /\ parser' = [http_parser_init EXCEPT !.state = "s_req_spaces_before_url"]
      /\ UNCHANGED <<conn, peer, pc, got, out>>
  BY DEF s_start_req, On, Becomes
<1> PICK ends, i, k : Here(ends, i, k)
  BY <1>1, Inside
<1>2. TypeOK /\ Known
  BY DEF IInv
<1>3. /\ asked[i] \in Request /\ i \in 1 .. Len(asked)
      /\ k \in Nat /\ k + 1 \in 1 .. Total(asked[i]) /\ Layout(asked[i])[k + 1] = "method"
  BY <1>1, <1>2, Place
<1>4. k = 0
  <2>1. k + 1 = 1
    BY <1>3, KindAt
  <2> QED  BY <1>3, <2>1
<1> PICK n : n = k + 1
  OBVIOUS
<1>5. /\ parser' \in Parsers /\ parser'.state = "s_req_spaces_before_url"
      /\ parser'.content_length = 0
  BY <1>1 DEF Parsers, http_parser_init
<1>6. Consumes
  BY <1>1, <1>2, <1>5, ToType DEF Consumes, Known
<1>7. EndOf(asked[i]) \in Nat /\ EndOf(asked[i]) >= 5 /\ Before(asked[i]) \in {4, 10}
      /\ Total(asked[i]) \in Nat /\ Total(asked[i]) >= 5
  BY <1>3, Sizes
<1>8. Spot(asked[i], n)'
  <2>1. asked' = asked /\ n = 1
    BY <1>1, <1>4 DEF conn
  <2> QED  BY <1>5, <1>7, <2>1 DEF Spot
<1>9. ~ client.pipe => Filled(i, n)'
  <2> SUFFICES ASSUME ~ client.pipe PROVE Filled(i, n)'
    OBVIOUS
  <2>1. Between
    BY <1>1 DEF Between
  <2>2. /\ i = Len(answers) + 1 /\ ~ data.isFinish /\ data.mBody = << >>
        /\ ~ client.split => ~ data.mKeepAlive
    BY <1>1, <2>1, Alone
  <2>3. Str("body", i, n - EndOf(asked[i])) = << >>
    BY <1>3, <1>4, <1>7, NoBody
  <2>4. ~ client.split => Strings(i, n)'
    BY <1>1, <1>2, <1>4, <1>5, <2>2 DEF Strings, TypeOK
  <2>5. UNCHANGED <<client, asked, answers>>
    BY <1>1 DEF conn, out
  <2>6. ~ data'.isFinish /\ data'.mBody = Str("body", i, n - EndOf(asked[i]))
    BY <1>1, <2>2, <2>3
  <2> QED  BY <2>2, <2>4, <2>5, <2>6, Fills
<1>10. n \in 1 .. Total(asked[i]) - 1 /\ ~ Between'
  BY <1>4, <1>5, <1>7 DEF Between
<1> QED  BY <1>1, <1>6, <1>8, <1>9, <1>10, Further

\* Only a client that sends ahead can make the parser skip a line end.
LEMMA BlankStep ==
  ASSUME IInv, Blank
  PROVE  IInv'
<1>1. /\ pc = "execute" /\ at < got /\ Between /\ Piece.kind \in {"crlf", "end"}
      /\ at' = at + 1 /\ run' = run /\ data' = data /\ parser' = parser
      /\ UNCHANGED <<conn, peer, pc, got, out>>
  BY DEF Blank, On, Becomes, Between
<1> PICK ends, i, k : Here(ends, i, k)
  BY <1>1, Inside
<1>2. TypeOK /\ Known /\ Local(ends) /\ Placed(ends) /\ Counted
  BY DEF IInv, Here, Local
<1>3. /\ asked[i] \in Request /\ k + 1 \in 1 .. Total(asked[i])
      /\ Layout(asked[i])[k + 1] \in {"crlf", "end"} /\ k \in Nat
  BY <1>1, <1>2, Place
<1>4. client.pipe
  <2> SUFFICES ASSUME ~ client.pipe PROVE FALSE
    OBVIOUS
  <2>1. k = 0
    BY <1>1, Alone
  <2>2. Layout(asked[i])[1] = "method"
    BY <1>3, LayoutShape
  <2> QED  BY <1>3, <2>1, <2>2
<1>5. Consumes
  <2>1. parser' \in Parsers /\ run' \in Seq(Pieces) /\ data' \in Datas
    BY <1>1, <1>2, ToType
  <2> QED  BY <1>1, <1>2, <2>1 DEF Consumes, Known
<1>6. /\ TypeOK' /\ Known' /\ Sent' /\ Uncut' /\ Serves' /\ Placed(ends)'
      /\ ends \in [0 .. Len(asked) -> Nat]'
  BY <1>2, <1>5, Frame
<1>7. Parsing(ends)' /\ Single(ends)'
  BY <1>1, <1>4 DEF Parsing, Single, Between, conn
<1>8. Counted'
  <2>1. UNCHANGED <<asked, stream, answers>> /\ at' \in Nat /\ at <= at'
    BY <1>1, <1>2 DEF conn, out, TypeOK
  <2>2. Cardinality(Parsed') \in Nat /\ Cardinality(Parsed) <= Cardinality(Parsed')
    BY <1>2, <2>1, ParsedKept
  <2>3. Cardinality(Parsed) \in Nat
    BY <1>2, ParsedFinite
  <2>4. Len(answers) \in Nat
    BY LenProperties DEF IInv, Sent
  <2>5. Len(answers) + (IF data.isFinish THEN 1 ELSE 0) <= Cardinality(Parsed)
    BY <1>2 DEF Counted
  <2>6. Cardinality(Parsed)' = Cardinality(Parsed')
    OBVIOUS
  <2> QED  BY <1>1, <2>1, <2>2, <2>3, <2>4, <2>5, <2>6 DEF Counted
<1> QED  BY <1>6, <1>7, <1>8 DEF IInv, Local


\* What a step within the headers has to establish.
LEMMA InHeaders ==
  ASSUME IInv, Consumes, NEW ends, NEW i, NEW k, Here(ends, i, k),
         NEW n \in 1 .. Total(asked[i]) - 1, n = k + 1, n <= EndOf(asked[i]),
         ~ client.pipe => Filled(i, k), ~ Between', Spot(asked[i], n)',
         data'.isFinish = data.isFinish, data'.mBody = data.mBody,
         Strings(i, k) => Strings(i, n)'
  PROVE  IInv'
<1>1. TypeOK
  BY DEF IInv
<1>2. asked[i] \in Request /\ k \in Nat
  BY <1>1, Place
<1>3. ~ client.pipe => Filled(i, n)'
  <2> SUFFICES ASSUME ~ client.pipe PROVE Filled(i, n)'
    OBVIOUS
  <2>1. /\ i = Len(answers) + 1 /\ ~ data.isFinish
        /\ data.mBody = Str("body", i, k - EndOf(asked[i]))
        /\ ~ client.split => Strings(i, k)
    BY DEF Filled
  <2>2. Str("body", i, k - EndOf(asked[i])) = Str("body", i, n - EndOf(asked[i]))
    <3>1. k + 1 <= EndOf(asked[i])
      OBVIOUS
    <3>2. /\ Str("body", i, k - EndOf(asked[i])) = << >>
          /\ Str("body", i, k + 1 - EndOf(asked[i])) = << >>
      BY <1>2, <3>1, NoBody
    <3>3. n - EndOf(asked[i]) = k + 1 - EndOf(asked[i])
      <4>1. EndOf(asked[i]) \in Nat /\ n \in Int
        BY <1>2, Sizes
      <4> QED  BY <1>2, <4>1
    <3> QED  BY <3>2, <3>3
  <2>3. ~ data'.isFinish /\ data'.mBody = Str("body", i, n - EndOf(asked[i]))
    BY <2>1, <2>2
  <2>4. UNCHANGED <<client, asked, answers>>
    BY DEF Consumes, conn, out
  <2> QED  BY <2>1, <2>3, <2>4, Fills
<1> QED  BY <1>3, Further

\* The strings that the parser hands on.
LEMMA RunType ==
  ASSUME IInv, at < got, pc = "execute", at' = at + 1,
         UNCHANGED <<conn, peer, pc, got, out>>, parser' \in Parsers, data' = data,
         run' \in {run, << Piece >>, Append(run, Piece)}
  PROVE  Consumes
<1>1. TypeOK /\ Known
  BY DEF IInv
<1>2. Piece \in Pieces /\ Piece \in Seen
  BY Inside, <1>1, Place
<1>3. run \in Seq(Pieces) /\ run \in Seq(Seen) /\ data \in Datas /\ data.mPath \in Seq(Seen)
  BY <1>1, ToType DEF Known
<1>4. << Piece >> \in Seq(Pieces) /\ << Piece >> \in Seq(Seen)
  BY <1>2
<1>5. Append(run, Piece) \in Seq(Pieces) /\ Append(run, Piece) \in Seq(Seen)
  BY <1>2, <1>3, AppendProperties
<1> QED  BY <1>3, <1>4, <1>5 DEF Consumes

\* A string of two pieces.
LEMMA TwoPieces ==
  ASSUME NEW kind \in Kinds, NEW i
  PROVE  /\ << [kind |-> kind, req |-> i] >> = Str(kind, i, 1)
         /\ Append(Str(kind, i, 1), [kind |-> kind, req |-> i]) = Str(kind, i, 2)
<1>1. 1 \in Nat /\ 1 + 1 = 2
  OBVIOUS
<1>2. Append(Str(kind, i, 1), [kind |-> kind, req |-> i]) = Str(kind, i, 1 + 1)
  BY <1>1, StrGrows
<1> QED  BY <1>1, <1>2, StrGrows

LEMMA Within ==
  ASSUME IInv, at < got, ~ Between
  PROVE  \E ends, i, k :
           /\ Here(ends, i, k) /\ k \in 1 .. Total(asked[i]) - 1 /\ Spot(asked[i], k)
           /\ ~ client.pipe => Filled(i, k)
           /\ asked[i] \in Request /\ i \in 1 .. Len(asked) /\ Asking = asked[i]
           /\ k \in Nat /\ k + 1 \in 1 .. Total(asked[i]) /\ Layout(asked[i])[k + 1] = Piece.kind
           /\ \A kind : Piece.kind = kind => Piece = [kind |-> kind, req |-> i]
           /\ Piece \in Pieces /\ Piece \in Seen
<1>1. PICK ends, i, k :
        /\ Here(ends, i, k) /\ k \in 1 .. Total(asked[i]) - 1 /\ Spot(asked[i], k)
        /\ ~ client.pipe => Filled(i, k)
  BY Inside
<1>2. TypeOK
  BY DEF IInv
<1>3. /\ asked[i] \in Request /\ i \in 1 .. Len(asked)
      /\ k \in Nat /\ k + 1 \in 1 .. Total(asked[i]) /\ Layout(asked[i])[k + 1] = Piece.kind
      /\ Piece \in Pieces /\ Piece \in Seen
  BY <1>1, <1>2, Place
<1>4. Piece = [kind |-> Piece.kind, req |-> i]
  BY <1>1, <1>2, Place
<1>5. Asking = asked[i]
  BY <1>1 DEF Here
<1> QED  BY <1>1, <1>3, <1>4, <1>5

LEMMA FirstOfTwo ==
  ASSUME NEW kind \in Kinds, NEW i
  PROVE  Len(Str(kind, i, 2)) = 2 /\ Str(kind, i, 2)[1] = [kind |-> kind, req |-> i]
<1> DEFINE R == {i}
<1>1. i \in R
  OBVIOUS
<1> HIDE DEF R
<1>2. ASSUME NEW m \in Nat
      PROVE  /\ Len(Str(kind, i, m)) = m
             /\ \A x \in 1 .. m : Str(kind, i, m)[x] = [kind |-> kind, req |-> i]
  BY <1>1, StrType
<1>3. 2 \in Nat /\ 1 \in 1 .. 2
  OBVIOUS
<1> QED  BY <1>2, <1>3

LEMMA UrlStep ==
  ASSUME IInv, Url
  PROVE  IInv'
<1>1. /\ pc = "execute" /\ at < got /\ at' = at + 1
      /\ UNCHANGED <<conn, peer, pc, got, out>> /\ ~ Between
  BY DEF Url, Mark, More, On, Becomes, Between
<1>2. PICK ends, i, k :
        /\ Here(ends, i, k) /\ k \in 1 .. Total(asked[i]) - 1 /\ Spot(asked[i], k)
        /\ ~ client.pipe => Filled(i, k)
        /\ asked[i] \in Request /\ i \in 1 .. Len(asked) /\ Asking = asked[i]
        /\ k \in Nat /\ k + 1 \in 1 .. Total(asked[i]) /\ Layout(asked[i])[k + 1] = Piece.kind
        /\ \A kind : Piece.kind = kind => Piece = [kind |-> kind, req |-> i]
        /\ Piece \in Pieces /\ Piece \in Seen
  BY <1>1, Within
<1> PICK n : n = k + 1
  OBVIOUS
<1>3. TypeOK /\ Known /\ asked' = asked
  BY <1>1 DEF IInv, conn
<1>4. /\ asked[i] \in Request /\ k \in Nat /\ n \in 1 .. Total(asked[i])
      /\ Layout(asked[i])[n] = Piece.kind
      /\ Piece.kind = "url" => Piece = [kind |-> "url", req |-> i]
  BY <1>2
<1>5. /\ EndOf(asked[i]) \in Nat /\ EndOf(asked[i]) >= 5 /\ Before(asked[i]) \in {4, 10}
      /\ Total(asked[i]) \in Nat /\ Total(asked[i]) >= 5
  BY <1>4, Sizes
<1>6. "url" \in Kinds
  BY DEF Kinds
<1>7. CASE Mark("s_req_spaces_before_url", "url", "s_req_path")
  <2>1. /\ parser.state = "s_req_spaces_before_url" /\ Piece.kind = "url"
        /\ parser' = To("s_req_path") /\ run' = << Piece >> /\ data' = data
    BY <1>7 DEF Mark, On, Becomes
  <2>2. k = 1 /\ n = 2
    BY <1>2, <2>1 DEF Spot
  <2>3. parser' \in Parsers /\ parser'.state = "s_req_path"
        /\ parser'.content_length = parser.content_length
    BY <1>3, <2>1, ToType
  <2>4. Consumes
    BY <1>1, <2>1, <2>3, RunType
  <2>5. Spot(asked[i], n)'
    BY <1>2, <1>3, <1>5, <2>2, <2>3 DEF Spot
  <2>6. Strings(i, k) => Strings(i, n)'
    <3>1. run' = Str("url", i, n - 1)
      BY <1>4, <1>6, <2>1, <2>2, TwoPieces
    <3> QED  BY <1>3, <2>1, <2>2, <2>3, <3>1 DEF Strings
  <2> QED  BY <1>2, <1>5, <2>1, <2>2, <2>3, <2>4, <2>5, <2>6, InHeaders DEF Between
<1>8. CASE More("s_req_path", "url")
  <2>1. /\ parser.state = "s_req_path" /\ Piece.kind = "url"
        /\ parser' = parser /\ run' = Append(run, Piece) /\ data' = data
    BY <1>8 DEF More, On, Becomes
  <2>2. k = 2 /\ n = 3
    <3>1. k \in {2, 3}
      BY <1>2, <2>1 DEF Spot
    <3>2. Layout(asked[i])[n] = "url"
      BY <1>4, <2>1
    <3>3. n \in {2, 3}
      BY <1>4, <3>2, KindAt
    <3> QED  BY <3>1, <3>3
  <2>3. parser' \in Parsers
    BY <1>3, <2>1, ToType
  <2>4. Consumes
    BY <1>1, <2>1, <2>3, RunType
  <2>5. Spot(asked[i], n)'
    BY <1>2, <1>3, <1>5, <2>1, <2>2 DEF Spot
  <2>6. Strings(i, k) => Strings(i, n)'
    <3> SUFFICES ASSUME Strings(i, k) PROVE Strings(i, n)'
      OBVIOUS
    <3>1. run = Str("url", i, 1)
      BY <2>1, <2>2 DEF Strings
    <3>2. run' = Str("url", i, n - 1)
      BY <1>4, <1>6, <2>1, <2>2, <3>1, TwoPieces
    <3> QED  BY <1>3, <2>1, <2>2, <3>2 DEF Strings
  <2> QED  BY <1>2, <1>5, <2>1, <2>2, <2>4, <2>5, <2>6, InHeaders DEF Between
<1>9. CASE /\ On("s_req_path", "version")
           /\ Becomes([To("s_header_field_start") EXCEPT !.minor = Asking.minor],
                      run, request_url_callback(data, run))
  <2>1. /\ parser.state = "s_req_path" /\ Piece.kind = "version"
        /\ parser' = [To("s_header_field_start") EXCEPT !.minor = Asking.minor]
        /\ run' = run /\ data' = [data EXCEPT !.mPath = run]
    BY <1>9 DEF On, Becomes, request_url_callback
  <2>2. k = 3 /\ n = 4
    <3>1. Layout(asked[i])[n] = "version"
      BY <1>4, <2>1
    <3>2. n = 4
      BY <1>4, <3>1, KindAt
    <3> QED  BY <1>4, <3>2
  <2>3. parser' \in Parsers /\ parser'.state = "s_header_field_start"
        /\ parser'.content_length = parser.content_length
    <3>1. Asking.minor \in {0, 1}
      BY <1>2, Sizes
    <3>2. /\ To("s_header_field_start") \in Parsers
          /\ To("s_header_field_start").state = "s_header_field_start"
          /\ To("s_header_field_start").content_length = parser.content_length
      BY <1>3, ToType
    <3> QED  BY <2>1, <3>1, <3>2 DEF Parsers
  <2>4. /\ data' \in Datas /\ data'.mPath = run /\ data'.isFinish = data.isFinish
        /\ data'.mBody = data.mBody /\ data'.mKeepAlive = data.mKeepAlive
    BY <1>3, <2>1 DEF TypeOK, Datas
  <2>5. Consumes
    BY <1>1, <1>3, <2>1, <2>3, <2>4, ToType DEF Consumes, Known
  <2>6. Spot(asked[i], n)'
    BY <1>2, <1>3, <1>5, <2>2, <2>3 DEF Spot
  <2>7. Strings(i, k) => Strings(i, n)'
    BY <1>3, <2>1, <2>2, <2>3, <2>4 DEF Strings
  <2> QED  BY <1>2, <1>5, <2>2, <2>3, <2>4, <2>5, <2>6, <2>7, InHeaders DEF Between
<1> QED  BY <1>7, <1>8, <1>9 DEF Url


LEMMA HeaderFieldStep ==
  ASSUME IInv, HeaderField
  PROVE  IInv'
<1>1. /\ pc = "execute" /\ at < got /\ at' = at + 1
      /\ UNCHANGED <<conn, peer, pc, got, out>> /\ ~ Between
  BY DEF HeaderField, Mark, More, On, Becomes, Between
<1>2. PICK ends, i, k :
        /\ Here(ends, i, k) /\ k \in 1 .. Total(asked[i]) - 1 /\ Spot(asked[i], k)
        /\ ~ client.pipe => Filled(i, k)
        /\ asked[i] \in Request /\ i \in 1 .. Len(asked) /\ Asking = asked[i]
        /\ k \in Nat /\ k + 1 \in 1 .. Total(asked[i]) /\ Layout(asked[i])[k + 1] = Piece.kind
        /\ \A kind : Piece.kind = kind => Piece = [kind |-> kind, req |-> i]
        /\ Piece \in Pieces /\ Piece \in Seen
  BY <1>1, Within
<1> PICK n : n = k + 1
  OBVIOUS
<1>3. TypeOK /\ Known /\ asked' = asked
  BY <1>1 DEF IInv, conn
<1>4. /\ asked[i] \in Request /\ k \in Nat /\ n \in 1 .. Total(asked[i])
      /\ Layout(asked[i])[n] = Piece.kind
      /\ Piece.kind = "name" => Piece = [kind |-> "name", req |-> i]
  BY <1>2
<1>5. /\ EndOf(asked[i]) \in Nat /\ Total(asked[i]) \in Nat /\ Total(asked[i]) >= EndOf(asked[i])
      /\ Before(asked[i]) \in {4, 10} /\ EndOf(asked[i]) >= Before(asked[i]) + 1
      /\ Before(asked[i]) = 4 <=> asked[i].conn = "none"
  BY <1>4, Sizes
<1>6. "name" \in Kinds
  BY DEF Kinds
<1>7. CASE Mark("s_header_field_start", "name", "s_header_field")
  <2>1. /\ parser.state = "s_header_field_start" /\ Piece.kind = "name"
        /\ parser' = To("s_header_field") /\ run' = << Piece >> /\ data' = data
    BY <1>7 DEF Mark, On, Becomes
  <2>2. k = 4 /\ n = 5 /\ asked[i].conn # "none"
    <3>1. Layout(asked[i])[n] = "name"
      BY <1>4, <2>1
    <3>2. n \in {5, 6} /\ asked[i].conn # "none"
      BY <1>4, <3>1, KindAt
    <3>3. k = 4 \/ k = 10 \/ k = Before(asked[i]) + 1
      BY <1>2, <2>1 DEF Spot
    <3> QED  BY <1>4, <1>5, <3>2, <3>3
  <2>3. parser' \in Parsers /\ parser'.state = "s_header_field"
        /\ parser'.content_length = parser.content_length
    BY <1>3, <2>1, ToType
  <2>4. Consumes
    BY <1>1, <2>1, <2>3, RunType
  <2>5. Spot(asked[i], n)'
    BY <1>2, <1>3, <1>5, <2>2, <2>3 DEF Spot
  <2>6. Strings(i, k) => Strings(i, n)'
    <3>1. run' = Str("name", i, n - 4)
      BY <1>4, <1>6, <2>1, <2>2, TwoPieces
    <3> QED  BY <1>3, <2>1, <2>2, <2>3, <3>1 DEF Strings
  <2> QED  BY <1>2, <1>5, <2>1, <2>2, <2>3, <2>4, <2>5, <2>6, InHeaders DEF Between
<1>8. CASE More("s_header_field", "name")
  <2>1. /\ parser.state = "s_header_field" /\ Piece.kind = "name"
        /\ parser' = parser /\ run' = Append(run, Piece) /\ data' = data
    BY <1>8 DEF More, On, Becomes
  <2>2. k = 5 /\ n = 6 /\ asked[i].conn # "none"
    <3>1. Layout(asked[i])[n] = "name"
      BY <1>4, <2>1
    <3>2. n \in {5, 6} /\ asked[i].conn # "none"
      BY <1>4, <3>1, KindAt
    <3>3. k \in {5, 6}
      BY <1>2, <2>1 DEF Spot
    <3> QED  BY <3>2, <3>3
  <2>3. parser' \in Parsers
    BY <1>3, <2>1, ToType
  <2>4. Consumes
    BY <1>1, <2>1, <2>3, RunType
  <2>5. Spot(asked[i], n)'
    BY <1>2, <1>3, <1>5, <2>1, <2>2 DEF Spot
  <2>6. Strings(i, k) => Strings(i, n)'
    <3> SUFFICES ASSUME Strings(i, k) PROVE Strings(i, n)'
      OBVIOUS
    <3>1. run = Str("name", i, 1)
      BY <2>1, <2>2 DEF Strings
    <3>2. run' = Str("name", i, n - 4)
      BY <1>4, <1>6, <2>1, <2>2, <3>1, TwoPieces
    <3> QED  BY <1>3, <2>1, <2>2, <3>2 DEF Strings
  <2> QED  BY <1>2, <1>5, <2>1, <2>2, <2>4, <2>5, <2>6, InHeaders DEF Between
<1>9. CASE /\ On("s_header_field", "colon")
           /\ Becomes(To("s_header_value_discard_ws"), run,
                      request_header_field_callback(data, run))
  <2>1. /\ parser.state = "s_header_field" /\ Piece.kind = "colon"
        /\ parser' = To("s_header_value_discard_ws")
        /\ run' = run /\ data' = [data EXCEPT !.mTmpHeader = run]
    BY <1>9 DEF On, Becomes, request_header_field_callback
  <2>2. k = 6 /\ n = 7 /\ asked[i].conn # "none"
    <3>1. Layout(asked[i])[n] = "colon"
      BY <1>4, <2>1
    <3>2. n = 7 /\ asked[i].conn # "none"
      BY <1>4, <3>1, KindAt
    <3> QED  BY <1>4, <3>2
  <2>3. parser' \in Parsers /\ parser'.state = "s_header_value_discard_ws"
        /\ parser'.content_length = parser.content_length
    BY <1>3, <2>1, ToType
  <2>4. /\ data' \in Datas /\ data'.mTmpHeader = run /\ data'.isFinish = data.isFinish
        /\ data'.mBody = data.mBody /\ data'.mKeepAlive = data.mKeepAlive
        /\ data'.mPath = data.mPath
    BY <1>3, <2>1 DEF TypeOK, Datas
  <2>5. Consumes
    BY <1>1, <1>3, <2>1, <2>3, <2>4, ToType DEF Consumes, Known
  <2>6. Spot(asked[i], n)'
    BY <1>2, <1>3, <1>5, <2>2, <2>3 DEF Spot
  <2>7. Strings(i, k) => Strings(i, n)'
    BY <1>3, <2>1, <2>2, <2>3, <2>4 DEF Strings
  <2> QED  BY <1>2, <1>5, <2>2, <2>3, <2>4, <2>5, <2>6, <2>7, InHeaders DEF Between
<1> QED  BY <1>7, <1>8, <1>9 DEF HeaderField


LEMMA HeaderValueStep ==
  ASSUME IInv, HeaderValue
  PROVE  IInv'
<1>1. /\ pc = "execute" /\ at < got /\ at' = at + 1
      /\ UNCHANGED <<conn, peer, pc, got, out>> /\ ~ Between
  BY DEF HeaderValue, Mark, More, On, Becomes, Between
<1>2. PICK ends, i, k :
        /\ Here(ends, i, k) /\ k \in 1 .. Total(asked[i]) - 1 /\ Spot(asked[i], k)
        /\ ~ client.pipe => Filled(i, k)
        /\ asked[i] \in Request /\ i \in 1 .. Len(asked) /\ Asking = asked[i]
        /\ k \in Nat /\ k + 1 \in 1 .. Total(asked[i]) /\ Layout(asked[i])[k + 1] = Piece.kind
        /\ \A kind : Piece.kind = kind => Piece = [kind |-> kind, req |-> i]
        /\ Piece \in Pieces /\ Piece \in Seen
  BY <1>1, Within
<1> PICK n : n = k + 1
  OBVIOUS
<1>3. TypeOK /\ Known /\ asked' = asked
  BY <1>1 DEF IInv, conn
<1>4. /\ asked[i] \in Request /\ k \in Nat /\ n \in 1 .. Total(asked[i])
      /\ Layout(asked[i])[n] = Piece.kind
      /\ Piece.kind = "value" => Piece = [kind |-> "value", req |-> i]
  BY <1>2
<1>5. /\ EndOf(asked[i]) \in Nat /\ Total(asked[i]) \in Nat /\ Total(asked[i]) >= EndOf(asked[i])
      /\ Before(asked[i]) \in {4, 10} /\ EndOf(asked[i]) >= Before(asked[i]) + 1
      /\ Before(asked[i]) = 4 <=> asked[i].conn = "none"
  BY <1>4, Sizes
<1>6. "value" \in Kinds
  BY DEF Kinds
<1>7. CASE Mark("s_header_value_discard_ws", "value", "s_header_value")
  <2>1. /\ parser.state = "s_header_value_discard_ws" /\ Piece.kind = "value"
        /\ parser' = To("s_header_value") /\ run' = << Piece >> /\ data' = data
    BY <1>7 DEF Mark, On, Becomes
  <2>2. k = 7 /\ n = 8 /\ asked[i].conn # "none"
    <3>1. Layout(asked[i])[n] = "value"
      BY <1>4, <2>1
    <3>2. n \in {8, 9} /\ asked[i].conn # "none"
      BY <1>4, <3>1, KindAt
    <3>3. k = 7
      BY <1>2, <2>1 DEF Spot
    <3> QED  BY <1>4, <1>5, <3>2, <3>3
  <2>3. parser' \in Parsers /\ parser'.state = "s_header_value"
        /\ parser'.content_length = parser.content_length
    BY <1>3, <2>1, ToType
  <2>4. Consumes
    BY <1>1, <2>1, <2>3, RunType
  <2>5. Spot(asked[i], n)'
    BY <1>2, <1>3, <1>5, <2>2, <2>3 DEF Spot
  <2>6. Strings(i, k) => Strings(i, n)'
    <3>1. run' = Str("value", i, n - 7)
      BY <1>4, <1>6, <2>1, <2>2, TwoPieces
    <3> QED  BY <1>3, <2>1, <2>2, <2>3, <3>1 DEF Strings
  <2> QED  BY <1>2, <1>5, <2>1, <2>2, <2>3, <2>4, <2>5, <2>6, InHeaders DEF Between
<1>8. CASE More("s_header_value", "value")
  <2>1. /\ parser.state = "s_header_value" /\ Piece.kind = "value"
        /\ parser' = parser /\ run' = Append(run, Piece) /\ data' = data
    BY <1>8 DEF More, On, Becomes
  <2>2. k = 8 /\ n = 9 /\ asked[i].conn # "none"
    <3>1. Layout(asked[i])[n] = "value"
      BY <1>4, <2>1
    <3>2. n \in {8, 9} /\ asked[i].conn # "none"
      BY <1>4, <3>1, KindAt
    <3>3. k \in {8, 9}
      BY <1>2, <2>1 DEF Spot
    <3> QED  BY <3>2, <3>3
  <2>3. parser' \in Parsers
    BY <1>3, <2>1, ToType
  <2>4. Consumes
    BY <1>1, <2>1, <2>3, RunType
  <2>5. Spot(asked[i], n)'
    BY <1>2, <1>3, <1>5, <2>1, <2>2 DEF Spot
  <2>6. Strings(i, k) => Strings(i, n)'
    <3> SUFFICES ASSUME Strings(i, k) PROVE Strings(i, n)'
      OBVIOUS
    <3>1. run = Str("value", i, 1)
      BY <2>1, <2>2 DEF Strings
    <3>2. run' = Str("value", i, n - 7)
      BY <1>4, <1>6, <2>1, <2>2, <3>1, TwoPieces
    <3> QED  BY <1>3, <2>1, <2>2, <3>2 DEF Strings
  <2> QED  BY <1>2, <1>5, <2>1, <2>2, <2>4, <2>5, <2>6, InHeaders DEF Between
<1> QED  BY <1>7, <1>8 DEF HeaderValue

LEMMA HeaderEndStep ==
  ASSUME IInv, HeaderEnd
  PROVE  IInv'
<1>1. /\ pc = "execute" /\ at < got /\ at' = at + 1
      /\ UNCHANGED <<conn, peer, pc, got, out>> /\ ~ Between
  BY DEF HeaderEnd, On, Becomes, Between
<1>2. PICK ends, i, k :
        /\ Here(ends, i, k) /\ k \in 1 .. Total(asked[i]) - 1 /\ Spot(asked[i], k)
        /\ ~ client.pipe => Filled(i, k)
        /\ asked[i] \in Request /\ i \in 1 .. Len(asked) /\ Asking = asked[i]
        /\ k \in Nat /\ k + 1 \in 1 .. Total(asked[i]) /\ Layout(asked[i])[k + 1] = Piece.kind
        /\ \A kind : Piece.kind = kind => Piece = [kind |-> kind, req |-> i]
        /\ Piece \in Pieces /\ Piece \in Seen
  BY <1>1, Within
<1> PICK n : n = k + 1
  OBVIOUS
<1>3. TypeOK /\ Known /\ asked' = asked
  BY <1>1 DEF IInv, conn
<1>4. /\ asked[i] \in Request /\ k \in Nat /\ n \in 1 .. Total(asked[i])
      /\ Layout(asked[i])[n] = Piece.kind
  BY <1>2
<1>5. /\ EndOf(asked[i]) \in Nat /\ Total(asked[i]) \in Nat /\ Total(asked[i]) >= EndOf(asked[i])
      /\ Before(asked[i]) \in {4, 10} /\ EndOf(asked[i]) >= Before(asked[i]) + 1
      /\ Before(asked[i]) = 4 <=> asked[i].conn = "none"
  BY <1>4, Sizes
<1>6. "name" \in Kinds /\ "value" \in Kinds
  BY DEF Kinds
<1>7. /\ parser.state = "s_header_value" /\ Piece.kind = "crlf" /\ run' = run
      /\ data' = request_header_value_callback(data, run)
      /\ parser' = [To("s_header_field_start") EXCEPT
                      !.close = Asking.conn = "close",
                      !.keep_alive = Asking.conn = "keep-alive"]
  BY DEF HeaderEnd, On, Becomes
<1>8. k = 9 /\ n = 10 /\ asked[i].conn # "none" /\ Before(asked[i]) = 10
  <2>1. Layout(asked[i])[n] = "crlf"
    BY <1>4, <1>7
  <2>2. n = 10 /\ asked[i].conn # "none"
    BY <1>4, <2>1, KindAt
  <2> QED  BY <1>4, <1>5, <2>2
<1>9. /\ parser' \in Parsers /\ parser'.state = "s_header_field_start"
      /\ parser'.content_length = parser.content_length
  <2>1. /\ To("s_header_field_start") \in Parsers
        /\ To("s_header_field_start").state = "s_header_field_start"
        /\ To("s_header_field_start").content_length = parser.content_length
    BY <1>3, ToType
  <2> QED  BY <1>7, <2>1 DEF Parsers
<1>10. /\ data' \in Datas /\ data'.isFinish = data.isFinish /\ data'.mBody = data.mBody
       /\ data'.mPath = data.mPath
       /\ data'.mKeepAlive = IF IsConnection(data.mTmpHeader) THEN ~ IsClose(run)
                             ELSE data.mKeepAlive
  <2>1. data \in Datas
    BY <1>3, ToType
  <2>2. (~ IsClose(run)) \in BOOLEAN
    OBVIOUS
  <2>3. CASE IsConnection(data.mTmpHeader)
    <3>1. data' = [data EXCEPT !.mKeepAlive = ~ IsClose(run)]
      BY <1>7, <2>3 DEF request_header_value_callback
    <3> QED  BY <2>1, <2>2, <2>3, <3>1 DEF Datas
  <2>4. CASE ~ IsConnection(data.mTmpHeader)
    <3>1. data' = data
      BY <1>7, <2>4 DEF request_header_value_callback
    <3> QED  BY <2>1, <2>4, <3>1
  <2> QED  BY <2>3, <2>4
<1>11. Consumes
  BY <1>1, <1>3, <1>7, <1>9, <1>10, ToType DEF Consumes, Known
<1>12. Spot(asked[i], n)'
  BY <1>2, <1>3, <1>8, <1>9 DEF Spot
<1>13. Strings(i, k) => Strings(i, n)'
  <2> SUFFICES ASSUME Strings(i, k) PROVE Strings(i, n)'
    OBVIOUS
  <2>1. /\ run = Str("value", i, 2) /\ data.mTmpHeader = Str("name", i, 2)
        /\ data.mPath = Str("url", i, 2)
    BY <1>7, <1>8 DEF Strings
  <2>2. IsConnection(data.mTmpHeader)
    <3>1. /\ Len(Str("name", i, 2)) = 2
          /\ Str("name", i, 2)[1] = [kind |-> "name", req |-> i]
      BY <1>6, FirstOfTwo
    <3> QED  BY <2>1, <3>1 DEF IsConnection, Whole
  <2>3. IsClose(run) <=> asked[i].conn = "close"
    <3>1. /\ Len(Str("value", i, 2)) = 2
          /\ Str("value", i, 2)[1] = [kind |-> "value", req |-> i]
      BY <1>6, FirstOfTwo
    <3> QED  BY <2>1, <3>1 DEF IsClose, Whole
  <2>4. asked[i].conn \in {"close", "keep-alive"}
    BY <1>4, <1>8, Sizes
  <2>5. data'.mKeepAlive = (n >= 10 /\ asked[i].conn = "keep-alive")
    BY <1>8, <1>10, <2>2, <2>3, <2>4
  <2> QED  BY <1>3, <1>8, <1>9, <1>10, <2>1, <2>5 DEF Strings
<1> QED  BY <1>2, <1>5, <1>8, <1>9, <1>10, <1>11, <1>12, <1>13, InHeaders DEF Between

LEMMA ContentLengthStep ==
  ASSUME IInv, ContentLength
  PROVE  IInv'
<1>1. /\ pc = "execute" /\ at < got /\ at' = at + 1
      /\ UNCHANGED <<conn, peer, pc, got, out>> /\ ~ Between
  BY DEF ContentLength, On, Becomes, Between
<1>2. PICK ends, i, k :
        /\ Here(ends, i, k) /\ k \in 1 .. Total(asked[i]) - 1 /\ Spot(asked[i], k)
        /\ ~ client.pipe => Filled(i, k)
        /\ asked[i] \in Request /\ i \in 1 .. Len(asked) /\ Asking = asked[i]
        /\ k \in Nat /\ k + 1 \in 1 .. Total(asked[i]) /\ Layout(asked[i])[k + 1] = Piece.kind
        /\ \A kind : Piece.kind = kind => Piece = [kind |-> kind, req |-> i]
        /\ Piece \in Pieces /\ Piece \in Seen
  BY <1>1, Within
<1> PICK n : n = k + 1
  OBVIOUS
<1>3. TypeOK /\ Known /\ asked' = asked
  BY <1>1 DEF IInv, conn
<1>4. /\ asked[i] \in Request /\ k \in Nat /\ n \in 1 .. Total(asked[i])
      /\ Layout(asked[i])[n] = Piece.kind
  BY <1>2
<1>5. /\ EndOf(asked[i]) \in Nat /\ Total(asked[i]) \in Nat /\ Total(asked[i]) >= EndOf(asked[i])
      /\ Before(asked[i]) \in {4, 10} /\ EndOf(asked[i]) >= Before(asked[i]) + 1
      /\ Before(asked[i]) = 4 <=> asked[i].conn = "none"
  BY <1>4, Sizes
<1>6. /\ parser.state = "s_header_field_start" /\ Piece.kind = "length" /\ run' = run
      /\ data' = request_header_value_callback(
                   request_header_field_callback(data, << Piece >>), << Piece >>)
      /\ parser' = [parser EXCEPT !.content_length = Asking.body]
  BY DEF ContentLength, On, Becomes
<1>7. /\ asked[i].body # 0 /\ n = Before(asked[i]) + 1 /\ k = Before(asked[i])
      /\ EndOf(asked[i]) = n + 1 /\ asked[i].body \in Nat
  <2>1. Layout(asked[i])[n] = "length"
    BY <1>4, <1>6
  <2>2. asked[i].body # 0 /\ n = Before(asked[i]) + 1
    BY <1>4, <2>1, KindAt
  <2> QED  BY <1>4, <1>5, <2>2, Sizes
<1>8. /\ parser' \in Parsers /\ parser'.state = "s_header_field_start"
      /\ parser'.content_length = asked[i].body
  BY <1>2, <1>3, <1>6, <1>7, ToType DEF Parsers
<1>9. data' = [data EXCEPT !.mTmpHeader = << Piece >>]
  <2>1. data \in Datas
    BY <1>3, ToType
  <2> DEFINE d == [data EXCEPT !.mTmpHeader = << Piece >>]
  <2>2. d.mTmpHeader = << Piece >> /\ Len(<< Piece >>) = 1
    BY <2>1 DEF Datas
  <2>3. ~ IsConnection(d.mTmpHeader)
    BY <2>2 DEF IsConnection, Whole
  <2> HIDE DEF d
  <2>4. request_header_value_callback(d, << Piece >>) = d
    BY <2>3 DEF request_header_value_callback
  <2> QED  BY <1>6, <2>4 DEF d, request_header_field_callback
<1>10. /\ data' \in Datas /\ data'.isFinish = data.isFinish /\ data'.mBody = data.mBody
       /\ data'.mPath = data.mPath /\ data'.mKeepAlive = data.mKeepAlive
  <2>1. data \in Datas /\ << Piece >> \in Seq(Pieces)
    BY <1>2, <1>3, ToType
  <2> QED  BY <1>9, <2>1 DEF Datas
<1>11. Consumes
  BY <1>1, <1>3, <1>6, <1>8, <1>10, ToType DEF Consumes, Known
<1>12. Spot(asked[i], n)'
  <2>1. ~ (n <= Before(asked[i])) /\ n <= EndOf(asked[i])
    BY <1>4, <1>5, <1>7
  <2> QED  BY <1>3, <1>7, <1>8, <2>1 DEF Spot
<1>13. Strings(i, k) => Strings(i, n)'
  <2> SUFFICES ASSUME Strings(i, k) PROVE Strings(i, n)'
    OBVIOUS
  <2>1. k >= 4 /\ n >= 4
    BY <1>4, <1>5, <1>7
  <2>2. data'.mPath = Str("url", i, 2)
    BY <1>10, <2>1 DEF Strings
  <2>3. data.mKeepAlive = (k >= 10 /\ asked[i].conn = "keep-alive")
    BY DEF Strings
  <2>4. data'.mKeepAlive = (n >= 10 /\ asked[i].conn = "keep-alive")
    <3>1. CASE asked[i].conn = "none"
      BY <1>10, <2>3, <3>1
    <3>2. CASE asked[i].conn # "none"
      <4>1. k >= 10 /\ n >= 10
        BY <1>4, <1>5, <1>7, <3>2
      <4> QED  BY <1>10, <2>3, <4>1
    <3> QED  BY <3>1, <3>2
  <2> QED  BY <1>3, <1>8, <2>2, <2>4 DEF Strings
<1> QED  BY <1>2, <1>4, <1>5, <1>7, <1>8, <1>10, <1>11, <1>12, <1>13, InHeaders DEF Between


\* What follows a complete request.
LEMMA NewMessage ==
  ASSUME NEW p \in Parsers
  PROVE  /\ NEW_MESSAGE(p) \in {"s_start_req", "s_dead"}
         /\ [p EXCEPT !.state = NEW_MESSAGE(p)] \in Parsers
         /\ [p EXCEPT !.state = NEW_MESSAGE(p)].state = NEW_MESSAGE(p)
<1>1. NEW_MESSAGE(p) \in {"s_start_req", "s_dead"}
  BY DEF NEW_MESSAGE
<1> QED  BY <1>1 DEF Parsers

LEMMA HeadersDoneStep ==
  ASSUME IInv, s_headers_done
  PROVE  IInv'
<1>1. /\ pc = "execute" /\ at < got /\ at' = at + 1
      /\ UNCHANGED <<conn, peer, pc, got, out>> /\ ~ Between
  BY DEF s_headers_done, On, Becomes, Between
<1>2. PICK ends, i, k :
        /\ Here(ends, i, k) /\ k \in 1 .. Total(asked[i]) - 1 /\ Spot(asked[i], k)
        /\ ~ client.pipe => Filled(i, k)
        /\ asked[i] \in Request /\ i \in 1 .. Len(asked) /\ Asking = asked[i]
        /\ k \in Nat /\ k + 1 \in 1 .. Total(asked[i]) /\ Layout(asked[i])[k + 1] = Piece.kind
        /\ \A kind : Piece.kind = kind => Piece = [kind |-> kind, req |-> i]
        /\ Piece \in Pieces /\ Piece \in Seen
  BY <1>1, Within
<1> PICK n : n = k + 1
  OBVIOUS
<1>3. TypeOK /\ Known /\ asked' = asked
  BY <1>1 DEF IInv, conn
<1>4. /\ asked[i] \in Request /\ k \in Nat /\ n \in 1 .. Total(asked[i])
      /\ Layout(asked[i])[n] = Piece.kind
  BY <1>2
<1>5. /\ EndOf(asked[i]) \in Nat /\ Total(asked[i]) \in Nat
      /\ Total(asked[i]) = EndOf(asked[i]) + asked[i].body /\ asked[i].body \in Nat
      /\ Before(asked[i]) \in {4, 10} /\ (Before(asked[i]) = 4 <=> asked[i].conn = "none")
      /\ EndOf(asked[i]) = IF asked[i].body = 0 THEN Before(asked[i]) + 1
                           ELSE Before(asked[i]) + 2
  BY <1>4, Sizes
<1>6. /\ parser.state = "s_header_field_start" /\ Piece.kind = "end" /\ run' = run
      /\ parser.content_length = 0 =>
           parser' = To(NEW_MESSAGE(parser)) /\ data' = request_body_complete(data)
      /\ parser.content_length # 0 => parser' = To("s_body_identity") /\ data' = data
  BY DEF s_headers_done, On, Becomes
<1>7. n = EndOf(asked[i]) /\ k >= 4 /\ (asked[i].conn # "none" <=> k >= 10)
  <2>1. Layout(asked[i])[n] = "end"
    BY <1>4, <1>6
  <2>2. n = EndOf(asked[i])
    BY <1>4, <2>1, KindAt
  <2> QED  BY <1>4, <1>5, <2>2
<1>8. parser.content_length = asked[i].body /\ parser \in Parsers /\ data \in Datas
  <2>1. parser.content_length = IF k <= Before(asked[i]) THEN 0
                                ELSE IF k <= EndOf(asked[i]) THEN asked[i].body
                                ELSE Total(asked[i]) - k
    BY <1>2 DEF Spot
  <2>2. IF asked[i].body = 0 THEN k <= Before(asked[i])
        ELSE ~ (k <= Before(asked[i])) /\ k <= EndOf(asked[i])
    BY <1>4, <1>5, <1>7
  <2>3. parser.content_length = asked[i].body
    BY <2>1, <2>2
  <2> QED  BY <1>3, <2>3, ToType
<1>9. CASE asked[i].body # 0
  <2>1. parser' = To("s_body_identity") /\ data' = data
    BY <1>6, <1>8, <1>9
  <2>2. /\ parser' \in Parsers /\ parser'.state = "s_body_identity"
        /\ parser'.content_length = asked[i].body
    BY <1>3, <1>8, <2>1, ToType
  <2>3. Consumes
    BY <1>1, <1>6, <2>1, <2>2, RunType
  <2>4. Spot(asked[i], n)'
    <3>1. ~ (n <= Before(asked[i])) /\ n <= EndOf(asked[i]) /\ EndOf(asked[i]) <= n
      BY <1>4, <1>5, <1>7
    <3> QED  BY <1>3, <2>2, <3>1 DEF Spot
  <2>5. Strings(i, k) => Strings(i, n)'
    <3> SUFFICES ASSUME Strings(i, k) PROVE Strings(i, n)'
      OBVIOUS
    <3>1. data'.mPath = Str("url", i, 2)
      BY <1>7, <2>1 DEF Strings
    <3>2. data'.mKeepAlive = (n >= 10 /\ asked[i].conn = "keep-alive")
      <4>1. data.mKeepAlive = (k >= 10 /\ asked[i].conn = "keep-alive")
        BY DEF Strings
      <4>2. asked[i].conn = "keep-alive" => k >= 10 /\ n >= 10
        BY <1>4, <1>7
      <4> QED  BY <2>1, <4>1, <4>2
    <3> QED  BY <1>3, <2>2, <3>1, <3>2 DEF Strings
  <2>6. n \in 1 .. Total(asked[i]) - 1 /\ n <= EndOf(asked[i])
    BY <1>4, <1>5, <1>7, <1>9
  <2> QED  BY <1>2, <2>1, <2>2, <2>3, <2>4, <2>5, <2>6, InHeaders DEF Between
<1>10. CASE asked[i].body = 0
  <2>1. /\ parser' = [parser EXCEPT !.state = NEW_MESSAGE(parser)]
        /\ data' = [data EXCEPT !.isFinish = TRUE]
    BY <1>6, <1>8, <1>10 DEF To, request_body_complete
  <2>2. parser' \in Parsers /\ Between'
    BY <1>8, <2>1, NewMessage DEF Between
  <2>3. /\ data' \in Datas /\ data'.isFinish /\ data'.mBody = data.mBody
        /\ data'.mPath = data.mPath /\ data'.mKeepAlive = data.mKeepAlive
    BY <1>8, <2>1 DEF Datas
  <2>4. Consumes
    BY <1>1, <1>3, <1>6, <2>2, <2>3, ToType DEF Consumes, Known
  <2>5. k = Total(asked[i]) - 1
    BY <1>4, <1>5, <1>7, <1>10
  <2>6. ~ client.pipe => i = Len(answers) + 1 /\ Received(i)'
    <3> SUFFICES ASSUME ~ client.pipe PROVE i = Len(answers) + 1 /\ Received(i)'
      OBVIOUS
    <3>1. /\ i = Len(answers) + 1 /\ data.mBody = Str("body", i, k - EndOf(asked[i]))
          /\ ~ client.split => Strings(i, k)
      BY <1>2 DEF Filled
    <3>2. data.mBody = << >> /\ Str("body", i, asked[i].body) = << >>
      BY <1>4, <1>5, <1>7, <1>10, <3>1, StrEmpty
    <3>3. ~ client.split =>
            data.mPath = Str("url", i, 2) /\ data.mKeepAlive = (asked[i].conn = "keep-alive")
      <4> SUFFICES ASSUME Strings(i, k)
                   PROVE  /\ data.mPath = Str("url", i, 2)
                          /\ data.mKeepAlive = (asked[i].conn = "keep-alive")
        BY <3>1
      <4>1. data.mKeepAlive = (k >= 10 /\ asked[i].conn = "keep-alive")
        BY DEF Strings
      <4>2. asked[i].conn = "keep-alive" => k >= 10
        BY <1>7
      <4> QED  BY <1>7, <4>1, <4>2 DEF Strings
    <3>4. client' = client
      BY <1>1 DEF conn
    <3> QED  BY <1>3, <2>3, <3>1, <3>2, <3>3, <3>4 DEF Received
  <2> QED  BY <1>2, <2>2, <2>3, <2>4, <2>5, <2>6, Completes
<1> QED  BY <1>9, <1>10


LEMMA BodyStep ==
  ASSUME IInv, s_body_identity
  PROVE  IInv'
<1>1. /\ pc = "execute" /\ at < got /\ at' = at + 1
      /\ UNCHANGED <<conn, peer, pc, got, out>> /\ ~ Between
  BY DEF s_body_identity, On, Becomes, Between
<1>2. PICK ends, i, k :
        /\ Here(ends, i, k) /\ k \in 1 .. Total(asked[i]) - 1 /\ Spot(asked[i], k)
        /\ ~ client.pipe => Filled(i, k)
        /\ asked[i] \in Request /\ i \in 1 .. Len(asked) /\ Asking = asked[i]
        /\ k \in Nat /\ k + 1 \in 1 .. Total(asked[i]) /\ Layout(asked[i])[k + 1] = Piece.kind
        /\ \A kind : Piece.kind = kind => Piece = [kind |-> kind, req |-> i]
        /\ Piece \in Pieces /\ Piece \in Seen
  BY <1>1, Within
<1> PICK n : n = k + 1
  OBVIOUS
<1>3. TypeOK /\ Known /\ asked' = asked
  BY <1>1 DEF IInv, conn
<1>4. /\ asked[i] \in Request /\ k \in Nat /\ n \in 1 .. Total(asked[i])
      /\ Layout(asked[i])[n] = Piece.kind
  BY <1>2
<1>5. /\ EndOf(asked[i]) \in Nat /\ Total(asked[i]) \in Nat
      /\ Total(asked[i]) = EndOf(asked[i]) + asked[i].body /\ asked[i].body \in Nat
      /\ Before(asked[i]) \in {4, 10} /\ (Before(asked[i]) = 4 <=> asked[i].conn = "none")
      /\ EndOf(asked[i]) = IF asked[i].body = 0 THEN Before(asked[i]) + 1
                           ELSE Before(asked[i]) + 2
  BY <1>4, Sizes
<1>6. /\ parser.state = "s_body_identity" /\ Piece.kind = "body" /\ run' = run
      /\ LET p == [parser EXCEPT !.content_length = @ - 1]
             d == [data EXCEPT !.mBody = @ \o << Piece >>] IN
         /\ p.content_length = 0 =>
              /\ parser' = [p EXCEPT !.state = NEW_MESSAGE(p)]
              /\ data' = [d EXCEPT !.isFinish = TRUE]
         /\ p.content_length # 0 => parser' = p /\ data' = d
  BY DEF s_body_identity, On, Becomes, request_body_callback, request_body_complete
<1>7. n > EndOf(asked[i]) /\ k >= EndOf(asked[i]) /\ k >= 4 /\ asked[i].body # 0
      /\ (asked[i].conn # "none" => k >= 10)
  <2>1. Layout(asked[i])[n] = "body"
    BY <1>4, <1>6
  <2>2. n > EndOf(asked[i])
    BY <1>4, <2>1, KindAt
  <2> QED  BY <1>4, <1>5, <2>2
<1>8. parser.content_length = Total(asked[i]) - k /\ parser \in Parsers /\ data \in Datas
  <2>1. parser.content_length = IF k <= Before(asked[i]) THEN 0
                                ELSE IF k <= EndOf(asked[i]) THEN asked[i].body
                                ELSE Total(asked[i]) - k
    BY <1>2 DEF Spot
  <2>2. ~ (k <= Before(asked[i])) /\ (k <= EndOf(asked[i]) => asked[i].body = Total(asked[i]) - k)
    BY <1>4, <1>5, <1>7
  <2>3. parser.content_length = Total(asked[i]) - k
    BY <2>1, <2>2
  <2> QED  BY <1>3, <2>3, ToType
<1> DEFINE p == [parser EXCEPT !.content_length = @ - 1]
           d == [data EXCEPT !.mBody = @ \o << Piece >>]
<1>9. /\ p \in Parsers /\ p.content_length = Total(asked[i]) - n /\ p.state = "s_body_identity"
  <2>1. parser.content_length - 1 = Total(asked[i]) - n /\ Total(asked[i]) - n \in Nat
    BY <1>4, <1>5, <1>8
  <2> QED  BY <1>6, <1>8, <2>1 DEF Parsers
<1>10. /\ d \in Datas /\ d.mBody = data.mBody \o << Piece >> /\ d.isFinish = data.isFinish
       /\ d.mPath = data.mPath /\ d.mKeepAlive = data.mKeepAlive
  <2>1. data.mBody \in Seq(Pieces) /\ << Piece >> \in Seq(Pieces)
    BY <1>2, <1>8 DEF Datas
  <2>2. data.mBody \o << Piece >> \in Seq(Pieces)
    BY <2>1, ConcatProperties
  <2> QED  BY <1>8, <2>2 DEF Datas
<1>11. /\ p.content_length = 0 =>
            /\ parser' = [p EXCEPT !.state = NEW_MESSAGE(p)]
            /\ data' = [d EXCEPT !.isFinish = TRUE]
       /\ p.content_length # 0 => parser' = p /\ data' = d
  BY <1>6
<1> HIDE DEF p, d
<1>12. ~ client.pipe =>
          /\ i = Len(answers) + 1 /\ ~ data.isFinish
          /\ d.mBody = Str("body", i, n - EndOf(asked[i]))
          /\ ~ client.split => /\ data.mPath = Str("url", i, 2)
                               /\ data.mKeepAlive = (asked[i].conn = "keep-alive")
  <2> SUFFICES ASSUME ~ client.pipe
               PROVE  /\ i = Len(answers) + 1 /\ ~ data.isFinish
                      /\ d.mBody = Str("body", i, n - EndOf(asked[i]))
                      /\ ~ client.split => /\ data.mPath = Str("url", i, 2)
                                           /\ data.mKeepAlive = (asked[i].conn = "keep-alive")
    OBVIOUS
  <2>1. /\ i = Len(answers) + 1 /\ ~ data.isFinish
        /\ data.mBody = Str("body", i, k - EndOf(asked[i]))
        /\ ~ client.split => Strings(i, k)
    BY <1>2 DEF Filled
  <2>2. d.mBody = Str("body", i, n - EndOf(asked[i]))
    <3> DEFINE m == k - EndOf(asked[i])
    <3>1. m \in Nat /\ n - EndOf(asked[i]) = m + 1
      BY <1>4, <1>5, <1>7
    <3>2. Piece = [kind |-> "body", req |-> i] /\ "body" \in Kinds
      BY <1>2, <1>6 DEF Kinds
    <3>3. d.mBody = Str("body", i, m) \o << [kind |-> "body", req |-> i] >>
      BY <1>10, <2>1, <3>2
    <3> HIDE DEF m
    <3>4. Str("body", i, m) \o << [kind |-> "body", req |-> i] >> = Str("body", i, m + 1)
      BY <3>1, <3>2, StrGrows
    <3> QED  BY <3>1, <3>3, <3>4
  <2>3. ~ client.split => /\ data.mPath = Str("url", i, 2)
                          /\ data.mKeepAlive = (asked[i].conn = "keep-alive")
    <3> SUFFICES ASSUME Strings(i, k)
                 PROVE  /\ data.mPath = Str("url", i, 2)
                        /\ data.mKeepAlive = (asked[i].conn = "keep-alive")
      BY <2>1
    <3>1. data.mKeepAlive = (k >= 10 /\ asked[i].conn = "keep-alive")
      BY DEF Strings
    <3>2. asked[i].conn = "keep-alive" => k >= 10
      BY <1>7
    <3> QED  BY <1>7, <3>1, <3>2 DEF Strings
  <2> QED  BY <2>1, <2>2, <2>3
<1>13. UNCHANGED <<client, asked, answers>>
  BY <1>1 DEF conn, out
<1>14. CASE p.content_length # 0
  <2>1. parser' = p /\ data' = d
    BY <1>11, <1>14
  <2>2. Consumes
    BY <1>1, <1>3, <1>6, <1>9, <1>10, <2>1, ToType DEF Consumes, Known
  <2>3. n \in 1 .. Total(asked[i]) - 1
    BY <1>4, <1>5, <1>9, <1>14
  <2>4. Spot(asked[i], n)'
    <3>1. ~ (n <= Before(asked[i])) /\ ~ (n <= EndOf(asked[i])) /\ EndOf(asked[i]) <= n
      BY <1>4, <1>5, <1>7
    <3> QED  BY <1>3, <1>9, <2>1, <3>1 DEF Spot
  <2>5. ~ client.pipe => Filled(i, n)'
    <3> SUFFICES ASSUME ~ client.pipe PROVE Filled(i, n)'
      OBVIOUS
    <3>1. ~ client.split => Strings(i, n)'
      <4>1. asked[i].conn = "keep-alive" => n >= 10
        BY <1>4, <1>7
      <4> QED  BY <1>9, <1>10, <1>12, <1>13, <2>1, <4>1 DEF Strings
    <3>2. ~ data'.isFinish /\ data'.mBody = Str("body", i, n - EndOf(asked[i]))
      BY <1>10, <1>12, <2>1
    <3> QED  BY <1>12, <1>13, <3>1, <3>2, Fills
  <2> QED  BY <1>2, <1>9, <1>10, <2>1, <2>2, <2>3, <2>4, <2>5, Further DEF Between
<1>15. CASE p.content_length = 0
  <2>1. /\ parser' = [p EXCEPT !.state = NEW_MESSAGE(p)]
        /\ data' = [d EXCEPT !.isFinish = TRUE]
    BY <1>11, <1>15
  <2>2. parser' \in Parsers /\ Between'
    BY <1>9, <2>1, NewMessage DEF Between
  <2>3. /\ data' \in Datas /\ data'.isFinish /\ data'.mBody = d.mBody
        /\ data'.mPath = data.mPath /\ data'.mKeepAlive = data.mKeepAlive
    BY <1>10, <2>1 DEF Datas
  <2>4. Consumes
    BY <1>1, <1>3, <1>6, <2>2, <2>3, ToType DEF Consumes, Known
  <2>5. k = Total(asked[i]) - 1 /\ n - EndOf(asked[i]) = asked[i].body
    <3>1. Total(asked[i]) - n = 0 /\ n \in Int /\ k \in Nat
      BY <1>4, <1>9, <1>15
    <3> QED  BY <1>5, <3>1
  <2>6. ~ client.pipe => i = Len(answers) + 1 /\ Received(i)'
    BY <1>3, <1>12, <1>13, <2>3, <2>5 DEF Received
  <2> QED  BY <1>2, <2>2, <2>3, <2>4, <2>5, <2>6, Completes
<1> QED  BY <1>14, <1>15


LEMMA ExecuteStepKeeps ==
  ASSUME IInv, ExecuteStep
  PROVE  IInv'
BY StartStep, BlankStep, UrlStep, HeaderFieldStep, HeaderValueStep, HeaderEndStep,
   ContentLengthStep, HeadersDoneStep, BodyStep DEF ExecuteStep
-----------------------------------------------------------------------------
\* Steps that consume nothing.

InString == parser.state \in {"s_req_path", "s_header_field", "s_header_value"}

\* Unless chunks cut strings, the parser is not within one at the end of a chunk.
LEMMA NoString ==
  ASSUME IInv, at = got, ~ client.split
  PROVE  ~ InString
<1> SUFFICES ASSUME InString PROVE FALSE
  OBVIOUS
<1>1. TypeOK /\ Uncut /\ ~ Between
  BY DEF IInv, InString, Between
<1>2. PICK ends : Placed(ends) /\ Parsing(ends)
  BY DEF IInv, Local
<1>3. PICK i \in 1 .. Len(asked) : \E k \in 1 .. Total(asked[i]) - 1 :
             at = ends[i - 1] + k /\ Spot(asked[i], k)
  BY <1>1, <1>2 DEF Parsing
<1>4. PICK k \in 1 .. Total(asked[i]) - 1 : at = ends[i - 1] + k /\ Spot(asked[i], k)
  BY <1>3
<1>5. asked[i] \in Request /\ k \in 1 .. Total(asked[i])
  <2>1. asked[i] \in Request
    BY <1>1, Asked
  <2>2. Total(asked[i]) \in Nat
    BY <2>1, Sizes
  <2> QED  BY <1>4, <2>1, <2>2
<1>6. at \in 1 .. Len(stream) /\ stream[at] = [kind |-> Layout(asked[i])[k], req |-> i]
  BY <1>1, <1>2, <1>4, <1>5, PieceOf
<1>7. Layout(asked[i])[k] \in {"url", "name", "value"}
  <2>1. \/ k \in {2, 3}
        \/ asked[i].conn # "none" /\ k \in {5, 6}
        \/ asked[i].conn # "none" /\ k \in {8, 9}
    BY <1>4 DEF Spot, InString
  <2> QED  BY <1>5, <2>1, KindAt
<1>8. stream[got].kind \notin {"url", "name", "value"}
  BY <1>1, <1>6, Lengths DEF Uncut
<1> QED  BY <1>6, <1>7, <1>8

LEMMA Stays ==
  ASSUME IInv, UNCHANGED <<client, asked, stream, at, parser, answers>>,
         TypeOK', Known', Uncut', Serves',
         data'.isFinish = data.isFinish, data'.mBody = data.mBody,
         ~ client.split \/ Between => data' = data,
         ~ client.split /\ InString => run' = run
  PROVE  IInv'
<1>1. PICK ends \in [0 .. Len(asked) -> Nat] : Local(ends)
  BY DEF IInv
<1>2. Placed(ends) /\ Parsing(ends) /\ Single(ends)
  BY <1>1 DEF Local
<1>3. Placed(ends)' /\ ends \in [0 .. Len(asked) -> Nat]'
  BY <1>2 DEF Placed
<1>4. ASSUME NEW i, NEW k, Spot(asked[i], k), ~ client.pipe => Filled(i, k)
      PROVE  Spot(asked[i], k)' /\ (~ client.pipe => Filled(i, k)')
  <2>1. Spot(asked[i], k)'
    BY <1>4 DEF Spot
  <2>2. ~ client.pipe => Filled(i, k)'
    <3> SUFFICES ASSUME ~ client.pipe PROVE Filled(i, k)'
      OBVIOUS
    <3>1. /\ i = Len(answers) + 1 /\ ~ data.isFinish
          /\ data.mBody = Str("body", i, k - EndOf(asked[i]))
          /\ ~ client.split => Strings(i, k)
      BY <1>4 DEF Filled
    <3>2. ~ client.split => Strings(i, k)'
      BY <3>1 DEF Strings, InString
    <3>3. ~ data'.isFinish /\ data'.mBody = Str("body", i, k - EndOf(asked[i]))
      BY <3>1
    <3>4. UNCHANGED <<client, asked, answers>>
      OBVIOUS
    <3> QED  BY <3>1, <3>2, <3>3, <3>4, Fills
  <2> QED  BY <2>1, <2>2
<1>5. Parsing(ends)'
  <2> SUFFICES ASSUME ~ Between'
               PROVE  \E i \in 1 .. Len(asked') : \E k \in 1 .. Total(asked'[i]) - 1 :
                        /\ at' = ends[i - 1] + k /\ Spot(asked[i], k)'
                        /\ ~ client'.pipe => Filled(i, k)'
    BY DEF Parsing
  <2>1. ~ Between
    BY DEF Between
  <2>2. PICK i \in 1 .. Len(asked) : \E k \in 1 .. Total(asked[i]) - 1 :
               at = ends[i - 1] + k /\ Spot(asked[i], k) /\ (~ client.pipe => Filled(i, k))
    BY <1>2, <2>1 DEF Parsing
  <2>3. PICK k \in 1 .. Total(asked[i]) - 1 :
               at = ends[i - 1] + k /\ Spot(asked[i], k) /\ (~ client.pipe => Filled(i, k))
    BY <2>2
  <2>4. Spot(asked[i], k)' /\ (~ client.pipe => Filled(i, k)')
    BY <1>4, <2>3
  <2> QED  BY <2>3, <2>4
<1>6. Single(ends)'
  <2>1. data' = data \/ ~ Between
    OBVIOUS
  <2>2. CASE data' = data
    BY <1>2, <2>2 DEF Single, Received, Between
  <2>3. CASE ~ Between
    BY <1>2, <2>3 DEF Single, Between
  <2> QED  BY <2>1, <2>2, <2>3
<1>7. Counted' /\ Sent'
  BY DEF IInv, Counted, Parsed, Sent
<1> QED  BY <1>3, <1>5, <1>6, <1>7 DEF IInv, Local

LEMMA ExecuteEndStep ==
  ASSUME IInv, ExecuteEnd
  PROVE  IInv'
<1>1. /\ pc = "execute" /\ at = got
      /\ data' = CASE parser.state = "s_req_path"     -> request_url_callback(data, run)
                   [] parser.state = "s_header_field" -> request_header_field_callback(data, run)
                   [] parser.state = "s_header_value" -> request_header_value_callback(data, run)
                   [] OTHER -> data
      /\ pc' = IF data.isFinish THEN "handle" ELSE "recv"
      /\ UNCHANGED <<conn, peer, got, at, parser, run, out>>
  BY DEF ExecuteEnd
<1>2. TypeOK /\ Known /\ data \in Datas /\ run \in Seq(Pieces)
  BY ToType DEF IInv
<1>3. /\ data' \in Datas /\ data'.isFinish = data.isFinish /\ data'.mBody = data.mBody
      /\ data'.mPath \in {data.mPath, run}
      /\ ~ InString => data' = data
  <2>1. CASE parser.state = "s_req_path"
    <3>1. data' = [data EXCEPT !.mPath = run]
      BY <1>1, <2>1 DEF request_url_callback
    <3> QED  BY <1>2, <2>1, <3>1 DEF Datas, InString
  <2>2. CASE parser.state = "s_header_field"
    <3>1. data' = [data EXCEPT !.mTmpHeader = run]
      BY <1>1, <2>2 DEF request_header_field_callback
    <3> QED  BY <1>2, <2>2, <3>1 DEF Datas, InString
  <2>3. CASE parser.state = "s_header_value"
    <3>1. data' = request_header_value_callback(data, run)
      BY <1>1, <2>3
    <3>2. data' = data \/ data' = [data EXCEPT !.mKeepAlive = ~ IsClose(run)]
      BY <3>1 DEF request_header_value_callback
    <3>3. (~ IsClose(run)) \in BOOLEAN
      OBVIOUS
    <3> QED  BY <1>2, <2>3, <3>2, <3>3 DEF Datas, InString
  <2>4. CASE ~ InString
    <3>1. data' = data
      BY <1>1, <2>4 DEF InString
    <3> QED  BY <1>2, <3>1
  <2> QED  BY <2>1, <2>2, <2>3, <2>4 DEF InString
<1>4. TypeOK'
  BY <1>1, <1>2, <1>3 DEF TypeOK, Datas, conn, out
<1>5. Known' /\ Uncut' /\ Serves'
  BY <1>1, <1>2, <1>3 DEF IInv, Known, Seen, Uncut, Serves, conn
<1>6. ~ client.split => ~ InString
  BY <1>1, NoString
<1>7. Between => ~ InString
  BY DEF Between, InString
<1>8. UNCHANGED <<client, asked, stream, at, parser, run, answers>>
  BY <1>1 DEF conn, out
<1> QED  BY <1>3, <1>4, <1>5, <1>6, <1>7, <1>8, Stays

LEMMA RecvStep ==
  ASSUME IInv, Recv
  PROVE  IInv'
<1>1. /\ pc = "recv" /\ got < arrived /\ got' = arrived /\ run' = << >> /\ pc' = "execute"
      /\ UNCHANGED <<conn, peer, at, parser, data, out>>
  BY DEF Recv
<1>2. TypeOK'
  <2>1. run' \in Seq(Pieces)
    BY <1>1
  <2> QED  BY <1>1, <2>1 DEF IInv, TypeOK, conn, out
<1>3. Known' /\ Uncut' /\ Serves'
  BY <1>1 DEF IInv, Known, Seen, Uncut, Serves, conn
<1>4. ~ client.split => ~ InString
  <2>1. at = got
    BY <1>1 DEF IInv, Serves
  <2> QED  BY <2>1, NoString
<1>5. UNCHANGED <<client, asked, stream, at, parser, data, answers>>
  BY <1>1 DEF conn, out
<1> QED  BY <1>2, <1>3, <1>4, <1>5, Stays

\* A step that leaves the connection and the parser alone.
LEMMA Quiet ==
  ASSUME IInv, UNCHANGED <<client, asked, stream, at, http, answers>>,
         TypeOK', Uncut', Serves'
  PROVE  IInv'
<1>1. Known'
  BY DEF IInv, Known, Seen, http
<1> QED  BY <1>1, Stays DEF http

LEMMA ClosingSteps ==
  ASSUME IInv, ParserError \/ RecvNothing \/ SigPipe
  PROVE  IInv'
<1>1. /\ pc' \in {"closed", "killed"}
      /\ ~ missed
      /\ UNCHANGED <<conn, peer, got, at, http, out>>
  BY DEF ParserError, RecvNothing, SigPipe, IInv, TypeOK, Serves
<1>2. TypeOK' /\ Uncut' /\ Serves'
  BY <1>1 DEF IInv, TypeOK, Uncut, Serves, conn, http, out
<1> QED  BY <1>1, <1>2, Quiet DEF conn, out

\* A wait of recv begins or ends.
LEMMA WaitSteps ==
  ASSUME IInv, RecvWaits \/ Woken
  PROVE  IInv'
<1>1. /\ pc \in {"recv", "wait"} /\ pc' \in {"recv", "wait"} /\ ~ missed
      /\ UNCHANGED <<conn, peer, got, at, http, out>>
  BY DEF RecvWaits, Woken, IInv, TypeOK
<1>2. TypeOK' /\ Uncut' /\ Serves'
  BY <1>1 DEF IInv, TypeOK, Uncut, Serves, conn, http, out
<1> QED  BY <1>1, <1>2, Quiet DEF conn, out

LEMMA DropStep ==
  ASSUME IInv, EdgeDropped
  PROVE  IInv'
<1>1. /\ pc \in {"wait", "send"} /\ missed' = TRUE
      /\ pc = "send" => peer \in {"open", "shut"}
      /\ UNCHANGED <<client, asked, stream, arrived, peer, pc, got, at, http, out>>
  BY DEF EdgeDropped
<1>2. TypeOK' /\ Uncut' /\ Serves'
  BY <1>1 DEF IInv, TypeOK, Uncut, Serves, Careful, http, out
<1> QED  BY <1>1, <1>2, Quiet DEF out

LEMMA SendFailsStep ==
  ASSUME IInv, SendFails
  PROVE  IInv'
<1>1. /\ pc = "send" /\ peer = "reset" /\ peer' = "broken"
      /\ offset' = (offset + MaxSize) % (MaxSize + 1)
      /\ UNCHANGED <<conn, pc, got, at, http, response, answers>>
  BY DEF SendFails
<1>2. offset' \in 0 .. MaxSize
  <2>1. offset + MaxSize \in Nat /\ MaxSize + 1 \in Nat \ {0}
    BY HttpAssumption DEF IInv, TypeOK
  <2>2. \A a \in Nat, b \in Nat \ {0} : a % b \in 0 .. b - 1
    OBVIOUS
  <2>3. offset' \in 0 .. (MaxSize + 1) - 1
    BY <1>1, <2>1, <2>2
  <2> QED  BY <2>3, HttpAssumption
<1>3. TypeOK' /\ Uncut' /\ Serves'
  BY <1>1, <1>2 DEF IInv, TypeOK, Uncut, Serves, Careful, conn, http
<1> QED  BY <1>1, <1>3, Quiet DEF conn

LEMMA PeerSteps ==
  ASSUME IInv, Leave \/ Reset
  PROVE  IInv'
<1>1. /\ peer' \in {"shut", "reset", "broken"} /\ (peer' = "shut" => peer = "open")
      /\ missed' = FALSE
      /\ UNCHANGED <<client, asked, stream, arrived, pc, got, at, http, out>>
  BY DEF Leave, Reset
<1>2. Uncut' /\ Serves'
  BY <1>1 DEF IInv, Uncut, Serves, Careful, http, out
<1>3. missed' \in BOOLEAN /\ (missed' => pc' \in {"wait", "send"})
  BY <1>1
<1>4. /\ peer' \in {"open", "shut", "reset", "broken"}
      /\ peer' \in {"open", "shut"} => offset <= Size
  BY <1>1 DEF IInv, TypeOK
<1>5. TypeOK'
  BY <1>1, <1>3, <1>4 DEF IInv, TypeOK, http, out
<1> QED  BY <1>1, <1>2, <1>5, Quiet DEF out


\* What was written ends with a whole request, so not within a string.
LEMMA LastPiece ==
  ASSUME IInv, Len(stream) > 0
  PROVE  stream[Len(stream)].kind \notin {"url", "name", "value"}
<1>1. TypeOK
  BY DEF IInv
<1>2. PICK ends : Placed(ends)
  BY DEF IInv, Local
<1>3. Len(stream) \in 1 .. Len(stream)
  BY <1>1, Lengths
<1>4. PICK i \in 1 .. Len(asked) : \E k \in 1 .. Total(asked[i]) : Len(stream) = ends[i - 1] + k
  BY <1>2, <1>3 DEF Placed
<1>5. PICK k \in 1 .. Total(asked[i]) : Len(stream) = ends[i - 1] + k
  BY <1>4
<1>6. asked[i] \in Request
  BY <1>1, Asked
<1>7. /\ ends[i - 1] \in Nat /\ ends[i] = ends[i - 1] + Total(asked[i])
      /\ stream[Len(stream)] = [kind |-> Layout(asked[i])[k], req |-> i]
  BY <1>1, <1>2, <1>5, PieceOf
<1>8. ends[i] <= Len(stream)
  <2>1. i \in 0 .. Len(asked) /\ Len(asked) \in 0 .. Len(asked) /\ i <= Len(asked)
    BY <1>1, Lengths
  <2> QED  BY <1>2, <2>1 DEF Placed
<1>9. k = Total(asked[i]) /\ EndOf(asked[i]) \in Nat /\ EndOf(asked[i]) >= 5
      /\ (k = EndOf(asked[i]) \/ k > EndOf(asked[i]))
  <2>1. /\ Total(asked[i]) \in Nat /\ EndOf(asked[i]) \in Nat /\ asked[i].body \in Nat
        /\ Total(asked[i]) = EndOf(asked[i]) + asked[i].body /\ EndOf(asked[i]) >= 5
    BY <1>6, Sizes
  <2>2. k >= Total(asked[i])
    BY <1>5, <1>7, <1>8, <2>1
  <2> QED  BY <1>5, <2>1, <2>2
<1>10. Layout(asked[i])[k] \in {"end", "body"}
  BY <1>6, <1>9, KindAt
<1> QED  BY <1>7, <1>10

LEMMA ArriveStep ==
  ASSUME IInv, Arrive
  PROVE  IInv'
<1>1. TypeOK /\ Uncut
  BY DEF IInv
<1>2. PICK n \in arrived + 1 .. Len(stream) : (client.split \/ ~ Splits(n)) /\ arrived' = n
  BY DEF Arrive
<1>3. /\ UNCHANGED <<client, asked, stream, peer, pc, got, at, http, out>>
      /\ missed' = (missed /\ pc = "send")
  BY DEF Arrive
<1>4. n \in Nat /\ n > 0 /\ n <= Len(stream) /\ got <= n
  BY <1>1, <1>2, Lengths DEF TypeOK
<1>5. TypeOK'
  BY <1>1, <1>2, <1>3, <1>4 DEF TypeOK, http, out
<1>6. Uncut'
  <2> SUFFICES ASSUME ~ client.split PROVE Uncut'
    BY <1>3 DEF Uncut
  <2>1. stream[n].kind \notin {"url", "name", "value"}
    <3>1. CASE n < Len(stream)
      BY <1>2, <3>1 DEF Splits
    <3>2. CASE n = Len(stream)
      <4>1. Len(stream) > 0
        BY <1>4, <3>2
      <4>2. stream[Len(stream)].kind \notin {"url", "name", "value"}
        BY <4>1, LastPiece
      <4> QED  BY <3>2, <4>2
    <3>3. Len(stream) \in Nat
      BY <1>1, Lengths
    <3> QED  BY <1>4, <3>1, <3>2, <3>3
  <2> QED  BY <1>1, <1>2, <1>3, <2>1 DEF Uncut
<1>7. Serves'
  BY <1>3 DEF IInv, Serves, Careful, out, http
<1> QED  BY <1>3, <1>5, <1>6, <1>7, Quiet DEF out

\* The servlet gets the request that was made.
LEMMA ServletAnswers ==
  ASSUME IInv
  PROVE  /\ Servlet(data) \in Replies
         /\ data.isFinish /\ Careful =>
              /\ Len(asked) = Len(answers) + 1 /\ Len(asked) \in 1 .. Len(asked)
              /\ Servlet(data) = RR!Answer(asked[Len(asked)])
<1>1. TypeOK /\ Known /\ data \in Datas
  BY ToType DEF IInv
<1>2. PathOf(data.mPath) \in Paths \cup {"partial"}
  <2> SUFFICES ASSUME Whole(data.mPath) PROVE asked[data.mPath[1].req].path \in Paths
    BY DEF PathOf
  <2>1. data.mPath[1] \in Seen
    BY <1>1 DEF Whole, Known
  <2>2. data.mPath[1].req \in 1 .. Len(asked)
    BY <2>1 DEF Seen
  <2> QED  BY <1>1, <2>2, Asked, Sizes
<1>3. Len(data.mBody) \in Nat
  BY <1>1, LenProperties DEF Datas
<1>4. Servlet(data) \in Replies
  BY <1>1, <1>2, <1>3 DEF Servlet, Replies, Datas
<1>5. ASSUME data.isFinish, Careful
      PROVE  /\ Len(asked) = Len(answers) + 1 /\ Len(asked) \in 1 .. Len(asked)
             /\ Servlet(data) = RR!Answer(asked[Len(asked)])
  <2>1. PICK ends : Single(ends)
    BY DEF IInv, Local
  <2>2. Len(asked) = Len(answers) + 1 /\ Received(Len(asked))
    BY <1>5, <2>1 DEF Single, Careful
  <2>3. Len(asked) \in 1 .. Len(asked)
    <3>1. Len(answers) \in Nat
      BY LenProperties DEF IInv, Sent
    <3> QED  BY <1>1, <2>2, <3>1, Lengths
  <2> DEFINE n == Len(asked)
             r == asked[n]
  <2>4. /\ data.mBody = Str("body", n, r.body) /\ data.mPath = Str("url", n, 2)
        /\ data.mKeepAlive = (r.conn = "keep-alive")
    BY <1>5, <2>2 DEF Received, Careful
  <2>5. r \in Request
    BY <1>1, <2>3, Asked
  <2> HIDE DEF n, r
  <2>6. "url" \in Kinds /\ "body" \in Kinds
    BY DEF Kinds
  <2>7. PathOf(data.mPath) = r.path
    <3>1. Len(Str("url", n, 2)) = 2 /\ Str("url", n, 2)[1] = [kind |-> "url", req |-> n]
      BY <2>6, FirstOfTwo
    <3> QED  BY <2>4, <3>1 DEF PathOf, Whole, r
  <2>8. Len(data.mBody) = r.body
    <3> DEFINE R == {n}
    <3>1. n \in R /\ r.body \in Nat
      BY <2>5, Sizes
    <3> HIDE DEF R
    <3>2. ASSUME NEW kind \in Kinds, NEW m \in Nat
          PROVE  Len(Str(kind, n, m)) = m
      BY <3>1, StrType
    <3> QED  BY <2>4, <2>6, <3>1, <3>2
  <2>9. Servlet(data) = RR!Answer(r)
    BY <2>4, <2>7, <2>8 DEF Servlet, RR!Answer
  <2> QED  BY <2>2, <2>3, <2>9 DEF n, r
<1> QED  BY <1>4, <1>5

LEMMA HandleStep ==
  ASSUME IInv, Handle
  PROVE  IInv'
<1>1. /\ pc = "handle" /\ response' = Servlet(data) /\ offset' = 0 /\ pc' = "send"
      /\ UNCHANGED <<conn, peer, got, at, http, answers>>
  BY DEF Handle
<1>2. Servlet(data) \in Replies
  BY ServletAnswers
<1>3. TypeOK'
  <2>1. offset' \in 0 .. MaxSize /\ offset' <= Size
    BY <1>1, HttpAssumption
  <2> QED  BY <1>1, <1>2, <2>1 DEF IInv, TypeOK, conn, http, Replies
<1>4. Uncut'
  BY <1>1 DEF IInv, Uncut, conn
<1>5. Serves'
  <2>1. at = got /\ data.isFinish
    BY <1>1 DEF IInv, Serves
  <2>2. Careful => Servlet(data) = RR!Answer(asked[Len(asked)])
    BY <2>1, ServletAnswers
  <2>3. UNCHANGED <<client, asked, data, at, got>>
    BY <1>1 DEF conn, http
  <2>4. Careful' => response' = RR!Answer(asked[Len(asked)])
    BY <1>1, <2>2, <2>3 DEF Careful
  <2>5. ~ missed'
    BY <1>1 DEF IInv, TypeOK, conn
  <2> QED  BY <1>1, <2>1, <2>3, <2>4, <2>5 DEF Serves, RR!Answer
<1> QED  BY <1>1, <1>3, <1>4, <1>5, Quiet DEF conn


\* The last part of an answer: the HttpRequest and the parser are new ones.
LEMMA SendStep ==
  ASSUME IInv, NEW n \in 1 .. Size, Send(n)
  PROVE  IInv'
<1>1. /\ pc = "send" /\ ~ missed /\ peer \in {"open", "shut"} /\ n \in 1 .. Size - offset
      /\ offset' = offset + n /\ UNCHANGED <<conn, peer, got, at, response>>
      /\ offset' # Size => UNCHANGED <<pc, http, answers>>
      /\ offset' = Size =>
           /\ answers' = Append(answers, response)
           /\ pc' = IF data.mKeepAlive THEN "recv" ELSE "closed"
           /\ parser' = http_parser_init /\ data' = HttpRequest /\ run' = << >>
  BY DEF Send
<1>2. TypeOK /\ Counted /\ Sent /\ Serves /\ Uncut
  BY DEF IInv
<1>3. offset' \in 0 .. MaxSize /\ offset' <= Size
  BY <1>1, <1>2, HttpAssumption DEF TypeOK
<1>4. CASE offset' # Size
  <2>1. UNCHANGED <<pc, http, answers, conn, peer, got, at, response>>
    BY <1>1, <1>4
  <2>2. TypeOK' /\ Uncut' /\ Serves'
    BY <1>2, <1>3, <2>1 DEF TypeOK, Uncut, Serves, Careful, conn, http
  <2> QED  BY <2>1, <2>2, Quiet DEF conn
<1>5. CASE offset' = Size
  <2>1. /\ answers' = Append(answers, response) /\ pc' \in {"recv", "closed"}
        /\ parser' = http_parser_init /\ data' = HttpRequest /\ run' = << >>
        /\ UNCHANGED <<client, asked, stream, arrived, peer, got, at, response>>
        /\ missed' = FALSE
    BY <1>1, <1>2, <1>5 DEF TypeOK, conn
  <2>2. /\ http_parser_init \in Parsers /\ http_parser_init.state = "s_start_req"
        /\ HttpRequest \in Datas /\ ~ HttpRequest.isFinish /\ HttpRequest.mBody = << >>
        /\ ~ HttpRequest.mKeepAlive /\ HttpRequest.mPath = << >>
    BY DEF http_parser_init, HttpRequest, Parsers, Datas
  <2>3. TypeOK'
    <3>1. missed' \in BOOLEAN /\ (missed' => pc' \in {"wait", "send"})
      BY <2>1
    <3>2. run' \in Seq(Pieces)
      BY <2>1
    <3>3. parser' \in Parsers /\ data' \in Datas
      BY <2>1, <2>2
    <3>4. pc' \in {"recv", "wait", "execute", "handle", "send", "closed", "killed"}
      BY <2>1
    <3> QED  BY <1>2, <1>3, <2>1, <3>1, <3>2, <3>3, <3>4 DEF TypeOK, Parsers, Datas
  <2>4. Known' /\ Uncut' /\ Serves'
    BY <1>1, <1>2, <2>1, <2>2 DEF Known, Seen, Uncut, Serves
  <2>5. Sent' /\ Len(answers') = Len(answers) + 1 /\ Len(answers) \in Nat
    <3>1. response \in Replies /\ answers \in Seq(Replies)
      BY <1>2 DEF TypeOK, Replies, Sent
    <3>2. Append(answers, response) \in Seq(Replies)
          /\ Len(Append(answers, response)) = Len(answers) + 1
      BY <3>1, AppendProperties
    <3>3. answers' \in Seq(Replies)
      BY <2>1, <3>2
    <3> QED  BY <2>1, <3>1, <3>2, <3>3, LenProperties DEF Sent, Replies
  <2>6. Counted'
    <3>1. data.isFinish
      BY <1>1, <1>2 DEF Serves
    <3>2. Parsed' = Parsed
      BY <2>1 DEF Parsed
    <3>3. Len(answers) + 1 <= Cardinality(Parsed)
      BY <1>2, <3>1 DEF Counted
    <3>4. ~ data'.isFinish
      BY <2>1, <2>2
    <3> QED  BY <2>5, <3>2, <3>3, <3>4 DEF Counted
  <2>7. PICK ends \in [0 .. Len(asked) -> Nat] : Local(ends)
    BY DEF IInv
  <2>8. Placed(ends)' /\ ends \in [0 .. Len(asked) -> Nat]'
    BY <2>1, <2>7 DEF Local, Placed
  <2>9. Parsing(ends)'
    BY <2>1, <2>2 DEF Parsing, Between
  <2>10. Single(ends)'
    <3> SUFFICES ASSUME ~ client.pipe PROVE Single(ends)'
      BY <2>1 DEF Single
    <3>1. data.isFinish /\ Single(ends) /\ Placed(ends)
      BY <1>1, <1>2, <2>7 DEF Serves, Local
    <3>2. Len(asked) = Len(answers) + 1 /\ at = Len(stream)
      BY <3>1 DEF Single
    <3>3. at = ends[Len(asked)]
      BY <3>1, <3>2 DEF Placed
    <3>4. ~ data'.isFinish /\ data'.mBody = << >> /\ ~ data'.mKeepAlive
          /\ parser'.state = "s_start_req"
      BY <2>1, <2>2
    <3>5. at' = ends[Len(answers')] /\ Len(answers') = Len(asked')
      BY <2>1, <2>5, <3>2, <3>3
    <3>6. Len(answers') <= Len(asked') /\ Len(asked') <= Len(answers') + 1
      BY <2>5, <3>5
    <3> QED  BY <3>4, <3>5, <3>6 DEF Single
  <2> QED  BY <2>3, <2>4, <2>5, <2>6, <2>7, <2>8, <2>9, <2>10 DEF IInv, Local
<1> QED  BY <1>4, <1>5


\* The pieces of a request that is written after the others.
LEMMA WireType ==
  ASSUME NEW r \in Request, NEW i \in 1 .. MaxRequests
  PROVE  /\ Wire(r, i) \in Seq(Pieces) /\ Len(Wire(r, i)) = Total(r)
         /\ \A k \in 1 .. Total(r) : Wire(r, i)[k] = [kind |-> Layout(r)[k], req |-> i]
<1>1. Layout(r) \in Seq(Kinds) /\ Len(Layout(r)) = Total(r) /\ Total(r) \in Nat
  BY LayoutShape, Sizes
<1>2. \A k \in 1 .. Total(r) : Layout(r)[k] \in Kinds
  BY KindAt
<1>3. Wire(r, i) = [k \in 1 .. Total(r) |-> [kind |-> Layout(r)[k], req |-> i]]
  BY <1>1 DEF Wire
<1>4. Wire(r, i) \in [1 .. Total(r) -> Pieces] /\ DOMAIN Wire(r, i) = 1 .. Total(r)
  BY <1>2, <1>3 DEF Pieces
<1>5. Wire(r, i) \in Seq(Pieces)
  BY <1>1, <1>4, SeqDef
<1> QED  BY <1>1, <1>3, <1>4, <1>5, LenProperties

LEMMA Grown ==
  ASSUME TypeOK, NEW r \in Requests, Ask(r)
  PROVE  /\ r \in Request /\ Len(asked) + 1 \in 1 .. MaxRequests
         /\ asked' \in Seq(Requests) /\ Len(asked') = Len(asked) + 1
         /\ \A j \in 1 .. Len(asked) : asked'[j] = asked[j]
         /\ asked'[Len(asked) + 1] = r
         /\ stream' \in Seq(Pieces) /\ Len(stream') = Len(stream) + Total(r)
         /\ \A p \in 1 .. Len(stream) : stream'[p] = stream[p]
         /\ \A k \in 1 .. Total(r) :
              stream'[Len(stream) + k] = [kind |-> Layout(r)[k], req |-> Len(asked) + 1]
<1>1. /\ Len(asked) < MaxRequests /\ asked' = Append(asked, r)
      /\ stream' = stream \o Wire(r, Len(asked) + 1)
      /\ asked \in Seq(Requests) /\ stream \in Seq(Pieces)
      /\ Len(asked) \in Nat /\ Len(stream) \in Nat
  BY Lengths DEF Ask, TypeOK
<1>2. r \in Request /\ Total(r) \in Nat
  BY HttpAssumption, Sizes
<1>3. Len(asked) + 1 \in 1 .. MaxRequests
  BY <1>1, HttpAssumption
<1> DEFINE W == Wire(r, Len(asked) + 1)
<1>4. /\ W \in Seq(Pieces) /\ Len(W) = Total(r)
      /\ \A k \in 1 .. Total(r) : W[k] = [kind |-> Layout(r)[k], req |-> Len(asked) + 1]
  BY <1>2, <1>3, WireType
<1> HIDE DEF W
<1>5. /\ asked' \in Seq(Requests) /\ Len(asked') = Len(asked) + 1
      /\ \A j \in 1 .. Len(asked) : asked'[j] = asked[j]
      /\ asked'[Len(asked) + 1] = r
  BY <1>1, AppendProperties
<1>6. stream' = stream \o W
  BY <1>1 DEF W
<1>7. /\ stream \o W \in Seq(Pieces) /\ Len(stream \o W) = Len(stream) + Len(W)
      /\ \A p \in 1 .. Len(stream) + Len(W) :
           (stream \o W)[p] = IF p <= Len(stream) THEN stream[p] ELSE W[p - Len(stream)]
  BY <1>1, <1>4, ConcatProperties
<1>8. \A p \in 1 .. Len(stream) : stream'[p] = stream[p]
  BY <1>1, <1>2, <1>4, <1>6, <1>7
<1>9. ASSUME NEW k \in 1 .. Total(r)
      PROVE  stream'[Len(stream) + k] = W[k]
  <2>1. /\ Len(stream) + k \in 1 .. Len(stream) + Len(W) /\ ~ (Len(stream) + k <= Len(stream))
        /\ (Len(stream) + k) - Len(stream) = k
    BY <1>1, <1>2, <1>4
  <2> QED  BY <1>6, <1>7, <2>1
<1> QED  BY <1>2, <1>3, <1>4, <1>5, <1>6, <1>7, <1>8, <1>9

\* The ends of the requests with one more.
Longer(ends, r) ==
  [j \in 0 .. Len(asked) + 1 |-> IF j <= Len(asked) THEN ends[j] ELSE ends[Len(asked)] + Total(r)]

LEMMA PlacedGrows ==
  ASSUME TypeOK, NEW r \in Requests, Ask(r), NEW ends, Placed(ends),
         NEW more, more = Longer(ends, r)
  PROVE  /\ Placed(more)' /\ more \in [0 .. Len(asked) -> Nat]'
         /\ \A j \in 0 .. Len(asked) : more[j] = ends[j]
<1> DEFINE N == Len(asked)
           L == Len(stream)
<1>1. /\ r \in Request /\ asked' \in Seq(Requests) /\ Len(asked') = N + 1
      /\ \A j \in 1 .. N : asked'[j] = asked[j]
      /\ asked'[N + 1] = r
      /\ Len(stream') = L + Total(r)
      /\ \A p \in 1 .. L : stream'[p] = stream[p]
      /\ \A k \in 1 .. Total(r) : stream'[L + k] = [kind |-> Layout(r)[k], req |-> N + 1]
  BY Grown
<1>2. N \in Nat /\ L \in Nat /\ Total(r) \in Nat
  BY <1>1, Lengths, Sizes
<1>3. /\ ends \in [0 .. N -> Nat] /\ ends[0] = 0 /\ ends[N] = L
      /\ \A i, j \in 0 .. N : i <= j => ends[i] <= ends[j]
  BY DEF Placed
<1>4. ASSUME NEW i \in 1 .. N
      PROVE  /\ ends[i] = ends[i - 1] + Total(asked[i])
             /\ \A k \in 1 .. Total(asked[i]) :
                  /\ stream[ends[i - 1] + k] = [kind |-> Layout(asked[i])[k], req |-> i]
                  /\ ends[i - 1] + k \in 1 .. L
  BY PieceOf DEF Placed
<1>5. \A p \in 1 .. L :
        \E i \in 1 .. N : \E k \in 1 .. Total(asked[i]) : p = ends[i - 1] + k
  BY DEF Placed
<1>6. more = [j \in 0 .. N + 1 |-> IF j <= N THEN ends[j] ELSE L + Total(r)]
  BY <1>3 DEF Longer
<1> HIDE DEF N, L
<1>7. \A j \in 0 .. N : more[j] = ends[j]
  BY <1>2, <1>6
<1>8. more[N + 1] = L + Total(r)
  BY <1>2, <1>6
<1>9. more \in [0 .. Len(asked') -> Nat]
  BY <1>1, <1>2, <1>3, <1>6
<1>10. more[0] = 0 /\ more[Len(asked')] = Len(stream')
  BY <1>1, <1>2, <1>3, <1>7, <1>8
<1>11. ASSUME NEW i \in 0 .. Len(asked'), NEW j \in 0 .. Len(asked'), i <= j
       PROVE  more[i] <= more[j]
  <2>1. CASE j <= N
    <3>1. i \in 0 .. N /\ j \in 0 .. N
      BY <1>1, <1>2, <1>11, <2>1
    <3> QED  BY <1>3, <1>7, <1>11, <3>1
  <2>2. CASE j = N + 1 /\ i <= N
    <3>1. i \in 0 .. N /\ N \in 0 .. N /\ i <= N
      BY <1>2, <2>2
    <3>2. more[i] = ends[i] /\ ends[i] <= ends[N] /\ ends[i] \in Nat
      BY <1>3, <1>7, <3>1
    <3> QED  BY <1>2, <1>3, <1>8, <2>2, <3>2
  <2>3. CASE j = N + 1 /\ i = N + 1
    BY <1>2, <1>8, <2>3
  <2> QED  BY <1>1, <1>2, <1>11, <2>1, <2>2, <2>3
<1>12. ASSUME NEW i \in 1 .. Len(asked')
       PROVE  /\ more[i] = more[i - 1] + Total(asked'[i])
              /\ \A k \in 1 .. Total(asked'[i]) :
                   stream'[more[i - 1] + k] = [kind |-> Layout(asked'[i])[k], req |-> i]
  <2>1. CASE i \in 1 .. N
    <3>1. i \in 0 .. N /\ i - 1 \in 0 .. N
      BY <1>2, <2>1
    <3>2. more[i] = ends[i] /\ more[i - 1] = ends[i - 1] /\ asked'[i] = asked[i]
      BY <1>1, <1>7, <2>1, <3>1
    <3> QED  BY <1>1, <1>4, <2>1, <3>2
  <2>2. CASE i = N + 1
    <3>1. i - 1 = N /\ N \in 0 .. N
      BY <1>2, <2>2
    <3>2. more[i - 1] = L /\ more[i] = L + Total(r) /\ asked'[i] = r
      BY <1>1, <1>3, <1>7, <1>8, <2>2, <3>1
    <3> QED  BY <1>1, <2>2, <3>2
  <2> QED  BY <1>1, <1>2, <2>1, <2>2
<1>13. ASSUME NEW p \in 1 .. Len(stream')
       PROVE  \E i \in 1 .. Len(asked') : \E k \in 1 .. Total(asked'[i]) : p = more[i - 1] + k
  <2>1. CASE p \in 1 .. L
    <3>1. PICK i \in 1 .. N : \E k \in 1 .. Total(asked[i]) : p = ends[i - 1] + k
      BY <1>5, <2>1
    <3>2. i \in 1 .. Len(asked') /\ i - 1 \in 0 .. N
      BY <1>1, <1>2
    <3>3. more[i - 1] = ends[i - 1] /\ asked'[i] = asked[i]
      BY <1>1, <1>7, <3>2
    <3> QED  BY <3>1, <3>2, <3>3
  <2>2. CASE p > L
    <3>1. p - L \in 1 .. Total(r) /\ N + 1 \in 1 .. Len(asked') /\ p = L + (p - L)
          /\ (N + 1) - 1 = N /\ N \in 0 .. N
      BY <1>1, <1>2, <2>2
    <3>2. more[(N + 1) - 1] = L /\ asked'[N + 1] = r
      BY <1>1, <1>3, <1>7, <3>1
    <3> QED  BY <3>1, <3>2
  <2> QED  BY <1>1, <1>2, <2>1, <2>2
<1>14. Placed(more)'
  BY <1>9, <1>10, <1>11, <1>12, <1>13 DEF Placed
<1> QED  BY <1>7, <1>9, <1>14 DEF N


LEMMA AskStep ==
  ASSUME IInv, NEW r \in Requests, Ask(r)
  PROVE  IInv'
<1>1. TypeOK /\ Known /\ Uncut /\ Serves /\ Counted /\ Sent
  BY DEF IInv
<1>2. /\ Len(asked) < MaxRequests /\ (client.pipe \/ Len(answers) = Len(asked))
      /\ UNCHANGED <<client, arrived, missed, peer, pc, got, at, http, out>>
  BY DEF Ask
<1>3. /\ r \in Request /\ Len(asked) + 1 \in 1 .. MaxRequests
      /\ asked' \in Seq(Requests) /\ Len(asked') = Len(asked) + 1
      /\ \A j \in 1 .. Len(asked) : asked'[j] = asked[j]
      /\ stream' \in Seq(Pieces) /\ Len(stream') = Len(stream) + Total(r)
      /\ \A p \in 1 .. Len(stream) : stream'[p] = stream[p]
      /\ \A k \in 1 .. Total(r) :
           stream'[Len(stream) + k] = [kind |-> Layout(r)[k], req |-> Len(asked) + 1]
  BY <1>1, Grown
<1>4. Len(asked) \in Nat /\ Len(stream) \in Nat /\ Total(r) \in Nat
  BY <1>1, <1>3, Lengths, Sizes
<1>5. PICK ends \in [0 .. Len(asked) -> Nat] : Local(ends)
  BY DEF IInv
<1>6. Placed(ends) /\ Parsing(ends) /\ Single(ends)
  BY <1>5 DEF Local
<1> PICK more : more = Longer(ends, r)
  OBVIOUS
<1>7. /\ Placed(more)' /\ more \in [0 .. Len(asked) -> Nat]'
      /\ \A j \in 0 .. Len(asked) : more[j] = ends[j]
  BY <1>1, <1>6, PlacedGrows
\* Without pipelining the last request has been answered.
<1>8. ~ client.pipe => Len(answers) = Len(asked) /\ ~ data.isFinish
  <2>1. ~ client.pipe => Len(answers) = Len(asked)
    BY <1>2
  <2>2. ~ client.pipe /\ data.isFinish => Len(asked) = Len(answers) + 1
    BY <1>6 DEF Single
  <2> QED  BY <1>4, <2>1, <2>2
<1>9. TypeOK'
  <2>1. Len(asked') <= MaxRequests /\ arrived' <= Len(stream')
    BY <1>1, <1>2, <1>3, <1>4 DEF TypeOK
  <2> QED  BY <1>1, <1>2, <1>3, <2>1 DEF TypeOK, http, out
<1>10. Known' /\ Sent'
  <2>1. Seen \subseteq Seen'
    BY <1>3, <1>4 DEF Seen
  <2>2. ASSUME NEW s, s \in Seq(Seen) PROVE s \in Seq(Seen')
    BY <2>1, <2>2
  <2> QED  BY <1>1, <1>2, <2>2 DEF Known, Sent, http, out
<1>11. Uncut'
  <2> SUFFICES ASSUME ~ client.split, NEW n \in {got, arrived}, n > 0
               PROVE  stream'[n].kind \notin {"url", "name", "value"}
    BY <1>2 DEF Uncut
  <2>1. n \in 1 .. Len(stream)
    BY <1>1, <1>4 DEF TypeOK
  <2>2. stream'[n] = stream[n]
    BY <1>3, <2>1
  <2> QED  BY <1>1, <2>2 DEF Uncut
<1>12. Serves'
  <2>1. pc \in {"handle", "send"} => client.pipe
    BY <1>1, <1>8 DEF Serves
  <2> QED  BY <1>1, <1>2, <2>1 DEF Serves, Careful, http, out
<1>13. Counted'
  <2>1. Parsed \in SUBSET Parsed'
    <3> SUFFICES ASSUME NEW i \in Parsed PROVE i \in Parsed'
      OBVIOUS
    <3>1. i \in 1 .. Len(asked) /\ \A k \in 1 .. Len(stream) : stream[k].req = i => k <= at
      BY <1>1, Lengths DEF Parsed
    <3>2. DOMAIN asked' = 1 .. Len(asked') /\ DOMAIN stream' = 1 .. Len(stream')
      BY <1>3
    <3>3. i \in DOMAIN asked'
      BY <1>3, <1>4, <3>1, <3>2
    <3>4. ASSUME NEW k \in DOMAIN stream', stream'[k].req = i PROVE k <= at
      <4>1. CASE k \in 1 .. Len(stream)
        BY <1>3, <3>1, <3>4, <4>1
      <4>2. CASE k \notin 1 .. Len(stream)
        <5>1. k - Len(stream) \in 1 .. Total(r) /\ k = Len(stream) + (k - Len(stream))
          <6>1. Len(stream') = Len(stream) + Total(r) /\ k \in 1 .. Len(stream')
            BY <1>3, <3>2
          <6> QED  BY <1>4, <4>2, <6>1
        <5> PICK m \in 1 .. Total(r) : k = Len(stream) + m
          BY <5>1
        <5>2. stream'[Len(stream) + m] = [kind |-> Layout(r)[m], req |-> Len(asked) + 1]
          BY <1>3
        <5>3. stream'[k].req = Len(asked) + 1
          BY <5>2
        <5> QED  BY <1>4, <3>1, <3>4, <5>3
      <4> QED  BY <4>1, <4>2
    <3>5. at' = at
      BY <1>2
    <3> QED  BY <3>3, <3>4, <3>5 DEF Parsed
  <2>2. IsFiniteSet(Parsed') /\ Cardinality(Parsed') \in Nat
    <3>1. Parsed' \in SUBSET (1 .. Len(asked'))
      BY <1>3 DEF Parsed
    <3>2. IsFiniteSet(1 .. Len(asked'))
      BY <1>3, <1>4, FS_Interval
    <3> QED  BY <3>1, <3>2, FS_Subset, FS_CardinalityType
  <2>3. Cardinality(Parsed) <= Cardinality(Parsed') /\ Cardinality(Parsed) \in Nat
    BY <1>1, <2>1, <2>2, FS_Subset, ParsedFinite
  <2>4. Len(answers) \in Nat /\ UNCHANGED <<answers, data>>
    BY <1>1, <1>2, LenProperties DEF Sent, http, out
  <2>5. Len(answers) + (IF data.isFinish THEN 1 ELSE 0) <= Cardinality(Parsed)
    BY <1>1 DEF Counted
  <2>6. Cardinality(Parsed)' = Cardinality(Parsed')
    OBVIOUS
  <2> QED  BY <2>2, <2>3, <2>4, <2>5, <2>6 DEF Counted
<1>14. Parsing(more)'
  <2> SUFFICES ASSUME ~ Between
               PROVE  \E i \in 1 .. Len(asked') : \E k \in 1 .. Total(asked'[i]) - 1 :
                        /\ at' = more[i - 1] + k /\ Spot(asked[i], k)'
                        /\ ~ client'.pipe => Filled(i, k)'
    BY <1>2 DEF Parsing, Between, http
  <2>1. PICK i \in 1 .. Len(asked) : \E k \in 1 .. Total(asked[i]) - 1 :
               at = ends[i - 1] + k /\ Spot(asked[i], k) /\ (~ client.pipe => Filled(i, k))
    BY <1>6 DEF Parsing
  <2>2. PICK k \in 1 .. Total(asked[i]) - 1 :
               at = ends[i - 1] + k /\ Spot(asked[i], k) /\ (~ client.pipe => Filled(i, k))
    BY <2>1
  <2>3. i \in 1 .. Len(asked') /\ i - 1 \in 0 .. Len(asked) /\ asked'[i] = asked[i]
    BY <1>3, <1>4
  <2>4. UNCHANGED <<client, at, parser, run, data, answers>>
    BY <1>2 DEF http, out
  <2>5. at' = more[i - 1] + k
    BY <1>7, <2>2, <2>3, <2>4
  <2>6. Spot(asked[i], k)'
    BY <2>2, <2>3, <2>4 DEF Spot
  <2>7. ~ client'.pipe => Filled(i, k)'
    BY <2>2, <2>3, <2>4 DEF Filled, Strings
  <2> QED  BY <2>2, <2>3, <2>5, <2>6, <2>7
<1>15. Single(more)'
  <2> SUFFICES ASSUME ~ client.pipe PROVE Single(more)'
    BY <1>2 DEF Single
  <2>1. UNCHANGED <<client, at, parser, data, answers>>
    BY <1>2 DEF http, out
  <2>2. ~ data.isFinish /\ Len(answers) = Len(asked) /\ more[Len(asked)] = ends[Len(asked)]
    BY <1>4, <1>7, <1>8
  <2>3. Len(answers') <= Len(asked') /\ Len(asked') <= Len(answers') + 1
    BY <1>3, <1>4, <2>1, <2>2
  <2>4. parser.state = "s_start_req" =>
          /\ at = ends[Len(answers)] /\ data.mBody = << >>
          /\ ~ client.split => ~ data.mKeepAlive
    BY <1>6, <2>2 DEF Single
  <2>5. parser.state # "s_dead"
    BY <1>6, <2>2 DEF Single
  <2> QED  BY <2>1, <2>2, <2>3, <2>4, <2>5 DEF Single
<1> QED  BY <1>7, <1>9, <1>10, <1>11, <1>12, <1>13, <1>14, <1>15 DEF IInv, Local
-----------------------------------------------------------------------------
\* The invariant.

LEMMA Initially ==
  ASSUME Init
  PROVE  IInv
<1>1. http_parser_init \in Parsers /\ http_parser_init.state = "s_start_req"
      /\ HttpRequest \in Datas /\ ~ HttpRequest.isFinish /\ HttpRequest.mBody = << >>
      /\ ~ HttpRequest.mKeepAlive /\ HttpRequest.mPath = << >>
  BY DEF http_parser_init, HttpRequest, Parsers, Datas
<1>2. asked = << >> /\ stream = << >> /\ answers = << >> /\ Len(asked) = 0 /\ Len(stream) = 0
      /\ Len(answers) = 0
  BY DEF Init
<1>3. TypeOK
  <2>1. offset \in 0 .. MaxSize /\ offset <= Size /\ Len(asked) <= MaxRequests
    BY <1>2, HttpAssumption DEF Init
  <2>2. missed \in BOOLEAN /\ (missed => pc \in {"wait", "send"})
    BY DEF Init
  <2>3. run \in Seq(Pieces) /\ asked \in Seq(Requests) /\ stream \in Seq(Pieces)
    BY DEF Init
  <2>4. parser \in Parsers /\ data \in Datas
    BY <1>1 DEF Init
  <2> QED  BY <1>2, <2>1, <2>2, <2>3, <2>4, HttpAssumption DEF Init, TypeOK, Parsers, Datas
<1>4. Known /\ Sent /\ Uncut /\ Serves
  BY <1>1, <1>2 DEF Init, Known, Sent, Uncut, Serves
<1>5. Counted
  <2>1. Cardinality(Parsed) \in Nat
    BY <1>3, ParsedFinite
  <2> QED  BY <1>1, <1>2, <2>1 DEF Init, Counted
<1> DEFINE ends == [j \in 0 .. 0 |-> 0]
<1>6. ends \in [0 .. Len(asked) -> Nat] /\ ends[0] = 0
  BY <1>2
<1>7. Local(ends)
  <2>1. \A i \in 0 .. Len(asked) : i = 0
    BY <1>2
  <2>2. 1 .. Len(asked) = {} /\ 1 .. Len(stream) = {}
    BY <1>2
  <2>3. Placed(ends)
    <3> HIDE DEF ends
    <3> QED  BY <1>2, <1>6, <2>1, <2>2 DEF Placed
  <2>4. Parsing(ends) /\ Single(ends)
    <3> HIDE DEF ends
    <3> QED  BY <1>1, <1>2, <1>6 DEF Init, Parsing, Single, Between
  <2> QED  BY <2>3, <2>4 DEF Local
<1> QED  BY <1>3, <1>4, <1>5, <1>6, <1>7 DEF IInv

LEMMA Inductive ==
  ASSUME IInv, [Next]_vars
  PROVE  IInv'
<1>1. CASE UNCHANGED vars
  <2>1. UNCHANGED <<client, asked, stream, at, http, answers>>
    BY <1>1 DEF vars, conn, out
  <2>2. TypeOK' /\ Uncut' /\ Serves'
    BY <1>1 DEF IInv, TypeOK, Uncut, Serves, Careful, vars, conn, http, out
  <2> QED  BY <2>1, <2>2, Quiet
<1>2. CASE Server
  BY <1>2, ExecuteStepKeeps, ClosingSteps, ExecuteEndStep, RecvStep, WaitSteps, HandleStep,
     SendStep, SendFailsStep DEF Server
<1>3. CASE \E r \in Requests : Ask(r)
  BY <1>3, AskStep
<1>4. CASE Arrive \/ Leave \/ Reset
  BY <1>4, ArriveStep, PeerSteps
<1>5. CASE EdgeDropped
  BY <1>5, DropStep
<1> QED  BY <1>1, <1>2, <1>3, <1>4, <1>5 DEF Next

LEMMA Invariance ==
  Spec => []IInv
BY Initially, Inductive, PTL DEF Spec

-----------------------------------------------------------------------------
\* What follows.

\* Every variable of the connection has a value of its kind; what the parser
\* has consumed is at most what recv returned, and this at most what arrived.
THEOREM TypeCorrect ==
  Spec => []TypeOK
<1>1. IInv => TypeOK
  BY DEF IInv
<1> QED  BY <1>1, Invariance, PTL

\* handleClient (http_server.cpp) calls the servlet and send only when a
\* request has been read to its last piece that it has not answered before,
\* and without pipelining with a body that is complete and in order, whatever
\* the chunks.
THEOREM WholeRequests ==
  Spec => []RequestIsWhole
<1>1. IInv => RequestIsWhole
  <2> SUFFICES ASSUME IInv PROVE RequestIsWhole
    OBVIOUS
  <2>1. TypeOK /\ Serves /\ Counted
    BY DEF IInv
  <2>2. Len(answers) + (IF pc \in {"handle", "send"} THEN 1 ELSE 0) <= Cardinality(Parsed)
    <3>1. Len(answers) \in Nat /\ Cardinality(Parsed) \in Nat
      BY <2>1, ParsedFinite, LenProperties DEF IInv, Sent
    <3>2. pc \in {"handle", "send"} => data.isFinish
      BY <2>1 DEF Serves
    <3> QED  BY <2>1, <3>1, <3>2 DEF Counted
  <2>3. ASSUME pc \in {"handle", "send"}, ~ client.pipe
        PROVE  data.mBody = Str("body", Len(answers) + 1, asked[Len(answers) + 1].body)
    <3>1. PICK ends : Single(ends)
      BY DEF IInv, Local
    <3>2. data.isFinish
      BY <2>1, <2>3 DEF Serves
    <3>3. Len(asked) = Len(answers) + 1 /\ Received(Len(asked))
      BY <2>3, <3>1, <3>2 DEF Single
    <3> QED  BY <3>3 DEF Received
  <2> QED  BY <2>2, <2>3 DEF RequestIsWhole, Str
<1> QED  BY <1>1, Invariance, PTL

LEMMA Refines ==
  ASSUME IInv, Next, Careful
  PROVE  RR!Next \/ UNCHANGED <<asked, answers, Serving, peer # "open">>
<1>1. CASE ExecuteStep
  <2>1. pc' = pc /\ UNCHANGED <<conn, peer, out>>
    BY <1>1 DEF ExecuteStep, s_start_req, Blank, Url, HeaderField, HeaderValue, HeaderEnd,
                ContentLength, s_headers_done, s_body_identity, Mark, More, Becomes
  <2> QED  BY <2>1 DEF Serving, conn, out
<1>2. ~ ParserError
  <2> SUFFICES ASSUME ParserError PROVE FALSE
    OBVIOUS
  <2>1. at < got /\ Between /\ (parser.state = "s_start_req" => Piece.kind # "method")
    BY DEF ParserError, Between
  <2>2. PICK ends, i, k : Here(ends, i, k)
    BY <2>1, Inside
  <2>3. k = 0 /\ parser.state = "s_start_req"
    BY <2>1, <2>2, Alone DEF Careful
  <2>4. asked[i] \in Request /\ Piece.kind = Layout(asked[i])[k + 1]
    BY <2>2, Place DEF IInv
  <2>5. Layout(asked[i])[1] = "method"
    BY <2>4, LayoutShape
  <2> QED  BY <2>1, <2>3, <2>4, <2>5
<1>3. CASE ExecuteEnd \/ Recv \/ RecvWaits \/ Woken \/ Handle
  BY <1>3 DEF ExecuteEnd, Recv, RecvWaits, Woken, Handle, Serving, conn, out
<1>4. CASE RecvNothing \/ SigPipe
  <2>1. RR!HangUp
    BY <1>4 DEF RecvNothing, SigPipe, RR!HangUp, Serving, conn, out
  <2> QED  BY <2>1 DEF RR!Next
<1>5. CASE \E n \in 1 .. Size : Send(n)
  <2>1. PICK n \in 1 .. Size : Send(n)
    BY <1>5
  <2>2. CASE offset' # Size
    BY <2>1, <2>2 DEF Send, Serving, conn
  <2>3. CASE offset' = Size
    <3>1. /\ pc = "send" /\ answers' = Append(answers, response)
          /\ pc' = (IF data.mKeepAlive THEN "recv" ELSE "closed")
          /\ UNCHANGED <<asked, peer>>
      BY <2>1, <2>3 DEF Send, conn
    <3>2. data.isFinish /\ response = RR!Answer(asked[Len(asked)])
      BY <3>1 DEF IInv, Serves
    <3>3. Len(asked) = Len(answers) + 1 /\ Servlet(data) = RR!Answer(asked[Len(asked)])
      BY <3>2, ServletAnswers
    <3>4. data.mKeepAlive = (RR!Answer(asked[Len(asked)])).keep
      BY <3>3 DEF Servlet, RR!Answer
    <3>5. Len(answers) \in Nat
      BY LenProperties DEF IInv, Sent
    <3>6. Len(answers) < Len(asked) /\ asked[Len(answers) + 1] = asked[Len(asked)]
      BY <3>3, <3>5
    <3>7. Serving /\ Serving' = data.mKeepAlive
      <4>1. data.mKeepAlive \in BOOLEAN
        BY DEF IInv, TypeOK
      <4> QED  BY <3>1, <4>1 DEF Serving
    <3>8. RR!Reply
      BY <3>1, <3>2, <3>4, <3>6, <3>7 DEF RR!Reply
    <3> QED  BY <3>8 DEF RR!Next
  <2> QED  BY <2>2, <2>3
<1>6. CASE SendFails
  BY <1>6 DEF SendFails, Serving, conn
<1>7. CASE \E r \in Requests : Ask(r)
  <2>1. RR!Ask
    BY <1>7 DEF Ask, RR!Ask, Serving, out
  <2> QED  BY <2>1 DEF RR!Next
<1>8. CASE Arrive
  BY <1>8 DEF Arrive, Serving, out
<1>9. CASE Leave \/ Reset
  <2>1. /\ peer' # "open" /\ UNCHANGED <<asked, answers, pc>>
    BY <1>9 DEF Leave, Reset, conn, out
  <2>2. CASE peer = "open"
    <3>1. RR!Leave
      BY <2>1, <2>2 DEF RR!Leave, Serving
    <3> QED  BY <3>1 DEF RR!Next
  <2>3. CASE peer # "open"
    BY <2>1, <2>3 DEF Serving
  <2> QED  BY <2>2, <2>3
<1>10. CASE EdgeDropped
  BY <1>10 DEF EdgeDropped, Serving, out
<1> QED  BY <1>1, <1>2, <1>3, <1>4, <1>5, <1>6, <1>7, <1>8, <1>9, <1>10 DEF Next, Server

\* handleClient implements RequestReply for a client that neither sends ahead
\* nor has a string cut by a chunk: requests are answered once, in order and
\* by the servlet of their own path, and the connection ends only with an
\* answer that says so or after the client has left.  Every step is one of
\* RequestReply or a stutter.
THEOREM ImplementsRequestReply ==
  Spec => RR!Init /\ RepliesInOrder
<1>1. Init => RR!Init
  BY DEF Init, RR!Init, Serving
<1>2. IInv /\ [Next]_vars =>
        [Careful => RR!Next \/ UNCHANGED <<asked, answers, Serving, peer # "open">>]_vars
  BY Refines
<1> QED  BY <1>1, <1>2, Invariance, PTL DEF Spec, RepliesInOrder
=============================================================================
