----------------------- MODULE HttpConversationProofs -----------------------
(***************************************************************************)
(* Proofs for HttpConversation, for any requests, windows, transports,     *)
(* header limit, response size and socket space: no byte is lost while the *)
(* connection may be used again, a body is that of its own request, and,   *)
(* where the socket has room for the responses of a window, the client can *)
(* tell them apart and the connection implements HttpDialogue.             *)
(*                                                                         *)
(* What the client sends is described by the places of its units: a unit   *)
(* is followed by the rest of its request (Follows) and preceded by its    *)
(* beginning (Preceded).  Of the server it is enough to know with which    *)
(* unit the part ends that was taken (Position): between two requests not  *)
(* with a text, so that a header is never empty, and before getBody with   *)
(* the end of the header.                                                  *)
(***************************************************************************)
EXTENDS HttpConversation, SequenceTheorems, TLAPS

(* The units sent, and the next one.                                       *)
Stream == Append(sent, next)

Follows ==
    \A m, n \in 1..Len(Stream) :
        /\ m <= n /\ Stream[m].req <= MaxRequests
        /\ Stream[m].part + (n - m) <= Size(Stream[m].req)
        => Stream[n] = [req |-> Stream[m].req, part |-> Stream[m].part + (n - m)]

Preceded ==
    \A n \in 1..Len(Stream) :
        Stream[n].part > 1 =>
            n > 1 /\ Stream[n - 1] = [req |-> Stream[n].req, part |-> Stream[n].part - 1]

LastOf(s) == s[Len(s)]

Answering == phase \in {"running", "resolving", "failed", "broken"}

Position ==
    /\ Usable /\ taken # <<>> => LastOf(taken).part # 1
    /\ Answering => header # <<>>
    /\ phase = "resolving" => calls <= 1
    /\ phase = "running" \/ (phase = "resolving" /\ calls > 0) =>
          taken # <<>> /\ LastOf(taken) = [req |-> Subject, part |-> 2]

Kept == Usable => taken \o leftover \o unread = sent

Framed == TypeOK /\ Follows /\ Preceded /\ Position /\ Kept /\ BodyOfItsRequest
-----------------------------------------------------------------------------
(* The second invariant.  Units are sent in order and none is left out.    *)
Before(u, v) == u.req < v.req \/ (u.req = v.req /\ u.part < v.part)

InOrder ==
    /\ \A m, n \in 1..Len(Stream) : m < n => Before(Stream[m], Stream[n])
    /\ \A n \in 1..Len(Stream), r \in 1..MaxRequests :
          r < Stream[n].req \/ (r = Stream[n].req /\ Stream[n].part > 1) =>
              \E m \in 1..n : Stream[m] = [req |-> r, part |-> 2]

(* How many requests have been taken from the stream.                      *)
Asking == IF taken = <<>> THEN 0 ELSE LastOf(taken).req

Counted ==
    /\ phase = "waiting" => Len(Out) = ResponseSize * Asking
    /\ phase = "returning" => (keep => Len(Out) = ResponseSize * Asking)
    /\ Answering => Len(Out) = ResponseSize * (Subject - 1)
    /\ phase \in {"running", "resolving"} => Asking = Subject

Patient ==
    /\ \A n \in 1..Len(sent) : sent[n].req <= Responses + window
    /\ Answering => Subject <= Responses + window

Laid ==
    \A n \in 1..Len(Out) : /\ Out[n].part = ((n - 1) % ResponseSize) + 1
                           /\ Out[n].re = ((n - 1) \div ResponseSize) + 1

Whole == InOrder /\ Counted /\ Patient /\ Laid
-----------------------------------------------------------------------------
(* Parts of sequences.                                                     *)

LEMMA UptoFacts ==
    ASSUME NEW S, NEW s \in Seq(S), NEW n \in Nat
    PROVE  /\ Upto(s, n) \in Seq(S) /\ Len(Upto(s, n)) \in Nat
           /\ n < Len(s) => Len(Upto(s, n)) = n
           /\ n >= Len(s) => Len(Upto(s, n)) = Len(s)
           /\ \A i \in 1..Len(Upto(s, n)) : Upto(s, n)[i] = s[i]
<1>1. PICK l \in Nat : l = Len(s)
  BY LenProperties
<1>2. PICK k \in 0..l : k = IF n < l THEN n ELSE l
  OBVIOUS
<1>3. PICK q : q = SubSeq(s, 1, k)
  OBVIOUS
<1>4. Upto(s, n) = q
  BY <1>1, <1>2, <1>3 DEF Upto
<1>5. \A i \in 1..k : s[i] \in S
  BY <1>1, ElementOfSeq
<1>6. /\ q \in Seq(S) /\ Len(q) = IF 1 <= k THEN k - 1 + 1 ELSE 0
      /\ \A i \in 1..(k - 1 + 1) : q[i] = s[1 + i - 1]
  <2>1. /\ SubSeq(s, 1, k) \in Seq(S)
        /\ Len(SubSeq(s, 1, k)) = IF 1 <= k THEN k - 1 + 1 ELSE 0
        /\ \A i \in 1..(k - 1 + 1) : SubSeq(s, 1, k)[i] = s[1 + i - 1]
    BY <1>5, SubSeqProperties
  <2>2. QED
    BY <1>3, <2>1, Zenon
<1>7. Len(q) = k /\ \A i \in 1..k : q[i] = s[i]
  <2>1. k - 1 + 1 = k /\ \A i \in 1..k : 1 + i - 1 = i
    OBVIOUS
  <2>2. QED
    BY <1>6, <2>1
<1>8. QED
  <2>1. Len(q) \in Nat /\ (n < l => Len(q) = n) /\ (n >= l => Len(q) = l)
    BY <1>2, <1>7
  <2>2. \A i \in 1..Len(q) : q[i] = s[i]
    BY <1>7
  <2>3. QED
    BY <1>1, <1>4, <1>6, <2>1, <2>2

LEMMA DropFacts ==
    ASSUME NEW S, NEW s \in Seq(S), NEW n \in Nat
    PROVE  /\ Drop(s, n) \in Seq(S) /\ Len(Drop(s, n)) \in Nat
           /\ n < Len(s) => Len(Drop(s, n)) = Len(s) - n
           /\ n >= Len(s) => Len(Drop(s, n)) = 0
           /\ \A i \in 1..Len(Drop(s, n)) : Drop(s, n)[i] = s[n + i]
<1>1. PICK k \in Nat : k = Len(s)
  BY LenProperties
<1>2. PICK m \in Int : m = n + 1
  OBVIOUS
<1>3. PICK q : q = SubSeq(s, m, k)
  OBVIOUS
<1>4. Drop(s, n) = q
  BY <1>1, <1>2, <1>3 DEF Drop
<1>5. \A i \in m..k : s[i] \in S
  <2>1. \A i \in m..k : i \in 1..k
    BY <1>2
  <2>2. QED
    BY <1>1, <2>1, ElementOfSeq
<1>6. /\ q \in Seq(S) /\ Len(q) = IF m <= k THEN k - m + 1 ELSE 0
      /\ \A i \in 1..(k - m + 1) : q[i] = s[m + i - 1]
  <2>1. /\ SubSeq(s, m, k) \in Seq(S)
        /\ Len(SubSeq(s, m, k)) = IF m <= k THEN k - m + 1 ELSE 0
        /\ \A i \in 1..(k - m + 1) : SubSeq(s, m, k)[i] = s[m + i - 1]
    BY <1>5, SubSeqProperties
  <2>2. QED
    BY <1>3, <2>1, Zenon
<1>7. /\ Len(q) \in Nat /\ (n < k => Len(q) = k - n) /\ (n >= k => Len(q) = 0)
  BY <1>2, <1>6
<1>8. \A i \in 1..Len(q) : q[i] = s[n + i]
  <2>1. \A i \in 1..Len(q) : i \in 1..(k - m + 1) /\ m + i - 1 = n + i
    BY <1>2, <1>7
  <2>2. QED
    BY <1>6, <2>1
<1>9. QED
  BY <1>1, <1>4, <1>6, <1>7, <1>8

(* t is in u, from the place after k on.                                   *)
AtEnd(u, k, t) == \A i \in 1..Len(t) : u[k + i] = t[i]

LEMMA ConcatFacts ==
    ASSUME NEW S, NEW s \in Seq(S), NEW t \in Seq(S)
    PROVE  /\ s \o t \in Seq(S) /\ Len(s) \in Nat /\ Len(t) \in Nat
           /\ Len(s \o t) = Len(s) + Len(t)
           /\ \A i \in 1..Len(s) : (s \o t)[i] = s[i]
           /\ AtEnd(s \o t, Len(s), t)
<1>0. PICK u : u = s \o t
  OBVIOUS
<1>1. PICK a \in Nat, b \in Nat : a = Len(s) /\ b = Len(t) /\ u = s \o t
  BY <1>0, LenProperties
<1>2. /\ u \in Seq(S) /\ Len(u) = a + b
      /\ \A i \in 1..(a + b) : u[i] = IF i <= a THEN s[i] ELSE t[i - a]
  BY <1>1, ConcatProperties, Zenon
<1>3. ASSUME NEW i \in 1..a PROVE u[i] = s[i]
  <2>1. i \in 1..(a + b) /\ i <= a
    OBVIOUS
  <2>2. QED
    BY <1>2, <2>1
<1>4. ASSUME NEW i \in 1..b PROVE u[a + i] = t[i]
  <2>1. PICK j \in 1..(a + b) : j = a + i
    OBVIOUS
  <2>2. ~(j <= a) /\ j - a = i
    BY <2>1
  <2>3. QED
    BY <1>2, <2>1, <2>2
<1>5. AtEnd(u, a, t)
  BY <1>1, <1>4 DEF AtEnd
<1>6. QED
  BY <1>1, <1>2, <1>3, <1>5, Zenon

LEMMA UptoDrop ==
    ASSUME NEW S, NEW s \in Seq(S), NEW n \in Nat
    PROVE  Upto(s, n) \o Drop(s, n) = s
<1>1. PICK k \in Nat : k = Len(s)
  BY LenProperties
<1>2. SubSeq(s, 1, k) = s
  BY <1>1, SubSeqFull
<1>3. CASE n < k
  <2>1. Upto(s, n) = SubSeq(s, 1, n) /\ Drop(s, n) = SubSeq(s, n + 1, k)
    BY <1>1, <1>3 DEF Upto, Drop
  <2>2. 1 \in 1..(k + 1) /\ n \in (1 - 1)..k /\ k \in n..k
    BY <1>3
  <2>3. QED
    BY <1>1, <1>2, <2>1, <2>2, ConcatAdjacentSubSeq
<1>4. CASE ~(n < k)
  <2>1. Upto(s, n) = s
    BY <1>1, <1>2, <1>4 DEF Upto
  <2>2. PICK q : q = Drop(s, n)
    OBVIOUS
  <2>3. q \in Seq(S) /\ Len(q) = 0
    <3>1. n >= k
      BY <1>4
    <3>2. QED
      BY <1>1, <2>2, <3>1, DropFacts
  <2>4. q = <<>>
    BY <2>3, EmptySeq
  <2>5. QED
    BY <2>1, <2>2, <2>4, ConcatEmptySeq
<1>5. QED
  BY <1>3, <1>4

(* A prefix of a concatenation.                                            *)
LEMMA UptoConcat ==
    ASSUME NEW S, NEW s \in Seq(S), NEW t \in Seq(S), NEW n \in Nat
    PROVE  /\ n <= Len(s) => Upto(s \o t, n) = Upto(s, n)
           /\ n >= Len(s) => Upto(s \o t, n) = s \o Upto(t, n - Len(s))
<1>0. PICK u, p : u = s \o t /\ p = Upto(s \o t, n)
  OBVIOUS
<1>1. PICK a \in Nat, b \in Nat : /\ a = Len(s) /\ b = Len(t)
                                 /\ u = s \o t /\ p = Upto(s \o t, n)
  BY <1>0, LenProperties
<1>2. /\ u \in Seq(S) /\ Len(u) = a + b
      /\ \A i \in 1..a : u[i] = s[i]
      /\ \A i \in 1..b : u[a + i] = t[i]
  <2>1. /\ u \in Seq(S) /\ Len(u) = a + b
        /\ \A i \in 1..a : u[i] = s[i]
        /\ AtEnd(u, a, t)
    BY <1>1, ConcatFacts, Zenon
  <2>2. QED
    BY <1>1, <2>1 DEF AtEnd
<1>3. PICK m \in 0..(a + b) : m = IF n < a + b THEN n ELSE a + b
  OBVIOUS
<1>4. p \in Seq(S) /\ Len(p) = m /\ \A i \in 1..m : p[i] = u[i]
  <2>1. p = Upto(u, n)
    BY <1>1, Zenon
  <2>2. /\ p \in Seq(S) /\ (n < a + b => Len(p) = n) /\ (n >= a + b => Len(p) = a + b)
        /\ \A i \in 1..Len(p) : p[i] = u[i]
    BY <1>2, <2>1, UptoFacts, Zenon
  <2>3. Len(p) = m
    BY <1>3, <2>2
  <2>4. QED
    BY <2>2, <2>3
<1>5. ASSUME n <= a PROVE p = Upto(s, n)
  <2>1. m = n
    BY <1>3, <1>5
  <2>2. PICK q : q = Upto(s, n)
    OBVIOUS
  <2>3. q \in Seq(S) /\ Len(q) = n /\ \A i \in 1..n : q[i] = s[i]
    <3>1. /\ q \in Seq(S) /\ (n < a => Len(q) = n) /\ (n >= a => Len(q) = a)
          /\ \A i \in 1..Len(q) : q[i] = s[i]
      BY <1>1, <2>2, UptoFacts, Zenon
    <3>2. Len(q) = n
      BY <1>5, <3>1
    <3>3. QED
      BY <3>1, <3>2
  <2>4. \A i \in 1..n : p[i] = q[i]
    BY <1>2, <1>4, <1>5, <2>1, <2>3
  <2>5. QED
    BY <1>4, <2>1, <2>2, <2>3, <2>4, SeqEqual
<1>6. ASSUME n >= a PROVE p = s \o Upto(t, n - a)
  <2>1. PICK q, c : q = Upto(t, n - a) /\ c = s \o q
    OBVIOUS
  <2>2. n - a \in Nat /\ a <= m
    BY <1>3, <1>6
  <2>3. q \in Seq(S) /\ Len(q) = m - a /\ \A i \in 1..(m - a) : q[i] = t[i]
    <3>1. /\ q \in Seq(S) /\ (n - a < b => Len(q) = n - a) /\ (n - a >= b => Len(q) = b)
          /\ \A i \in 1..Len(q) : q[i] = t[i]
      BY <1>1, <2>1, <2>2, UptoFacts
    <3>2. Len(q) = m - a
      BY <1>3, <1>6, <3>1
    <3>3. QED
      BY <3>1, <3>2
  <2>4. /\ c \in Seq(S) /\ Len(c) = m
        /\ \A i \in 1..a : c[i] = s[i]
        /\ \A i \in 1..(m - a) : c[a + i] = q[i]
    <3>1. Len(c) = a + (m - a)
      BY <1>1, <2>1, <2>3, ConcatFacts
    <3>2. QED
      BY <1>1, <2>1, <2>2, <2>3, <3>1, ConcatFacts
  <2>5. ASSUME NEW i \in 1..m PROVE p[i] = c[i]
    <3>1. CASE i <= a
      BY <1>2, <1>4, <2>4, <3>1
    <3>2. CASE i > a
      <4>1. PICK j \in 1..(m - a) : i = a + j
        <5>1. i - a \in 1..(m - a) /\ i = a + (i - a)
          BY <2>2, <3>2
        <5>2. QED
          BY <5>1
      <4>2. j \in 1..b
        BY <1>3, <2>2
      <4>3. c[i] = t[j]
        BY <2>3, <2>4, <4>1
      <4>4. QED
        BY <1>2, <1>4, <4>1, <4>2, <4>3
    <3>3. QED
      BY <3>1, <3>2
  <2>6. QED
    BY <1>4, <2>1, <2>4, <2>5, SeqEqual
<1>7. QED
  BY <1>1, <1>5, <1>6

Chained(a, b, c) == (a \o b) \o c = a \o (b \o c)

LEMMA AlwaysChained ==
    ASSUME NEW S, NEW a \in Seq(S), NEW b \in Seq(S), NEW c \in Seq(S)
    PROVE  Chained(a, b, c)
  BY ConcatAssociative DEF Chained

(* s and the first units of t make p, and with the rest of t it is all.    *)
Splits(p, s, t) == p \o Drop(t, Len(p) - Len(s)) = s \o t

(* peek(): leftoverBuffer is a part of what it has then, and the rest of   *)
(* that comes from the socket.                                             *)
LEMMA PeekLaw ==
    ASSUME NEW S, NEW s \in Seq(S), NEW t \in Seq(S), NEW n \in Nat, Len(s) <= n
    PROVE  \A p : p = Upto(s \o t, n) =>
              /\ p \in Seq(S) /\ Len(p) \in Nat /\ Len(p) <= n
              /\ Len(p) - Len(s) \in 0..Len(t)
              /\ Splits(p, s, t)
<1>0. PICK p : p = Upto(s \o t, n)
  OBVIOUS
<1>1. PICK a \in Nat, b \in Nat : a = Len(s) /\ b = Len(t) /\ p = Upto(s \o t, n)
  BY <1>0, LenProperties
<1>2. PICK m \in Nat : n = a + m
  <2>1. n - a \in Nat /\ n = a + (n - a)
    BY <1>1
  <2>2. QED
    BY <2>1
<1>3. PICK q, c : q = Upto(t, m) /\ c \in Nat /\ c = Len(q)
  BY UptoFacts
<1>4. p = s \o q
  <2>1. n >= Len(s) /\ n - Len(s) = m
    BY <1>1, <1>2
  <2>2. Upto(s \o t, n) = s \o Upto(t, n - Len(s))
    BY <2>1, UptoConcat
  <2>3. QED
    BY <1>1, <1>3, <2>1, <2>2, Zenon
<1>5. /\ q \in Seq(S) /\ (m < b => c = m) /\ (m >= b => c = b)
      /\ \A i \in 1..c : q[i] = t[i]
  BY <1>1, <1>3, UptoFacts, Zenon
<1>6. c <= m /\ c \in 0..b
  BY <1>3, <1>5
<1>7. p \in Seq(S) /\ Len(p) = a + c
  BY <1>1, <1>3, <1>4, <1>5, ConcatFacts, Zenon
<1>8. PICK d, e : d = Drop(t, c) /\ e = Upto(t, c)
  OBVIOUS
<1>9. e = q
  <2>1. /\ e \in Seq(S) /\ (c < b => Len(e) = c) /\ (c >= b => Len(e) = b)
        /\ \A i \in 1..Len(e) : e[i] = t[i]
    BY <1>1, <1>3, <1>8, UptoFacts, Zenon
  <2>2. Len(e) = c
    BY <1>6, <2>1
  <2>3. Len(e) = Len(q) /\ \A i \in 1..Len(e) : e[i] = q[i]
    BY <1>3, <1>5, <2>1, <2>2
  <2>4. QED
    BY <1>5, <2>1, <2>3, SeqEqual, Zenon
<1>10. d \in Seq(S) /\ q \o d = t
  BY <1>3, <1>8, <1>9, UptoDrop, DropFacts, Zenon
<1>11. p \o d = s \o t
  <2>1. q \in Seq(S) /\ d \in Seq(S)
    BY <1>5, <1>10
  <2>2. (s \o q) \o d = s \o (q \o d)
    <3>1. Chained(s, q, d)
      BY <2>1, AlwaysChained, Zenon
    <3>2. QED
      BY <3>1, Zenon DEF Chained
  <2>3. QED
    BY <1>4, <1>10, <2>2, Zenon
<1>12. /\ Len(p) \in Nat /\ Len(p) <= n /\ Len(p) - a = c
  BY <1>2, <1>3, <1>6, <1>7
<1>13. QED
  <2>1. Drop(t, Len(p) - a) = d
    BY <1>8, <1>12, Zenon
  <2>2. Len(p) - a \in 0..b
    BY <1>6, <1>12, Zenon
  <2>3. Splits(p, s, t)
    BY <1>1, <1>11, <2>1, Zenon DEF Splits
  <2>4. QED
    BY <1>1, <1>7, <1>12, <2>2, <2>3, Zenon

(* Nothing is dropped from the front.                                      *)
LEMMA DropNothing ==
    ASSUME NEW S, NEW t \in Seq(S)
    PROVE  Drop(t, 0) = t
<1>1. PICK k \in Nat : k = Len(t)
  BY LenProperties
<1>2. Drop(t, 0) = SubSeq(t, 1, k)
  BY <1>1 DEF Drop
<1>3. QED
  BY <1>1, <1>2, SubSeqFull

ReadSplits(p, s, t, n, r) == p \o (Drop(s, n) \o Drop(t, r)) = s \o t

(* read(): what it takes comes from leftoverBuffer first, and the rest     *)
(* from the socket: both are used up to it.                                *)
LEMMA ReadLawBeyond ==
    ASSUME NEW S, NEW s \in Seq(S), NEW t \in Seq(S), NEW n \in Nat, Len(s) < n
    PROVE  \A p : p = Upto(s \o t, n) =>
              /\ Len(p) - Len(s) \in 0..Len(t)
              /\ Drop(s, n) \in Seq(S) /\ Len(Drop(s, n)) = 0
              /\ ReadSplits(p, s, t, n, Len(p) - Len(s))
<1>0. PICK p, r, d, e :
          /\ p = Upto(s \o t, n)
          /\ r = Len(Upto(s \o t, n)) - Len(s)
          /\ d = Drop(s, n)
          /\ e = Drop(t, Len(Upto(s \o t, n)) - Len(s))
  OBVIOUS
<1>1. PICK a \in Nat, b \in Nat :
          /\ a = Len(s) /\ b = Len(t) /\ p = Upto(s \o t, n)
          /\ r = Len(p) - Len(s) /\ d = Drop(s, n) /\ e = Drop(t, r)
  BY <1>0, LenProperties
<1>2. a < n /\ a <= n /\ n >= a
  BY <1>1
<1>3. r \in 0..b /\ p \o e = s \o t
  <2>1. Len(s) <= n
    BY <1>1, <1>2
  <2>2. Len(p) - Len(s) \in 0..Len(t) /\ Splits(p, s, t)
    BY <1>1, <2>1, PeekLaw, Zenon
  <2>3. QED
    BY <1>1, <2>2, Zenon DEF Splits
<1>4. d \in Seq(S) /\ Len(d) = 0
  BY <1>1, <1>2, DropFacts, Zenon
<1>5. d = <<>>
  BY <1>4, EmptySeq
<1>6. r \in Nat
  BY <1>3
<1>7. e \in Seq(S)
  BY <1>1, <1>6, DropFacts, Zenon
<1>8. d \o e = e
  BY <1>5, <1>7, ConcatEmptySeq
<1>9. p \o (d \o e) = s \o t
  BY <1>3, <1>8, Zenon
<1>10. ReadSplits(p, s, t, n, r)
  BY <1>1, <1>9, Zenon DEF ReadSplits
<1>11. QED
  BY <1>1, <1>3, <1>4, <1>10, Zenon

LEMMA ReadLawWithin ==
    ASSUME NEW S, NEW s \in Seq(S), NEW t \in Seq(S), NEW n \in Nat, n <= Len(s)
    PROVE  /\ Drop(s, n) \in Seq(S) /\ Len(Drop(s, n)) <= Len(s)
           /\ \A p : p = Upto(s \o t, n) => ReadSplits(p, s, t, n, 0)
<1>0. PICK p, d : p = Upto(s \o t, n) /\ d = Drop(s, n)
  OBVIOUS
<1>1. PICK a \in Nat : a = Len(s) /\ p = Upto(s \o t, n) /\ d = Drop(s, n)
  BY <1>0, LenProperties
<1>2. /\ d \in Seq(S) /\ Len(d) \in Nat /\ (n < a => Len(d) = a - n)
      /\ (n >= a => Len(d) = 0)
  BY <1>1, DropFacts, Zenon
<1>3. n <= a
  BY <1>1
<1>4. Len(d) <= a
  BY <1>2
<1>5. p = Upto(s, n)
  BY <1>1, <1>3, UptoConcat, Zenon
<1>6. p \in Seq(S) /\ p \o d = s
  BY <1>1, <1>5, UptoFacts, UptoDrop, Zenon
<1>7. Drop(t, 0) = t
  BY DropNothing
<1>8. p \o (d \o t) = (p \o d) \o t
  <2>1. d \in Seq(S) /\ p \in Seq(S)
    BY <1>2, <1>6
  <2>2. Chained(p, d, t)
    BY <2>1, AlwaysChained, Zenon
  <2>3. QED
    BY <2>2, Zenon DEF Chained
<1>9. ReadSplits(p, s, t, n, 0)
  BY <1>1, <1>6, <1>7, <1>8, Zenon DEF ReadSplits
<1>10. QED
  BY <1>1, <1>2, <1>4, <1>9, Zenon
-----------------------------------------------------------------------------
(* What the type invariant says of each variable.                          *)
Places == [req : 1..(MaxRequests + 1), part : Nat \ {0}]

LEMMA Types ==
    ASSUME TypeOK
    PROVE  /\ unread \in Seq(Units) /\ leftover \in Seq(Units) /\ header \in Seq(Units)
           /\ sent \in Seq(Units) /\ taken \in Seq(Units)
           /\ wire \in Seq(ResponseUnits) /\ received \in Seq(ResponseUnits)
           /\ next \in Places
  BY Zenon DEF TypeOK, Places

LEMMA Sizes ==
    ASSUME TypeOK, NEW i \in 1..MaxRequests
    PROVE  /\ requests[i] \in Kinds
           /\ requests[i].length \in Nat /\ requests[i].reads \in {0, 1}
           /\ requests[i].keepAlive \in BOOLEAN
           /\ Size(i) \in Nat /\ Size(i) = 2 + requests[i].length
<1>1. requests[i] \in Kinds
  BY DEF TypeOK
<1>2. requests[i] \in [bare : BOOLEAN, keepAlive : BOOLEAN, length : Nat,
                       reads : {0, 1}, throws : BOOLEAN]
  BY <1>1, ConversationAssumption
<1>3. QED
  BY <1>1, <1>2 DEF Size

LEMMA Constants ==
    /\ MaxRequests \in Nat \ {0} /\ MaxHeader \in Nat \ {0}
    /\ ResponseSize \in Nat \ {0} /\ SendSpace \in Nat \ {0}
    /\ Windows \subseteq Nat \ {0}
  BY ConversationAssumption

LEMMA StreamFacts ==
    ASSUME TypeOK
    PROVE  /\ Stream \in Seq(Places) /\ Len(Stream) = Len(sent) + 1 /\ Len(sent) \in Nat
           /\ \A i \in 1..Len(sent) : Stream[i] = sent[i]
           /\ Stream[Len(sent) + 1] = next
<1>1. Units \subseteq Places
  BY Constants DEF Units, Places
<1>2. sent \in Seq(Places) /\ next \in Places
  BY <1>1, Types, SeqMonotonic
<1>3. QED
  BY <1>2, AppendProperties, LenProperties DEF Stream

LEMMA StreamStays ==
    ASSUME Follows, Preceded, UNCHANGED <<requests, sent, next>>
    PROVE  Follows' /\ Preceded'
  BY DEF Follows, Preceded, Stream, Size

LEMMA StreamGrows ==
    ASSUME TypeOK, Follows, Preceded, SendUnit
    PROVE  Follows' /\ Preceded' /\ next' \in Places
<1> PICK t, u, x : t = Stream /\ u = Stream' /\ x = next'
  OBVIOUS
<1> PICK N \in Nat : t = Stream /\ u = Stream' /\ x = next' /\ N = Len(sent) + 1
  BY StreamFacts
<1>1. t \in Seq(Places) /\ Len(t) = N /\ N >= 1 /\ t[N] = next /\ next \in Places
  BY StreamFacts, Types
<1>2. next.req \in 1..MaxRequests /\ next.part \in Nat \ {0}
  BY <1>1, Constants DEF SendUnit, Places
<1>3. x = IF next.part < Size(next.req)
            THEN [req |-> next.req, part |-> next.part + 1]
            ELSE [req |-> next.req + 1, part |-> 1]
  <2>1. [next EXCEPT !.part = @ + 1] = [req |-> next.req, part |-> next.part + 1]
    BY <1>1 DEF Places
  <2>2. QED
    BY <2>1 DEF SendUnit
<1>4. x \in Places
  BY <1>2, <1>3, Constants DEF Places
<1>5. u = Append(t, x)
  BY DEF SendUnit, Stream
<1>6. /\ Len(u) = N + 1
      /\ \A i \in 1..N : u[i] = t[i]
      /\ u[N + 1] = x
  BY <1>1, <1>4, <1>5, AppendProperties
<1>7. \A i \in 1..N : t[i] \in Places
  BY <1>1, ElementOfSeq
<1>8. Follows'
  <2>0. \A m, n \in 1..N :
            m <= n /\ t[m].req <= MaxRequests /\ t[m].part + (n - m) <= Size(t[m].req)
              => t[n] = [req |-> t[m].req, part |-> t[m].part + (n - m)]
    BY <1>1 DEF Follows
  <2> SUFFICES ASSUME NEW m \in 1..(N + 1), NEW n \in 1..(N + 1), m <= n,
                      u[m].req <= MaxRequests,
                      u[m].part + (n - m) <= Size(u[m].req)
               PROVE  u[n] = [req |-> u[m].req, part |-> u[m].part + (n - m)]
    BY <1>6 DEF Follows, Size, SendUnit, setup
  <2>1. CASE n <= N
    <3>1. m \in 1..N /\ n \in 1..N
      BY <2>1
    <3>2. QED
      BY <1>1, <1>6, <3>1 DEF Follows
  <2>2. CASE n = N + 1 /\ m = N + 1
    BY <1>4, <1>6, <2>2 DEF Places
  <2>3. CASE n = N + 1 /\ m <= N
    <3>1. m \in 1..N /\ N \in 1..N /\ u[m] = t[m]
      BY <1>1, <1>6, <2>3
    <3>2. PICK a \in Nat, b \in Nat : a = t[m].req /\ b = t[m].part
      BY <1>7, <3>1, Constants DEF Places
    <3>3. b + (n - m) <= Size(a) /\ n - m = (N - m) + 1
      BY <2>3, <3>1, <3>2
    <3>4. a \in 1..MaxRequests
      BY <1>7, <3>1, <3>2, Constants DEF Places
    <3>5. Size(a) \in Nat
      BY <3>4, Sizes
    <3>6. b + (N - m) < Size(a)
      BY <3>1, <3>3, <3>5
    <3>7. t[N] = [req |-> a, part |-> b + (N - m)]
      <4>1. m <= N /\ a <= MaxRequests /\ b + (N - m) <= Size(a)
        BY <3>1, <3>4, <3>5, <3>6
      <4>2. QED
        BY <2>0, <3>1, <3>2, <4>1
    <3>8. next.req = a /\ next.part = b + (N - m)
      BY <1>1, <3>7
    <3>9. x = [req |-> a, part |-> b + (N - m) + 1]
      BY <1>3, <3>6, <3>8
    <3>10. b + (n - m) = b + (N - m) + 1
      BY <3>3
    <3>11. QED
      BY <1>6, <2>3, <3>1, <3>2, <3>9, <3>10
  <2>4. QED
    BY <2>1, <2>2, <2>3
<1>9. Preceded'
  <2> SUFFICES ASSUME NEW n \in 1..(N + 1), u[n].part > 1
               PROVE  n > 1 /\ u[n - 1] = [req |-> u[n].req, part |-> u[n].part - 1]
    BY <1>6 DEF Preceded
  <2>1. CASE n <= N
    <3>1. n \in 1..N
      BY <2>1
    <3>2. n > 1 /\ t[n - 1] = [req |-> t[n].req, part |-> t[n].part - 1]
      BY <1>1, <1>6, <3>1 DEF Preceded
    <3>3. n - 1 \in 1..N
      BY <3>1, <3>2
    <3>4. QED
      BY <1>6, <3>1, <3>2, <3>3
  <2>2. CASE n = N + 1
    <3>1. u[n] = x /\ x.part > 1 /\ n - 1 = N /\ u[n - 1] = next /\ n > 1
      BY <1>1, <1>6, <2>2
    <3>2. x = [req |-> next.req, part |-> next.part + 1]
      BY <1>3, <3>1
    <3>3. x.req = next.req /\ x.part - 1 = next.part
      BY <1>2, <3>2
    <3>4. next = [req |-> next.req, part |-> next.part]
      BY <1>1 DEF Places
    <3>5. QED
      BY <3>1, <3>3, <3>4
  <2>3. QED
    BY <2>1, <2>2
<1>10. QED
  BY <1>4, <1>8, <1>9
-----------------------------------------------------------------------------
(* Where what was taken and what is still to take are in the stream.       *)
LEMMA InStream ==
    ASSUME TypeOK, Kept, Usable
    PROVE  /\ leftover \o unread \in Seq(Units) /\ Len(taken) \in Nat
           /\ taken \o (leftover \o unread) = sent
           /\ Len(sent) = Len(taken) + Len(leftover \o unread)
           /\ \A i \in 1..Len(taken) : Stream[i] = taken[i]
           /\ \A i \in 1..Len(leftover \o unread) :
                 Stream[Len(taken) + i] = (leftover \o unread)[i]
<1>0. PICK rest : rest = leftover \o unread
  OBVIOUS
<1>1. PICK N \in Nat, L \in Nat :
          N = Len(taken) /\ L = Len(leftover \o unread) /\ rest = leftover \o unread
  BY <1>0, Types, ConcatFacts, LenProperties
<1>2. rest \in Seq(Units) /\ taken \in Seq(Units) /\ Len(rest) = L
  BY <1>1, Types, ConcatFacts
<1>3. taken \o rest = sent
  <2>1. leftover \in Seq(Units) /\ unread \in Seq(Units) /\ taken \in Seq(Units)
    BY Types
  <2>2. (taken \o leftover) \o unread = taken \o (leftover \o unread)
    <3>1. Chained(taken, leftover, unread)
      BY <2>1, AlwaysChained, Zenon
    <3>2. QED
      BY <3>1, Zenon DEF Chained
  <2>3. (taken \o leftover) \o unread = sent
    BY DEF Kept
  <2>4. QED
    BY <1>1, <2>2, <2>3, Zenon
<1>4. /\ Len(sent) = N + L
      /\ \A i \in 1..N : sent[i] = taken[i]
      /\ \A i \in 1..L : sent[N + i] = rest[i]
  <2>1. taken \in Seq(Units) /\ rest \in Seq(Units)
    BY <1>2
  <2>2. /\ Len(sent) = Len(taken) + Len(rest)
        /\ \A i \in 1..Len(taken) : sent[i] = taken[i]
        /\ AtEnd(sent, Len(taken), rest)
    BY <1>3, <2>1, ConcatFacts, Zenon
  <2>3. QED
    BY <1>1, <1>2, <2>2 DEF AtEnd
<1>5. \A i \in 1..(N + L) : Stream[i] = sent[i]
  BY <1>4, StreamFacts
<1>6. \A i \in 1..N : i \in 1..(N + L)
  OBVIOUS
<1>7. \A i \in 1..L : N + i \in 1..(N + L)
  OBVIOUS
<1>8. /\ \A i \in 1..N : Stream[i] = taken[i]
      /\ \A i \in 1..L : Stream[N + i] = rest[i]
  BY <1>4, <1>5, <1>6, <1>7, Zenon
<1>9. QED
  BY <1>1, <1>2, <1>3, <1>4, <1>8, Zenon

(* Peeked is what leftoverBuffer has then: the first units of the rest.    *)
LEMMA PeekFacts ==
    ASSUME TypeOK
    PROVE  /\ Peeked \in Seq(Units) /\ Len(Peeked) \in 0..MaxHeader
           /\ NewlyPeeked \in 0..Len(unread)
           /\ Splits(Peeked, leftover, unread)
           /\ Len(Peeked) <= Len(leftover \o unread)
           /\ \A i \in 1..Len(Peeked) : Peeked[i] = (leftover \o unread)[i]
<1>1. leftover \in Seq(Units) /\ unread \in Seq(Units) /\ Len(leftover) <= MaxHeader
  BY Types DEF TypeOK
<1>2. MaxHeader \in Nat
  BY Constants
<1>0. PICK rest, p : rest = leftover \o unread /\ p = Peeked
  OBVIOUS
<1>3. PICK L \in Nat :
          rest = leftover \o unread /\ L = Len(rest) /\ p = Peeked
  BY <1>0, <1>1, ConcatFacts, LenProperties
<1>4. p = Upto(leftover \o unread, MaxHeader) /\ p = Upto(rest, MaxHeader)
  BY <1>3 DEF Peeked
<1>5. /\ p \in Seq(Units) /\ Len(p) \in Nat /\ Len(p) <= MaxHeader
      /\ Len(p) - Len(leftover) \in 0..Len(unread)
      /\ Splits(p, leftover, unread)
  BY <1>1, <1>2, <1>4, PeekLaw, Zenon
<1>6. rest \in Seq(Units)
  BY <1>1, <1>3, ConcatFacts
<1>7. /\ (MaxHeader < L => Len(p) = MaxHeader) /\ (MaxHeader >= L => Len(p) = L)
      /\ \A i \in 1..Len(p) : p[i] = rest[i]
  <2>1. /\ MaxHeader < Len(rest) => Len(Upto(rest, MaxHeader)) = MaxHeader
        /\ MaxHeader >= Len(rest) => Len(Upto(rest, MaxHeader)) = Len(rest)
        /\ \A i \in 1..Len(Upto(rest, MaxHeader)) : Upto(rest, MaxHeader)[i] = rest[i]
    BY <1>2, <1>6, UptoFacts, Zenon
  <2>2. QED
    BY <1>3, <1>4, <2>1, Zenon
<1>8. Len(p) <= L /\ Len(p) \in 0..MaxHeader
  BY <1>2, <1>5, <1>7
<1>9. QED
  BY <1>3, <1>5, <1>7, <1>8, Zenon DEF NewlyPeeked

LEMMA Decrypts ==
    ASSUME TypeOK, NEW n \in 0..Len(unread), NEW d \in DecryptedAfter(n)
    PROVE  Drop(unread, n) \in Seq(Units) /\ d \in 0..Len(Drop(unread, n))
<1>0. PICK r : r = Drop(unread, n)
  OBVIOUS
<1>1. PICK L \in Nat : L = Len(unread) /\ r = Drop(unread, n)
  BY <1>0, Types, LenProperties
<1>2. n \in Nat /\ n <= L
  BY <1>1
<1>3. /\ r \in Seq(Units) /\ (n < L => Len(r) = L - n) /\ (n >= L => Len(r) = 0)
  BY <1>1, <1>2, Types, DropFacts, Zenon
<1>4. Len(r) = L - n
  BY <1>2, <1>3
<1>5. d \in 0..(L - n)
  <2>1. transport \in {"plain", "tls"} /\ decrypted \in 0..L
    BY <1>1, ConversationAssumption DEF TypeOK
  <2>2. CASE transport = "plain"
    BY <1>2, <2>2 DEF DecryptedAfter
  <2>3. CASE transport = "tls" /\ n <= decrypted
    <3>1. DecryptedAfter(n) = {decrypted - n}
      BY <1>2, <2>1, <2>3 DEF DecryptedAfter
    <3>2. QED
      BY <1>2, <2>1, <2>3, <3>1
  <2>4. CASE transport = "tls" /\ n > decrypted
    <3>1. DecryptedAfter(n) = 0..(L - n)
      <4>1. ~(n <= decrypted)
        BY <1>2, <2>1, <2>4
      <4>2. QED
        BY <1>1, <2>4, <4>1 DEF DecryptedAfter
    <3>2. QED
      BY <3>1
  <2>5. QED
    BY <1>2, <2>1, <2>2, <2>3, <2>4
<1>6. QED
  BY <1>1, <1>3, <1>4, <1>5

LEMMA Fills ==
    ASSUME TypeOK, FillLeftover
    PROVE  /\ unread' \in Seq(Units) /\ decrypted' \in 0..Len(unread')
           /\ Peeked \o unread' = leftover \o unread
<1>1. NewlyPeeked \in 0..Len(unread) /\ Splits(Peeked, leftover, unread)
  BY PeekFacts
<1>2. unread' = Drop(unread, NewlyPeeked) /\ decrypted' \in DecryptedAfter(NewlyPeeked)
  BY DEF FillLeftover
<1>3. unread' \in Seq(Units) /\ decrypted' \in 0..Len(unread')
  BY <1>1, <1>2, Decrypts
<1>4. Peeked \o unread' = leftover \o unread
  BY <1>1, <1>2, Zenon DEF Splits, NewlyPeeked
<1>5. QED
  BY <1>3, <1>4

LEMMA PeekInStream ==
    ASSUME TypeOK, Kept, Usable
    PROVE  /\ Len(taken) \in Nat /\ Len(Peeked) \in Nat /\ Len(sent) \in Nat
           /\ Len(taken) + Len(Peeked) <= Len(sent)
           /\ \A j \in 1..Len(Peeked) : Stream[Len(taken) + j] = Peeked[j]
<1>0. PICK rest : rest = leftover \o unread
  OBVIOUS
<1>1. PICK N \in Nat, P \in Nat, L \in Nat :
          /\ N = Len(taken) /\ P = Len(Peeked) /\ L = Len(leftover \o unread)
          /\ rest = leftover \o unread
  BY <1>0, InStream, PeekFacts, LenProperties
<1>2. P <= L /\ \A j \in 1..P : Peeked[j] = rest[j]
  BY <1>1, PeekFacts, Zenon
<1>3. Len(sent) = N + L /\ \A j \in 1..L : Stream[N + j] = rest[j]
  BY <1>1, InStream
<1>4. \A j \in 1..P : j \in 1..L
  BY <1>2
<1>5. \A j \in 1..P : Stream[N + j] = Peeked[j]
  BY <1>2, <1>3, <1>4
<1>6. N + P <= Len(sent) /\ Len(sent) \in Nat
  BY <1>2, <1>3
<1>7. QED
  BY <1>1, <1>5, <1>6

(* The first end of a header that is found has a text before it, of the    *)
(* same request.                                                           *)
LEMMA EndHasItsText ==
    ASSUME TypeOK, Preceded, Position, Kept, phase = "waiting",
           NEW i \in HeaderEnds
    PROVE  /\ i \in 1..Len(Peeked) /\ i > 1 /\ Peeked[i].part = 2
           /\ Peeked[i - 1] = [req |-> Peeked[i].req, part |-> 1]
<1>1. Usable
  BY DEF Usable
<1>2. PICK N \in Nat, P \in Nat : N = Len(taken) /\ P = Len(Peeked)
  BY <1>1, PeekInStream
<1>3. i \in 1..P /\ Peeked[i].part = 2
  BY <1>2 DEF HeaderEnds, IsEnd
<1>4. N + P <= Len(sent) /\ Len(sent) \in Nat
  BY <1>1, <1>2, PeekInStream
<1>5. \A j \in 1..P : Stream[N + j] = Peeked[j]
  BY <1>1, <1>2, PeekInStream
<1>6. PICK n \in Nat : n = N + i
  BY <1>3
<1>7. n \in 1..Len(Stream)
  BY <1>3, <1>4, <1>6, StreamFacts
<1>8. Stream[n] = Peeked[i] /\ Stream[n].part = 2
  BY <1>3, <1>5, <1>6
<1>9. n > 1 /\ Stream[n - 1] = [req |-> Peeked[i].req, part |-> 1]
  <2>1. n > 1 /\ Stream[n - 1] = [req |-> Stream[n].req, part |-> Stream[n].part - 1]
    BY <1>7, <1>8 DEF Preceded
  <2>2. Stream[n].part - 1 = 1
    BY <1>8
  <2>3. QED
    BY <1>8, <2>1, <2>2
<1>10. i # 1
  <2> SUFFICES ASSUME i = 1 PROVE FALSE
    OBVIOUS
  <2>1. N > 0 /\ n - 1 = N /\ N \in 1..N
    BY <1>6, <1>9
  <2>2. Stream[N] = taken[N] /\ Stream[N].part = 1
    BY <1>1, <1>2, <1>9, <2>1, InStream
  <2>3. taken # <<>>
    BY <1>2, <2>1
  <2>4. LastOf(taken).part = 1
    BY <1>2, <2>2 DEF LastOf
  <2>5. QED
    BY <1>1, <2>3, <2>4 DEF Position
<1>11. i - 1 \in 1..P /\ n - 1 = N + (i - 1) /\ i > 1
  BY <1>3, <1>6, <1>10
<1>12. Peeked[i - 1] = Stream[n - 1]
  BY <1>5, <1>11
<1>13. QED
  BY <1>2, <1>3, <1>9, <1>11, <1>12

(* What a handler takes is the next part of what is still to take.         *)
Joined(t, l, u, all) == t \o l \o u = all

LEMMA TakesInOrder ==
    ASSUME NEW S, NEW a \in Seq(S), NEW x \in Seq(S), NEW l \in Seq(S), NEW u \in Seq(S)
    PROVE  \A all : all = a \o (x \o (l \o u)) => Joined(a \o x, l, u, all)
<1>1. PICK v, w : v = a \o x /\ w = l \o u
  OBVIOUS
<1>2. v \in Seq(S) /\ w \in Seq(S)
  BY <1>1, ConcatProperties
<1>3. (v \o l) \o u = v \o (l \o u)
  <2>1. Chained(v, l, u)
    BY <1>2, AlwaysChained, Zenon
  <2>2. QED
    BY <2>1, Zenon DEF Chained
<1>4. (a \o x) \o w = a \o (x \o w)
  <2>1. Chained(a, x, w)
    BY <1>2, AlwaysChained, Zenon
  <2>2. QED
    BY <2>1, Zenon DEF Chained
<1>5. QED
  BY <1>1, <1>3, <1>4, Zenon DEF Joined

LEMMA SubjectFacts ==
    ASSUME TypeOK, header # <<>>
    PROVE  Subject \in 1..MaxRequests /\ Asked \in Kinds /\ Asked.length \in Nat
<1>1. header \in Seq(Units)
  BY Types
<1>2. Len(header) \in Nat /\ Len(header) \in 1..Len(header)
  BY <1>1, EmptySeq
<1>3. header[Len(header)] \in Units
  BY <1>1, <1>2, ElementOfSeq
<1>4. Subject \in 1..MaxRequests
  BY <1>3 DEF Subject, Units
<1>5. QED
  BY <1>4, Sizes DEF Asked

(* What getBody takes is the body of the request, or what there is of it.  *)
LEMMA BodyIsNext ==
    ASSUME TypeOK, Follows, Position, Kept, phase = "resolving", calls > 0
    PROVE  /\ Upto(Available, Asked.length) \in Seq(Units)
           /\ Len(Upto(Available, Asked.length)) \in Nat
           /\ ~Missing => Len(Upto(Available, Asked.length)) = Asked.length
           /\ \A k \in 1..Len(Upto(Available, Asked.length)) :
                 Upto(Available, Asked.length)[k] = [req |-> Subject, part |-> k + 2]
<1>1. Usable /\ header # <<>>
  BY DEF Usable, Position, Answering
<1>2. taken # <<>> /\ LastOf(taken) = [req |-> Subject, part |-> 2]
  BY DEF Position
<1>0. PICK x, y : x = Upto(Available, Asked.length) /\ y = Subject
  OBVIOUS
<1>3. PICK N \in Nat, L \in Nat, n \in Nat :
          /\ N = Len(taken) /\ L = Len(leftover \o unread) /\ n = Asked.length
          /\ x = Upto(Available, n) /\ y = Subject
  BY <1>0, <1>1, InStream, SubjectFacts, LenProperties
<1>4. Available \in Seq(Units) /\ Len(Available) = L /\ Available = leftover \o unread
  BY <1>1, <1>3, InStream DEF Available
<1>5. /\ x \in Seq(Units) /\ (n < L => Len(x) = n) /\ (n >= L => Len(x) = L)
      /\ \A k \in 1..Len(x) : x[k] = Available[k]
  <2>1. /\ Upto(Available, n) \in Seq(Units)
        /\ n < Len(Available) => Len(Upto(Available, n)) = n
        /\ n >= Len(Available) => Len(Upto(Available, n)) = Len(Available)
        /\ \A k \in 1..Len(Upto(Available, n)) : Upto(Available, n)[k] = Available[k]
    BY <1>4, UptoFacts, Zenon
  <2>2. QED
    BY <1>3, <1>4, <2>1, Zenon
<1>6. Len(x) \in Nat /\ Len(x) <= n /\ Len(x) <= L /\ (~(L < n) => Len(x) = n)
  BY <1>5
<1>7. N \in 1..N /\ Stream[N] = [req |-> y, part |-> 2]
  <2>1. N > 0
    BY <1>2, <1>3, Types, EmptySeq
  <2>2. N \in 1..N
    BY <2>1
  <2>3. Stream[N] = taken[N]
    BY <1>1, <1>3, <2>2, InStream
  <2>4. QED
    BY <1>2, <1>3, <2>2, <2>3 DEF LastOf
<1>8. y \in 1..MaxRequests /\ Size(y) = 2 + n /\ Size(y) \in Nat
  BY <1>1, <1>3, SubjectFacts, Sizes DEF Asked
<1>9. Len(Stream) = N + L + 1
  BY <1>1, <1>3, InStream, StreamFacts
<1>10. ASSUME NEW k \in 1..Len(x) PROVE x[k] = [req |-> y, part |-> k + 2]
  <2>1. k \in 1..L /\ k <= n
    BY <1>6
  <2>2. PICK m \in Nat : m = N + k
    OBVIOUS
  <2>3. m \in 1..Len(Stream) /\ N \in 1..Len(Stream) /\ N <= m /\ m - N = k
    BY <1>7, <1>9, <2>1, <2>2
  <2>4. /\ Stream[N].req <= MaxRequests /\ Stream[N].req = y /\ Stream[N].part = 2
        /\ Stream[N].part + (m - N) <= Size(Stream[N].req)
    BY <1>7, <1>8, <2>1, <2>3, Constants
  <2>5. Stream[m] = [req |-> y, part |-> 2 + (m - N)]
    BY <2>3, <2>4 DEF Follows
  <2>6. Stream[m] = Available[k]
    BY <1>1, <1>3, <1>4, <2>1, <2>2, InStream
  <2>7. 2 + (m - N) = k + 2
    BY <2>3
  <2>8. QED
    BY <1>5, <2>5, <2>6, <2>7
<1>11. ~Missing => Len(x) = n
  BY <1>3, <1>4, <1>6 DEF Missing
<1>12. QED
  BY <1>3, <1>5, <1>6, <1>10, <1>11, Zenon

(* read() takes that part from leftoverBuffer, then from the socket.       *)
LEMMA ReadTakesNext ==
    ASSUME TypeOK, header # <<>>, GetBody
    PROVE  /\ leftover' \in Seq(Units) /\ Len(leftover') <= MaxHeader
           /\ unread' \in Seq(Units) /\ decrypted' \in 0..Len(unread')
           /\ Upto(Available, Asked.length) \o (leftover' \o unread') = leftover \o unread
<1>0. PICK x, r :
          /\ x = Upto(leftover \o unread, Asked.length)
          /\ r = IF NotInLeftover THEN Len(Upto(leftover \o unread, Asked.length)) - Len(leftover) ELSE 0
  OBVIOUS
<1>1. PICK n \in Nat : /\ n = Asked.length /\ x = Upto(leftover \o unread, n)
                      /\ r = IF NotInLeftover THEN Len(x) - Len(leftover) ELSE 0
  BY <1>0, SubjectFacts
<1>2. x = Upto(Available, n)
  BY <1>1 DEF Available
<1>3. leftover' = Drop(leftover, n) /\ unread' = Drop(unread, r)
      /\ decrypted' \in DecryptedAfter(r)
  BY <1>1, <1>2 DEF GetBody
<1>4. leftover \in Seq(Units) /\ unread \in Seq(Units)
  BY Types
<1>5. PICK a \in Nat, b \in Nat : a = Len(leftover) /\ b = Len(unread)
  BY <1>4, LenProperties
<1>6. a <= MaxHeader /\ MaxHeader \in Nat
  BY <1>5, Constants DEF TypeOK
<1>7. CASE a < n
  <2>1. Len(leftover) < n
    BY <1>5, <1>7
  <2>2. r = Len(x) - Len(leftover)
    BY <1>1, <2>1 DEF NotInLeftover
  <2>3. /\ Len(x) - Len(leftover) \in 0..Len(unread)
        /\ Drop(leftover, n) \in Seq(Units) /\ Len(Drop(leftover, n)) = 0
        /\ ReadSplits(x, leftover, unread, n, Len(x) - Len(leftover))
    BY <1>1, <1>4, <2>1, ReadLawBeyond, Zenon
  <2>4. /\ r \in 0..Len(unread) /\ leftover' \in Seq(Units) /\ Len(leftover') = 0
        /\ x \o (leftover' \o unread') = leftover \o unread
    BY <1>3, <2>2, <2>3, Zenon DEF ReadSplits
  <2>5. unread' \in Seq(Units) /\ decrypted' \in 0..Len(unread')
    BY <1>3, <2>4, Decrypts
  <2>6. QED
    BY <1>1, <1>2, <1>6, <2>4, <2>5
<1>8. CASE n <= a
  <2>1. n <= Len(leftover) /\ ~(Len(leftover) < n)
    BY <1>5, <1>8
  <2>2. r = 0
    BY <1>1, <2>1 DEF NotInLeftover
  <2>3. /\ Drop(leftover, n) \in Seq(Units) /\ Len(Drop(leftover, n)) <= Len(leftover)
        /\ ReadSplits(x, leftover, unread, n, 0)
    BY <1>1, <1>4, <2>1, ReadLawWithin, Zenon
  <2>4. /\ leftover' \in Seq(Units) /\ Len(leftover') <= a
        /\ x \o (leftover' \o unread') = leftover \o unread
    BY <1>3, <1>5, <2>2, <2>3, Zenon DEF ReadSplits
  <2>5. r \in 0..Len(unread)
    BY <1>5, <2>2
  <2>6. unread' \in Seq(Units) /\ decrypted' \in 0..Len(unread')
    BY <1>3, <2>5, Decrypts
  <2>7. Len(leftover') <= MaxHeader
    BY <1>6, <2>4, LenProperties
  <2>8. QED
    BY <1>1, <1>2, <2>4, <2>6, <2>7
<1>9. a < n \/ n <= a
  OBVIOUS
<1>10. QED
  BY <1>7, <1>8, <1>9, Zenon
-----------------------------------------------------------------------------
(* A response, or what is written of it, fits into the socket.             *)
LEMMA WireFits ==
    ASSUME TypeOK, header # <<>>, NEW status \in {200, 400, 404, 500},
           Write(status) \/ WriteFails(status)
    PROVE  wire' \in Seq(ResponseUnits) /\ Len(wire') <= SendSpace
<1>0. PICK room : room = Room
  OBVIOUS
<1>1. PICK W \in Nat : W = Len(wire) /\ room = Room
  BY <1>0, Types, LenProperties
<1>2. W <= SendSpace /\ wire \in Seq(ResponseUnits)
  BY <1>1, Types DEF TypeOK
<1>3. SendSpace \in Nat \ {0} /\ ResponseSize \in Nat \ {0}
  BY Constants
<1>4. room \in Nat /\ W + room <= SendSpace
  BY <1>1, <1>2, <1>3 DEF Room
<1>5. Subject \in 1..MaxRequests
  BY SubjectFacts
<1>6. ASSUME NEW n \in Nat, n <= room, n <= ResponseSize,
             wire' = wire \o ResponsePart(status, n)
      PROVE  wire' \in Seq(ResponseUnits) /\ Len(wire') <= SendSpace
  <2>1. PICK q : q = ResponsePart(status, n)
    OBVIOUS
  <2>2. q \in Seq(ResponseUnits) /\ Len(q) = n
    <3>1. q = [k \in 1..n |-> [re |-> Subject, status |-> status, part |-> k]]
      BY <2>1 DEF ResponsePart
    <3>2. \A k \in 1..n : k \in 1..ResponseSize
      BY <1>3, <1>6
    <3>3. \A k \in 1..n : [re |-> Subject, status |-> status, part |-> k]
                             \in ResponseUnits
      BY <1>5, <3>2 DEF ResponseUnits
    <3>4. q \in [1..n -> ResponseUnits]
      BY <3>1, <3>3
    <3>5. QED
      BY <3>4
  <2>3. wire' = wire \o q
    BY <1>6, <2>1
  <2>4. wire' \in Seq(ResponseUnits) /\ Len(wire') = W + n
    BY <1>1, <1>2, <2>2, <2>3, ConcatFacts, Zenon
  <2>5. W + n <= SendSpace
    BY <1>3, <1>4, <1>6
  <2>6. QED
    BY <2>4, <2>5
<1>7. CASE Write(status)
  <2>1. wire' = wire \o ResponsePart(status, Transmitted(room))
    BY <1>1, <1>7 DEF Write
  <2>2. /\ Transmitted(room) \in Nat /\ Transmitted(room) <= room
        /\ Transmitted(room) <= ResponseSize
    BY <1>3, <1>4 DEF Transmitted
  <2>3. QED
    BY <1>6, <2>1, <2>2
<1>8. CASE WriteFails(status)
  <2>1. CASE wire' = wire
    BY <1>2, <1>1, <2>1
  <2>2. CASE wire' # wire
    <3>1. PICK n \in 0..room : /\ room < ResponseSize
                              /\ wire' = wire \o ResponsePart(status, n)
      BY <1>1, <1>8, <2>2 DEF WriteFails
    <3>2. n \in Nat /\ n <= room /\ n <= ResponseSize
      BY <1>3, <1>4, <3>1
    <3>3. QED
      BY <1>6, <3>1, <3>2
  <2>3. QED
    BY <2>1, <2>2
<1>9. QED
  BY <1>7, <1>8

LEMMA BodyStays ==
    ASSUME BodyOfItsRequest, UNCHANGED <<requests, transport, body>>,
           peer' = peer \/ peer' # "open"
    PROVE  BodyOfItsRequest'
  BY DEF BodyOfItsRequest, NoBody

LEMMA InitFramed ==
    ASSUME Init
    PROVE  Framed
<1>1. TypeOK
  <2>1. \A S : <<>> \in Seq(S) /\ Len(<<>>) = 0
    BY EmptySeq
  <2>2. next \in [req : 1..(MaxRequests + 1), part : Nat \ {0}]
    BY Constants DEF Init
  <2>3. NoBody \in [req : 0..MaxRequests, units : Seq(Units), padded : BOOLEAN]
    BY <2>1, Constants DEF NoBody
  <2>4. <<>> \in Seq(Units) /\ <<>> \in Seq(ResponseUnits) /\ Len(<<>>) = 0
    BY <2>1
  <2>5. /\ {unread, leftover, header, sent, taken} \subseteq Seq(Units)
        /\ {wire, received} \subseteq Seq(ResponseUnits)
    BY <2>4 DEF Init
  <2>6. decrypted \in 0..Len(unread) /\ Len(wire) <= SendSpace /\ Len(leftover) <= MaxHeader
    BY <2>4, Constants DEF Init
  <2>7. calls \in Nat /\ phase \in Phases /\ keep \in BOOLEAN
    BY DEF Init, Phases
  <2>8. body \in [req : 0..MaxRequests, units : Seq(Units), padded : BOOLEAN]
    BY <2>3 DEF Init
  <2>9. QED
    BY <2>2, <2>5, <2>6, <2>7, <2>8 DEF Init, TypeOK
<1>2. Stream = <<next>> /\ Len(Stream) = 1 /\ Stream[1] = [req |-> 1, part |-> 1]
  BY DEF Init, Stream
<1>3. Follows
  <2> SUFFICES ASSUME NEW m \in 1..1, NEW n \in 1..1
               PROVE  Stream[n] = [req |-> Stream[m].req, part |-> Stream[m].part + (n - m)]
    BY <1>2 DEF Follows
  <2>1. m = 1 /\ n = 1
    OBVIOUS
  <2>2. QED
    BY <1>2, <2>1
<1>4. Preceded
  <2> SUFFICES ASSUME NEW n \in 1..1
               PROVE  ~(Stream[n].part > 1)
    BY <1>2 DEF Preceded
  <2>1. n = 1
    OBVIOUS
  <2>2. QED
    BY <1>2, <2>1
<1>5. Position /\ BodyOfItsRequest
  BY DEF Init, Position, BodyOfItsRequest, Answering
<1>6. Kept
  <2>1. taken = <<>> /\ leftover = <<>> /\ unread = <<>> /\ sent = <<>>
    BY DEF Init
  <2>2. <<>> \o <<>> \o <<>> = <<>>
    OBVIOUS
  <2>3. QED
    BY <2>1, <2>2 DEF Kept
<1>7. QED
  BY <1>1, <1>3, <1>4, <1>5, <1>6 DEF Framed

LEMMA SendUnitFramed ==
    ASSUME Framed, SendUnit
    PROVE  Framed'
<1>1. TypeOK /\ Follows /\ Preceded /\ Position /\ Kept /\ BodyOfItsRequest
  BY DEF Framed
<1>2. Follows' /\ Preceded' /\ next' \in Places
  BY <1>1, StreamGrows
<1>3. next \in Units
  BY <1>1, Types, Constants DEF SendUnit, Places, Units
<1>4. unread' = Append(unread, next) /\ sent' = Append(sent, next)
  BY DEF SendUnit
<1>5. /\ unread \in Seq(Units) /\ leftover \in Seq(Units) /\ taken \in Seq(Units)
      /\ sent \in Seq(Units)
  BY <1>1, Types
<1>6. /\ unread' \in Seq(Units) /\ sent' \in Seq(Units)
      /\ Len(unread') = Len(unread) + 1 /\ Len(unread) \in Nat
  BY <1>3, <1>4, <1>5, AppendProperties, LenProperties
<1>7. TypeOK'
  <2>1. decrypted' \in 0..Len(unread')
    BY <1>1, <1>6 DEF SendUnit, TypeOK
  <2>2. QED
    BY <1>1, <1>2, <1>6, <2>1 DEF SendUnit, TypeOK, setup, Places
<1>8. Kept'
  <2> SUFFICES ASSUME Usable PROVE taken \o leftover \o unread' = sent'
    BY DEF Kept, Usable, SendUnit
  <2>1. PICK v, w : v = taken \o leftover /\ w = <<next>>
    OBVIOUS
  <2>2. v \in Seq(Units) /\ w \in Seq(Units)
    BY <1>3, <1>5, <2>1, ConcatProperties
  <2>3. v \o unread = sent
    BY <1>1, <2>1 DEF Kept
  <2>4. unread' = unread \o w /\ sent' = sent \o w
    BY <1>3, <1>4, <1>5, <2>1, AppendIsConcat
  <2>5. (v \o unread) \o w = v \o (unread \o w)
    <3>1. Chained(v, unread, w)
      BY <1>5, <2>2, AlwaysChained, Zenon
    <3>2. QED
      BY <3>1, Zenon DEF Chained
  <2>6. QED
    BY <2>1, <2>3, <2>4, <2>5, Zenon
<1>9. Position'
  BY <1>1 DEF Position, Usable, Answering, SendUnit, Subject, LastOf
<1>10. BodyOfItsRequest'
  BY <1>1, BodyStays DEF SendUnit, setup
<1>11. QED
  BY <1>2, <1>7, <1>8, <1>9, <1>10 DEF Framed

LEMMA ReceiveFramed ==
    ASSUME Framed, Receive
    PROVE  Framed'
<1>1. TypeOK /\ Follows /\ Preceded /\ Position /\ Kept /\ BodyOfItsRequest
  BY DEF Framed
<1>2. /\ Head(wire) \in ResponseUnits /\ Tail(wire) \in Seq(ResponseUnits)
      /\ Len(Tail(wire)) = Len(wire) - 1 /\ Len(wire) \in Nat
  BY <1>1, Types, HeadTailProperties, LenProperties DEF Receive
<1>3. received' \in Seq(ResponseUnits)
  BY <1>1, <1>2, Types, AppendProperties DEF Receive
<1>4. wire' \in Seq(ResponseUnits) /\ Len(wire') <= SendSpace
  BY <1>1, <1>2, Constants DEF Receive, TypeOK
<1>5. TypeOK'
  BY <1>1, <1>3, <1>4 DEF Receive, TypeOK, setup, input
<1>6. Follows' /\ Preceded'
  BY <1>1, StreamStays DEF Receive, setup
<1>7. Position' /\ Kept'
  BY <1>1 DEF Position, Kept, Usable, Answering, Receive, Subject, LastOf, input
<1>8. BodyOfItsRequest'
  BY <1>1, BodyStays DEF Receive, setup
<1>9. QED
  BY <1>5, <1>6, <1>7, <1>8 DEF Framed

LEMMA HangupFramed ==
    ASSUME Framed, NEW how \in {"fin", "reset"}, Hangup(how)
    PROVE  Framed'
<1>1. TypeOK /\ Follows /\ Preceded /\ Position /\ Kept /\ BodyOfItsRequest
  BY DEF Framed
<1>2. TypeOK'
  BY <1>1 DEF Hangup, TypeOK, setup, input
<1>3. Follows' /\ Preceded'
  BY <1>1, StreamStays DEF Hangup, setup
<1>4. Position' /\ Kept'
  BY <1>1 DEF Position, Kept, Usable, Answering, Hangup, Subject, LastOf, input
<1>5. BodyOfItsRequest'
  BY <1>1, BodyStays DEF Hangup, setup
<1>6. QED
  BY <1>2, <1>3, <1>4, <1>5 DEF Framed

(* A connection that is closed has no input left.                          *)
LEMMA Closes ==
    ASSUME Close
    PROVE  /\ unread' \in Seq(Units) /\ leftover' \in Seq(Units)
           /\ decrypted' \in 0..Len(unread') /\ Len(leftover') <= MaxHeader
<1>1. <<>> \in Seq(Units) /\ Len(<<>>) = 0
  BY EmptySeq
<1>2. QED
  BY <1>1, Constants DEF Close

LEMMA HandleHangupFramed ==
    ASSUME Framed, HandleHangup
    PROVE  Framed'
<1>1. TypeOK /\ Follows /\ Preceded /\ Position /\ Kept /\ BodyOfItsRequest
  BY DEF Framed
<1>2. TypeOK'
  BY <1>1, Closes DEF HandleHangup, TypeOK, clientVars, setup, Phases
<1>3. Follows' /\ Preceded'
  BY <1>1, StreamStays DEF HandleHangup, clientVars, setup
<1>4. Position' /\ Kept'
  BY DEF Position, Kept, Usable, Answering, HandleHangup
<1>5. BodyOfItsRequest'
  BY <1>1, BodyStays DEF HandleHangup, clientVars, setup
<1>6. QED
  BY <1>2, <1>3, <1>4, <1>5 DEF Framed

LEMMA HandleIncompleteFramed ==
    ASSUME Framed, HandleIncomplete
    PROVE  Framed'
<1>1. TypeOK /\ Follows /\ Preceded /\ Position /\ Kept /\ BodyOfItsRequest
  BY DEF Framed
<1>2. /\ unread' \in Seq(Units) /\ decrypted' \in 0..Len(unread')
      /\ Peeked \o unread' = leftover \o unread
  BY <1>1, Fills DEF HandleIncomplete
<1>3. Peeked \in Seq(Units) /\ Len(Peeked) <= MaxHeader /\ leftover' = Peeked
  BY <1>1, PeekFacts, Constants DEF HandleIncomplete
<1>4. TypeOK'
  BY <1>1, <1>2, <1>3 DEF HandleIncomplete, TypeOK, clientVars, setup
<1>5. Follows' /\ Preceded'
  BY <1>1, StreamStays DEF HandleIncomplete, clientVars, setup
<1>6. Position'
  BY <1>1 DEF Position, Usable, Answering, HandleIncomplete, Subject, LastOf
<1>7. Kept'
  <2>1. taken' = taken /\ sent' = sent /\ Usable
    BY DEF HandleIncomplete, clientVars, Usable
  <2>2. taken \o (leftover \o unread) = sent
    BY <1>1, <2>1, InStream
  <2>3. PICK t, p, u : t = taken /\ p = Peeked /\ u = unread'
    OBVIOUS
  <2>4. (t \o p) \o u = t \o (p \o u)
    <3>1. t \in Seq(Units) /\ p \in Seq(Units) /\ u \in Seq(Units)
      BY <1>1, <1>2, <1>3, <2>3, Types
    <3>2. Chained(t, p, u)
      BY <3>1, AlwaysChained, Zenon
    <3>3. QED
      BY <3>2, Zenon DEF Chained
  <2>5. taken' \o leftover' \o unread' = sent'
    BY <1>2, <1>3, <2>1, <2>2, <2>3, <2>4, Zenon
  <2>6. QED
    BY <2>5, Zenon DEF Kept
<1>8. BodyOfItsRequest'
  BY <1>1, BodyStays DEF HandleIncomplete, clientVars, setup
<1>9. QED
  BY <1>4, <1>5, <1>6, <1>7, <1>8 DEF Framed

LEMMA HandleRequestFramed ==
    ASSUME Framed, HandleRequest
    PROVE  Framed'
<1>1. TypeOK /\ Follows /\ Preceded /\ Position /\ Kept /\ BodyOfItsRequest
  BY DEF Framed
<1>2. /\ unread' \in Seq(Units) /\ decrypted' \in 0..Len(unread')
      /\ Peeked \o unread' = leftover \o unread
  BY <1>1, Fills DEF HandleRequest
<1>3. PICK i \in HeaderEnds : /\ header' = SubSeq(Peeked, 1, i - 1)
                             /\ leftover' = Drop(Peeked, i)
                             /\ taken' = taken \o SubSeq(Peeked, 1, i)
  BY DEF HandleRequest
<1>0. PICK p, q : p = Peeked /\ q = SubSeq(Peeked, 1, i)
  OBVIOUS
<1>4. PICK P \in Nat : P = Len(Peeked) /\ p = Peeked /\ q = SubSeq(Peeked, 1, i)
  BY <1>0, <1>1, PeekFacts, LenProperties
<1>5. /\ i \in 1..P /\ i > 1 /\ p[i].part = 2
      /\ p[i - 1] = [req |-> p[i].req, part |-> 1]
  BY <1>1, <1>3, <1>4, EndHasItsText DEF HandleRequest
<1>6. p \in Seq(Units) /\ P <= MaxHeader /\ Len(p) = P
  BY <1>1, <1>4, PeekFacts, Constants
<1>7. PICK j \in Nat : j = i - 1 /\ j \in 1..P /\ j < P
  BY <1>5
<1>8. q = Upto(p, i) /\ header' = Upto(p, j) /\ leftover' = Drop(p, i) /\ i \in Nat
  <2>1. Upto(p, i) = SubSeq(p, 1, i)
    BY <1>5, <1>6 DEF Upto
  <2>2. Upto(p, j) = SubSeq(p, 1, j)
    BY <1>6, <1>7 DEF Upto
  <2>3. QED
    BY <1>3, <1>4, <1>5, <1>7, <2>1, <2>2
<1>9. q \in Seq(Units) /\ Len(q) = i /\ q[i] = p[i]
  <2>1. /\ q \in Seq(Units) /\ (i < P => Len(q) = i) /\ (i >= P => Len(q) = P)
        /\ \A k \in 1..Len(q) : q[k] = p[k]
    BY <1>6, <1>8, UptoFacts, Zenon
  <2>2. Len(q) = i
    BY <1>5, <2>1
  <2>3. QED
    BY <1>5, <2>1, <2>2
<1>10. header' \in Seq(Units) /\ Len(header') = j /\ header'[j] = p[j]
  <2>1. /\ header' \in Seq(Units) /\ (j < P => Len(header') = j)
        /\ \A k \in 1..Len(header') : header'[k] = p[k]
    BY <1>6, <1>7, <1>8, UptoFacts, Zenon
  <2>2. QED
    BY <1>7, <2>1
<1>11. leftover' \in Seq(Units) /\ Len(leftover') <= MaxHeader
  <2>1. /\ leftover' \in Seq(Units) /\ (i < P => Len(leftover') = P - i)
        /\ (i >= P => Len(leftover') = 0)
    BY <1>6, <1>8, DropFacts, Zenon
  <2>2. QED
    BY <1>5, <1>6, <2>1, Constants
<1>12. q \o leftover' = p
  BY <1>6, <1>8, UptoDrop, Zenon
<1>13. taken \in Seq(Units) /\ taken' = taken \o q
  BY <1>1, <1>3, <1>4, Types
<1>14. taken' \in Seq(Units) /\ taken' # <<>> /\ LastOf(taken') = p[i]
  <2>1. /\ taken' \in Seq(Units) /\ Len(taken') = Len(taken) + i /\ Len(taken) \in Nat
        /\ AtEnd(taken', Len(taken), q)
    BY <1>9, <1>13, ConcatFacts, Zenon
  <2>2. taken'[Len(taken) + i] = q[i]
    BY <1>5, <1>9, <2>1 DEF AtEnd
  <2>3. Len(taken') > 0
    BY <1>5, <2>1
  <2>4. QED
    BY <1>9, <2>1, <2>2, <2>3, EmptySeq DEF LastOf
<1>15. TypeOK'
  BY <1>1, <1>2, <1>10, <1>11, <1>14 DEF HandleRequest, TypeOK, clientVars, setup, Phases
<1>16. Follows' /\ Preceded'
  BY <1>1, StreamStays DEF HandleRequest, clientVars, setup
<1>17. Position'
  <2>1. header' # <<>>
    BY <1>7, <1>10, EmptySeq
  <2>2. Subject' = p[i].req
    BY <1>5, <1>7, <1>10 DEF Subject
  <2>3. p[i] \in Units
    BY <1>5, <1>6, ElementOfSeq
  <2>4. p[i] = [req |-> Subject', part |-> 2]
    BY <1>5, <2>2, <2>3 DEF Units
  <2>5. LastOf(taken)' = [req |-> Subject', part |-> 2]
    BY <1>14, <2>4 DEF LastOf
  <2>6. phase' = "running"
    BY DEF HandleRequest
  <2>7. QED
    BY <1>14, <2>1, <2>5, <2>6 DEF Position, LastOf
<1>18. Kept'
  <2>1. sent' = sent /\ Usable
    BY DEF HandleRequest, clientVars, Usable
  <2>2. taken \o (leftover \o unread) = sent
    BY <1>1, <2>1, InStream
  <2>3. PICK t, l, u : t = taken /\ l = leftover' /\ u = unread'
    OBVIOUS
  <2>4. t \in Seq(Units) /\ q \in Seq(Units) /\ l \in Seq(Units) /\ u \in Seq(Units)
    BY <1>2, <1>9, <1>11, <1>13, <2>3
  <2>5. (q \o l) \o u = q \o (l \o u)
    <3>1. Chained(q, l, u)
      BY <2>4, AlwaysChained, Zenon
    <3>2. QED
      BY <3>1, Zenon DEF Chained
  <2>6. sent = t \o (q \o (l \o u))
    BY <1>2, <1>4, <1>12, <2>2, <2>3, <2>5, Zenon
  <2>7. Joined(t \o q, l, u, sent)
    BY <2>4, <2>6, TakesInOrder, Zenon
  <2>8. taken' \o leftover' \o unread' = sent'
    BY <1>13, <2>1, <2>3, <2>7, Zenon DEF Joined
  <2>9. QED
    BY <2>8, Zenon DEF Kept
<1>19. BodyOfItsRequest'
  BY <1>1, BodyStays DEF HandleRequest, clientVars, setup
<1>20. QED
  BY <1>15, <1>16, <1>17, <1>18, <1>19 DEF Framed

LEMMA TakeBackFramed ==
    ASSUME Framed, TakeBack
    PROVE  Framed'
<1>1. TypeOK /\ Follows /\ Preceded /\ Position /\ Kept /\ BodyOfItsRequest
  BY DEF Framed
<1>2. Follows' /\ Preceded' /\ BodyOfItsRequest'
  BY <1>1, StreamStays, BodyStays DEF TakeBack, clientVars, setup
<1>3. CASE keep
  <2>1. TypeOK'
    BY <1>1, <1>3 DEF TakeBack, TypeOK, clientVars, setup, input, Phases
  <2>2. Position' /\ Kept'
    BY <1>1, <1>3 DEF Position, Kept, Usable, Answering, TakeBack, clientVars, LastOf, input
  <2>3. QED
    BY <1>2, <2>1, <2>2 DEF Framed
<1>4. CASE ~keep
  <2>1. TypeOK'
    BY <1>1, <1>4, Closes DEF TakeBack, TypeOK, clientVars, setup, Phases
  <2>2. Position' /\ Kept'
    BY <1>4 DEF Position, Kept, Usable, Answering, TakeBack
  <2>3. QED
    BY <1>2, <2>1, <2>2 DEF Framed
<1>5. QED
  BY <1>3, <1>4

(* A step of the worker that takes nothing from the stream.                *)
LEMMA AnswersFramed ==
    ASSUME Framed, UNCHANGED <<clientVars, input, header, body, taken>>, Answering,
           wire' \in Seq(ResponseUnits), Len(wire') <= SendSpace,
           phase' \in Phases \ {"waiting", "running"},
           phase' = "resolving" => phase = "running" /\ calls' <= 1,
           phase' = "returning" /\ keep' => phase = "resolving",
           calls' \in Nat, keep' \in BOOLEAN
    PROVE  Framed'
<1>1. TypeOK /\ Follows /\ Preceded /\ Position /\ Kept /\ BodyOfItsRequest
  BY DEF Framed
<1>2. Follows' /\ Preceded' /\ BodyOfItsRequest'
  BY <1>1, StreamStays, BodyStays DEF clientVars, setup
<1>3. TypeOK'
  BY <1>1 DEF TypeOK, clientVars, setup, input
<1>4. header' # <<>> /\ Subject' = Subject
  BY <1>1 DEF Position, Subject
<1>5. Usable' => Usable
  BY DEF Usable, Phases
<1>6. Position'
  BY <1>1, <1>4, <1>5 DEF Position, LastOf, Phases
<1>7. Kept'
  BY <1>1, <1>5 DEF Kept, clientVars, input
<1>8. QED
  BY <1>2, <1>3, <1>6, <1>7 DEF Framed

LEMMA RejectFramed ==
    ASSUME Framed, Reject
    PROVE  Framed'
<1>1. TypeOK /\ header # <<>> /\ Answering
  BY DEF Framed, Position, Answering, Reject
<1>2. wire' \in Seq(ResponseUnits) /\ Len(wire') <= SendSpace
  BY <1>1, WireFits DEF Reject
<1>3. calls' \in Nat
  BY <1>1 DEF Reject, TypeOK
<1>4. QED
  BY <1>1, <1>2, <1>3, AnswersFramed DEF Reject, Phases

LEMMA ResolveFramed ==
    ASSUME Framed, Resolve
    PROVE  Framed'
<1>1. TypeOK /\ header # <<>> /\ Answering
  BY DEF Framed, Position, Answering, Resolve
<1>2. wire' \in Seq(ResponseUnits) /\ Len(wire') <= SendSpace
  BY <1>1, Types DEF Resolve, TypeOK
<1>3. Asked.reads \in {0, 1} /\ Asked.keepAlive \in BOOLEAN
  BY <1>1, SubjectFacts, Sizes DEF Asked
<1>4. calls' \in Nat /\ calls' <= 1 /\ keep' \in BOOLEAN
  BY <1>3 DEF Resolve
<1>5. QED
  BY <1>1, <1>2, <1>4, AnswersFramed DEF Resolve, Phases

LEMMA ResolverThrowsFramed ==
    ASSUME Framed, ResolverThrows
    PROVE  Framed'
<1>1. TypeOK /\ Answering
  BY DEF Framed, Answering, ResolverThrows
<1>2. wire' \in Seq(ResponseUnits) /\ Len(wire') <= SendSpace
  BY <1>1, Types DEF ResolverThrows, TypeOK
<1>3. calls' \in Nat /\ keep' \in BOOLEAN
  BY <1>1 DEF ResolverThrows, TypeOK
<1>4. QED
  BY <1>1, <1>2, <1>3, AnswersFramed DEF ResolverThrows, Phases

LEMMA RespondFramed ==
    ASSUME Framed, Respond
    PROVE  Framed'
<1>1. TypeOK /\ header # <<>> /\ Answering
  BY DEF Framed, Position, Answering, Respond
<1>2. PICK status \in {200, 404} : Write(status) \/ WriteFails(status)
  BY DEF Respond
<1>3. wire' \in Seq(ResponseUnits) /\ Len(wire') <= SendSpace
  BY <1>1, <1>2, WireFits
<1>4. calls' \in Nat /\ keep' \in BOOLEAN
  BY <1>1 DEF Respond, TypeOK
<1>5. phase = "resolving" /\ phase' \in {"returning", "failed", "broken", "died"}
  BY DEF Respond
<1>6. QED
  BY <1>1, <1>3, <1>4, <1>5, AnswersFramed DEF Respond, Phases

LEMMA AnswerFailureFramed ==
    ASSUME Framed, AnswerFailure
    PROVE  Framed'
<1>1. TypeOK /\ header # <<>> /\ Answering
  BY DEF Framed, Position, Answering, AnswerFailure
<1>2. wire' \in Seq(ResponseUnits) /\ Len(wire') <= SendSpace
  <2>1. CASE Write(500) \/ WriteFails(500)
    BY <1>1, <2>1, WireFits
  <2>2. CASE wire' = wire
    BY <1>1, <2>2, Types DEF TypeOK
  <2>3. QED
    BY <2>1, <2>2 DEF AnswerFailure
<1>3. calls' \in Nat
  BY <1>1 DEF AnswerFailure, TypeOK
<1>4. keep' = FALSE /\ phase' \in {"returning", "died"}
  BY DEF AnswerFailure, KeepAfterFailure
<1>5. QED
  BY <1>1, <1>2, <1>3, <1>4, AnswersFramed DEF AnswerFailure, Phases

LEMMA GetBodyThrowsFramed ==
    ASSUME Framed, GetBodyThrows
    PROVE  Framed'
<1>1. TypeOK /\ Follows /\ Preceded /\ Position /\ Kept /\ BodyOfItsRequest
  BY DEF Framed
<1>2. phase = "resolving" /\ phase' \in {"failed", "broken"}
  BY DEF GetBodyThrows
<1>3. Follows' /\ Preceded' /\ BodyOfItsRequest'
  BY <1>1, StreamStays, BodyStays DEF GetBodyThrows, clientVars, setup
<1>4. TypeOK'
  BY <1>1, <1>2, Closes DEF GetBodyThrows, TypeOK, clientVars, setup, Phases
<1>5. header' # <<>>
  BY <1>1, <1>2 DEF GetBodyThrows, Position, Answering
<1>6. Position' /\ Kept'
  BY <1>2, <1>5 DEF Position, Kept, Usable, Answering
<1>7. QED
  BY <1>3, <1>4, <1>6 DEF Framed

(* After getBody the part that was taken ends within the same request.     *)
LEMMA GetBodyTakes ==
    ASSUME TypeOK, Follows, Position, Kept, GetBody
    PROVE  taken' # <<>> /\ LastOf(taken').part # 1 /\ LastOf(taken').req = Subject
<1>1. phase = "resolving" /\ calls > 0 /\ header # <<>>
  BY DEF GetBody, Position, Answering
<1>0. PICK x, y : x = Upto(Available, Asked.length) /\ y = Subject
  OBVIOUS
<1>2. PICK n \in Nat : n = Asked.length /\ x = Upto(Available, n) /\ y = Subject
  BY <1>0, <1>1, SubjectFacts
<1>3. /\ x \in Seq(Units) /\ Len(x) \in Nat
      /\ \A k \in 1..Len(x) : x[k] = [req |-> y, part |-> k + 2]
  BY <1>1, <1>2, BodyIsNext, Zenon
<1>4. taken' = taken \o x /\ taken \in Seq(Units)
  BY <1>2, Types DEF GetBody
<1>5. /\ taken' \in Seq(Units) /\ Len(taken') = Len(taken) + Len(x) /\ Len(taken) \in Nat
      /\ AtEnd(taken', Len(taken), x)
  BY <1>3, <1>4, ConcatFacts, Zenon
<1>6. taken # <<>> /\ LastOf(taken) = [req |-> y, part |-> 2]
  BY <1>1, <1>2 DEF Position
<1>7. CASE Len(x) = 0
  <2>1. x = <<>>
    BY <1>3, <1>7, EmptySeq
  <2>2. taken' = taken
    BY <1>4, <2>1, ConcatEmptySeq
  <2>3. QED
    BY <1>2, <1>6, <2>2
<1>8. CASE Len(x) # 0
  <2>1. Len(x) \in 1..Len(x) /\ Len(x) + 2 # 1
    BY <1>3, <1>8
  <2>2. taken'[Len(taken) + Len(x)] = x[Len(x)]
    BY <1>5, <2>1 DEF AtEnd
  <2>3. LastOf(taken') = [req |-> y, part |-> Len(x) + 2]
    BY <1>3, <1>5, <2>1, <2>2 DEF LastOf
  <2>4. Len(taken') > 0
    BY <1>5, <2>1
  <2>5. QED
    BY <1>2, <1>5, <2>1, <2>3, <2>4, EmptySeq
<1>9. QED
  BY <1>7, <1>8

LEMMA GetBodyFramed ==
    ASSUME Framed, GetBody
    PROVE  Framed'
<1>1. TypeOK /\ Follows /\ Preceded /\ Position /\ Kept /\ BodyOfItsRequest
  BY DEF Framed
<1>2. phase = "resolving" /\ calls > 0 /\ Usable /\ header # <<>>
  BY <1>1 DEF GetBody, Usable, Position, Answering
<1>0. PICK x, y : x = Upto(Available, Asked.length) /\ y = Subject
  OBVIOUS
<1>3. PICK n \in Nat : n = Asked.length /\ x = Upto(Available, n) /\ y = Subject
  BY <1>0, <1>1, <1>2, SubjectFacts
<1>4. /\ x \in Seq(Units) /\ Len(x) \in Nat /\ (~Missing => Len(x) = n)
      /\ \A k \in 1..Len(x) : x[k] = [req |-> y, part |-> k + 2]
  BY <1>1, <1>2, <1>3, BodyIsNext, Zenon
<1>5. /\ leftover' \in Seq(Units) /\ Len(leftover') <= MaxHeader
      /\ unread' \in Seq(Units) /\ decrypted' \in 0..Len(unread')
      /\ x \o (leftover' \o unread') = leftover \o unread
  BY <1>1, <1>2, <1>3, ReadTakesNext, Zenon
<1>6. taken' = taken \o x /\ taken \in Seq(Units)
  BY <1>1, <1>3, Types DEF GetBody
<1>7. body' = [req |-> y, units |-> x, padded |-> Missing]
  BY <1>3 DEF GetBody
<1>8. y \in 1..MaxRequests
  BY <1>1, <1>2, <1>3, SubjectFacts
<1>9. /\ taken' \in Seq(Units) /\ Len(taken') = Len(taken) + Len(x) /\ Len(taken) \in Nat
      /\ AtEnd(taken', Len(taken), x)
  BY <1>4, <1>6, ConcatFacts, Zenon
<1>10. TypeOK'
  <2>1. body' \in [req : 0..MaxRequests, units : Seq(Units), padded : BOOLEAN]
    BY <1>4, <1>7, <1>8, Constants DEF Missing
  <2>2. calls' \in Nat
    BY <1>1, <1>2 DEF GetBody, TypeOK
  <2>3. QED
    BY <1>1, <1>5, <1>9, <2>1, <2>2 DEF GetBody, TypeOK, clientVars, setup
<1>11. Follows' /\ Preceded'
  BY <1>1, StreamStays DEF GetBody, clientVars, setup
<1>12. Position'
  <2>1. phase' = "resolving" /\ header' # <<>> /\ calls' = calls - 1 /\ calls <= 1
    BY <1>1, <1>2 DEF GetBody, Position
  <2>2. calls \in Nat
    BY <1>1 DEF TypeOK
  <2>3. ~(calls' > 0) /\ calls' <= 1
    BY <1>2, <2>1, <2>2
  <2>4. LastOf(taken').part # 1
    BY <1>1, GetBodyTakes
  <2>5. QED
    BY <2>1, <2>3, <2>4 DEF Position, LastOf
<1>13. Kept'
  <2>1. sent' = sent /\ taken \o (leftover \o unread) = sent
    BY <1>1, <1>2, InStream DEF GetBody, clientVars
  <2>2. PICK t, l, u : t = taken /\ l = leftover' /\ u = unread'
    OBVIOUS
  <2>3. t \in Seq(Units) /\ x \in Seq(Units) /\ l \in Seq(Units) /\ u \in Seq(Units)
    BY <1>4, <1>5, <1>6, <2>2
  <2>4. sent = t \o (x \o (l \o u))
    BY <1>5, <2>1, <2>2, Zenon
  <2>5. Joined(t \o x, l, u, sent)
    BY <2>3, <2>4, TakesInOrder, Zenon
  <2>6. taken' \o leftover' \o unread' = sent'
    BY <1>6, <2>1, <2>2, <2>5, Zenon DEF Joined
  <2>7. QED
    BY <2>6, Zenon DEF Kept
<1>14. BodyOfItsRequest'
  <2>1. /\ body'.units = x /\ body'.req = y /\ body'.padded = Missing
    BY <1>7
  <2>2. requests'[y].length = n /\ peer' = peer /\ transport' = transport
    BY <1>3 DEF GetBody, clientVars, setup, Asked
  <2>3. Missing => peer = "fin" \/ transport = "tls"
    BY DEF GetBody, ReadReturns
  <2>4. Len(x) = n \/ (Missing /\ (peer' # "open" \/ transport' = "tls"))
    BY <1>4, <2>2, <2>3
  <2>5. QED
    BY <1>4, <2>1, <2>2, <2>4 DEF BodyOfItsRequest
<1>15. QED
  BY <1>10, <1>11, <1>12, <1>13, <1>14 DEF Framed
-----------------------------------------------------------------------------
LEMMA NothingFramed ==
    ASSUME Framed, UNCHANGED vars
    PROVE  Framed'
<1>1. TypeOK /\ Follows /\ Preceded /\ Position /\ Kept /\ BodyOfItsRequest
  BY DEF Framed
<1>2. Follows' /\ Preceded' /\ BodyOfItsRequest'
  BY <1>1, StreamStays, BodyStays DEF vars, clientVars, setup
<1>3. TypeOK'
  BY <1>1 DEF TypeOK, vars, clientVars, setup, input
<1>4. Position' /\ Kept'
  BY <1>1 DEF Position, Kept, Usable, Answering, Subject, LastOf, vars, clientVars, input
<1>5. QED
  BY <1>2, <1>3, <1>4 DEF Framed

LEMMA NextFramed ==
    ASSUME Framed, Next
    PROVE  Framed'
<1>1. CASE Client
  BY <1>1, SendUnitFramed, ReceiveFramed, HangupFramed DEF Client
<1>2. CASE EpollThread
  BY <1>2, HandleHangupFramed, HandleIncompleteFramed, HandleRequestFramed, TakeBackFramed
     DEF EpollThread
<1>3. CASE Worker
  BY <1>3, RejectFramed, ResolveFramed, GetBodyFramed, GetBodyThrowsFramed,
     ResolverThrowsFramed, RespondFramed, AnswerFailureFramed DEF Worker
<1>4. QED
  BY <1>1, <1>2, <1>3 DEF Next

(* The first invariant holds of every behaviour: every handler of the      *)
(* epoll thread and of the worker keeps it, whatever the client does       *)
(* (NonblockingClientManagerTask.cpp:103-160, ClientRequestHandler.cpp:27- *)
(* 80).                                                                    *)
THEOREM FramedAlways == Safety => []Framed
<1>1. Framed /\ [Next]_vars => Framed'
  BY NextFramed, NothingFramed
<1>2. QED
  BY InitFramed, <1>1, PTL DEF Safety

(* Every variable has its type; no more is left over than a header may     *)
(* hold, and no more is in the socket than it takes.                       *)
THEOREM TypeCorrect == Safety => []TypeOK
<1>1. Framed => TypeOK
  BY DEF Framed
<1>2. QED
  BY <1>1, FramedAlways, PTL

(* peek() and read() (PlainStream.cpp:10-28, 88-116) lose, repeat or move  *)
(* no byte, however they meet with the client and the socket.              *)
THEOREM NoByteLostAlways == Safety => []NoByteLost
<1>1. Framed => NoByteLost
  BY DEF Framed, Kept, NoByteLost
<1>2. QED
  BY <1>1, FramedAlways, PTL

(* getBody (HttpRequest.cpp:158-174) returns the body of the request that  *)
(* it is called on, whole, or what the client had sent of it.              *)
THEOREM BodyAlwaysOfItsRequest == Safety => []BodyOfItsRequest
<1>1. Framed => BodyOfItsRequest
  BY DEF Framed
<1>2. QED
  BY <1>1, FramedAlways, PTL
-----------------------------------------------------------------------------
(* Quotients.                                                              *)
LEMMA Quotient ==
    ASSUME NEW R \in Nat \ {0}, NEW q \in Nat, NEW j \in 0..(R - 1)
    PROVE  (R * q + j) \div R = q /\ (R * q + j) % R = j
<1>1. PICK x \in Nat : x = R * q + j
  OBVIOUS
<1>2. PICK d \in Int, m \in 0..(R - 1) : d = x \div R /\ m = x % R /\ x = R * d + m
  OBVIOUS
<1>3. R * (q - d) = m - j
  BY <1>1, <1>2
<1>4. q - d < 1
  <2>1. q - d >= 1 => R * (q - d) >= R
    OBVIOUS
  <2>2. QED
    BY <1>3, <2>1
<1>5. q - d > -1
  <2>1. q - d <= -1 => R * (q - d) <= -R
    OBVIOUS
  <2>2. QED
    BY <1>3, <2>1
<1>6. d = q
  BY <1>4, <1>5
<1>7. QED
  BY <1>1, <1>2, <1>3, <1>6

LEMMA SameQuotient ==
    ASSUME NEW R \in Nat \ {0}, NEW x \in Nat \ {0}, x % R # 0
    PROVE  (x - 1) \div R = x \div R
<1>1. PICK d \in Nat, m \in 1..(R - 1) : d = x \div R /\ x = R * d + m
  <2>1. x % R \in 0..(R - 1) /\ x \div R \in Int /\ x = R * (x \div R) + (x % R)
    OBVIOUS
  <2>2. x % R \in 1..(R - 1)
    BY <2>1
  <2>3. x \div R >= 0
    OBVIOUS
  <2>4. QED
    BY <2>1, <2>2, <2>3
<1>2. m - 1 \in 0..(R - 1) /\ x - 1 = R * d + (m - 1)
  BY <1>1
<1>3. (R * d + (m - 1)) \div R = d
  BY <1>2, Quotient
<1>4. QED
  BY <1>1, <1>2, <1>3

(* With s responses or more to wait for, the socket has room for one.      *)
LEMMA RoomForOne ==
    ASSUME NEW R \in Nat \ {0}, NEW l \in Nat, NEW w \in Nat, NEW S \in Nat, NEW W \in Nat,
           NEW s \in Nat, s <= (l \div R) + w, l + W = R * (s - 1), S >= R * w
    PROVE  S - W >= R
<1>1. PICK d \in Nat : d = l \div R /\ R * d <= l
  <2>1. l \div R \in Int /\ l % R >= 0 /\ l = R * (l \div R) + (l % R) /\ l \div R >= 0
    OBVIOUS
  <2>2. QED
    BY <2>1
<1>2. R * (s - 1) = R * s - R
  OBVIOUS
<1>3. R * s <= R * (d + w)
  <2>1. s <= d + w
    BY <1>1
  <2>2. QED
    BY <2>1
<1>4. R * (d + w) = R * d + R * w
  OBVIOUS
<1>5. PICK a \in Int, b \in Int, c \in Int : a = R * s /\ b = R * d /\ c = R * w
  OBVIOUS
<1>6. l + W = a - R /\ a <= b + c /\ b <= l /\ S >= c
  BY <1>1, <1>2, <1>3, <1>4, <1>5
<1>7. QED
  BY <1>6

LEMMA QuotientGrows ==
    ASSUME NEW R \in Nat \ {0}, NEW l \in Nat
    PROVE  l \div R \in Nat /\ (l + 1) \div R \in Nat /\ l \div R <= (l + 1) \div R
<1>1. PICK d \in Int, e \in Int : d = l \div R /\ e = (l + 1) \div R
  OBVIOUS
<1>2. PICK m \in 0..(R - 1), k \in 0..(R - 1) : l = R * d + m /\ l + 1 = R * e + k
  BY <1>1
<1>3. d >= 0 /\ e >= 0
  BY <1>1
<1>4. ~(d > e)
  <2>1. d >= e + 1 => R * (d - e) >= R
    OBVIOUS
  <2>2. R * (d - e) = k - m - 1
    BY <1>2
  <2>3. k - m - 1 < R
    OBVIOUS
  <2>4. QED
    BY <2>1, <2>2, <2>3
<1>5. QED
  BY <1>1, <1>3, <1>4
-----------------------------------------------------------------------------
(* The second invariant: the order of the stream.                          *)
LEMMA OrderStays ==
    ASSUME InOrder, UNCHANGED <<sent, next>>
    PROVE  InOrder'
  BY DEF InOrder, Stream

LEMMA OrderGrows ==
    ASSUME TypeOK, InOrder, SendUnit
    PROVE  InOrder'
<1> PICK t, u, x : t = Stream /\ u = Stream' /\ x = next'
  OBVIOUS
<1> PICK N \in Nat : t = Stream /\ u = Stream' /\ x = next' /\ N = Len(sent) + 1
  BY StreamFacts
<1>1. t \in Seq(Places) /\ Len(t) = N /\ N >= 1 /\ t[N] = next /\ next \in Places
  BY StreamFacts, Types
<1>2. next.req \in 1..MaxRequests /\ next.part \in Nat \ {0}
  BY <1>1, Constants DEF SendUnit, Places
<1>3. Size(next.req) \in Nat /\ Size(next.req) >= 2
  BY <1>2, Sizes
<1>4. x = IF next.part < Size(next.req)
            THEN [req |-> next.req, part |-> next.part + 1]
            ELSE [req |-> next.req + 1, part |-> 1]
  <2>1. [next EXCEPT !.part = @ + 1] = [req |-> next.req, part |-> next.part + 1]
    BY <1>1 DEF Places
  <2>2. QED
    BY <2>1 DEF SendUnit
<1>5. x \in Places /\ Before(next, x)
  BY <1>2, <1>4, Constants DEF Places, Before
<1>6. u = Append(t, x)
  BY DEF SendUnit, Stream
<1>7. /\ Len(u) = N + 1
      /\ \A i \in 1..N : u[i] = t[i]
      /\ u[N + 1] = x
  BY <1>1, <1>5, <1>6, AppendProperties
<1>8. \A i \in 1..N : t[i] \in Places
  BY <1>1, ElementOfSeq
<1>9. ASSUME NEW m \in 1..(N + 1), NEW n \in 1..(N + 1), m < n
      PROVE  Before(u[m], u[n])
  <2>0. \A i, j \in 1..N : i < j => Before(t[i], t[j])
    BY <1>1 DEF InOrder
  <2>1. CASE n <= N
    <3>1. m \in 1..N /\ n \in 1..N
      BY <1>9, <2>1
    <3>2. QED
      BY <1>7, <1>9, <2>0, <3>1
  <2>2. CASE n = N + 1
    <3>1. m \in 1..N /\ N \in 1..N /\ u[m] = t[m] /\ u[n] = x
      BY <1>1, <1>7, <1>9, <2>2
    <3>2. m = N \/ Before(t[m], next)
      BY <1>1, <2>0, <3>1
    <3>3. CASE m = N
      BY <1>1, <1>5, <3>1, <3>3
    <3>4. CASE Before(t[m], next)
      <4>1. t[m] \in Places
        BY <1>8, <3>1
      <4>2. Before(t[m], x)
        BY <1>1, <1>5, <3>4, <4>1, Constants DEF Before, Places
      <4>3. QED
        BY <3>1, <4>2
    <3>5. QED
      BY <3>2, <3>3, <3>4
  <2>3. QED
    BY <2>1, <2>2
<1>10. ASSUME NEW n \in 1..(N + 1), NEW r \in 1..MaxRequests,
              r < u[n].req \/ (r = u[n].req /\ u[n].part > 1)
       PROVE  \E m \in 1..n : u[m] = [req |-> r, part |-> 2]
  <2>0. \A i \in 1..N : r < t[i].req \/ (r = t[i].req /\ t[i].part > 1) =>
            \E m \in 1..i : t[m] = [req |-> r, part |-> 2]
    BY <1>1 DEF InOrder
  <2>1. ASSUME NEW i \in 1..N, i <= n,
               r < t[i].req \/ (r = t[i].req /\ t[i].part > 1)
        PROVE  \E m \in 1..n : u[m] = [req |-> r, part |-> 2]
    <3>1. PICK m \in 1..i : t[m] = [req |-> r, part |-> 2]
      BY <2>0, <2>1
    <3>2. m \in 1..N /\ m \in 1..n
      BY <2>1
    <3>3. QED
      BY <1>7, <3>1, <3>2
  <2>2. CASE n <= N
    <3>1. n \in 1..N /\ n <= n /\ u[n] = t[n]
      BY <1>7, <2>2
    <3>2. QED
      BY <1>10, <2>1, <3>1
  <2>3. CASE n = N + 1
    <3>1. N \in 1..N /\ N <= n /\ u[n] = x
      BY <1>1, <1>7, <2>3
    <3>2. CASE r < next.req \/ (r = next.req /\ next.part > 1)
      BY <1>1, <2>1, <3>1, <3>2
    <3>3. CASE ~(r < next.req \/ (r = next.req /\ next.part > 1))
      <4>1. r < x.req \/ (r = x.req /\ x.part > 1)
        BY <1>10, <3>1
      <4>2. next.part < Size(next.req)
        BY <1>2, <1>3, <1>4, <3>3, <4>1
      <4>3. x = [req |-> next.req, part |-> next.part + 1]
        BY <1>4, <4>2
      <4>4. r = next.req /\ next.part = 1
        BY <1>2, <3>3, <4>1, <4>3
      <4>5. u[n] = [req |-> r, part |-> 2]
        BY <3>1, <4>3, <4>4
      <4>6. QED
        BY <4>5
    <3>4. QED
      BY <3>2, <3>3
  <2>4. QED
    BY <2>2, <2>3
<1>11. QED
  BY <1>7, <1>9, <1>10 DEF InOrder

(* The first header that is found is that of the next request.             *)
LEMMA EndIsNext ==
    ASSUME TypeOK, InOrder, Position, Kept, phase = "waiting",
           NEW i \in HeaderEnds, \A j \in HeaderEnds : i <= j
    PROVE  /\ Asking \in Nat /\ Peeked[i].req = Asking + 1
           /\ \E n \in 1..Len(sent) : sent[n] = Peeked[i]
<1>1. Usable
  BY DEF Usable
<1>2. PICK N \in Nat, P \in Nat, K \in Nat : N = Len(taken) /\ P = Len(Peeked) /\ K = Len(sent)
  BY <1>1, PeekInStream
<1>3. i \in 1..P /\ Peeked[i].part = 2 /\ \A j \in 1..P : j < i => Peeked[j].part # 2
  <2>1. i \in 1..P /\ Peeked[i].part = 2
    BY <1>2 DEF HeaderEnds, IsEnd
  <2>2. ASSUME NEW j \in 1..P, j < i PROVE Peeked[j].part # 2
    <3>1. j \notin HeaderEnds
      BY <2>1, <2>2
    <3>2. QED
      BY <1>2, <3>1 DEF HeaderEnds, IsEnd
  <2>3. QED
    BY <2>1, <2>2
<1>4. N + P <= K /\ Len(Stream) = K + 1
  BY <1>1, <1>2, PeekInStream, StreamFacts
<1>5. \A j \in 1..P : Stream[N + j] = Peeked[j]
  BY <1>1, <1>2, PeekInStream
<1>6. PICK n \in 1..K : n = N + i
  BY <1>3, <1>4
<1>7. Stream[n] = Peeked[i] /\ sent[n] = Peeked[i]
  BY <1>2, <1>3, <1>5, <1>6, StreamFacts
<1>8. \A k \in 1..K : Stream[k] = sent[k] /\ sent[k] \in Units
  BY <1>2, StreamFacts, Types, ElementOfSeq
<1>9. PICK e \in 1..MaxRequests : e = Peeked[i].req /\ Stream[n].req = e /\ Stream[n].part = 2
  <2>1. sent[n] \in Units
    BY <1>8
  <2>2. QED
    BY <1>3, <1>7, <2>1 DEF Units
<1>10. N > 0 => /\ Asking = Stream[N].req /\ N \in 1..K /\ Stream[N].part # 1
                /\ Stream[N].req \in 1..MaxRequests /\ Stream[N].part \in Nat \ {0}
  <2> SUFFICES ASSUME N > 0
               PROVE  /\ Asking = Stream[N].req /\ N \in 1..K /\ Stream[N].part # 1
                      /\ Stream[N].req \in 1..MaxRequests /\ Stream[N].part \in Nat \ {0}
    OBVIOUS
  <2>1. taken # <<>> /\ N \in 1..N /\ N \in 1..K
    BY <1>2, <1>4, EmptySeq
  <2>2. Stream[N] = taken[N] /\ Stream[N] = sent[N]
    BY <1>1, <1>2, <1>8, <2>1, InStream
  <2>3. LastOf(taken) = Stream[N]
    BY <1>2, <2>2 DEF LastOf
  <2>4. Asking = Stream[N].req /\ Stream[N].part # 1
    BY <1>1, <2>1, <2>3 DEF Asking, Position
  <2>5. sent[N] \in Units
    BY <1>8, <2>1
  <2>6. QED
    BY <2>1, <2>2, <2>4, <2>5 DEF Units
<1>11. N = 0 => Asking = 0
  <2>1. N = 0 => taken = <<>>
    BY <1>2, Types, EmptySeq
  <2>2. QED
    BY <2>1 DEF Asking
<1>12. Asking \in 0..MaxRequests
  BY <1>10, <1>11, Constants
<1>13. Asking < e
  <2>1. CASE N = 0
    BY <1>11, <2>1
  <2>2. CASE N > 0
    <3>1. N \in 1..Len(Stream) /\ n \in 1..Len(Stream) /\ N < n
      BY <1>3, <1>4, <1>6, <2>2
    <3>2. Before(Stream[N], Stream[n])
      BY <3>1 DEF InOrder
    <3>3. QED
      BY <1>9, <1>10, <2>2, <3>2 DEF Before
  <2>3. QED
    BY <2>1, <2>2
<1>14. ~(Asking + 1 < e)
  <2> SUFFICES ASSUME Asking + 1 < e PROVE FALSE
    OBVIOUS
  <2>1. PICK r \in 1..MaxRequests : r = Asking + 1 /\ r < e
    BY <1>12, Constants
  <2>2. n \in 1..Len(Stream) /\ r < Stream[n].req
    BY <1>4, <1>9, <2>1
  <2>3. PICK m \in 1..n : Stream[m] = [req |-> r, part |-> 2]
    BY <2>2 DEF InOrder
  <2>4. Stream[m].req = r /\ Stream[m].part = 2 /\ m # n
    BY <1>9, <2>1, <2>3
  <2>5. m <= N
    <3> SUFFICES ASSUME m > N PROVE FALSE
      OBVIOUS
    <3>1. PICK j \in 1..P : m = N + j /\ j < i
      <4>1. m - N \in 1..P /\ m = N + (m - N) /\ m - N < i
        BY <1>3, <1>6, <2>4
      <4>2. QED
        BY <4>1
    <3>2. QED
      BY <1>3, <1>5, <2>4, <3>1
  <2>6. N > 0 /\ (m = N \/ Before(Stream[m], Stream[N]))
    <3>1. N > 0
      BY <2>5
    <3>2. m \in 1..Len(Stream) /\ N \in 1..Len(Stream)
      BY <1>4, <2>5, <3>1
    <3>3. QED
      BY <2>5, <3>1, <3>2 DEF InOrder
  <2>7. r <= Asking
    BY <1>10, <2>4, <2>6 DEF Before
  <2>8. QED
    BY <1>12, <2>1, <2>7
<1>15. QED
  <2>1. e = Asking + 1 /\ Asking \in Nat
    BY <1>12, <1>13, <1>14
  <2>2. QED
    BY <1>2, <1>7, <1>9, <2>1

LEMMA HandleRequestTakes ==
    ASSUME TypeOK, HandleRequest
    PROVE  \E i \in HeaderEnds : /\ \A j \in HeaderEnds : i <= j
                                 /\ taken' # <<>> /\ LastOf(taken') = Peeked[i]
<1>1. PICK i \in HeaderEnds : /\ \A j \in HeaderEnds : i <= j
                             /\ taken' = taken \o SubSeq(Peeked, 1, i)
  BY DEF HandleRequest
<1>0. PICK p, q : p = Peeked /\ q = SubSeq(Peeked, 1, i)
  OBVIOUS
<1>2. PICK P \in Nat : P = Len(Peeked) /\ p = Peeked /\ q = SubSeq(Peeked, 1, i)
  BY <1>0, PeekFacts, LenProperties
<1>3. p \in Seq(Units) /\ Len(p) = P /\ i \in 1..P /\ i \in Nat /\ taken \in Seq(Units)
  BY <1>1, <1>2, PeekFacts, Types DEF HeaderEnds
<1>4. q = Upto(p, i)
  BY <1>2, <1>3 DEF Upto
<1>5. /\ q \in Seq(Units) /\ (i < P => Len(q) = i) /\ (i >= P => Len(q) = P)
      /\ \A k \in 1..Len(q) : q[k] = p[k]
  BY <1>3, <1>4, UptoFacts, Zenon
<1>6. Len(q) = i /\ i \in 1..i /\ q[i] = p[i]
  BY <1>3, <1>5
<1>7. /\ taken' \in Seq(Units) /\ Len(taken') = Len(taken) + i /\ Len(taken) \in Nat
      /\ AtEnd(taken', Len(taken), q)
  BY <1>1, <1>2, <1>3, <1>5, <1>6, ConcatFacts, Zenon
<1>8. taken'[Len(taken) + i] = q[i]
  BY <1>6, <1>7 DEF AtEnd
<1>9. Len(taken') > 0
  BY <1>3, <1>7
<1>10. taken' # <<>> /\ LastOf(taken') = Peeked[i]
  BY <1>2, <1>6, <1>7, <1>8, <1>9, EmptySeq DEF LastOf
<1>11. QED
  BY <1>1, <1>10
-----------------------------------------------------------------------------
(* The second invariant: what the client gets.                             *)
RoomForTheWindow == \A w \in Windows : SendSpace >= ResponseSize * w

LEMMA OutFacts ==
    ASSUME TypeOK
    PROVE  /\ Out \in Seq(ResponseUnits) /\ Len(received) \in Nat /\ Len(wire) \in Nat
           /\ Len(Out) = Len(received) + Len(wire)
  BY Types, ConcatFacts DEF Out

LEMMA NoPart == ASSUME NEW status PROVE ResponsePart(status, 0) = <<>>
  BY DEF ResponsePart

(* A whole response is written, or nothing.                                *)
LEMMA RoomForAnAnswer ==
    ASSUME RoomForTheWindow, Framed, Whole, Answering
    PROVE  /\ Room \in Nat
           /\ peer = "reset" => Room = 0
           /\ peer # "reset" => Room >= ResponseSize
<1>1. TypeOK /\ header # <<>>
  BY DEF Framed, Position
<1>2. PICK R \in Nat \ {0}, l \in Nat, W \in Nat, y \in Nat, w \in Nat :
          /\ R = ResponseSize /\ l = Len(received) /\ W = Len(wire) /\ y = Subject
          /\ w = window
  <2>1. window \in Nat
    BY <1>1, Constants DEF TypeOK
  <2>2. QED
    BY <1>1, <2>1, Constants, OutFacts, SubjectFacts
<1>3. l + W = R * (y - 1)
  BY <1>1, <1>2, OutFacts DEF Whole, Counted
<1>4. y <= (l \div R) + w
  BY <1>2 DEF Whole, Patient, Responses
<1>5. SendSpace >= R * w /\ SendSpace \in Nat
  BY <1>1, <1>2, Constants DEF RoomForTheWindow, TypeOK
<1>6. SendSpace - W >= R
  BY <1>3, <1>4, <1>5, RoomForOne
<1>7. QED
  BY <1>2, <1>5, <1>6 DEF Room

(* The response comes behind those before it, unit by unit.                *)
LEMMA WritesAtTheEnd ==
    ASSUME RoomForTheWindow, Framed, Whole, Answering, received' = received,
           NEW status \in {200, 400, 404, 500}, Write(status)
    PROVE  /\ Len(Out) = ResponseSize * (Subject - 1)
           /\ Len(Out') = Len(Out) + ResponseSize
           /\ \A i \in 1..Len(Out) : Out'[i] = Out[i]
           /\ \A k \in 1..ResponseSize :
                 Out'[Len(Out) + k] = [re |-> Subject, status |-> status, part |-> k]
<1>1. TypeOK /\ header # <<>>
  BY DEF Framed, Position
<1>0. PICK q, o, u : q = ResponsePart(status, ResponseSize) /\ o = Out /\ u = Out'
  OBVIOUS
<1>2. PICK R \in Nat \ {0}, y \in 1..MaxRequests :
          /\ R = ResponseSize /\ y = Subject /\ q = ResponsePart(status, R)
          /\ o = Out /\ u = Out'
  BY <1>0, <1>1, Constants, SubjectFacts
<1>3. Room >= R /\ Room \in Nat
  <2>1. Room \in Nat /\ (peer = "reset" => Room = 0) /\ (peer # "reset" => Room >= R)
    BY <1>2, RoomForAnAnswer
  <2>2. Room >= IF transport = "tls" THEN R ELSE 1
    BY <1>2 DEF Write
  <2>3. QED
    BY <2>1, <2>2
<1>4. wire' = wire \o q
  <2>1. Transmitted(Room) = R
    BY <1>2, <1>3 DEF Transmitted
  <2>2. QED
    BY <1>2, <2>1 DEF Write
<1>5. q \in Seq(ResponseUnits) /\ Len(q) = R
      /\ \A k \in 1..R : q[k] = [re |-> y, status |-> status, part |-> k]
  <2>1. q = [k \in 1..R |-> [re |-> y, status |-> status, part |-> k]]
    BY <1>2 DEF ResponsePart
  <2>2. \A k \in 1..R : [re |-> y, status |-> status, part |-> k] \in ResponseUnits
    BY <1>2 DEF ResponseUnits
  <2>3. q \in [1..R -> ResponseUnits]
    BY <2>1, <2>2
  <2>4. q \in Seq(ResponseUnits) /\ Len(q) = R
    BY <2>3
  <2>5. QED
    BY <2>1, <2>4
<1>6. u = o \o q
  <2>1. received \in Seq(ResponseUnits) /\ wire \in Seq(ResponseUnits)
    BY <1>1, Types
  <2>2. (received \o wire) \o q = received \o (wire \o q)
    <3>1. Chained(received, wire, q)
      BY <1>5, <2>1, AlwaysChained, Zenon
    <3>2. QED
      BY <3>1, Zenon DEF Chained
  <2>3. u = received \o wire'
    BY <1>2 DEF Out
  <2>4. QED
    BY <1>2, <1>4, <2>2, <2>3, Zenon DEF Out
<1>7. PICK N \in Nat : N = Len(o) /\ N = R * (y - 1)
  BY <1>1, <1>2, OutFacts DEF Whole, Counted
<1>8. /\ Len(u) = N + R
      /\ \A i \in 1..N : u[i] = o[i]
      /\ \A k \in 1..R : u[N + k] = q[k]
  <2>1. o \in Seq(ResponseUnits) /\ q \in Seq(ResponseUnits)
    BY <1>1, <1>2, <1>5, OutFacts
  <2>2. Len(u) = Len(o) + Len(q)
    BY <1>6, <2>1, ConcatFacts
  <2>3. \A i \in 1..Len(o) : u[i] = o[i]
    BY <1>6, <2>1, ConcatFacts
  <2>4. AtEnd(u, Len(o), q)
    BY <1>6, <2>1, ConcatFacts, Zenon
  <2>5. \A k \in 1..R : u[N + k] = q[k]
    BY <1>5, <1>7, <2>4 DEF AtEnd
  <2>6. QED
    BY <1>5, <1>7, <2>2, <2>3, <2>5
<1>9. \A k \in 1..R : u[N + k] = [re |-> y, status |-> status, part |-> k]
  BY <1>5, <1>8
<1>10. QED
  BY <1>2, <1>7, <1>8, <1>9

LEMMA WritesAll ==
    ASSUME RoomForTheWindow, Framed, Whole, Answering, received' = received,
           NEW status \in {200, 400, 404, 500}, Write(status)
    PROVE  Len(Out') = ResponseSize * Subject /\ Laid'
<1>0. PICK o, u : o = Out /\ u = Out'
  OBVIOUS
<1>1. PICK R \in Nat \ {0}, y \in 1..MaxRequests :
          R = ResponseSize /\ y = Subject /\ o = Out /\ u = Out'
  BY <1>0, Constants, SubjectFacts DEF Framed, Position
<1>2. PICK N \in Nat : N = Len(o) /\ N = R * (y - 1)
  BY <1>1, WritesAtTheEnd
<1>3. /\ Len(u) = N + R
      /\ \A i \in 1..N : u[i] = o[i]
      /\ \A k \in 1..R : u[N + k].re = y /\ u[N + k].part = k
  <2>1. /\ Len(u) = N + R
        /\ \A i \in 1..N : u[i] = o[i]
        /\ \A k \in 1..R : u[N + k] = [re |-> y, status |-> status, part |-> k]
    BY <1>1, <1>2, WritesAtTheEnd
  <2>2. ASSUME NEW k \in 1..R PROVE u[N + k].re = y /\ u[N + k].part = k
    <3>1. PICK v : v = u[N + k]
      OBVIOUS
    <3>2. v = [re |-> y, status |-> status, part |-> k]
      BY <2>1, <3>1
    <3>3. v.re = y /\ v.part = k
      BY <3>2
    <3>4. QED
      BY <3>1, <3>3
  <2>3. QED
    BY <2>1, <2>2
<1>4. N + R = R * y
  BY <1>1, <1>2
<1>5. ASSUME NEW n \in 1..(N + R)
       PROVE  u[n].part = ((n - 1) % R) + 1 /\ u[n].re = ((n - 1) \div R) + 1
  <2>1. CASE n <= N
    <3>1. n \in 1..N
      BY <2>1
    <3>2. o[n].part = ((n - 1) % R) + 1 /\ o[n].re = ((n - 1) \div R) + 1
      BY <1>1, <1>2, <3>1 DEF Whole, Laid
    <3>3. QED
      BY <1>3, <3>1, <3>2
  <2>2. CASE n > N
    <3>1. PICK k \in 1..R : n = N + k
      <4>1. n - N \in 1..R /\ n = N + (n - N)
        BY <2>2
      <4>2. QED
        BY <4>1
    <3>2. PICK z \in Nat, j \in 0..(R - 1) : z = y - 1 /\ j = k - 1
      BY <1>1
    <3>3. n - 1 = R * z + j
      BY <1>2, <3>1, <3>2
    <3>4. (R * z + j) \div R = z /\ (R * z + j) % R = j
      BY Quotient
    <3>5. (n - 1) \div R = y - 1 /\ (n - 1) % R = k - 1
      BY <3>2, <3>3, <3>4
    <3>6. u[n].re = y /\ u[n].part = k
      BY <1>3, <3>1
    <3>7. QED
      BY <1>1, <3>5, <3>6
  <2>3. QED
    BY <2>1, <2>2
<1>6. QED
  BY <1>1, <1>3, <1>4, <1>5 DEF Laid

LEMMA WritesNothing ==
    ASSUME RoomForTheWindow, Framed, Whole, Answering,
           NEW status \in {200, 400, 404, 500}, WriteFails(status)
    PROVE  wire' = wire
<1>1. CASE transport = "plain" /\ Room = 0 /\ UNCHANGED wire
  BY <1>1
<1>2. CASE Room < ResponseSize /\ \E n \in 0..Room : wire' = wire \o ResponsePart(status, n)
  <2>1. peer = "reset" /\ Room = 0
    BY <1>2, RoomForAnAnswer, Constants
  <2>2. wire' = wire \o ResponsePart(status, 0)
    BY <1>2, <2>1
  <2>3. wire \in Seq(ResponseUnits)
    BY Types DEF Framed
  <2>4. QED
    BY <2>2, <2>3, NoPart, ConcatEmptySeq
<1>3. QED
  BY <1>1, <1>2 DEF WriteFails
-----------------------------------------------------------------------------
(* Steps without a write and without a header leave the client's part.     *)
LEMMA ClientWaits ==
    ASSUME Whole, UNCHANGED clientVars, wire' = wire,
           Answering' => Answering /\ header' = header
    PROVE  InOrder' /\ Patient' /\ Laid' /\ Out' = Out
<1>1. InOrder'
  BY OrderStays DEF Whole, clientVars
<1>2. Out' = Out
  BY DEF Out, clientVars
<1>3. Laid'
  BY <1>2 DEF Whole, Laid
<1>4. Patient'
  BY DEF Whole, Patient, Responses, Subject, clientVars, setup
<1>5. QED
  BY <1>1, <1>2, <1>3, <1>4

LEMMA SendUnitWhole ==
    ASSUME Framed, Whole, SendUnit
    PROVE  Whole'
<1>1. TypeOK
  BY DEF Framed
<1>2. InOrder'
  BY <1>1, OrderGrows DEF Whole
<1>3. Out' = Out /\ Asking' = Asking /\ Subject' = Subject
  BY DEF SendUnit, Out, Asking, LastOf, Subject
<1>4. Laid'
  BY <1>3 DEF Whole, Laid
<1>5. Counted'
  BY <1>3 DEF Whole, Counted, Answering, SendUnit
<1>6. Patient'
  <2>0. PICK t, x : t = sent' /\ x = next
    OBVIOUS
  <2>1. PICK N \in Nat : N = Len(sent) /\ t = sent' /\ x = next /\ x.req <= Responses + window
    BY <2>0, <1>1, Types, LenProperties DEF SendUnit
  <2>2. x \in Units /\ sent \in Seq(Units) /\ t = Append(sent, x)
    BY <1>1, <2>1, Types, Constants DEF SendUnit, Places, Units
  <2>3. /\ Len(t) = N + 1
        /\ \A n \in 1..N : t[n] = sent[n]
        /\ t[N + 1] = x
    BY <2>1, <2>2, AppendProperties
  <2>4. ASSUME NEW n \in 1..(N + 1) PROVE t[n].req <= Responses + window
    <3>1. CASE n = N + 1
      BY <2>1, <2>3, <3>1
    <3>2. CASE n # N + 1
      <4>1. n \in 1..N
        BY <3>2
      <4>2. QED
        BY <2>1, <2>3, <4>1 DEF Whole, Patient
    <3>3. QED
      BY <3>1, <3>2
  <2>5. Responses' = Responses /\ window' = window
    BY DEF SendUnit, setup, Responses
  <2>6. QED
    BY <1>3, <2>1, <2>3, <2>4, <2>5 DEF Whole, Patient, Answering, SendUnit
<1>7. QED
  BY <1>2, <1>4, <1>5, <1>6 DEF Whole

LEMMA ReceiveKeepsOut ==
    ASSUME TypeOK, Receive
    PROVE  Out' = Out
<1>2. PICK h, w, r, z : /\ w = wire /\ r = received /\ h = <<Head(w)>> /\ z = Tail(w)
                       /\ w \in Seq(ResponseUnits) /\ r \in Seq(ResponseUnits)
                       /\ w # <<>>
  BY Types DEF Receive
<1>3. Head(w) \in ResponseUnits /\ z \in Seq(ResponseUnits) /\ Len(r) \in Nat
  BY <1>2, HeadTailProperties, LenProperties
<1>4. h \in Seq(ResponseUnits)
  BY <1>2, <1>3
<1>5. received' = r \o h /\ wire' = z /\ Len(received') = Len(r) + 1
  BY <1>2, <1>3, AppendIsConcat, AppendProperties DEF Receive
<1>6. h \o z = w
  <2>1. Len(w) \in Nat \ {0}
    BY <1>2, EmptySeq
  <2>2. PICK k \in Nat \ {0} : k = Len(w)
    BY <2>1
  <2>3. SubSeq(w, 1, k) = <<w[1]>> \o SubSeq(w, 2, k)
    <3>1. 1 \in 1..k /\ k \in 1..k
      BY <2>2
    <3>2. SubSeq(w, 1, k) = <<w[1]>> \o SubSeq(w, 1 + 1, k)
      BY <1>2, <2>2, <3>1, SubSeqRecursiveFirst
    <3>3. QED
      BY <3>2
  <2>4. SubSeq(w, 1, k) = w /\ z = SubSeq(w, 2, k)
    BY <1>2, <2>2, SubSeqFull, TailIsSubSeq
  <2>5. Head(w) = w[1]
    BY <1>2
  <2>6. QED
    BY <1>2, <2>3, <2>4, <2>5
<1>7. QED
  <2>1. (r \o h) \o z = r \o (h \o z)
    <3>1. r \in Seq(ResponseUnits) /\ h \in Seq(ResponseUnits) /\ z \in Seq(ResponseUnits)
      BY <1>2, <1>3, <1>4
    <3>2. Chained(r, h, z)
      BY <3>1, AlwaysChained, Zenon
    <3>3. QED
      BY <3>2, Zenon DEF Chained
  <2>2. QED
    BY <1>2, <1>5, <1>6, <2>1, Zenon DEF Out

LEMMA ReceiveWhole ==
    ASSUME Framed, Whole, Receive
    PROVE  Whole'
<1>1. TypeOK
  BY DEF Framed
<1>2. PICK r : r = received /\ r \in Seq(ResponseUnits)
  BY <1>1, Types
<1>3. Head(wire) \in ResponseUnits /\ Len(r) \in Nat
  BY <1>1, <1>2, Types, HeadTailProperties, LenProperties DEF Receive
<1>5. Len(received') = Len(r) + 1
  BY <1>2, <1>3, AppendProperties DEF Receive
<1>7. Out' = Out
  BY <1>1, ReceiveKeepsOut
<1>8. Asking' = Asking /\ Subject' = Subject
  BY DEF Receive, Asking, LastOf, Subject
<1>9. InOrder'
  BY OrderStays DEF Whole, Receive
<1>10. Laid' /\ Counted'
  BY <1>7, <1>8 DEF Whole, Laid, Counted, Answering, Receive
<1>11. Patient'
  <2>1. Responses \in Nat /\ Responses' \in Nat /\ Responses <= Responses'
    BY <1>2, <1>3, <1>5, QuotientGrows, Constants DEF Responses
  <2>2. window' = window /\ window \in Nat
    BY <1>1, Constants DEF Receive, setup, TypeOK
  <2>3. sent' = sent /\ \A n \in 1..Len(sent) : sent[n] \in Units
    BY <1>1, Types, ElementOfSeq DEF Receive
  <2>4. \A n \in 1..Len(sent) : sent[n].req \in Nat /\ sent[n].req <= Responses + window
    BY <2>3 DEF Whole, Patient, Units
  <2>5. \A n \in 1..Len(sent) : sent[n].req <= Responses' + window
    BY <2>1, <2>2, <2>4
  <2>6. Answering => Subject <= Responses' + window
    <3>1. Answering => Subject \in Nat /\ Subject <= Responses + window
      BY <1>1, SubjectFacts DEF Framed, Position, Whole, Patient
    <3>2. QED
      BY <2>1, <2>2, <3>1
  <2>7. QED
    BY <1>8, <2>2, <2>3, <2>5, <2>6 DEF Patient, Answering, Receive
<1>12. QED
  BY <1>9, <1>10, <1>11 DEF Whole

LEMMA HangupWhole ==
    ASSUME Whole, NEW how \in {"fin", "reset"}, Hangup(how)
    PROVE  Whole'
<1>1. Out' = Out /\ Asking' = Asking /\ Subject' = Subject /\ Responses' = Responses
  BY DEF Hangup, Out, Asking, LastOf, Subject, Responses
<1>2. InOrder'
  BY OrderStays DEF Whole, Hangup
<1>3. Laid' /\ Counted' /\ Patient'
  BY <1>1 DEF Whole, Laid, Counted, Patient, Answering, Hangup, setup
<1>4. QED
  BY <1>2, <1>3 DEF Whole

(* The epoll thread.                                                       *)
LEMMA EpollThreadQuietWhole ==
    ASSUME Whole, HandleHangup \/ HandleIncomplete \/ TakeBack
    PROVE  Whole'
<1>1. /\ UNCHANGED clientVars /\ wire' = wire /\ taken' = taken /\ keep' = keep
      /\ ~Answering'
      /\ phase' = "waiting" => phase = "waiting" \/ (phase = "returning" /\ keep)
      /\ phase' # "returning"
  BY DEF HandleHangup, HandleIncomplete, TakeBack, Answering
<1>2. InOrder' /\ Patient' /\ Laid' /\ Out' = Out
  BY <1>1, ClientWaits
<1>3. Asking' = Asking
  BY <1>1 DEF Asking, LastOf
<1>4. Counted'
  BY <1>1, <1>2, <1>3 DEF Whole, Counted, Answering
<1>5. QED
  BY <1>2, <1>4 DEF Whole

LEMMA HandleRequestWhole ==
    ASSUME Framed, Framed', Whole, HandleRequest
    PROVE  Whole'
<1>1. TypeOK /\ Position /\ Kept /\ Position' /\ InOrder
  BY DEF Framed, Whole
<1>2. PICK i \in HeaderEnds : /\ \A j \in HeaderEnds : i <= j
                             /\ taken' # <<>> /\ LastOf(taken') = Peeked[i]
  BY <1>1, HandleRequestTakes
<1>3. phase = "waiting" /\ phase' = "running"
  BY DEF HandleRequest
<1>0. PICK e : e = Peeked[i].req
  OBVIOUS
<1>4. PICK a \in Nat, n \in 1..Len(sent) :
          a = Asking /\ e = Peeked[i].req /\ e = a + 1 /\ sent[n].req = e
  BY <1>0, <1>1, <1>2, <1>3, EndIsNext
<1>5. Subject' = e /\ Asking' = e
  <2>1. LastOf(taken)' = [req |-> Subject', part |-> 2]
    BY <1>1, <1>3 DEF Position
  <2>2. LastOf(taken)' = Peeked[i]
    BY <1>2 DEF LastOf
  <2>3. Subject' = e
    <3>1. PICK z, h : z = Subject' /\ h = Peeked[i]
      OBVIOUS
    <3>2. h = [req |-> z, part |-> 2]
      BY <2>1, <2>2, <3>1, Zenon
    <3>3. h.req = z
      BY <3>2
    <3>4. QED
      BY <1>4, <3>1, <3>3, Zenon
  <2>4. Asking' = LastOf(taken)'.req
    BY <1>2 DEF Asking
  <2>5. QED
    BY <1>4, <2>2, <2>3, <2>4
<1>6. Out' = Out /\ UNCHANGED clientVars
  BY DEF HandleRequest, Out, clientVars
<1>7. InOrder' /\ Laid'
  BY <1>6, OrderStays DEF Whole, Laid, clientVars
<1>8. Counted'
  <2>1. Len(Out) = ResponseSize * a
    BY <1>3, <1>4 DEF Whole, Counted
  <2>2. a = e - 1
    BY <1>4
  <2>3. QED
    BY <1>3, <1>5, <1>6, <2>1, <2>2 DEF Counted
<1>9. Patient'
  <2>1. e <= Responses + window
    BY <1>4 DEF Whole, Patient
  <2>2. Responses' = Responses /\ window' = window /\ sent' = sent
    BY <1>6 DEF clientVars, setup, Responses
  <2>3. QED
    BY <1>5, <2>1, <2>2 DEF Whole, Patient
<1>10. QED
  BY <1>7, <1>8, <1>9 DEF Whole

(* The worker.                                                             *)
LEMMA WorkerQuietWhole ==
    ASSUME Framed, Whole, Resolve \/ GetBody \/ GetBodyThrows \/ ResolverThrows
    PROVE  Whole'
<1>1. /\ UNCHANGED clientVars /\ wire' = wire /\ header' = header
      /\ Answering
      /\ phase' \in {"resolving", "failed", "broken"}
      /\ phase \in {"running", "resolving"}
  BY DEF Resolve, GetBody, GetBodyThrows, ResolverThrows, Answering
<1>2. InOrder' /\ Patient' /\ Laid' /\ Out' = Out
  BY <1>1, ClientWaits
<1>3. Subject' = Subject
  BY <1>1 DEF Subject
<1>4. phase' = "resolving" => Asking' = Subject
  <2>1. CASE GetBody
    BY <2>1, GetBodyTakes DEF Framed, Asking, LastOf
  <2>2. CASE Resolve \/ GetBodyThrows \/ ResolverThrows
    <3>1. taken' = taken
      BY <2>2 DEF Resolve, GetBodyThrows, ResolverThrows
    <3>2. QED
      BY <1>1, <3>1 DEF Whole, Counted, Asking, LastOf
  <2>3. QED
    BY <2>1, <2>2
<1>5. Counted'
  BY <1>1, <1>2, <1>3, <1>4 DEF Whole, Counted
<1>6. QED
  BY <1>2, <1>5 DEF Whole

LEMMA WorkerWritesWhole ==
    ASSUME RoomForTheWindow, Framed, Whole, Reject \/ Respond \/ AnswerFailure
    PROVE  Whole'
<1>1. /\ UNCHANGED clientVars /\ header' = header /\ taken' = taken /\ Answering
      /\ phase' \in {"returning", "died", "failed", "broken"}
      /\ phase' = "returning" /\ keep' => phase = "resolving"
  BY DEF Reject, Respond, AnswerFailure, Answering, KeepAfterFailure
<1>2. received' = received
  BY <1>1 DEF clientVars
<1>3. PICK status \in {200, 400, 404, 500} :
          \/ Write(status) /\ phase' = "returning"
          \/ WriteFails(status) /\ phase' # "returning"
          \/ wire' = wire /\ phase' # "returning"
  BY DEF Reject, Respond, AnswerFailure
<1>4. Subject' = Subject /\ Asking' = Asking
  BY <1>1 DEF Subject, Asking, LastOf
<1>5. CASE Write(status) /\ phase' = "returning"
  <2>1. Len(Out') = ResponseSize * Subject /\ Laid'
    BY <1>1, <1>2, <1>5, WritesAll
  <2>2. InOrder'
    BY <1>1, OrderStays DEF Whole, clientVars
  <2>3. Patient'
    BY <1>1, <1>5 DEF Whole, Patient, Answering, Responses, clientVars, setup
  <2>4. Counted'
    BY <1>1, <1>4, <1>5, <2>1 DEF Whole, Counted, Answering
  <2>5. QED
    BY <2>1, <2>2, <2>3, <2>4 DEF Whole
<1>6. CASE (WriteFails(status) \/ wire' = wire) /\ phase' # "returning"
  <2>1. wire' = wire
    BY <1>1, <1>6, WritesNothing
  <2>2. InOrder' /\ Patient' /\ Laid' /\ Out' = Out
    BY <1>1, <2>1, ClientWaits
  <2>3. Counted'
    BY <1>1, <1>4, <1>6, <2>2 DEF Whole, Counted
  <2>4. QED
    BY <2>2, <2>3 DEF Whole
<1>7. QED
  BY <1>3, <1>5, <1>6
-----------------------------------------------------------------------------
LEMMA InitWhole ==
    ASSUME Init
    PROVE  Whole
<1>1. Stream = <<next>> /\ Len(Stream) = 1 /\ Stream[1] = [req |-> 1, part |-> 1]
  BY DEF Init, Stream
<1>2. InOrder
  <2>1. \A m, n \in 1..1 : ~(m < n)
    OBVIOUS
  <2>2. ASSUME NEW n \in 1..1, NEW r \in 1..MaxRequests
        PROVE  ~(r < Stream[n].req \/ (r = Stream[n].req /\ Stream[n].part > 1))
    <3>1. n = 1
      OBVIOUS
    <3>2. QED
      BY <1>1, <3>1, Constants
  <2>3. QED
    BY <1>1, <2>1, <2>2 DEF InOrder
<1>3. Out = <<>> /\ Len(Out) = 0 /\ Asking = 0 /\ Len(sent) = 0
  BY DEF Init, Out, Asking
<1>4. Counted /\ Patient /\ Laid
  BY <1>3, Constants DEF Init, Counted, Patient, Laid, Answering
<1>5. QED
  BY <1>2, <1>4 DEF Whole

LEMMA NothingWhole ==
    ASSUME Whole, UNCHANGED vars
    PROVE  Whole'
<1>1. UNCHANGED clientVars /\ wire' = wire /\ UNCHANGED <<phase, header, taken, keep>>
  BY DEF vars
<1>2. InOrder' /\ Patient' /\ Laid' /\ Out' = Out
  BY <1>1, ClientWaits DEF Answering
<1>3. Counted'
  BY <1>1, <1>2 DEF Whole, Counted, Answering, Asking, LastOf, Subject
<1>4. QED
  BY <1>2, <1>3 DEF Whole

LEMMA NextWhole ==
    ASSUME RoomForTheWindow, Framed, Framed', Whole, Next
    PROVE  Whole'
<1>1. CASE Client
  BY <1>1, SendUnitWhole, ReceiveWhole, HangupWhole DEF Client
<1>2. CASE EpollThread
  BY <1>2, EpollThreadQuietWhole, HandleRequestWhole DEF EpollThread
<1>3. CASE Worker
  BY <1>3, WorkerQuietWhole, WorkerWritesWhole DEF Worker
<1>4. QED
  BY <1>1, <1>2, <1>3 DEF Next

LEMMA WholeSuffices ==
    ASSUME TypeOK, Laid
    PROVE  WireIsFramed
<1>0. PICK o : o = Out
  OBVIOUS
<1>1. PICK R \in Nat \ {0}, N \in Nat : R = ResponseSize /\ o = Out /\ N = Len(o)
  BY <1>0, Constants, OutFacts
<1>2. \A n \in 1..N : o[n].part = ((n - 1) % R) + 1 /\ o[n].re = ((n - 1) \div R) + 1
  BY <1>1 DEF Laid
<1>3. ASSUME NEW n \in 1..N, n > 1, o[n].part # 1
      PROVE  o[n].re = o[n - 1].re
  <2>1. PICK x \in Nat \ {0}, k \in 1..N : x = n - 1 /\ k = n - 1
    BY <1>3
  <2>2. o[n].part = (x % R) + 1 /\ o[n].re = (x \div R) + 1
    BY <1>2, <2>1
  <2>3. o[k].re = ((x - 1) \div R) + 1
    BY <1>2, <2>1
  <2>4. x % R # 0
    BY <1>3, <2>2
  <2>5. (x - 1) \div R = x \div R
    BY <2>4, SameQuotient
  <2>6. QED
    BY <2>1, <2>2, <2>3, <2>5
<1>4. QED
  BY <1>1, <1>2, <1>3 DEF WireIsFramed

(* Where a client does not make more requests at once than the socket has  *)
(* room for their responses, every response begins where the one before it *)
(* ends (ClientRequestHandler.cpp:27-56, PlainStream.cpp:30-36).           *)
THEOREM WireAlwaysFramed ==
    ASSUME RoomForTheWindow
    PROVE  Safety => []WireIsFramed
<1>1. Framed /\ Framed' /\ Whole /\ [Next]_vars => Whole'
  BY NextWhole, NothingWhole
<1>2. Framed /\ Whole => WireIsFramed
  BY WholeSuffices DEF Framed, Whole
<1>3. QED
  BY FramedAlways, InitWhole, <1>1, <1>2, PTL DEF Safety
-----------------------------------------------------------------------------
(* The refinement.  A request that is answered is one whose header was     *)
(* sent.                                                                   *)
Heard == Answering => Subject <= HeadersSent

LEMMA EndWasSent ==
    ASSUME TypeOK, InOrder, NEW n \in 1..Len(sent), sent[n].part = 2
    PROVE  sent[n].req <= HeadersSent
<1>1. PICK N \in Nat, u \in Units, x \in Places : N = Len(sent) /\ u = sent[n] /\ x = next
  BY Types, ElementOfSeq, LenProperties
<1>2. n \in 1..(N + 1) /\ N + 1 \in 1..(N + 1) /\ n < N + 1
  BY <1>1
<1>3. Len(Stream) = N + 1 /\ Stream[n] = u /\ Stream[N + 1] = x
  BY <1>1, StreamFacts
<1>4. Before(u, x)
  BY <1>2, <1>3 DEF InOrder
<1>5. u.req \in Nat /\ x.req \in Nat /\ x.part \in Nat
  BY <1>1, Constants DEF Units, Places
<1>6. u.part = 2 /\ HeadersSent = x.req - 1 + (IF x.part > 2 THEN 1 ELSE 0)
  BY <1>1 DEF HeadersSent
<1>7. QED
  BY <1>1, <1>4, <1>5, <1>6 DEF Before

(* One header more is sent, or none.                                       *)
LEMMA SendUnitAsks ==
    ASSUME TypeOK, SendUnit
    PROVE  /\ HeadersSent \in Nat /\ HeadersSent' \in Nat
           /\ \/ HeadersSent' = HeadersSent
              \/ HeadersSent' = HeadersSent + 1 /\ HeadersSent < MaxRequests
<1>0. PICK x, z : x = next /\ z = next'
  OBVIOUS
<1>1. x \in Places /\ x = next /\ z = next'
  BY <1>0, Types
<1>2. x.req \in 1..MaxRequests /\ x.part \in Nat \ {0}
  BY <1>1, Constants DEF SendUnit, Places
<1>3. Size(x.req) \in Nat /\ Size(x.req) >= 2
  BY <1>2, Sizes
<1>4. z = IF x.part < Size(x.req) THEN [req |-> x.req, part |-> x.part + 1]
                                  ELSE [req |-> x.req + 1, part |-> 1]
  <2>1. [x EXCEPT !.part = @ + 1] = [req |-> x.req, part |-> x.part + 1]
    BY <1>1 DEF Places
  <2>2. QED
    BY <1>1, <2>1 DEF SendUnit
<1>5. /\ HeadersSent = x.req - 1 + (IF x.part > 2 THEN 1 ELSE 0)
      /\ HeadersSent' = z.req - 1 + (IF z.part > 2 THEN 1 ELSE 0)
  BY <1>1 DEF HeadersSent
<1>6. CASE x.part < Size(x.req)
  <2>1. z.req = x.req /\ z.part = x.part + 1
    BY <1>4, <1>6
  <2>2. QED
    BY <1>2, <1>5, <2>1, Constants
<1>7. CASE ~(x.part < Size(x.req))
  <2>1. z.req = x.req + 1 /\ z.part = 1
    BY <1>4, <1>7
  <2>2. QED
    BY <1>2, <1>3, <1>5, <1>7, <2>1, Constants
<1>8. QED
  BY <1>6, <1>7

LEMMA HandleRequestHeard ==
    ASSUME Framed, Framed', Whole, HandleRequest
    PROVE  Heard'
<1>1. TypeOK /\ Position /\ Kept /\ Position' /\ InOrder
  BY DEF Framed, Whole
<1>2. phase = "waiting" /\ phase' = "running" /\ next' = next
  BY DEF HandleRequest, clientVars
<1>3. PICK i \in HeaderEnds : /\ \A j \in HeaderEnds : i <= j
                             /\ taken' # <<>> /\ LastOf(taken') = Peeked[i]
  BY <1>1, HandleRequestTakes
<1>4. PICK n \in 1..Len(sent) : sent[n] = Peeked[i]
  BY <1>1, <1>2, <1>3, EndIsNext
<1>5. LastOf(taken)' = [req |-> Subject', part |-> 2]
  BY <1>1, <1>2 DEF Position
<1>6. PICK z : z = Subject'
  OBVIOUS
<1>7. sent[n] = [req |-> z, part |-> 2]
  BY <1>3, <1>4, <1>5, <1>6 DEF LastOf
<1>8. sent[n].part = 2 /\ sent[n].req = z
  BY <1>7
<1>9. z <= HeadersSent
  BY <1>1, <1>8, EndWasSent
<1>10. HeadersSent' = HeadersSent
  BY <1>2 DEF HeadersSent
<1>11. QED
  BY <1>6, <1>9, <1>10 DEF Heard

LEMMA NextHeard ==
    ASSUME Framed, Framed', Whole, Heard, [Next]_vars
    PROVE  Heard'
<1>1. TypeOK
  BY DEF Framed
<1>2. CASE SendUnit
  <2>1. Subject' = Subject /\ (Answering' <=> Answering)
    BY <1>2 DEF SendUnit, Subject, Answering
  <2>2. Answering => Subject \in Nat
    BY <1>1, SubjectFacts DEF Framed, Position
  <2>3. HeadersSent \in Nat /\ HeadersSent' \in Nat /\ HeadersSent <= HeadersSent'
    BY <1>1, <1>2, SendUnitAsks
  <2>4. QED
    BY <2>1, <2>2, <2>3 DEF Heard
<1>3. CASE HandleRequest
  BY <1>3, HandleRequestHeard
<1>4. CASE next' = next /\ header' = header /\ (Answering' => Answering)
  BY <1>4 DEF Heard, Subject, HeadersSent
<1>5. Receive \/ (\E how \in {"fin", "reset"} : Hangup(how)) \/ UNCHANGED vars =>
          next' = next /\ header' = header /\ (Answering' => Answering)
  BY DEF Receive, Hangup, vars, clientVars, Answering
<1>6. HandleHangup \/ HandleIncomplete \/ TakeBack =>
          next' = next /\ header' = header /\ (Answering' => Answering)
  BY DEF HandleHangup, HandleIncomplete, TakeBack, clientVars, Answering
<1>7. Worker => next' = next /\ header' = header /\ (Answering' => Answering)
  BY DEF Worker, Reject, Resolve, GetBody, GetBodyThrows, ResolverThrows, Respond,
         AnswerFailure, clientVars, Answering
<1>8. QED
  BY <1>2, <1>3, <1>4, <1>5, <1>6, <1>7 DEF Next, Client, EpollThread
-----------------------------------------------------------------------------
(* The answers in what the server has written.                             *)
LEMMA Begins ==
    ASSUME NEW R \in Nat \ {0}, NEW q \in Nat
    PROVE  (R * q + R - 1) \div R = q
<1>1. PICK j \in 0..(R - 1) : j = R - 1
  OBVIOUS
<1>2. (R * q + j) \div R = q
  BY Quotient
<1>3. R * q + j = R * q + R - 1
  BY <1>1
<1>4. QED
  BY <1>2, <1>3

LEMMA AnswersStay ==
    ASSUME Out' = Out
    PROVE  Answers' = Answers
  BY DEF Answers, Begun

LEMMA WriteAnswers ==
    ASSUME RoomForTheWindow, Framed, Whole, Answering, received' = received,
           NEW status \in {200, 400, 404, 500}, Write(status)
    PROVE  /\ Len(Answers) = Subject - 1
           /\ Answers' = Append(Answers, [re |-> Subject, status |-> status])
<1>0. PICK o, u, b, c : o = Out /\ u = Out' /\ b = Answers /\ c = Answers'
  OBVIOUS
<1>1. PICK R \in Nat \ {0}, y \in Nat, m \in Nat :
          /\ R = ResponseSize /\ y = Subject /\ m = y - 1
          /\ o = Out /\ u = Out' /\ b = Answers /\ c = Answers'
  <2>1. Subject \in 1..MaxRequests
    BY SubjectFacts DEF Framed, Position
  <2>2. Subject \in Nat /\ Subject - 1 \in Nat
    BY <2>1, Constants
  <2>3. QED
    BY <1>0, <2>2, Constants
<1>2. PICK N \in Nat : N = Len(o) /\ N = R * m
  BY <1>1, WritesAtTheEnd
<1>3. /\ Len(u) = R * m + R
      /\ \A i \in 1..N : u[i] = o[i]
      /\ \A k \in 1..R : u[N + k] = [re |-> y, status |-> status, part |-> k]
  BY <1>1, <1>2, WritesAtTheEnd
<1>4. Begun = m
  BY <1>1, <1>2, Begins DEF Begun
<1>5. Begun' = m + 1
  <2>1. R * m + R = R * (m + 1) /\ m + 1 \in Nat
    OBVIOUS
  <2>2. PICK M \in Nat : M = m + 1
    BY <2>1
  <2>3. (R * M + R - 1) \div R = M
    BY Begins
  <2>4. Begun' = (Len(u) + R - 1) \div R
    BY <1>1 DEF Begun
  <2>5. QED
    BY <1>3, <2>1, <2>2, <2>3, <2>4
<1>6. /\ b = [n \in 1..m |-> [re |-> o[R * (n - 1) + 1].re,
                              status |-> o[R * (n - 1) + 1].status]]
      /\ c = [n \in 1..(m + 1) |-> [re |-> u[R * (n - 1) + 1].re,
                                    status |-> u[R * (n - 1) + 1].status]]
  BY <1>1, <1>4, <1>5 DEF Answers
<1>7. ASSUME NEW n \in 1..m
      PROVE  u[R * (n - 1) + 1] = o[R * (n - 1) + 1]
  <2>1. R * (n - 1) + R <= R * m /\ R * (n - 1) \in Nat
    <3>1. PICK d \in Nat, k \in Nat : d = m - n /\ k = n - 1
      BY <1>7
    <3>2. R * d \in Nat /\ R * k \in Nat
      OBVIOUS
    <3>3. R * m = R * k + R + R * d
      <4>1. m = k + 1 + d
        BY <3>1
      <4>2. QED
        BY <4>1
    <3>4. QED
      BY <3>1, <3>2, <3>3
  <2>2. R * (n - 1) + 1 \in 1..N
    BY <1>2, <2>1
  <2>3. QED
    BY <1>3, <2>2
<1>8. u[R * m + 1] = [re |-> y, status |-> status, part |-> 1]
  BY <1>2, <1>3
<1> DEFINE a == [re |-> y, status |-> status]
<1>9. a.re = y /\ a.status = status /\ a = [re |-> y, status |-> status]
  OBVIOUS
<1> HIDE DEF a
<1>10. c = [n \in 1..(m + 1) |-> IF n \in 1..m THEN b[n] ELSE a]
  <2>1. ASSUME NEW n \in 1..(m + 1)
        PROVE  [re |-> u[R * (n - 1) + 1].re, status |-> u[R * (n - 1) + 1].status]
               = IF n \in 1..m THEN b[n] ELSE a
    <3>1. CASE n \in 1..m
      BY <1>6, <1>7, <3>1
    <3>2. CASE n \notin 1..m
      <4>1. n - 1 = m
        BY <3>2
      <4>2. QED
        BY <1>8, <1>9, <3>2, <4>1
    <3>3. QED
      BY <3>1, <3>2
  <2>2. QED
    BY <1>6, <2>1
<1>11. PICK T : \A n \in 1..m : b[n] \in T
  <2>1. \A n \in 1..m : b[n] \in {b[k] : k \in 1..m}
    OBVIOUS
  <2>2. QED
    BY <2>1
<1>12. b \in Seq(T \cup {a}) /\ Len(b) = m
  <2>1. b \in [1..m -> T \cup {a}]
    BY <1>6, <1>11
  <2>2. QED
    BY <2>1
<1>13. c = Append(b, a)
  <2>1. /\ Append(b, a) \in Seq(T \cup {a})
        /\ Len(Append(b, a)) = m + 1
        /\ \A i \in 1..m : Append(b, a)[i] = b[i]
        /\ Append(b, a)[m + 1] = a
    BY <1>12, AppendProperties
  <2>2. c \in [1..(m + 1) -> T \cup {a}]
    BY <1>10, <1>11
  <2>3. c \in Seq(T \cup {a}) /\ Len(c) = m + 1
    BY <2>2
  <2>4. PICK v : v = Append(b, a)
    OBVIOUS
  <2>5. \A i \in 1..(m + 1) : c[i] = v[i]
    <3>1. ASSUME NEW i \in 1..(m + 1) PROVE c[i] = v[i]
      <4>1. CASE i \in 1..m
        BY <1>10, <2>1, <2>4, <4>1
      <4>2. CASE i \notin 1..m
        <5>1. i = m + 1
          BY <4>2
        <5>2. QED
          BY <1>10, <2>1, <2>4, <4>2, <5>1
      <4>3. QED
        BY <4>1, <4>2
    <3>2. QED
      BY <3>1
  <2>6. c = v
    <3>1. v \in Seq(T \cup {a}) /\ Len(v) = m + 1
      BY <2>1, <2>4
    <3>2. QED
      BY <2>3, <2>5, <3>1, SeqEqual
  <2>7. QED
    BY <2>4, <2>6
<1>14. Len(b) = y - 1
  BY <1>1, <1>12
<1>15. QED
  BY <1>1, <1>9, <1>13, <1>14
-----------------------------------------------------------------------------
LEMMA DialogueInit ==
    ASSUME Init
    PROVE  Dialogue!Init
<1>1. HeadersSent = 0 /\ Standing = "open"
  BY DEF Init, HeadersSent, Standing, Gone
<1>2. Out = <<>> /\ Len(Out) = 0
  BY DEF Init, Out
<1>3. PICK R \in Nat \ {0} : R = ResponseSize
  BY Constants
<1>4. (R * 0 + R - 1) \div R = 0
  BY Begins
<1>5. Begun = 0
  BY <1>2, <1>3, <1>4 DEF Begun
<1>6. Answers = <<>>
  BY <1>5 DEF Answers
<1>7. QED
  BY <1>1, <1>6 DEF Dialogue!Init

(* A response is an answer, and the last one where it has to be.           *)
LEMMA WritesAnAnswer ==
    ASSUME RoomForTheWindow, Framed, Whole, Heard, Answering, UNCHANGED clientVars,
           NEW status \in {200, 400, 404, 500}, Write(status), phase' = "returning",
           status \in {400, 500} => ~keep'
    PROVE  Dialogue!Answer(status)
<1>1. UNCHANGED <<HeadersSent, received>>
  BY DEF clientVars, HeadersSent
<1>2. /\ Len(Answers) = Subject - 1
      /\ Answers' = Append(Answers, [re |-> Subject, status |-> status])
  BY <1>1, WriteAnswers
<1>3. Len(Answers) < HeadersSent
  <2>1. Subject <= HeadersSent
    BY DEF Heard
  <2>2. next \in Places
    BY Types DEF Framed
  <2>3. HeadersSent \in Int
    BY <2>2, Constants DEF HeadersSent, Places
  <2>4. Subject \in Nat
    BY SubjectFacts, Constants DEF Framed, Position
  <2>5. QED
    BY <1>2, <2>1, <2>3, <2>4
<1>4. Standing = "open"
  BY DEF Standing, Gone, Answering
<1>5. Standing' = IF keep' THEN "open" ELSE "closing"
  BY DEF Standing, Gone
<1>6. Answers' = Append(Answers, [re |-> Len(Answers) + 1, status |-> status])
  <2>1. Subject \in Nat
    BY SubjectFacts, Constants DEF Framed, Position
  <2>2. Len(Answers) + 1 = Subject
    BY <1>2, <2>1
  <2>3. QED
    BY <1>2, <2>2
<1>7. Standing' \in (IF status \in {400, 500} THEN {"closing"} ELSE {"open", "closing"})
  BY <1>5
<1>8. QED
  BY <1>1, <1>3, <1>4, <1>6, <1>7, Zenon DEF Dialogue!Answer, Dialogue!Fatal

(* Without a response nothing is answered; the connection may be closed.   *)
LEMMA QuietStep ==
    ASSUME UNCHANGED clientVars, wire' = wire,
           \/ Standing' = Standing
           \/ Standing # "closed" /\ Standing' = "closed"
    PROVE  \/ Dialogue!Close
           \/ UNCHANGED <<HeadersSent, Answers, Standing>>
<1>1. Out' = Out
  BY DEF clientVars, Out
<1>2. UNCHANGED <<HeadersSent, Answers>>
  BY <1>1, AnswersStay DEF clientVars, HeadersSent
<1>3. QED
  BY <1>2 DEF Dialogue!Close

LEMMA ClientStep ==
    ASSUME Framed, Whole, Client
    PROVE  Dialogue!Ask \/ UNCHANGED <<HeadersSent, Answers, Standing>>
<1>1. CASE SendUnit
  <2>1. Out' = Out /\ Standing' = Standing /\ Standing # "closed"
    BY <1>1 DEF SendUnit, Out, Standing, Gone
  <2>2. Answers' = Answers
    BY <2>1, AnswersStay
  <2>3. QED
    BY <1>1, <2>1, <2>2, SendUnitAsks DEF Framed, Dialogue!Ask
<1>2. CASE Receive
  <2>1. Out' = Out
    BY <1>2, ReceiveKeepsOut DEF Framed
  <2>2. Answers' = Answers
    BY <2>1, AnswersStay
  <2>3. UNCHANGED <<HeadersSent, Standing>>
    BY <1>2 DEF Receive, HeadersSent, Standing, Gone
  <2>4. QED
    BY <2>2, <2>3
<1>3. CASE \E how \in {"fin", "reset"} : Hangup(how)
  <2>1. UNCHANGED <<Out, HeadersSent, Standing>>
    BY <1>3 DEF Hangup, Out, HeadersSent, Standing, Gone
  <2>2. QED
    BY <2>1, AnswersStay
<1>4. QED
  BY <1>1, <1>2, <1>3 DEF Client

LEMMA EpollThreadStep ==
    ASSUME EpollThread
    PROVE  Dialogue!Close \/ UNCHANGED <<HeadersSent, Answers, Standing>>
<1>1. UNCHANGED clientVars /\ wire' = wire
  BY DEF EpollThread, HandleHangup, HandleIncomplete, HandleRequest, TakeBack
<1>2. \/ Standing' = Standing
      \/ Standing # "closed" /\ Standing' = "closed"
  BY DEF EpollThread, HandleHangup, HandleIncomplete, HandleRequest, TakeBack, Standing, Gone
<1>3. QED
  BY <1>1, <1>2, QuietStep

LEMMA WorkerStep ==
    ASSUME RoomForTheWindow, Framed, Whole, Heard, Worker
    PROVE  Dialogue!Next \/ UNCHANGED <<HeadersSent, Answers, Standing>>
<1>1. UNCHANGED clientVars /\ Answering
  BY DEF Worker, Reject, Resolve, GetBody, GetBodyThrows, ResolverThrows, Respond,
         AnswerFailure, Answering
<1>2. Standing = "open"
  BY <1>1 DEF Standing, Gone, Answering
<1>3. CASE Resolve \/ GetBody \/ GetBodyThrows \/ ResolverThrows
  <2>1. wire' = wire /\ Standing' = "open"
    BY <1>3 DEF Resolve, GetBody, GetBodyThrows, ResolverThrows, Standing, Gone
  <2>2. QED
    BY <1>1, <1>2, <2>1, QuietStep DEF Dialogue!Next
<1>4. CASE Reject \/ Respond \/ AnswerFailure
  <2>1. PICK status \in {200, 400, 404, 500} :
            \/ /\ Write(status) /\ phase' = "returning"
               /\ status \in {400, 500} => ~keep'
            \/ WriteFails(status) /\ phase' \in {"failed", "broken", "died"}
            \/ wire' = wire /\ phase' = "died"
    BY <1>4 DEF Reject, Respond, AnswerFailure, KeepAfterFailure
  <2>2. CASE /\ Write(status) /\ phase' = "returning"
             /\ status \in {400, 500} => ~keep'
    BY <1>1, <2>2, WritesAnAnswer DEF Dialogue!Next, Dialogue!Statuses
  <2>3. CASE (WriteFails(status) \/ wire' = wire) /\ phase' \in {"failed", "broken", "died"}
    <3>1. wire' = wire
      BY <1>1, <2>3, WritesNothing
    <3>2. Standing' \in {"open", "closed"}
      BY <2>3 DEF Standing, Gone
    <3>3. QED
      BY <1>1, <1>2, <3>1, <3>2, QuietStep DEF Dialogue!Next
  <2>4. QED
    BY <2>1, <2>2, <2>3
<1>5. QED
  BY <1>3, <1>4 DEF Worker

LEMMA DialogueStep ==
    ASSUME RoomForTheWindow, Framed, Whole, Heard, [Next]_vars
    PROVE  [Dialogue!Next]_<<HeadersSent, Answers, Standing>>
<1>1. CASE Next
  BY <1>1, ClientStep, EpollThreadStep, WorkerStep DEF Next, Dialogue!Next
<1>2. CASE UNCHANGED vars
  <2>1. UNCHANGED clientVars /\ wire' = wire /\ Standing' = Standing
    BY <1>2 DEF vars, Standing, Gone
  <2>2. QED
    BY <2>1, QuietStep DEF Dialogue!Next
<1>3. QED
  BY <1>1, <1>2

(* With that room, what the client gets is the dialogue it was promised:   *)
(* its requests are answered one by one, in order and at most once, and    *)
(* after a 400 or 500 nothing comes any more (ClientRequestHandler.cpp:    *)
(* 27-56, NonblockingClientManagerTask.cpp:103-119).                       *)
THEOREM DialogueIsImplemented ==
    ASSUME RoomForTheWindow
    PROVE  Safety => ImplementsDialogue
<1>1. Framed /\ Framed' /\ Whole /\ [Next]_vars => Whole'
  BY NextWhole, NothingWhole
<1>2. Init => Heard
  BY DEF Init, Heard, Answering
<1>3. Framed /\ Framed' /\ Whole /\ Heard /\ [Next]_vars => Heard'
  BY NextHeard
<1>4. Framed /\ Whole /\ Heard /\ [Next]_vars
      => [Dialogue!Next]_<<HeadersSent, Answers, Standing>>
  BY DialogueStep
<1>5. QED
  BY FramedAlways, InitWhole, DialogueInit, <1>1, <1>2, <1>3, <1>4, PTL
     DEF Safety, ImplementsDialogue, Dialogue!Spec
=============================================================================
