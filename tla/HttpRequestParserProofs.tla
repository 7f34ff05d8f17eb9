----------------------- MODULE HttpRequestParserProofs -----------------------
(***************************************************************************)
(* The parser finds the request that was written, whatever its texts are   *)
(* and however many header fields it has.  First what find() returns, then *)
(* where in the block a field is, then the steps.                          *)
(***************************************************************************)
EXTENDS HttpRequestParser, Integers, SequenceTheorems, WellFoundedInduction, TLAPS

Text == Seq(Characters)
-----------------------------------------------------------------------------
(* Numbers: a set of them has a least, and induction over one.             *)
LEMMA LeastPlace ==
    ASSUME NEW places \in SUBSET Nat, places # {}
    PROVE  \E i \in places : \A j \in places : i <= j
<1>1. PICK i \in places : \A j \in places : <<j, i>> \notin OpToRel(<, Nat)
  BY NatLessThanWellFounded, WFMin
<1>2. \A j \in places : ~(j < i)
  BY <1>1 DEF OpToRel
<1>3. QED
  BY <1>2

LEMMA Induction ==
    ASSUME NEW T \in SUBSET Nat, 0 \in T, \A n \in T : n + 1 \in T
    PROVE  T = Nat
<1>1. SUFFICES ASSUME Nat \ T # {} PROVE FALSE
  OBVIOUS
<1>2. PICK n \in Nat \ T : \A m \in Nat \ T : n <= m
  BY <1>1, LeastPlace
<1>3. n # 0 /\ n - 1 \in Nat /\ n - 1 \in T
  BY <1>2
<1>4. QED
  BY <1>2, <1>3

(* What First returns is a place, and the least.                           *)
LEMMA FirstIsLeast ==
    ASSUME NEW places \in SUBSET Nat, places # {}
    PROVE  First(places) \in places /\ \A j \in places : First(places) <= j
BY LeastPlace DEF First

LEMMA FirstIs ==
    ASSUME NEW places \in SUBSET Nat, NEW i \in places, \A j \in places : i <= j
    PROVE  First(places) = i
<1>0. i \in Nat
  OBVIOUS
<1>1. First(places) \in places /\ First(places) <= i
  BY FirstIsLeast
<1>2. i <= First(places)
  BY <1>1
<1>3. First(places) \in Nat
  BY <1>1
<1>4. QED
  BY <1>0, <1>1, <1>2, <1>3
-----------------------------------------------------------------------------
(* A text of one character, or of two.                                     *)
LEMMA IsOne ==
    ASSUME NEW S, NEW c \in S, NEW s \in Seq(S)
    PROVE  s = <<c>> <=> Len(s) = 1 /\ s[1] = c
OBVIOUS

LEMMA IsTwo ==
    ASSUME NEW S, NEW c \in S, NEW d \in S, NEW s \in Seq(S)
    PROVE  s = <<c, d>> <=> Len(s) = 2 /\ s[1] = c /\ s[2] = d
OBVIOUS

(* Where a character is, and where two are.                                *)
LEMMA OccurrencesOfOne ==
    ASSUME NEW text \in Text, NEW c \in Characters, NEW from \in Nat \ {0}
    PROVE  Occurrences(text, <<c>>, from) = {i \in from..Len(text) : text[i] = c}
<1>1. <<c>> \in Text /\ Len(<<c>>) = 1 /\ Len(text) \in Nat
  BY DEF Text
<1>2. ASSUME NEW i \in from..Len(text)
      PROVE  SubSeq(text, i, i + Len(<<c>>) - 1) = <<c>> <=> text[i] = c
  <2>1. SubSeq(text, i, i) \in Text /\ Len(SubSeq(text, i, i)) = 1 /\ SubSeq(text, i, i)[1] = text[i]
    <3>1. \A j \in i..i : text[j] \in Characters
      BY <1>1, ElementOfSeq DEF Text
    <3>2. QED
      BY <1>1, <3>1, SubSeqProperties DEF Text
  <2>2. SubSeq(text, i, i) = <<c>> <=> SubSeq(text, i, i)[1] = c
    BY <2>1, IsOne DEF Text
  <2>3. i + Len(<<c>>) - 1 = i
    BY <1>1
  <2>4. QED
    BY <2>1, <2>2, <2>3
<1>3. Len(text) + 1 - Len(<<c>>) = Len(text)
  BY <1>1
<1>4. QED
  BY <1>2, <1>3 DEF Occurrences

LEMMA OccurrencesOfTwo ==
    ASSUME NEW text \in Text, NEW c \in Characters, NEW d \in Characters, NEW from \in Nat \ {0}
    PROVE  Occurrences(text, <<c, d>>, from)
             = {i \in from..(Len(text) - 1) : text[i] = c /\ text[i + 1] = d}
<1>1. <<c, d>> \in Text /\ Len(<<c, d>>) = 2 /\ Len(text) \in Nat
  BY DEF Text
<1>2. ASSUME NEW i \in from..(Len(text) - 1)
      PROVE  SubSeq(text, i, i + Len(<<c, d>>) - 1) = <<c, d>> <=> text[i] = c /\ text[i + 1] = d
  <2> DEFINE s == SubSeq(text, i, i + 1)
  <2>1. s \in Text /\ Len(s) = 2 /\ s[1] = text[i] /\ s[2] = text[i + 1]
    <3>1. \A j \in i..(i + 1) : text[j] \in Characters
      BY <1>1, ElementOfSeq DEF Text
    <3>2. /\ s \in Text /\ Len(s) = (i + 1) - i + 1
          /\ \A j \in 1..((i + 1) - i + 1) : s[j] = text[i + j - 1]
      <4>1. i \in Int /\ i + 1 \in Int /\ i <= i + 1
        OBVIOUS
      <4>2. QED
        BY <3>1, <4>1, SubSeqProperties DEF Text
    <3>3. s[1] = text[i + 1 - 1] /\ s[2] = text[i + 2 - 1]
      BY <3>2
    <3>4. QED
      BY <3>2, <3>3
  <2>2. s = <<c, d>> <=> s[1] = c /\ s[2] = d
    <3> HIDE DEF s
    <3>1. QED
      BY <2>1, IsTwo DEF Text
  <2>3. i + Len(<<c, d>>) - 1 = i + 1
    BY <1>1
  <2>4. QED
    BY <2>1, <2>2, <2>3
<1>3. Len(text) + 1 - Len(<<c, d>>) = Len(text) - 1
  BY <1>1
<1>4. QED
  BY <1>2, <1>3 DEF Occurrences

(* A part that is written somewhere is what is cut out there.              *)
LEMMA CutOut ==
    ASSUME NEW text \in Text, NEW part \in Text, NEW from \in Nat \ {0},
           from + Len(part) - 1 <= Len(text),
           \A i \in 1..Len(part) : text[from + i - 1] = part[i]
    PROVE  SubSeq(text, from, from + Len(part) - 1) = part
<1>1. Len(text) \in Nat /\ Len(part) \in Nat
  BY DEF Text
<1>2. \A i \in from..(from + Len(part) - 1) : text[i] \in Characters
  BY <1>1, ElementOfSeq DEF Text
<1>3. PICK upto \in Int : upto = from + Len(part) - 1
  BY <1>1
<1>4. /\ SubSeq(text, from, upto) \in Text
      /\ Len(SubSeq(text, from, upto)) = Len(part)
      /\ \A i \in 1..Len(part) : SubSeq(text, from, upto)[i] = text[from + i - 1]
  <2>1. /\ SubSeq(text, from, upto) \in Text
        /\ Len(SubSeq(text, from, upto)) = IF from <= upto THEN upto - from + 1 ELSE 0
        /\ \A i \in 1..(upto - from + 1) : SubSeq(text, from, upto)[i] = text[from + i - 1]
    BY <1>2, <1>3, SubSeqProperties DEF Text
  <2>2. upto - from + 1 = Len(part)
    BY <1>1, <1>3
  <2>3. QED
    BY <1>1, <2>1, <2>2
<1>5. QED
  BY <1>3, <1>4, SeqEqual DEF Text

(* Where a part is: where its characters are.                              *)
LEMMA OccursWhere ==
    ASSUME NEW text \in Text, NEW part \in Text, NEW from \in Nat \ {0}
    PROVE  Occurrences(text, part, from)
             = {i \in from..(Len(text) + 1 - Len(part)) :
                   \A j \in 1..Len(part) : text[i + j - 1] = part[j]}
<1>1. PICK m \in Nat, l \in Nat : m = Len(text) /\ l = Len(part)
  BY LenProperties DEF Text
<1>2. ASSUME NEW i \in from..(m + 1 - l)
      PROVE  SubSeq(text, i, i + l - 1) = part <=> \A j \in 1..l : text[i + j - 1] = part[j]
  <2>1. i \in Nat \ {0} /\ i + l - 1 <= m
    BY <1>1
  <2>2. ASSUME SubSeq(text, i, i + l - 1) = part, NEW j \in 1..l
        PROVE  text[i + j - 1] = part[j]
    <3>1. \A k \in i..(i + l - 1) : k \in 1..m
      BY <2>1
    <3>2. \A k \in i..(i + l - 1) : text[k] \in Characters
      BY <1>1, <3>1, ElementOfSeq DEF Text
    <3>3. PICK upto \in Int : upto = i + l - 1
      BY <1>1
    <3>4. \A k \in 1..(upto - i + 1) : SubSeq(text, i, upto)[k] = text[i + k - 1]
      BY <3>2, <3>3, SubSeqProperties
    <3>5. j \in 1..(upto - i + 1)
      BY <3>3
    <3>6. SubSeq(text, i, upto)[j] = text[i + j - 1]
      BY <3>4, <3>5
    <3>7. SubSeq(text, i, upto) = part
      BY <2>2, <3>3
    <3>8. QED
      BY <3>6, <3>7
  <2>3. ASSUME \A j \in 1..l : text[i + j - 1] = part[j]
        PROVE  SubSeq(text, i, i + l - 1) = part
    <3>1. i + Len(part) - 1 <= Len(text) /\ \A j \in 1..Len(part) : text[i + j - 1] = part[j]
      BY <1>1, <2>1, <2>3
    <3>2. SubSeq(text, i, i + Len(part) - 1) = part
      BY <2>1, <3>1, CutOut
    <3>3. QED
      BY <1>1, <3>2
  <2>4. QED
    BY <2>2, <2>3
<1>3. QED
  BY <1>1, <1>2 DEF Occurrences
-----------------------------------------------------------------------------
(* The texts between which others are written.                             *)
LEMMA Delimiters ==
    ASSUME ParserAssumption
    PROVE  /\ Crlf \in Text /\ Len(Crlf) = 1 /\ Crlf[1] = "\r\n"
           /\ Space \in Text /\ Len(Space) = 1 /\ Space[1] = " "
           /\ Colon \in Text /\ Len(Colon) = 2 /\ Colon[1] = ":" /\ Colon[2] = " "
<1>1. "\r\n" \in Characters /\ " " \in Characters /\ ":" \in Characters
  BY DEF ParserAssumption
<1>2. \A S : \A c \in S : <<c>> \in Seq(S) /\ Len(<<c>>) = 1 /\ <<c>>[1] = c
  OBVIOUS
<1>3. \A S : \A c, d \in S : /\ <<c, d>> \in Seq(S) /\ Len(<<c, d>>) = 2
                             /\ <<c, d>>[1] = c /\ <<c, d>>[2] = d
  OBVIOUS
<1>4. Crlf \in Text /\ Len(Crlf) = 1 /\ Crlf[1] = "\r\n"
  BY <1>1, <1>2 DEF Crlf, Text
<1>5. Space \in Text /\ Len(Space) = 1 /\ Space[1] = " "
  BY <1>1, <1>2 DEF Space, Text
<1>6. Colon \in Text /\ Len(Colon) = 2 /\ Colon[1] = ":" /\ Colon[2] = " "
  BY <1>1, <1>3 DEF Colon, Text
<1>7. QED
  BY <1>4, <1>5, <1>6

(* A text that does not have a character has it nowhere.                   *)
LEMMA HasNot ==
    ASSUME NEW text \in Text, NEW c \in Characters, ~Has(text, <<c>>)
    PROVE  \A i \in 1..Len(text) : text[i] # c
BY OccurrencesOfOne DEF Has

(* Three texts, one behind another.                                        *)
IsJoined(text, s, t, w) ==
    /\ text \in Text /\ Len(text) = Len(s) + Len(t) + Len(w)
    /\ \A i \in 1..Len(s) : text[i] = s[i]
    /\ \A i \in 1..Len(t) : text[Len(s) + i] = t[i]
    /\ \A i \in 1..Len(w) : text[Len(s) + Len(t) + i] = w[i]

LEMMA Joined ==
    ASSUME NEW s \in Text, NEW t \in Text, NEW w \in Text
    PROVE  IsJoined(s \o t \o w, s, t, w)
<1>1. Len(s) \in Nat /\ Len(t) \in Nat /\ Len(w) \in Nat
  BY DEF Text
<1>2. /\ s \o t \in Text /\ Len(s \o t) = Len(s) + Len(t)
      /\ \A i \in 1..(Len(s) + Len(t)) :
            (s \o t)[i] = IF i <= Len(s) THEN s[i] ELSE t[i - Len(s)]
  BY ConcatProperties DEF Text
<1>3. PICK st \in Text : st = s \o t
  BY <1>2
<1>4. /\ st \o w \in Text /\ Len(st \o w) = Len(st) + Len(w)
      /\ \A i \in 1..(Len(st) + Len(w)) :
            (st \o w)[i] = IF i <= Len(st) THEN st[i] ELSE w[i - Len(st)]
  BY ConcatProperties DEF Text
<1>5. \A i \in 1..Len(s) : (st \o w)[i] = s[i]
  BY <1>1, <1>2, <1>3, <1>4
<1>6. \A i \in 1..Len(t) : (st \o w)[Len(s) + i] = t[i]
  BY <1>1, <1>2, <1>3, <1>4
<1>7. \A i \in 1..Len(w) : (st \o w)[Len(s) + Len(t) + i] = w[i]
  BY <1>1, <1>2, <1>3, <1>4
<1>8. QED
  BY <1>1, <1>2, <1>3, <1>4, <1>5, <1>6, <1>7 DEF IsJoined

(* A header field and its text, which has no line break.                   *)
LEMMA FieldParts ==
    ASSUME ParserAssumption, NEW f \in Fields
    PROVE  /\ f[1] \in Text /\ f[2] \in Text /\ Len(f[1]) \in Nat \ {0}
           /\ FieldText(f) \in Text /\ Len(FieldText(f)) = Len(f[1]) + 2 + Len(f[2])
           /\ \A i \in 1..Len(f[1]) : FieldText(f)[i] = f[1][i]
           /\ FieldText(f)[Len(f[1]) + 1] = ":" /\ FieldText(f)[Len(f[1]) + 2] = " "
           /\ \A i \in 1..Len(f[2]) : FieldText(f)[Len(f[1]) + 2 + i] = f[2][i]
           /\ \A i \in 1..Len(FieldText(f)) : FieldText(f)[i] # "\r\n"
<1>1. f[1] \in Keys /\ f[2] \in Values
  BY DEF Fields
<1>2. f[1] \in Text /\ f[2] \in Text /\ Len(f[1]) \in Nat \ {0} /\ Len(f[2]) \in Nat
  <2>1. f[1] \in Text /\ f[2] \in Text /\ f[1] # <<>>
    BY <1>1 DEF ParserAssumption, Text
  <2>2. QED
    BY <2>1, EmptySeq, LenProperties DEF Text
<1>3. /\ FieldText(f) \in Text /\ Len(FieldText(f)) = Len(f[1]) + 2 + Len(f[2])
      /\ \A i \in 1..Len(f[1]) : FieldText(f)[i] = f[1][i]
      /\ \A i \in 1..2 : FieldText(f)[Len(f[1]) + i] = Colon[i]
      /\ \A i \in 1..Len(f[2]) : FieldText(f)[Len(f[1]) + 2 + i] = f[2][i]
  <2>1. Colon \in Text /\ Len(Colon) = 2
    BY Delimiters
  <2>2. FieldText(f) = f[1] \o Colon \o f[2]
    BY DEF FieldText
  <2>3. PICK key \in Text, value \in Text, colon \in Text :
             key = f[1] /\ value = f[2] /\ colon = Colon
    BY <1>2, <2>1
  <2>4. IsJoined(FieldText(f), key, colon, value)
    BY <2>2, <2>3, Joined
  <2>5. QED
    BY <2>1, <2>3, <2>4 DEF IsJoined
<1>4. FieldText(f)[Len(f[1]) + 1] = ":" /\ FieldText(f)[Len(f[1]) + 2] = " "
  <2>1. 1 \in 1..2 /\ 2 \in 1..2
    OBVIOUS
  <2>2. QED
    BY <1>3, <2>1, Delimiters
<1>5. /\ \A i \in 1..Len(f[1]) : f[1][i] # "\r\n"
      /\ \A i \in 1..Len(f[2]) : f[2][i] # "\r\n"
  BY <1>1, <1>2, HasNot DEF ParserAssumption, Crlf
<1>6. ASSUME NEW i \in 1..Len(FieldText(f)) PROVE FieldText(f)[i] # "\r\n"
  <2>1. CASE i \in 1..Len(f[1])
    BY <1>3, <1>5, <2>1
  <2>2. CASE i = Len(f[1]) + 1 \/ i = Len(f[1]) + 2
    BY <1>4, <2>2
  <2>3. CASE i > Len(f[1]) + 2
    <3>1. i - Len(f[1]) - 2 \in 1..Len(f[2])
      <4>1. PICK a \in Nat, b \in Nat : a = Len(f[1]) /\ b = Len(f[2])
        BY <1>2
      <4>2. i \in 1..(a + 2 + b) /\ i > a + 2
        BY <1>3, <2>3, <4>1
      <4>3. i - a - 2 \in 1..b
        BY <4>2
      <4>4. QED
        BY <4>1, <4>3
    <3>2. PICK j \in 1..Len(f[2]) : i = Len(f[1]) + 2 + j
      BY <1>2, <3>1
    <3>3. QED
      BY <1>3, <1>5, <3>2
  <2>4. QED
    BY <1>2, <2>1, <2>2, <2>3
<1>7. QED
  BY <1>2, <1>3, <1>4, <1>6
-----------------------------------------------------------------------------
(* What a client writes.                                                   *)
RequestText(r) == r.method \o Space \o r.uri \o Space \o r.version

LEMMA RequestParts ==
    ASSUME ParserAssumption, NEW r \in Requests
    PROVE  /\ r.method \in Text /\ r.uri \in Text /\ r.version \in Text
           /\ Len(r.fields) \in Nat /\ r.fields \in Seq(Fields)
           /\ \A n \in 1..Len(r.fields) : r.fields[n] \in Fields
<1>1. r.method \in Text /\ r.uri \in Text /\ r.version \in Text
  BY DEF Requests, ParserAssumption, Text
<1>2. PICK n \in 0..MaxFields : r.fields \in [1..n -> Fields]
  BY DEF Requests
<1>3. n \in Nat
  <2>1. MaxFields \in Nat
    BY DEF ParserAssumption
  <2>2. QED
    BY <1>2, <2>1
<1>4. r.fields \in Seq(Fields)
  BY <1>2, <1>3, SeqDef
<1>5. QED
  BY <1>1, <1>4, ElementOfSeq, LenProperties

(* The request line: three texts with a space between them.                *)
LEMMA RequestTextParts ==
    ASSUME ParserAssumption, NEW r \in Requests
    PROVE  LET m == Len(r.method)  p == Len(r.uri)  v == Len(r.version)
               text == RequestText(r)
           IN  /\ text \in Text /\ Len(text) = m + p + v + 2
               /\ \A i \in 1..m : text[i] = r.method[i]
               /\ text[m + 1] = " "
               /\ \A i \in 1..p : text[m + 1 + i] = r.uri[i]
               /\ text[m + p + 2] = " "
               /\ \A i \in 1..v : text[m + p + 2 + i] = r.version[i]
<1>1. PICK method \in Text, uri \in Text, version \in Text, space \in Text :
          method = r.method /\ uri = r.uri /\ version = r.version /\ space = Space
  BY RequestParts, Delimiters
<1>0. PICK blank : blank = " "
  OBVIOUS
<1>2. Len(space) = 1 /\ space[1] = blank
  BY <1>0, <1>1, Delimiters
<1>3. PICK m \in Nat, p \in Nat, v \in Nat : m = Len(method) /\ p = Len(uri) /\ v = Len(version)
  BY DEF Text
<1>4. PICK front : front = method \o space \o uri
  OBVIOUS
<1>5. /\ front \in Text /\ Len(front) = m + 1 + p
      /\ \A i \in 1..m : front[i] = method[i]
      /\ front[m + 1] = blank
      /\ \A i \in 1..p : front[m + 1 + i] = uri[i]
  <2>1. /\ front \in Text /\ Len(front) = Len(method) + Len(space) + Len(uri)
        /\ \A i \in 1..Len(method) : front[i] = method[i]
        /\ \A i \in 1..Len(space) : front[Len(method) + i] = space[i]
        /\ \A i \in 1..Len(uri) : front[Len(method) + Len(space) + i] = uri[i]
    <3>1. IsJoined(front, method, space, uri)
      BY <1>4, Joined
    <3>2. QED
      BY <3>1 DEF IsJoined
  <2>2. 1 \in 1..Len(space)
    BY <1>2
  <2>3. QED
    BY <1>2, <1>3, <2>1, <2>2
<1>6. PICK text : text = front \o space \o version
  OBVIOUS
<1>7. /\ text \in Text /\ Len(text) = m + 1 + p + 1 + v
      /\ \A i \in 1..(m + 1 + p) : text[i] = front[i]
      /\ text[m + 1 + p + 1] = blank
      /\ \A i \in 1..v : text[m + 1 + p + 1 + i] = version[i]
  <2>1. /\ text \in Text /\ Len(text) = Len(front) + Len(space) + Len(version)
        /\ \A i \in 1..Len(front) : text[i] = front[i]
        /\ \A i \in 1..Len(space) : text[Len(front) + i] = space[i]
        /\ \A i \in 1..Len(version) : text[Len(front) + Len(space) + i] = version[i]
    <3>1. front \in Text
      BY <1>5
    <3>2. IsJoined(text, front, space, version)
      BY <1>6, <3>1, Joined
    <3>3. QED
      BY <3>2 DEF IsJoined
  <2>2. 1 \in 1..Len(space)
    BY <1>2
  <2>3. QED
    BY <1>2, <1>3, <1>5, <2>1, <2>2
<1>8. RequestText(r) = text
  BY <1>1, <1>4, <1>6 DEF RequestText
<1>9. /\ \A i \in 1..m : text[i] = method[i]
      /\ text[m + 1] = blank
      /\ \A i \in 1..p : text[m + 1 + i] = uri[i]
  BY <1>5, <1>7
<1>10. /\ Len(text) = m + p + v + 2 /\ text[m + p + 2] = blank
       /\ \A i \in 1..v : text[m + p + 2 + i] = version[i]
  <2>1. m + 1 + p + 1 = m + p + 2
    OBVIOUS
  <2>2. QED
    BY <1>7, <2>1
<1>11. QED
  BY <1>0, <1>1, <1>3, <1>7, <1>8, <1>9, <1>10

(* It has no line break.                                                   *)
LEMMA NoBreakInLine ==
    ASSUME ParserAssumption, NEW r \in Requests
    PROVE  \A i \in 1..Len(RequestText(r)) : RequestText(r)[i] # "\r\n"
<1>0. PICK break \in Characters, blank \in Characters : break = "\r\n" /\ blank = " "
  BY DEF ParserAssumption
<1>00. break # blank
  BY <1>0
<1>1. PICK text \in Text, method \in Text, uri \in Text, version \in Text :
          text = RequestText(r) /\ method = r.method /\ uri = r.uri /\ version = r.version
  BY RequestParts, RequestTextParts
<1>2. PICK m \in Nat, p \in Nat, v \in Nat : m = Len(method) /\ p = Len(uri) /\ v = Len(version)
  BY DEF Text
<1>3. /\ Len(text) = m + p + v + 2
      /\ \A i \in 1..m : text[i] = method[i]
      /\ text[m + 1] = blank /\ text[m + p + 2] = blank
      /\ \A i \in 1..p : text[m + 1 + i] = uri[i]
      /\ \A i \in 1..v : text[m + p + 2 + i] = version[i]
  BY <1>0, <1>1, <1>2, RequestTextParts
<1>4. /\ \A i \in 1..m : method[i] # break
      /\ \A i \in 1..p : uri[i] # break
      /\ \A i \in 1..v : version[i] # break
  <2>1. ~Has(method, <<break>>) /\ ~Has(uri, <<break>>) /\ ~Has(version, <<break>>)
    BY <1>0, <1>1 DEF ParserAssumption, Requests, Crlf
  <2>2. QED
    BY <1>2, <2>1, HasNot
<1>5. ASSUME NEW i \in 1..Len(text) PROVE text[i] # break
  <2>1. CASE i <= m
    BY <1>3, <1>4, <2>1
  <2>2. CASE i = m + 1 \/ i = m + p + 2
    BY <1>00, <1>3, <2>2
  <2>3. CASE i > m + 1 /\ i < m + p + 2
    <3>1. i - m - 1 \in 1..p /\ i = m + 1 + (i - m - 1)
      BY <2>3
    <3>2. QED
      BY <1>3, <1>4, <3>1
  <2>4. CASE i > m + p + 2
    <3>1. i - m - p - 2 \in 1..v /\ i = m + p + 2 + (i - m - p - 2)
      BY <1>3, <2>4
    <3>2. QED
      BY <1>3, <1>4, <3>1
  <2>5. QED
    BY <2>1, <2>2, <2>3, <2>4
<1>6. QED
  BY <1>0, <1>1, <1>5
-----------------------------------------------------------------------------
(* The block is the last of its prefixes, each a line longer than the one  *)
(* before.                                                                 *)
WithLine(text, r, n) == text \o Crlf \o FieldText(r.fields[n])

IsLines(r, g) ==
    g = [n \in 0..Len(r.fields) |->
           IF n = 0 THEN r.method \o Space \o r.uri \o Space \o r.version
           ELSE g[n - 1] \o Crlf \o FieldText(r.fields[n])]

Lines(r, upto, g) ==
    /\ g \in [0..upto -> Text]
    /\ g[0] = RequestText(r)
    /\ \A n \in 1..upto : g[n] = WithLine(g[n - 1], r, n)

LEMMA LineAdded ==
    ASSUME ParserAssumption, NEW r \in Requests, NEW text \in Text, NEW n \in 1..Len(r.fields)
    PROVE  /\ WithLine(text, r, n) \in Text
           /\ IsJoined(WithLine(text, r, n), text, Crlf, FieldText(r.fields[n]))
<1>1. Crlf \in Text /\ FieldText(r.fields[n]) \in Text
  BY Delimiters, RequestParts, FieldParts
<1>2. IsJoined(WithLine(text, r, n), text, Crlf, FieldText(r.fields[n]))
  BY <1>1, Joined DEF WithLine
<1>3. QED
  BY <1>2 DEF IsJoined

LEMMA LinesExist ==
    ASSUME ParserAssumption, NEW r \in Requests
    PROVE  \E g : Lines(r, Len(r.fields), g)
<1> DEFINE N == Len(r.fields)
           T == {n \in Nat : n <= N => \E g : Lines(r, n, g)}
<1>1. N \in Nat
  BY RequestParts
<1> HIDE DEF N
<1>2. 0 \in T
  <2>1. RequestText(r) \in Text
    BY RequestTextParts
  <2>2. Lines(r, 0, [n \in 0..0 |-> RequestText(r)])
    BY <2>1 DEF Lines
  <2>3. QED
    BY <2>2
<1>3. ASSUME NEW n \in T PROVE n + 1 \in T
  <2>1. SUFFICES ASSUME n + 1 <= N PROVE \E g : Lines(r, n + 1, g)
    OBVIOUS
  <2>2. n \in Nat /\ n <= N
    BY <1>1, <2>1
  <2>3. PICK g : Lines(r, n, g)
    BY <2>2
  <2>4. g[n] \in Text
    BY <2>2, <2>3 DEF Lines
  <2>5. WithLine(g[n], r, n + 1) \in Text
    BY <1>1, <2>1, <2>2, <2>4, LineAdded DEF N
  <2>6. PICK longer : longer = [k \in 0..(n + 1) |-> IF k = n + 1 THEN WithLine(g[n], r, n + 1) ELSE g[k]]
    OBVIOUS
  <2>7. longer \in [0..(n + 1) -> Text]
    BY <2>2, <2>3, <2>5, <2>6 DEF Lines
  <2>8. longer[0] = RequestText(r)
    BY <2>2, <2>3, <2>6 DEF Lines
  <2>9. ASSUME NEW k \in 1..(n + 1) PROVE longer[k] = WithLine(longer[k - 1], r, k)
    <3>1. CASE k = n + 1
      BY <2>2, <2>6, <3>1
    <3>2. CASE k \in 1..n
      <4>1. longer[k] = g[k] /\ longer[k - 1] = g[k - 1]
        BY <2>2, <2>6, <3>2
      <4>2. QED
        BY <2>3, <3>2, <4>1 DEF Lines
    <3>3. QED
      BY <2>2, <3>1, <3>2
  <2>10. QED
    BY <2>7, <2>8, <2>9 DEF Lines
<1> HIDE DEF T
<1>4. T = Nat
  <2>1. T \in SUBSET Nat
    BY DEF T
  <2>2. QED
    BY <1>2, <1>3, <2>1, Induction
<1>5. QED
  BY <1>1, <1>4 DEF T, N

LEMMA BlockIsLastLine ==
    ASSUME ParserAssumption, NEW r \in Requests
    PROVE  \E g : Lines(r, Len(r.fields), g) /\ Block(r) = g[Len(r.fields)]
<1>1. PICK N \in Nat : N = Len(r.fields)
  BY RequestParts
<1>2. PICK f : Lines(r, N, f)
  BY <1>1, LinesExist
<1>3. IsLines(r, f)
  <2>1. f = [n \in 0..N |-> f[n]]
    BY <1>2 DEF Lines
  <2>2. \A n \in 0..N : f[n] = IF n = 0 THEN r.method \o Space \o r.uri \o Space \o r.version
                               ELSE f[n - 1] \o Crlf \o FieldText(r.fields[n])
    <3>1. \A n \in 0..N : f[n] = IF n = 0 THEN RequestText(r) ELSE WithLine(f[n - 1], r, n)
      BY <1>2 DEF Lines
    <3>2. QED
      BY <3>1, Zenon DEF WithLine, RequestText
  <2>3. QED
    BY <1>1, <2>1, <2>2 DEF IsLines
<1>4. PICK g : g = CHOOSE lines : IsLines(r, lines)
  OBVIOUS
<1>5. IsLines(r, g)
  BY <1>3, <1>4
<1>6. Block(r) = g[N]
  BY <1>1, <1>4 DEF Block, IsLines
<1>7. \A n \in 0..N : g[n] = IF n = 0 THEN RequestText(r) ELSE WithLine(g[n - 1], r, n)
  BY <1>1, <1>5 DEF IsLines, WithLine, RequestText
<1>8. \A n \in 0..N : g[n] = f[n]
  <2> DEFINE T == {n \in Nat : n <= N => g[n] = f[n]}
  <2>1. 0 \in T
    BY <1>2, <1>7 DEF Lines
  <2>2. ASSUME NEW n \in T PROVE n + 1 \in T
    <3>1. CASE n + 1 <= N
      <4>1. n \in Nat /\ n + 1 \in 1..N /\ n + 1 # 0 /\ (n + 1) - 1 = n /\ n <= N
        BY <3>1
      <4>2. f[n + 1] = WithLine(f[n], r, n + 1)
        BY <1>2, <4>1 DEF Lines
      <4>3. g[n + 1] = WithLine(g[n], r, n + 1)
        BY <1>7, <4>1
      <4>4. g[n] = f[n]
        BY <4>1
      <4>5. QED
        BY <4>1, <4>2, <4>3, <4>4
    <3>2. QED
      BY <3>1
  <2> HIDE DEF T
  <2>3. T \in SUBSET Nat
    BY DEF T
  <2>4. T = Nat
    BY <2>1, <2>2, <2>3, Induction
  <2>5. QED
    BY <2>4 DEF T
<1>9. QED
  BY <1>1, <1>2, <1>6, <1>8

LEMMA LineJoined ==
    ASSUME ParserAssumption, NEW r \in Requests, NEW g, Lines(r, Len(r.fields), g),
           NEW n \in 1..Len(r.fields)
    PROVE  g[n - 1] \in Text /\ IsJoined(g[n], g[n - 1], Crlf, FieldText(r.fields[n]))
<1>1. PICK N \in Nat : N = Len(r.fields)
  BY RequestParts
<1>2. g[n - 1] \in Text
  BY <1>1 DEF Lines
<1>3. g[n] = WithLine(g[n - 1], r, n)
  BY <1>1 DEF Lines
<1>4. QED
  BY <1>2, <1>3, LineAdded

LEMMA LineBegins ==
    ASSUME ParserAssumption, NEW r \in Requests, NEW g, Lines(r, Len(r.fields), g),
           NEW n \in 0..Len(r.fields)
    PROVE  /\ Len(g[n]) <= Len(g[Len(r.fields)])
           /\ \A i \in 1..Len(g[n]) : g[Len(r.fields)][i] = g[n][i]
<1>1. PICK N \in Nat : N = Len(r.fields)
  BY RequestParts
<1>0. ASSUME NEW m \in 1..Len(r.fields)
       PROVE  /\ Len(g[m]) = Len(g[m - 1]) + 1 + Len(FieldText(r.fields[m]))
              /\ \A i \in 1..Len(g[m - 1]) : g[m][i] = g[m - 1][i]
  <2>1. IsJoined(g[m], g[m - 1], Crlf, FieldText(r.fields[m]))
    BY LineJoined
  <2>2. Len(Crlf) = 1
    BY Delimiters
  <2>3. QED
    BY <2>1, <2>2 DEF IsJoined
<1> DEFINE Begins(m) == /\ Len(g[n]) <= Len(g[m])
                        /\ \A i \in 1..Len(g[n]) : g[m][i] = g[n][i]
           T == {d \in Nat : n + d <= N => Begins(n + d)}
<1>2. \A m \in 0..N : g[m] \in Text /\ Len(g[m]) \in Nat
  BY <1>1, LenProperties DEF Lines, Text
<1>3. 0 \in T
  BY <1>1, <1>2
<1>4. ASSUME NEW d \in T PROVE d + 1 \in T
  <2>1. SUFFICES ASSUME n + (d + 1) <= N PROVE Begins(n + (d + 1))
    OBVIOUS
  <2>2. PICK m \in 1..N : m = n + d + 1
    BY <1>1, <2>1
  <2>3. m - 1 = n + d /\ m = n + (d + 1) /\ n + d <= N
    BY <1>1, <2>2
  <2>4. Begins(m - 1)
    BY <2>3
  <2>5. /\ Len(g[m]) = Len(g[m - 1]) + 1 + Len(FieldText(r.fields[m]))
        /\ \A i \in 1..Len(g[m - 1]) : g[m][i] = g[m - 1][i]
        /\ Len(FieldText(r.fields[m])) \in Nat
    <3>1. m \in 1..Len(r.fields) /\ r.fields[m] \in Fields
      BY <1>1, RequestParts
    <3>2. FieldText(r.fields[m]) \in Text
      BY <3>1, FieldParts
    <3>3. Len(FieldText(r.fields[m])) \in Nat
      BY <3>2, LenProperties DEF Text
    <3>4. /\ Len(g[m]) = Len(g[m - 1]) + 1 + Len(FieldText(r.fields[m]))
          /\ \A i \in 1..Len(g[m - 1]) : g[m][i] = g[m - 1][i]
      BY <3>1, <1>0
    <3>5. QED
      BY <3>3, <3>4
  <2>6. Len(g[m - 1]) \in Nat /\ Len(g[n]) \in Nat /\ Len(g[m]) \in Nat
    BY <1>1, <1>2
  <2>7. PICK a \in Nat, b \in Nat, c \in Nat, l \in Nat :
            /\ a = Len(g[n]) /\ b = Len(g[m - 1]) /\ c = Len(g[m])
            /\ l = Len(FieldText(r.fields[m]))
    BY <2>5, <2>6
  <2>8. a <= b /\ b <= c
    <3>1. a <= b
      BY <2>4, <2>7
    <3>2. c = b + 1 + l
      BY <2>5, <2>7
    <3>3. QED
      BY <3>1, <3>2
  <2>9. ASSUME NEW i \in 1..Len(g[n]) PROVE g[m][i] = g[n][i]
    <3>1. i \in 1..Len(g[m - 1])
      BY <2>7, <2>8
    <3>2. QED
      BY <2>4, <2>5, <3>1
  <2>10. QED
    BY <2>3, <2>7, <2>8, <2>9
<1> HIDE DEF T, Begins
<1>5. T = Nat
  <2>1. T \in SUBSET Nat
    BY DEF T
  <2>2. QED
    BY <1>3, <1>4, <2>1, Induction
<1>6. PICK d \in Nat : d = N - n
  BY <1>1
<1>7. n + d = N
  BY <1>1, <1>6
<1>8. Begins(n + d)
  <2>1. d \in T
    BY <1>5
  <2>2. n + d <= N
    BY <1>1, <1>7
  <2>3. QED
    BY <2>1, <2>2 DEF T
<1>9. Begins(N)
  BY <1>7, <1>8
<1>10. QED
  BY <1>1, <1>9 DEF Begins
-----------------------------------------------------------------------------
(* Behind the request line: every field is at its place, and between two   *)
(* is a line break.                                                        *)
FieldAt(text, f, from) ==
    /\ from + Len(FieldText(f)) - 1 <= Len(text)
    /\ \A i \in 1..Len(FieldText(f)) : text[from + i - 1] = FieldText(f)[i]

EndOf(fields, start, k) == start[k] + Len(FieldText(fields[k]))

LaidOut(text, fields, start) ==
    /\ text \in Text
    /\ start \in [1..Len(fields) -> Nat \ {0}]
    /\ start[1] = 1
    /\ \A k \in 1..Len(fields) :
          /\ FieldAt(text, fields[k], start[k])
          /\ IF k = Len(fields) THEN EndOf(fields, start, k) = Len(text) + 1
             ELSE /\ EndOf(fields, start, k) \in 1..Len(text)
                  /\ text[EndOf(fields, start, k)] = "\r\n"
                  /\ start[k + 1] = EndOf(fields, start, k) + 1

(* The first line break is behind the request line.                        *)
LEMMA FirstBreak ==
    ASSUME ParserAssumption, NEW r \in Requests
    PROVE  /\ Block(r) \in Text
           /\ Len(r.fields) = 0 => Occurrences(Block(r), Crlf, 1) = {}
           /\ Len(r.fields) # 0 =>
                /\ Occurrences(Block(r), Crlf, 1) # {}
                /\ First(Occurrences(Block(r), Crlf, 1)) = Len(RequestText(r)) + 1
                /\ Len(RequestText(r)) + 1 <= Len(Block(r))
                /\ SubSeq(Block(r), 1, Len(RequestText(r))) = RequestText(r)
<1>1. PICK N \in Nat : N = Len(r.fields)
  BY RequestParts
<1>2. PICK g : Lines(r, N, g) /\ Block(r) = g[N]
  BY <1>1, BlockIsLastLine
<1>3. g[N] \in Text /\ g[0] = RequestText(r)
  BY <1>1, <1>2 DEF Lines
<1>4. PICK text \in Text, first \in Text : text = Block(r) /\ first = RequestText(r)
  BY <1>2, <1>3, RequestTextParts
<1>5. PICK break \in Characters : break = "\r\n"
  BY DEF ParserAssumption
<1>6. PICK l \in Nat, m \in Nat : l = Len(first) /\ m = Len(text)
  BY LenProperties DEF Text
<1>7. Occurrences(text, Crlf, 1) = {i \in 1..m : text[i] = break}
  BY <1>5, <1>6, OccurrencesOfOne DEF Crlf
<1>8. \A i \in 1..l : first[i] # break
  BY <1>4, <1>5, <1>6, NoBreakInLine
<1>9. CASE N = 0
  <2>1. text = first
    BY <1>2, <1>3, <1>4, <1>9
  <2>2. Occurrences(text, Crlf, 1) = {}
    BY <1>6, <1>7, <1>8, <2>1
  <2>3. QED
    BY <1>1, <1>4, <1>9, <2>2
<1>10. CASE N # 0
  <2>1. l <= m /\ \A i \in 1..l : text[i] = first[i]
    <3>1. 0 \in 0..N /\ Lines(r, Len(r.fields), g)
      BY <1>1, <1>2
    <3>2. Len(g[0]) <= Len(g[N]) /\ \A i \in 1..Len(g[0]) : g[N][i] = g[0][i]
      BY <1>1, <3>1, LineBegins
    <3>3. QED
      BY <1>2, <1>3, <1>4, <1>6, <3>2
  <2>2. l + 1 <= m /\ text[l + 1] = break
    <3>1. 1 \in 1..N /\ Lines(r, Len(r.fields), g)
      BY <1>1, <1>2, <1>10
    <3>2. /\ Len(g[1]) <= Len(g[N]) /\ \A i \in 1..Len(g[1]) : g[N][i] = g[1][i]
      <4>1. 1 \in 0..N
        BY <1>1, <3>1
      <4>2. QED
        BY <1>1, <3>1, <4>1, LineBegins
    <3>3. IsJoined(g[1], g[0], Crlf, FieldText(r.fields[1]))
      <4>1. IsJoined(g[1], g[1 - 1], Crlf, FieldText(r.fields[1]))
        BY <1>1, <3>1, LineJoined
      <4>2. QED
        BY <4>1
    <3>4. Len(FieldText(r.fields[1])) \in Nat
      BY <1>1, <3>1, RequestParts, FieldParts, LenProperties DEF Text
    <3>5. PICK n \in Nat, second \in Text : n = Len(g[1]) /\ second = g[1]
      BY <3>3, LenProperties DEF IsJoined, Text
    <3>6. PICK f \in Nat : f = Len(FieldText(r.fields[1]))
      BY <3>4
    <3>7. Len(Crlf) = 1 /\ Crlf[1] = break
      BY <1>5, Delimiters
    <3>8. n = l + 1 + f /\ second[l + 1] = break
      <4>1. 1 \in 1..Len(Crlf)
        BY <3>7
      <4>2. QED
        BY <1>3, <1>4, <1>6, <3>3, <3>5, <3>6, <3>7, <4>1 DEF IsJoined
    <3>9. n <= m /\ \A i \in 1..n : text[i] = second[i]
      BY <1>2, <1>4, <1>6, <3>2, <3>5
    <3>10. l + 1 \in 1..n
      BY <3>8
    <3>11. QED
      BY <3>8, <3>9, <3>10
  <2>3. l + 1 \in Occurrences(text, Crlf, 1)
    BY <1>7, <2>2
  <2>4. \A i \in Occurrences(text, Crlf, 1) : l + 1 <= i
    BY <1>7, <1>8, <2>1
  <2>5. First(Occurrences(text, Crlf, 1)) = l + 1
    <3>1. Occurrences(text, Crlf, 1) \in SUBSET Nat
      BY <1>7
    <3>2. QED
      BY <2>3, <2>4, <3>1, FirstIs
  <2>6. SubSeq(text, 1, l) = first
    <3>1. 1 + l - 1 = l /\ \A i \in 1..l : text[1 + i - 1] = first[i]
      BY <2>1
    <3>2. SubSeq(text, 1, 1 + Len(first) - 1) = first
      BY <1>6, <2>1, <3>1, CutOut
    <3>3. QED
      BY <1>6, <3>1, <3>2
  <2>7. QED
    BY <1>1, <1>4, <1>6, <1>10, <2>2, <2>3, <2>5, <2>6
<1>11. QED
  BY <1>9, <1>10

LEMMA BlockLaidOut ==
    ASSUME ParserAssumption, NEW r \in Requests, Len(r.fields) # 0
    PROVE  \E start : LaidOut(SubSeq(Block(r), Len(RequestText(r)) + 1 + Len(Crlf), Len(Block(r))),
                              r.fields, start)
<1>1. PICK N \in Nat : N = Len(r.fields)
  BY RequestParts
<1>2. PICK g : Lines(r, N, g) /\ Block(r) = g[N]
  BY <1>1, BlockIsLastLine
<1>3. \A n \in 0..N : g[n] \in Text /\ Len(g[n]) \in Nat
  BY <1>2, LenProperties DEF Lines, Text
<1>4. \A n \in 1..N : r.fields[n] \in Fields /\ FieldText(r.fields[n]) \in Text
  BY <1>1, RequestParts, FieldParts
<1>5. PICK ft : ft = [n \in 1..N |-> FieldText(r.fields[n])]
  OBVIOUS
<1>6. PICK len : len = [n \in 0..N |-> Len(g[n])]
  OBVIOUS
<1>7. len \in [0..N -> Nat] /\ ft \in [1..N -> Text]
  BY <1>3, <1>4, <1>5, <1>6
<1>8. PICK break : break = "\r\n"
  OBVIOUS
<1>9. PICK text \in Text : text = Block(r)
  BY <1>1, <1>2, <1>3
<1>10. \A n \in 1..N : Len(ft[n]) \in Nat
  BY <1>7, LenProperties DEF Text
<1>11. ASSUME NEW n \in 1..N
       PROVE  /\ len[n] = len[n - 1] + 1 + Len(ft[n])
              /\ g[n][len[n - 1] + 1] = break
              /\ \A i \in 1..Len(ft[n]) : g[n][len[n - 1] + 1 + i] = ft[n][i]
  <2>1. IsJoined(g[n], g[n - 1], Crlf, ft[n])
    BY <1>1, <1>2, <1>5, LineJoined
  <2>2. Len(Crlf) = 1 /\ Crlf[1] = break
    BY <1>8, Delimiters
  <2>6. 1 \in 1..1
    OBVIOUS
  <2>3. n \in 0..N /\ n - 1 \in 0..N
    OBVIOUS
  <2>4. len[n] = Len(g[n]) /\ len[n - 1] = Len(g[n - 1])
    BY <1>6, <2>3
  <2>5. QED
    BY <2>1, <2>2, <2>4, <2>6 DEF IsJoined
<1>12. ASSUME NEW n \in 0..N
       PROVE  len[n] <= len[N] /\ \A i \in 1..len[n] : text[i] = g[n][i]
  <2>1. Len(g[n]) <= Len(g[N]) /\ \A i \in 1..Len(g[n]) : g[N][i] = g[n][i]
    BY <1>1, <1>2, LineBegins
  <2>2. len[n] = Len(g[n]) /\ len[N] = Len(g[N])
    BY <1>6
  <2>3. QED
    BY <1>2, <1>9, <2>1, <2>2
<1>13. len[0] = Len(RequestText(r)) /\ len[N] = Len(text)
  BY <1>2, <1>6, <1>9 DEF Lines
<1>14. PICK l \in Nat, m \in Nat : l = len[0] /\ m = len[N]
  BY <1>7
<1>15. PICK tail : tail = SubSeq(text, l + 2, m)
  OBVIOUS
<1>16. l + 1 <= m
  <2>1. 1 \in 1..N
    BY <1>1
  <2>2. len[1] = len[0] + 1 + Len(ft[1])
    <3>1. len[1] = len[1 - 1] + 1 + Len(ft[1])
      BY <1>11, <2>1
    <3>2. QED
      BY <3>1
  <2>3. len[1] <= m
    BY <1>12, <1>14, <2>1
  <2>4. len[1] \in Nat /\ Len(ft[1]) \in Nat
    BY <1>7, <1>10, <2>1
  <2>5. QED
    BY <1>14, <2>2, <2>3, <2>4
<1>17. tail \in Text /\ Len(tail) = m - l - 1 /\ \A j \in 1..(m - l - 1) : tail[j] = text[l + 1 + j]
  <2>1. \A i \in (l + 2)..m : text[i] \in Characters
    BY <1>13, <1>14, ElementOfSeq DEF Text
  <2>2. PICK from \in Int, upto \in Int : from = l + 2 /\ upto = m
    OBVIOUS
  <2>3. /\ tail \in Text
        /\ Len(tail) = IF from <= upto THEN upto - from + 1 ELSE 0
        /\ \A i \in 1..(upto - from + 1) : tail[i] = text[from + i - 1]
    BY <1>15, <2>1, <2>2, SubSeqProperties DEF Text
  <2>4. upto - from + 1 = m - l - 1 /\ Len(tail) = m - l - 1
    BY <1>16, <2>2, <2>3
  <2>5. ASSUME NEW j \in 1..(m - l - 1) PROVE tail[j] = text[l + 1 + j]
    <3>1. from + j - 1 = l + 1 + j
      BY <2>2
    <3>2. QED
      BY <2>3, <2>4, <3>1
  <2>6. QED
    BY <2>3, <2>4, <2>5
<1>18. PICK start : start = [k \in 1..N |-> len[k - 1] - l + 1]
  OBVIOUS
<1>19. ASSUME NEW k \in 1..N PROVE len[k - 1] >= l
  <2> DEFINE T == {n \in Nat : n <= N => len[n] >= l}
  <2>1. 0 \in T
    BY <1>14
  <2>2. ASSUME NEW n \in T PROVE n + 1 \in T
    <3>1. CASE n + 1 <= N
      <4>1. n + 1 \in 1..N /\ n \in 0..N /\ (n + 1) - 1 = n
        BY <1>1, <3>1
      <4>2. len[n + 1] = len[n] + 1 + Len(ft[n + 1])
        BY <1>11, <4>1
      <4>3. len[n] >= l /\ len[n] \in Nat /\ Len(ft[n + 1]) \in Nat
        BY <1>7, <1>10, <4>1
      <4>4. QED
        BY <4>1, <4>2, <4>3
    <3>2. QED
      BY <3>1
  <2> HIDE DEF T
  <2>3. T \in SUBSET Nat
    BY DEF T
  <2>4. T = Nat
    BY <2>1, <2>2, <2>3, Induction
  <2>5. k - 1 \in Nat /\ k - 1 <= N
    BY <1>1
  <2>6. QED
    BY <2>4, <2>5 DEF T
<1>20. ASSUME NEW k \in 1..N
       PROVE  \E a \in Nat, b \in Nat, f \in Nat :
                /\ a = len[k - 1] /\ b = len[k] /\ f = Len(ft[k])
                /\ a >= l /\ b = a + 1 + f /\ b <= m /\ start[k] = a - l + 1
  <2>1. k \in 0..N /\ k - 1 \in 0..N
    BY <1>1
  <2>2. PICK a \in Nat, b \in Nat, f \in Nat : a = len[k - 1] /\ b = len[k] /\ f = Len(ft[k])
    BY <1>7, <1>10, <2>1
  <2>3. b = a + 1 + f
    BY <1>11, <2>2
  <2>4. b <= m
    BY <1>12, <1>14, <2>1, <2>2
  <2>5. a >= l /\ start[k] = a - l + 1
    BY <1>18, <1>19, <2>2
  <2>6. QED
    BY <2>2, <2>3, <2>4, <2>5
<1>21. ASSUME NEW k \in 1..N PROVE FieldAt(tail, r.fields[k], start[k])
  <2>0. PICK a \in Nat, b \in Nat, f \in Nat :
            /\ a = len[k - 1] /\ b = len[k] /\ f = Len(ft[k])
            /\ a >= l /\ b = a + 1 + f /\ b <= m /\ start[k] = a - l + 1
    BY <1>20
  <2>5. PICK s \in Int : s = start[k] /\ s = a - l + 1 /\ a >= l /\ b = a + 1 + f /\ b <= m
    BY <2>0
  <2>1. s + f - 1 <= m - l - 1
    BY <2>5
  <2>2. ASSUME NEW i \in 1..f PROVE tail[start[k] + i - 1] = ft[k][i]
    <3>1. PICK j \in 1..(m - l - 1) : j = s + i - 1
      BY <2>5
    <3>2. l + 1 + j = a + 1 + i /\ a + 1 + i \in 1..b
      BY <2>5, <3>1
    <3>3. tail[j] = text[a + 1 + i]
      BY <1>17, <3>1, <3>2
    <3>4. text[a + 1 + i] = g[k][a + 1 + i]
      <4>1. k \in 0..N
        OBVIOUS
      <4>2. QED
        BY <1>12, <2>0, <3>2, <4>1
    <3>5. g[k][a + 1 + i] = ft[k][i]
      BY <1>11, <2>0
    <3>6. QED
      BY <2>5, <3>1, <3>3, <3>4, <3>5
  <2>3. ft[k] = FieldText(r.fields[k])
    BY <1>5
  <2>4. QED
    BY <1>17, <2>0, <2>1, <2>2, <2>3, <2>5 DEF FieldAt
<1>22. ASSUME NEW k \in 1..N
       PROVE  IF k = N THEN start[k] + Len(ft[k]) = Len(tail) + 1
              ELSE /\ start[k] + Len(ft[k]) \in 1..Len(tail)
                   /\ tail[start[k] + Len(ft[k])] = break
                   /\ start[k + 1] = start[k] + Len(ft[k]) + 1
  <2>0. PICK a \in Nat, b \in Nat, f \in Nat :
            /\ a = len[k - 1] /\ b = len[k] /\ f = Len(ft[k])
            /\ a >= l /\ b = a + 1 + f /\ b <= m /\ start[k] = a - l + 1
    BY <1>20
  <2>5. PICK s \in Int : s = start[k] /\ s = a - l + 1 /\ a >= l /\ b = a + 1 + f /\ b <= m
    BY <2>0
  <2>1. CASE k = N
    <3>1. b = m
      BY <1>14, <2>0, <2>1
    <3>2. s + f = (m - l - 1) + 1
      BY <2>5, <3>1
    <3>3. QED
      BY <1>17, <2>0, <2>1, <2>5, <3>2
  <2>2. CASE k # N
    <3>1. k + 1 \in 1..N /\ (k + 1) - 1 = k /\ k + 1 \in 0..N
      BY <1>1, <2>2
    <3>2. PICK c \in Nat, e \in Nat :
              /\ c = len[k + 1] /\ e = Len(ft[k + 1])
              /\ c = b + 1 + e /\ c <= m /\ start[k + 1] = b - l + 1
      <4>1. PICK x \in Nat, c \in Nat, e \in Nat :
                /\ x = len[(k + 1) - 1] /\ c = len[k + 1] /\ e = Len(ft[k + 1])
                /\ x >= l /\ c = x + 1 + e /\ c <= m /\ start[k + 1] = x - l + 1
        BY <1>20, <3>1
      <4>2. x = b
        BY <2>0, <3>1, <4>1
      <4>3. QED
        BY <4>1, <4>2
    <3>3. g[k + 1][b + 1] = break
      <4>1. g[k + 1][len[(k + 1) - 1] + 1] = break
        BY <1>11, <3>1
      <4>2. QED
        BY <2>0, <3>1, <4>1
    <3>4. text[b + 1] = break
      <4>1. b + 1 \in 1..c
        <5>1. c = b + 1 + e
          BY <3>2
        <5>2. QED
          BY <5>1
      <4>2. QED
        BY <1>12, <3>1, <3>2, <3>3, <4>1
    <3>10. start[k + 1] = b - l + 1
      BY <3>2
    <3>11. c = b + 1 + e /\ c <= m
      BY <3>2
    <3>12. PICK z \in Int : z = b - l + 1
      OBVIOUS
    <3>9. z = start[k + 1] /\ c = b + 1 + e /\ c <= m /\ z = b - l + 1
      BY <3>10, <3>11, <3>12
    <3>5. PICK j \in 1..(m - l - 1) : j = s + f
      BY <2>5, <3>9
    <3>6. l + 1 + j = b + 1 /\ z = j + 1
      BY <2>5, <3>9, <3>5
    <3>7. tail[j] = break
      BY <1>17, <3>4, <3>5, <3>6
    <3>8. QED
      BY <1>17, <2>0, <2>2, <2>5, <3>5, <3>6, <3>7, <3>9
  <2>3. QED
    BY <2>1, <2>2
<1>23. LaidOut(tail, r.fields, start)
  <2>1. start \in [1..N -> Nat \ {0}]
    <3>1. ASSUME NEW k \in 1..N PROVE start[k] \in Nat \ {0}
      BY <1>20
    <3>2. QED
      BY <1>18, <3>1
  <2>2. start[1] = 1
    <3>1. 1 \in 1..N
      BY <1>1
    <3>2. start[1] = len[1 - 1] - l + 1
      BY <1>18, <3>1
    <3>3. QED
      BY <1>14, <3>2
  <2>3. \A k \in 1..N : EndOf(r.fields, start, k) = start[k] + Len(ft[k])
    BY <1>5 DEF EndOf
  <2>4. ASSUME NEW k \in 1..N
        PROVE  IF k = N THEN EndOf(r.fields, start, k) = Len(tail) + 1
               ELSE /\ EndOf(r.fields, start, k) \in 1..Len(tail)
                    /\ tail[EndOf(r.fields, start, k)] = "\r\n"
                    /\ start[k + 1] = EndOf(r.fields, start, k) + 1
    BY <1>8, <1>22, <2>3
  <2>5. QED
    BY <1>1, <1>17, <1>21, <2>1, <2>2, <2>4 DEF LaidOut
<1>24. tail = SubSeq(Block(r), Len(RequestText(r)) + 1 + Len(Crlf), Len(Block(r)))
  <2>1. Len(Crlf) = 1
    BY Delimiters
  <2>2. Len(RequestText(r)) + 1 + Len(Crlf) = l + 2
    BY <1>13, <1>14, <2>1
  <2>3. QED
    BY <1>9, <1>13, <1>14, <1>15, <2>2
<1>25. QED
  BY <1>23, <1>24
-----------------------------------------------------------------------------
(* What the loop of parseHeaders takes from the place of a field: the      *)
(* field, and the place of the next one.                                   *)
LEMMA FieldToken ==
    ASSUME ParserAssumption, NEW fields \in Seq(Fields), NEW text, NEW start,
           LaidOut(text, fields, start), NEW k \in 1..Len(fields)
    PROVE  /\ NextToken(text, Crlf, start[k]).token = FieldText(fields[k])
           /\ NextToken(text, Crlf, start[k]).after
                = IF k = Len(fields) THEN Len(text) + 1 ELSE start[k + 1]
<1>1. text \in Text /\ start[k] \in Nat \ {0} /\ FieldAt(text, fields[k], start[k])
  BY DEF LaidOut
<1>2. PICK field \in Text : field = FieldText(fields[k]) /\ \A i \in 1..Len(field) : field[i] # "\r\n"
  BY ElementOfSeq, FieldParts
<1>3. PICK break \in Characters : break = "\r\n"
  BY DEF ParserAssumption
<1>4. PICK from \in Nat \ {0}, l \in Nat, m \in Nat : from = start[k] /\ l = Len(field) /\ m = Len(text)
  BY <1>1, <1>2, LenProperties DEF Text
<1>5. Occurrences(text, Crlf, from) = {i \in from..m : text[i] = break}
  BY <1>1, <1>3, <1>4, OccurrencesOfOne DEF Crlf
<1>6. from + l - 1 <= m /\ \A i \in 1..l : text[from + i - 1] = field[i]
  BY <1>1, <1>2, <1>4 DEF FieldAt
<1>7. \A i \in 1..l : field[i] # break
  BY <1>2, <1>3, <1>4
<1>8. ASSUME NEW i \in from..m, text[i] = break PROVE from + l <= i
  <2>1. SUFFICES ASSUME i < from + l PROVE FALSE
    BY <1>4
  <2>2. PICK j \in Int : j = i - from + 1
    BY <1>4
  <2>3. j \in 1..l /\ from + j - 1 = i
    BY <1>4, <2>1, <2>2
  <2>4. QED
    BY <1>6, <1>7, <1>8, <2>3
<1>9. SubSeq(text, from, from + l - 1) = field
  BY <1>1, <1>2, <1>4, <1>6, CutOut
<1>10. EndOf(fields, start, k) = from + l
  BY <1>2, <1>4 DEF EndOf
<1>11. CASE k = Len(fields)
  <2>1. from + l = m + 1
    BY <1>4, <1>10, <1>11 DEF LaidOut
  <2>2. from + l - 1 = m /\ \A i \in from..m : text[i] # break
    BY <1>4, <1>8, <2>1
  <2>3. Occurrences(text, Crlf, from) = {}
    BY <1>5, <2>2
  <2>4. QED
    BY <1>2, <1>4, <1>9, <1>11, <2>2, <2>3 DEF NextToken
<1>12. CASE k # Len(fields)
  <2>1. from + l \in 1..m /\ text[from + l] = break /\ start[k + 1] = from + l + 1
    BY <1>3, <1>4, <1>10, <1>12 DEF LaidOut
  <2>2. from + l \in from..m
    BY <1>4, <2>1
  <2>3. from + l \in Occurrences(text, Crlf, from)
    BY <1>5, <2>1, <2>2
  <2>4. First(Occurrences(text, Crlf, from)) = from + l
    <3>1. Occurrences(text, Crlf, from) \in SUBSET Nat
      BY <1>4, <1>5
    <3>2. \A i \in Occurrences(text, Crlf, from) : from + l <= i
      BY <1>5, <1>8
    <3>3. QED
      BY <2>3, <3>1, <3>2, FirstIs
  <2>5. Len(Crlf) = 1
    BY Delimiters
  <2>6. NextToken(text, Crlf, from)
          = [token |-> SubSeq(text, from, from + l - 1), after |-> from + l + 1]
    BY <2>3, <2>4, <2>5 DEF NextToken
  <2>7. QED
    BY <1>2, <1>4, <1>9, <1>12, <2>1, <2>6
<1>13. QED
  BY <1>11, <1>12

(* And behind the last field: the empty line that ends the loop.           *)
LEMMA EndToken ==
    ASSUME ParserAssumption, NEW text \in Text
    PROVE  /\ NextToken(text, Crlf, Len(text) + 1).token = <<>>
           /\ NextToken(text, Crlf, Len(text) + 1).after = Len(text) + 1
<1>1. PICK break \in Characters : break = "\r\n"
  BY DEF ParserAssumption
<1>2. PICK m \in Nat : m = Len(text)
  BY LenProperties DEF Text
<1>3. Occurrences(text, Crlf, m + 1) = {i \in (m + 1)..m : text[i] = break}
  BY <1>1, <1>2, OccurrencesOfOne DEF Crlf
<1>4. Occurrences(text, Crlf, m + 1) = {}
  BY <1>3
<1>5. SubSeq(text, m + 1, m) = <<>>
  <2>1. PICK none \in Text : none = <<>> /\ Len(none) = 0
    BY EmptySeq DEF Text
  <2>2. m + 1 + Len(none) - 1 = m /\ m + 1 \in Nat \ {0}
    BY <2>1
  <2>3. \A i \in 1..Len(none) : text[m + 1 + i - 1] = none[i]
    BY <2>1
  <2>4. SubSeq(text, m + 1, m + 1 + Len(none) - 1) = none
    BY <1>2, <2>2, <2>3, CutOut
  <2>5. QED
    BY <2>1, <2>2, <2>4
<1>6. QED
  BY <1>2, <1>4, <1>5 DEF NextToken

(* A field falls into its key and its value, whatever colons and spaces    *)
(* there are in the value, or at the end of the key.                       *)
LEMMA KeyAndValue ==
    ASSUME ParserAssumption, NEW f \in Fields
    PROVE  LET key == NextToken(FieldText(f), Colon, 1)
           IN  /\ key.token = f[1]
               /\ SubSeq(FieldText(f), key.after, Len(FieldText(f))) = f[2]
<1>1. PICK text \in Text, key \in Text, value \in Text :
          text = FieldText(f) /\ key = f[1] /\ value = f[2] /\ Len(key) \in Nat \ {0}
  BY FieldParts
<1>2. PICK colon \in Characters, blank \in Characters : colon = ":" /\ blank = " "
  BY DEF ParserAssumption
<1>12. colon # blank
  BY <1>2
<1>13. PICK k \in Nat \ {0}, v \in Nat, n \in Nat : k = Len(key) /\ v = Len(value) /\ n = Len(text)
  BY <1>1, LenProperties DEF Text
<1>14. Colon = <<colon, blank>>
  BY <1>2 DEF Colon
<1>15. Len(Colon) = 2
  BY Delimiters
<1>3. n = k + 2 + v
  BY <1>1, <1>13, FieldParts
<1>16. \A i \in 1..k : text[i] = key[i]
  BY <1>1, <1>13, FieldParts
<1>17. text[k + 1] = colon /\ text[k + 2] = blank
  BY <1>1, <1>2, <1>13, FieldParts
<1>18. \A i \in 1..v : text[k + 2 + i] = value[i]
  BY <1>1, <1>13, FieldParts
<1>4. Occurrences(text, Colon, 1)
        = {i \in 1..(k + 1 + v) : text[i] = colon /\ text[i + 1] = blank}
  <2>1. Occurrences(text, <<colon, blank>>, 1)
          = {i \in 1..(Len(text) - 1) : text[i] = colon /\ text[i + 1] = blank}
    BY OccurrencesOfTwo
  <2>2. Len(text) - 1 = k + 1 + v
    BY <1>3, <1>13
  <2>3. QED
    BY <1>14, <2>1, <2>2
<1>5. \A i \in 1..(k - 1) : ~(key[i] = colon /\ key[i + 1] = blank)
  <2>1. Occurrences(key, <<colon, blank>>, 1)
          = {i \in 1..(k - 1) : key[i] = colon /\ key[i + 1] = blank}
    BY <1>13, OccurrencesOfTwo
  <2>2. ~Has(key, <<colon, blank>>)
    BY <1>1, <1>14 DEF ParserAssumption, Fields
  <2>3. QED
    BY <2>1, <2>2 DEF Has
<1>6. k + 1 \in Occurrences(text, Colon, 1)
  <2>1. k + 1 \in 1..(k + 1 + v) /\ (k + 1) + 1 = k + 2
    OBVIOUS
  <2>2. QED
    BY <1>4, <1>17, <2>1
<1>7. ASSUME NEW i \in Occurrences(text, Colon, 1) PROVE k + 1 <= i
  <2>1. i \in 1..(k + 1 + v) /\ text[i] = colon /\ text[i + 1] = blank
    BY <1>4
  <2>2. SUFFICES ASSUME i <= k PROVE FALSE
    BY <2>1
  <2>3. CASE i = k
    BY <1>12, <1>17, <2>1, <2>3
  <2>4. CASE i # k
    <3>1. i \in 1..(k - 1) /\ i \in 1..k /\ i + 1 \in 1..k
      BY <2>1, <2>2, <2>4
    <3>2. QED
      BY <1>5, <1>16, <2>1, <3>1
  <2>5. QED
    BY <2>3, <2>4
<1>8. First(Occurrences(text, Colon, 1)) = k + 1
  <2>1. Occurrences(text, Colon, 1) \in SUBSET Nat
    BY <1>4
  <2>2. QED
    BY <1>6, <1>7, <2>1, FirstIs
<1>9. SubSeq(text, 1, k) = key
  <2>1. 1 + k - 1 = k /\ 1 + k - 1 <= n
    BY <1>3
  <2>2. \A i \in 1..k : text[1 + i - 1] = key[i]
    BY <1>16
  <2>3. SubSeq(text, 1, 1 + Len(key) - 1) = key
    <3>1. 1 + Len(key) - 1 <= Len(text) /\ 1 \in Nat \ {0}
      BY <1>13, <2>1
    <3>2. \A i \in 1..Len(key) : text[1 + i - 1] = key[i]
      BY <1>13, <2>2
    <3>3. QED
      BY <3>1, <3>2, CutOut
  <2>4. QED
    BY <1>13, <2>1, <2>3
<1>10. SubSeq(text, k + 3, n) = value
  <2>1. (k + 3) + v - 1 = n /\ (k + 3) + v - 1 <= n /\ k + 3 \in Nat \ {0}
    BY <1>3
  <2>2. ASSUME NEW i \in 1..v PROVE text[(k + 3) + i - 1] = value[i]
    <3>1. (k + 3) + i - 1 = k + 2 + i
      OBVIOUS
    <3>2. QED
      BY <1>18, <3>1
  <2>3. SubSeq(text, k + 3, (k + 3) + Len(value) - 1) = value
    BY <1>13, <2>1, <2>2, CutOut
  <2>4. QED
    BY <1>13, <2>1, <2>3
<1>11. NextToken(text, Colon, 1) = [token |-> SubSeq(text, 1, k), after |-> k + 3]
  <2>1. (k + 1) + 2 = k + 3 /\ (k + 1) - 1 = k
    OBVIOUS
  <2>2. QED
    BY <1>6, <1>8, <1>15, <2>1 DEF NextToken
<1>19. /\ NextToken(text, Colon, 1).token = key
       /\ SubSeq(text, NextToken(text, Colon, 1).after, Len(text)) = value
  <2>1. NextToken(text, Colon, 1).token = SubSeq(text, 1, k)
    BY <1>11
  <2>2. NextToken(text, Colon, 1).after = k + 3
    BY <1>11
  <2>3. SubSeq(text, k + 3, Len(text)) = value
    BY <1>10, <1>13
  <2>4. QED
    BY <1>9, <2>1, <2>2, <2>3
<1>20. QED
  BY <1>1, <1>19

(* What getNextToken takes up to the next delimiter, or to the end.        *)
LEMMA TokenUpTo ==
    ASSUME NEW text \in Text, NEW part \in Text, NEW from \in Nat \ {0}, NEW c \in Characters,
           \A i \in 1..Len(part) : part[i] # c,
           from + Len(part) - 1 <= Len(text),
           \A i \in 1..Len(part) : text[from + i - 1] = part[i],
           from + Len(part) <= Len(text) => text[from + Len(part)] = c
    PROVE  /\ NextToken(text, <<c>>, from).token = part
           /\ from + Len(part) <= Len(text)
                => NextToken(text, <<c>>, from).after = from + Len(part) + 1
<1>2. PICK l \in Nat, m \in Nat : l = Len(part) /\ m = Len(text)
  BY LenProperties DEF Text
<1>3. Occurrences(text, <<c>>, from) = {i \in from..m : text[i] = c}
  BY <1>2, OccurrencesOfOne
<1>5. from + l - 1 <= m /\ \A i \in 1..l : text[from + i - 1] = part[i] /\ part[i] # c
  BY <1>2
<1>6. ASSUME NEW i \in Occurrences(text, <<c>>, from) PROVE from + l <= i
  <2>1. i \in from..m /\ text[i] = c
    BY <1>3
  <2>2. SUFFICES ASSUME i < from + l PROVE FALSE
    BY <1>2, <2>1
  <2>3. PICK j \in Int : j = i - from + 1
    BY <2>1
  <2>4. j \in 1..l /\ from + j - 1 = i
    BY <1>2, <2>1, <2>2, <2>3
  <2>5. QED
    BY <1>5, <2>1, <2>4
<1>7. SubSeq(text, from, from + l - 1) = part
  BY <1>2, CutOut
<1>8. Occurrences(text, <<c>>, from) \in SUBSET Nat
  BY <1>3
<1>9. CASE from + l <= m
  <2>1. text[from + l] = c /\ from + l \in from..m
    BY <1>2, <1>9
  <2>2. from + l \in Occurrences(text, <<c>>, from)
    BY <1>3, <2>1
  <2>3. First(Occurrences(text, <<c>>, from)) = from + l
    BY <1>6, <1>8, <2>2, FirstIs
  <2>4. Len(<<c>>) = 1
    OBVIOUS
  <2>5. PICK e \in Nat : e = from + l
    OBVIOUS
  <2>6. NextToken(text, <<c>>, from) = [token |-> SubSeq(text, from, e - 1), after |-> e + 1]
    <3>1. e \in Occurrences(text, <<c>>, from) /\ First(Occurrences(text, <<c>>, from)) = e
      BY <2>2, <2>3, <2>5
    <3>2. QED
      BY <2>4, <3>1 DEF NextToken
  <2>7. SubSeq(text, from, e - 1) = part
    BY <1>7, <2>5
  <2>8. NextToken(text, <<c>>, from) = [token |-> part, after |-> e + 1]
    BY <2>6, <2>7
  <2>9. NextToken(text, <<c>>, from).token = part
    BY <2>8
  <2>10. NextToken(text, <<c>>, from).after = e + 1
    BY <2>8
  <2>11. QED
    BY <1>2, <2>5, <2>9, <2>10
<1>10. CASE ~(from + l <= m)
  <2>1. from + l - 1 = m
    BY <1>5, <1>10
  <2>2. Occurrences(text, <<c>>, from) = {}
    <3>1. \A i \in Occurrences(text, <<c>>, from) : i \in from..m /\ from + l <= i
      BY <1>3, <1>6
    <3>2. QED
      BY <1>10, <3>1
  <2>3. NextToken(text, <<c>>, from)
          = [token |-> SubSeq(text, from, from + l - 1), after |-> m + 1]
    BY <1>2, <2>1, <2>2 DEF NextToken
  <2>4. NextToken(text, <<c>>, from).token = part
    BY <1>7, <2>3
  <2>5. QED
    BY <1>2, <1>10, <2>4
<1>11. QED
  BY <1>9, <1>10

(* The request line falls into its three parts.                            *)
LEMMA LineRead ==
    ASSUME ParserAssumption, NEW r \in Requests
    PROVE  RequestLine(RequestText(r)) = <<r.method, r.uri, r.version>>
<1>1. PICK text \in Text, method \in Text, uri \in Text, version \in Text :
          text = RequestText(r) /\ method = r.method /\ uri = r.uri /\ version = r.version
  BY RequestParts, RequestTextParts
<1>2. PICK blank \in Characters : blank = " "
  BY DEF ParserAssumption
<1>3. PICK m \in Nat, p \in Nat, v \in Nat, n \in Nat :
          m = Len(method) /\ p = Len(uri) /\ v = Len(version) /\ n = Len(text)
  BY LenProperties DEF Text
<1>4. /\ n = m + p + v + 2
      /\ \A i \in 1..m : text[i] = method[i]
      /\ text[m + 1] = blank
      /\ \A i \in 1..p : text[m + 1 + i] = uri[i]
      /\ text[m + p + 2] = blank
      /\ \A i \in 1..v : text[m + p + 2 + i] = version[i]
  BY <1>1, <1>2, <1>3, RequestTextParts
<1>5. n = m + p + v + 2
  BY <1>4
<1>6. /\ \A i \in 1..m : method[i] # blank
      /\ \A i \in 1..p : uri[i] # blank
      /\ \A i \in 1..v : version[i] # blank
  <2>1. ~Has(method, Space) /\ ~Has(uri, Space) /\ ~Has(version, Space)
    BY <1>1 DEF ParserAssumption, Requests
  <2>2. Space = <<blank>>
    BY <1>2 DEF Space
  <2>3. QED
    BY <1>3, <2>1, <2>2, HasNot
<1>12. Space = <<blank>>
  BY <1>2 DEF Space
<1>7. /\ NextToken(text, Space, 1).token = method
      /\ NextToken(text, Space, 1).after = m + 2
  <2>1. 1 + m - 1 <= n /\ 1 + m = m + 1 /\ m + 1 <= n /\ 1 + m + 1 = m + 2
    BY <1>5
  <2>2. ASSUME NEW i \in 1..m PROVE text[1 + i - 1] = method[i]
    <3>1. 1 + i - 1 = i
      OBVIOUS
    <3>2. QED
      BY <1>4, <3>1
  <2>3. QED
    <3>1. /\ \A i \in 1..Len(method) : method[i] # blank
          /\ 1 + Len(method) - 1 <= Len(text)
          /\ \A i \in 1..Len(method) : text[1 + i - 1] = method[i]
          /\ 1 + Len(method) <= Len(text) => text[1 + Len(method)] = blank
          /\ 1 \in Nat \ {0}
      BY <1>3, <1>4, <1>6, <2>1, <2>2
    <3>2. /\ NextToken(text, <<blank>>, 1).token = method
          /\ 1 + Len(method) <= Len(text)
               => NextToken(text, <<blank>>, 1).after = 1 + Len(method) + 1
      BY <3>1, TokenUpTo
    <3>3. QED
      BY <1>3, <1>12, <2>1, <3>2
<1>8. /\ NextToken(text, Space, m + 2).token = uri
      /\ NextToken(text, Space, m + 2).after = m + p + 3
  <2>1. /\ (m + 2) + p - 1 <= n /\ (m + 2) + p = m + p + 2
        /\ m + p + 2 <= n /\ (m + 2) + p + 1 = m + p + 3 /\ m + 2 \in Nat \ {0}
    BY <1>5
  <2>2. ASSUME NEW i \in 1..p PROVE text[(m + 2) + i - 1] = uri[i]
    <3>1. (m + 2) + i - 1 = m + 1 + i
      OBVIOUS
    <3>2. QED
      BY <1>4, <3>1
  <2>3. QED
    <3>1. /\ \A i \in 1..Len(uri) : uri[i] # blank
          /\ (m + 2) + Len(uri) - 1 <= Len(text)
          /\ \A i \in 1..Len(uri) : text[(m + 2) + i - 1] = uri[i]
          /\ (m + 2) + Len(uri) <= Len(text) => text[(m + 2) + Len(uri)] = blank
      BY <1>3, <1>4, <1>6, <2>1, <2>2
    <3>2. /\ NextToken(text, <<blank>>, m + 2).token = uri
          /\ (m + 2) + Len(uri) <= Len(text)
               => NextToken(text, <<blank>>, m + 2).after = (m + 2) + Len(uri) + 1
      BY <2>1, <3>1, TokenUpTo
    <3>3. QED
      BY <1>3, <1>12, <2>1, <3>2
<1>9. NextToken(text, Space, m + p + 3).token = version
  <2>1. PICK from \in Nat \ {0} : from = m + p + 3
    OBVIOUS
  <2>2. from + v - 1 <= n /\ ~(from + v <= n)
    BY <1>5, <2>1
  <2>3. ASSUME NEW i \in 1..v PROVE text[from + i - 1] = version[i]
    <3>1. from + i - 1 = m + p + 2 + i
      BY <2>1
    <3>2. QED
      BY <1>4, <3>1
  <2>4. /\ \A i \in 1..Len(version) : version[i] # blank
        /\ from + Len(version) - 1 <= Len(text)
        /\ \A i \in 1..Len(version) : text[from + i - 1] = version[i]
        /\ from + Len(version) <= Len(text) => text[from + Len(version)] = blank
    BY <1>3, <1>6, <2>2, <2>3
  <2>5. NextToken(text, <<blank>>, from).token = version
    BY <2>4, TokenUpTo
  <2>6. QED
    BY <1>12, <2>1, <2>5
<1>10. RequestLine(text) = <<method, uri, version>>
  BY <1>7, <1>8, <1>9 DEF RequestLine
<1>11. QED
  BY <1>1, <1>10
-----------------------------------------------------------------------------
(* headersMap after the first k fields: their keys, and under each the     *)
(* value of the first of them that has it.                                 *)
HasRead(fields, k, map) ==
    /\ DOMAIN map = {fields[n][1] : n \in 1..k}
    /\ \A key \in DOMAIN map :
          map[key] = fields[First({n \in 1..k : fields[n][1] = key})][2]

LEMMA InsertedIsRead ==
    ASSUME NEW fields, NEW k \in Nat, NEW map, HasRead(fields, k, map)
    PROVE  HasRead(fields, k + 1, Inserted(map, fields[k + 1][1], fields[k + 1][2]))
<1> DEFINE new == fields[k + 1][1]
           after == Inserted(map, new, fields[k + 1][2])
           Before(key) == {n \in 1..k : fields[n][1] = key}
           Now(key) == {n \in 1..(k + 1) : fields[n][1] = key}
<1>1. \A n : n \in 1..(k + 1) <=> n \in 1..k \/ n = k + 1
  OBVIOUS
<1>2. DOMAIN map = {fields[n][1] : n \in 1..k}
  BY DEF HasRead
<1>3. DOMAIN after = {fields[n][1] : n \in 1..(k + 1)}
  <2>1. DOMAIN after = DOMAIN map \cup {new}
    BY DEF Inserted
  <2>2. QED
    BY <1>1, <1>2, <2>1
<1>4. ASSUME NEW key \in DOMAIN after PROVE after[key] = fields[First(Now(key))][2]
  <2>1. CASE key \in DOMAIN map
    <3>1. after[key] = map[key] /\ map[key] = fields[First(Before(key))][2]
      BY <2>1 DEF HasRead, Inserted
    <3>2. Before(key) \in SUBSET Nat /\ Before(key) # {} /\ Now(key) \in SUBSET Nat
      BY <1>2, <2>1
    <3>3. PICK f : f = First(Before(key)) /\ f \in Before(key) /\ \A j \in Before(key) : f <= j
      BY <3>2, FirstIsLeast
    <3>4. f \in Now(key) /\ \A j \in Now(key) : f <= j
      BY <3>3
    <3>5. First(Now(key)) = f
      BY <3>2, <3>4, FirstIs
    <3>6. QED
      BY <3>1, <3>3, <3>5
  <2>2. CASE key \notin DOMAIN map
    <3>1. key = new /\ after[key] = fields[k + 1][2]
      BY <2>2 DEF Inserted
    <3>2. Before(key) = {}
      BY <1>2, <2>2
    <3>3. Now(key) = {k + 1}
      BY <1>1, <3>1, <3>2
    <3>4. First(Now(key)) = k + 1
      <4>1. Now(key) \in SUBSET Nat /\ k + 1 \in Now(key) /\ \A j \in Now(key) : k + 1 <= j
        BY <3>3
      <4>2. QED
        BY <4>1, FirstIs
    <3>5. QED
      BY <3>1, <3>4
  <2>3. QED
    BY <2>1, <2>2
<1>5. QED
  BY <1>3, <1>4 DEF HasRead

(* Where the loop is when it has taken k fields.                           *)
PlaceAfter(text, fields, start, k) ==
    IF k < Len(fields) THEN start[k + 1] ELSE Len(text) + 1

Progress(k) ==
    /\ \E start : /\ LaidOut(rest, written.fields, start)
                  /\ offset = PlaceAfter(rest, written.fields, start, k)
    /\ HasRead(written.fields, k, headers)

(* The inductive invariant: from the request line on, rest is what was     *)
(* written behind it, and some number of its fields have been read.        *)
ParserInv ==
    /\ TypeOK
    /\ pc = "create" => line = <<>> /\ rest = <<>> /\ offset = 1 /\ headers = <<>>
    /\ pc \in {"headers", "done"} =>
          /\ line = <<written.method, written.uri, written.version>>
          /\ Len(written.fields) # 0
          /\ \E k \in 0..Len(written.fields) :
                Progress(k) /\ (pc = "done" => k = Len(written.fields))

LEMMA ParserInvInit ==
    ASSUME ParserAssumption, Init
    PROVE  ParserInv
<1>1. offset \in 1..(Len(rest) + 1)
  BY DEF Init
<1>2. DOMAIN headers = {}
  BY DEF Init
<1>3. QED
  BY <1>1, <1>2 DEF Init, ParserInv, TypeOK

(* The place of a field is in the text.                                    *)
LEMMA PlaceIsInside ==
    ASSUME ParserAssumption, NEW fields \in Seq(Fields), NEW text, NEW start,
           LaidOut(text, fields, start), NEW k \in 0..Len(fields)
    PROVE  PlaceAfter(text, fields, start, k) \in 1..(Len(text) + 1)
<1>1. PICK N \in Nat, m \in Nat : N = Len(fields) /\ m = Len(text)
  BY LenProperties DEF LaidOut, Text
<1>2. CASE k < N
  <2>1. k + 1 \in 1..N
    BY <1>1, <1>2
  <2>2. /\ start[k + 1] \in Nat \ {0}
        /\ start[k + 1] + Len(FieldText(fields[k + 1])) - 1 <= m
    BY <1>1, <2>1 DEF LaidOut, FieldAt
  <2>3. fields[k + 1] \in Fields
    BY <1>1, <2>1, ElementOfSeq
  <2>4. PICK a \in Nat \ {0}, b \in Nat, l \in Nat :
            /\ a = Len(fields[k + 1][1]) /\ b = Len(fields[k + 1][2])
            /\ l = Len(FieldText(fields[k + 1]))
    BY <2>3, FieldParts, LenProperties DEF Text
  <2>5. l = a + 2 + b
    BY <2>3, <2>4, FieldParts
  <2>6. PICK s \in Nat \ {0} : s = start[k + 1] /\ s + l - 1 <= m
    BY <2>2, <2>4
  <2>7. s \in 1..(m + 1)
    BY <2>5, <2>6
  <2>8. QED
    BY <1>1, <1>2, <2>6, <2>7 DEF PlaceAfter
<1>3. CASE ~(k < N)
  BY <1>1, <1>3 DEF PlaceAfter
<1>4. QED
  BY <1>2, <1>3

LEMMA NothingRead ==
    ASSUME NEW fields
    PROVE  HasRead(fields, 0, <<>>)
<1>1. DOMAIN <<>> = {}
  OBVIOUS
<1>2. {fields[n][1] : n \in 1..0} = {}
  OBVIOUS
<1>3. QED
  BY <1>1, <1>2 DEF HasRead

(* The type of the offset and of the map, from how far the loop is.        *)
LEMMA ProgressTyped ==
    ASSUME ParserAssumption, NEW fields \in Seq(Fields), NEW text, NEW start, NEW place, NEW map,
           LaidOut(text, fields, start), NEW k \in 0..Len(fields),
           place = PlaceAfter(text, fields, start, k), HasRead(fields, k, map)
    PROVE  /\ place \in 1..(Len(text) + 1)
           /\ DOMAIN map \subseteq {fields[n][1] : n \in 1..Len(fields)}
<1>1. place \in 1..(Len(text) + 1)
  BY PlaceIsInside
<1>2. DOMAIN map = {fields[n][1] : n \in 1..k}
  BY DEF HasRead
<1>3. PICK N \in Nat : N = Len(fields)
  BY LenProperties
<1>4. \A n \in 1..k : n \in 1..N
  BY <1>3
<1>5. QED
  BY <1>1, <1>2, <1>3, <1>4

LEMMA CreateKeepsInv ==
    ASSUME ParserAssumption, ParserInv, CreateRequest
    PROVE  ParserInv'
<1>1. PICK text, ends :
          /\ text = Block(written) /\ ends = Occurrences(text, Crlf, 1)
          /\ IF ends = {} THEN pc' = "rejected" /\ UNCHANGED <<line, rest>>
             ELSE /\ line' = RequestLine(SubSeq(text, 1, First(ends) - 1))
                  /\ rest' = SubSeq(text, First(ends) + Len(Crlf), Len(text))
                  /\ pc' = "headers"
  BY DEF CreateRequest
<1>2. pc = "create" /\ UNCHANGED <<written, offset, headers>>
  BY DEF CreateRequest
<1>3. /\ written \in Requests /\ line = <<>> /\ rest = <<>> /\ offset = 1 /\ headers = <<>>
      /\ offset \in 1..(Len(rest) + 1)
      /\ DOMAIN headers \subseteq {written.fields[n][1] : n \in 1..Len(written.fields)}
  BY <1>2 DEF ParserInv, TypeOK
<1>4. CASE Len(written.fields) = 0
  <2>1. ends = {}
    BY <1>1, <1>3, <1>4, FirstBreak
  <2>2. pc' = "rejected" /\ UNCHANGED <<written, line, rest, offset, headers>>
    BY <1>1, <1>2, <2>1
  <2>3. QED
    BY <1>3, <2>2 DEF ParserInv, TypeOK
<1>5. CASE Len(written.fields) # 0
  <2>1. PICK l \in Nat : l = Len(RequestText(written))
    BY <1>3, RequestTextParts, LenProperties DEF Text
  <2>2. ends # {} /\ First(ends) = l + 1 /\ SubSeq(text, 1, l) = RequestText(written)
    BY <1>1, <1>3, <1>5, <2>1, FirstBreak
  <2>3. First(ends) - 1 = l
    BY <2>2
  <2>4. line' = <<written.method, written.uri, written.version>>
    BY <1>1, <1>3, <2>2, <2>3, LineRead
  <2>5. rest' = SubSeq(Block(written), Len(RequestText(written)) + 1 + Len(Crlf), Len(Block(written)))
    BY <1>1, <2>1, <2>2
  <2>6. PICK start : LaidOut(rest', written.fields, start)
    BY <1>3, <1>5, <2>5, BlockLaidOut
  <2>7. pc' = "headers" /\ written' = written /\ offset' = 1 /\ headers' = <<>>
    BY <1>1, <1>2, <1>3, <2>2
  <2>8. written.fields \in Seq(Fields) /\ Len(written.fields) \in Nat
    BY <1>3, RequestParts
  <2>9. offset' = PlaceAfter(rest', written.fields, start, 0)
    <3>1. 0 < Len(written.fields) /\ 0 + 1 = 1
      BY <1>5, <2>8
    <3>2. start[1] = 1
      BY <2>6 DEF LaidOut
    <3>3. QED
      BY <2>7, <3>1, <3>2 DEF PlaceAfter
  <2>10. HasRead(written.fields, 0, headers')
    BY <2>7, NothingRead
  <2>11. 0 \in 0..Len(written.fields)
    BY <2>8
  <2>12. Progress(0)'
    BY <2>6, <2>7, <2>9, <2>10 DEF Progress
  <2>13. /\ offset' \in 1..(Len(rest') + 1)
         /\ DOMAIN headers' \subseteq {written.fields[n][1] : n \in 1..Len(written.fields)}
    BY <2>6, <2>8, <2>9, <2>10, <2>11, ProgressTyped
  <2>14. TypeOK'
    <3>1. Len(<<written.method, written.uri, written.version>>) = 3
      OBVIOUS
    <3>2. QED
      BY <1>3, <2>4, <2>7, <2>13, <3>1 DEF TypeOK
  <2>15. QED
    BY <1>5, <2>4, <2>7, <2>11, <2>12, <2>14 DEF ParserInv
<1>6. QED
  BY <1>4, <1>5

(* What the loop sees when it has taken k fields.                          *)
LEMMA HeaderSeen ==
    ASSUME ParserAssumption, ParserInv, pc = "headers",
           NEW k \in 0..Len(written.fields), Progress(k)
    PROVE  /\ k < Len(written.fields) =>
                /\ Header.token = FieldText(written.fields[k + 1])
                /\ Header.token # <<>>
                /\ written.fields[k + 1] \in Fields
           /\ k = Len(written.fields) => Header.token = <<>>
           /\ \E start : /\ LaidOut(rest, written.fields, start)
                         /\ Header.after = PlaceAfter(rest, written.fields, start,
                                IF k < Len(written.fields) THEN k + 1 ELSE k)
<1>1. PICK start : /\ LaidOut(rest, written.fields, start)
                   /\ offset = PlaceAfter(rest, written.fields, start, k)
  BY DEF Progress
<1>2. PICK N \in Nat, fields \in Seq(Fields) : N = Len(fields) /\ fields = written.fields
  BY RequestParts DEF ParserInv, TypeOK
<1>3. CASE k < N
  <2>1. k + 1 \in 1..N /\ offset = start[k + 1]
    BY <1>1, <1>2, <1>3 DEF PlaceAfter
  <2>2. /\ Header.token = FieldText(fields[k + 1])
        /\ Header.after = IF k + 1 = N THEN Len(rest) + 1 ELSE start[(k + 1) + 1]
    BY <1>1, <1>2, <2>1, FieldToken DEF Header
  <2>3. Header.after = PlaceAfter(rest, fields, start, k + 1)
    BY <1>2, <1>3, <2>2 DEF PlaceAfter
  <2>4. fields[k + 1] \in Fields
    BY <1>2, <2>1, ElementOfSeq
  <2>5. FieldText(fields[k + 1]) # <<>>
    <3>1. PICK a \in Nat \ {0}, b \in Nat, l \in Nat :
              /\ a = Len(fields[k + 1][1]) /\ b = Len(fields[k + 1][2])
              /\ l = Len(FieldText(fields[k + 1]))
      BY <2>4, FieldParts, LenProperties DEF Text
    <3>2. l = a + 2 + b
      BY <2>4, <3>1, FieldParts
    <3>3. l # 0
      BY <3>2
    <3>4. Len(<<>>) = 0
      OBVIOUS
    <3>5. QED
      BY <3>1, <3>3, <3>4
  <2>6. QED
    BY <1>1, <1>2, <1>3, <2>2, <2>3, <2>4, <2>5
<1>4. CASE k = N
  <2>1. offset = Len(rest) + 1 /\ rest \in Text /\ ~(k < N)
    BY <1>1, <1>2, <1>4 DEF PlaceAfter, LaidOut
  <2>2. Header.token = <<>> /\ Header.after = offset
    BY <2>1, EndToken DEF Header
  <2>3. QED
    BY <1>1, <1>2, <1>4, <2>1, <2>2
<1>5. QED
  BY <1>2, <1>3, <1>4

(* A turn of the loop: the next field, and the place behind it.            *)
LEMMA ParseKeepsInv ==
    ASSUME ParserAssumption, ParserInv, ParseHeader
    PROVE  ParserInv'
<1>1. /\ pc = "headers" /\ Header.token # <<>> /\ offset' = Header.after
      /\ UNCHANGED <<written, pc, line, rest>>
  BY DEF ParseHeader
<1>2. PICK N \in Nat, fields \in Seq(Fields) : N = Len(fields) /\ fields = written.fields
  BY RequestParts DEF ParserInv, TypeOK
<1>3. PICK k \in 0..N : Progress(k)
  BY <1>1, <1>2 DEF ParserInv
<1>4. k < N
  BY <1>1, <1>2, <1>3, HeaderSeen
<1>5. k + 1 \in 0..N /\ k \in Nat
  BY <1>4
<1>6. PICK start : LaidOut(rest, fields, start) /\ Header.after = PlaceAfter(rest, fields, start, k + 1)
  BY <1>1, <1>2, <1>3, <1>4, HeaderSeen
<1>7. Header.token = FieldText(fields[k + 1]) /\ fields[k + 1] \in Fields
  BY <1>1, <1>2, <1>3, <1>4, HeaderSeen
<1>8. headers' = Inserted(headers, fields[k + 1][1], fields[k + 1][2])
  BY <1>7, KeyAndValue DEF ParseHeader
<1>9. HasRead(fields, k + 1, headers')
  BY <1>2, <1>3, <1>5, <1>8, InsertedIsRead DEF Progress
<1>10. /\ LaidOut(rest', written'.fields, start)
       /\ offset' = PlaceAfter(rest', written'.fields, start, k + 1)
       /\ HasRead(written'.fields, k + 1, headers')
  BY <1>1, <1>2, <1>6, <1>9
<1>11. Progress(k + 1)'
  BY <1>10 DEF Progress
<1>12. /\ offset' \in 1..(Len(rest') + 1)
       /\ DOMAIN headers' \subseteq {fields[n][1] : n \in 1..Len(fields)}
  BY <1>1, <1>2, <1>5, <1>6, <1>9, ProgressTyped
<1>13. TypeOK'
  BY <1>1, <1>2, <1>12 DEF ParserInv, TypeOK
<1>14. pc' = "headers" /\ k + 1 \in 0..Len(written'.fields)
  BY <1>1, <1>2, <1>5
<1>15. line' = <<written'.method, written'.uri, written'.version>> /\ Len(written'.fields) # 0
  BY <1>1 DEF ParserInv
<1>16. QED
  BY <1>11, <1>13, <1>14, <1>15 DEF ParserInv

(* The empty line: every field has been taken.                             *)
LEMMA EndKeepsInv ==
    ASSUME ParserAssumption, ParserInv, EndOfHeaders
    PROVE  ParserInv'
<1>1. /\ pc = "headers" /\ Header.token = <<>> /\ pc' = "done" /\ offset' = Header.after
      /\ UNCHANGED <<written, line, rest, headers>>
  BY DEF EndOfHeaders
<1>2. PICK N \in Nat, fields \in Seq(Fields) : N = Len(fields) /\ fields = written.fields
  BY RequestParts DEF ParserInv, TypeOK
<1>3. PICK k \in 0..N : Progress(k)
  BY <1>1, <1>2 DEF ParserInv
<1>4. k = N
  <2>1. ~(k < N)
    BY <1>1, <1>2, <1>3, HeaderSeen
  <2>2. QED
    BY <2>1
<1>5. PICK start : LaidOut(rest, fields, start) /\ Header.after = PlaceAfter(rest, fields, start, N)
  <2>1. ~(k < N)
    BY <1>4
  <2>2. QED
    BY <1>1, <1>2, <1>3, <1>4, <2>1, HeaderSeen
<1>6. HasRead(fields, N, headers')
  BY <1>1, <1>2, <1>3, <1>4 DEF Progress
<1>7. /\ LaidOut(rest', written'.fields, start)
      /\ offset' = PlaceAfter(rest', written'.fields, start, N)
      /\ HasRead(written'.fields, N, headers')
  BY <1>1, <1>2, <1>5, <1>6
<1>8. Progress(N)'
  BY <1>7 DEF Progress
<1>9. /\ offset' \in 1..(Len(rest') + 1)
      /\ DOMAIN headers' \subseteq {fields[n][1] : n \in 1..Len(fields)}
  <2>1. N \in 0..N
    OBVIOUS
  <2>2. QED
    BY <1>1, <1>2, <1>5, <1>6, <2>1, ProgressTyped
<1>10. TypeOK'
  BY <1>1, <1>2, <1>9 DEF ParserInv, TypeOK
<1>11. N \in 0..Len(written'.fields) /\ N = Len(written'.fields)
  BY <1>1, <1>2
<1>12. line' = <<written'.method, written'.uri, written'.version>> /\ Len(written'.fields) # 0
  BY <1>1 DEF ParserInv
<1>13. QED
  BY <1>1, <1>8, <1>10, <1>11, <1>12 DEF ParserInv

LEMMA ParserStep ==
    ASSUME ParserAssumption, ParserInv, [Next]_vars
    PROVE  ParserInv'
<1>1. CASE CreateRequest
  BY <1>1, CreateKeepsInv
<1>2. CASE ParseHeader
  BY <1>2, ParseKeepsInv
<1>3. CASE EndOfHeaders
  BY <1>3, EndKeepsInv
<1>4. CASE UNCHANGED vars
  BY <1>4 DEF vars, ParserInv, TypeOK, Progress
<1>5. QED
  BY <1>1, <1>2, <1>3, <1>4 DEF Next

LEMMA ParserInvImplies ==
    ASSUME ParserInv
    PROVE  TypeOK /\ ReadsWhatWasWritten
<1>1. ASSUME pc = "done"
      PROVE  HasRead(written.fields, Len(written.fields), headers)
  BY <1>1 DEF ParserInv, Progress
<1>2. QED
  BY <1>1 DEF ParserInv, HasRead, ReadsWhatWasWritten, FirstValue

(* Every position the parser takes a text from is inside rawHeaders or     *)
(* right behind it, for every request (HttpRequest.cpp:40-52, 77-105).     *)
THEOREM TypeCorrect == ASSUME ParserAssumption PROVE Spec => []TypeOK
<1>1. Spec => []ParserInv
  BY ParserInvInit, ParserStep, PTL DEF Spec
<1>2. ParserInv => TypeOK
  BY ParserInvImplies
<1>3. QED
  BY <1>1, <1>2, PTL

(* The parser finds the request that was written: its request line, and    *)
(* under every key the first value it was given, for every alphabet and    *)
(* any number of header fields (HttpRequest.cpp:40-105).                   *)
THEOREM ReadsRequest == ASSUME ParserAssumption PROVE Spec => []ReadsWhatWasWritten
<1>1. Spec => []ParserInv
  BY ParserInvInit, ParserStep, PTL DEF Spec
<1>2. ParserInv => ReadsWhatWasWritten
  BY ParserInvImplies
<1>3. QED
  BY <1>1, <1>2, PTL
=============================================================================
